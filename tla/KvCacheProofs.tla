--------------------------- MODULE KvCacheProofs ---------------------------
(***************************************************************************)
(* The KV cache is right for every size of the table, any number of names  *)
(* and addresses and any collisions of their CRCs.                         *)
(***************************************************************************)
EXTENDS KvCache, OrderLemmas

\* The entry in use of a CRC is the first entry with that CRC, used or not: the
\* loops of update_kv_cache stop there.
FirstOfCrc == \A i, j \in Slots : Used(i) /\ table[j].crc = table[i].crc => i <= j

\* An entry in use has the address of a live node whose name has its CRC.
Owned == \A i \in Slots : Used(i) =>
            \E n \in Names : Crc[n] = table[i].crc /\ live[n] = table[i].addr

\* A live node can be read.
LiveNamed == \A n \in Names : live[n] # NoAddr => name[live[n]] = n

IInv == TypeOK /\ FirstOfCrc /\ Owned /\ LiveNamed

LEMMA FirstIsLeast ==
    ASSUME NEW S \in SUBSET Slots, S # {}
    PROVE  First(S) \in S /\ \A j \in S : First(S) <= j
<1>1. S \in SUBSET Nat
  BY DEF Slots
<1>2. PICK i \in S : \A j \in S : i <= j
  BY <1>1, LeastNatural
<1>3. QED
  BY <1>2 DEF First

\* Ageing an entry changes its activity only.
LEMMA AgedSame ==
    ASSUME TypeOK, NEW i \in Slots
    PROVE  /\ Aged(i) \in Entry
           /\ Aged(i).addr = table[i].addr /\ Aged(i).crc = table[i].crc
<1>1. table[i] \in Entry
  BY DEF TypeOK
<1>2. CASE Used(i) /\ table[i].active > 0
  <2>1. Aged(i) = [table[i] EXCEPT !.active = @ - 1]
    BY <1>2 DEF Aged
  <2>2. table[i].active - 1 \in 0..MaxActive
    BY <1>1, <1>2, KvCacheAssumption DEF Entry
  <2>3. QED
    BY <1>1, <2>1, <2>2 DEF Entry
<1>3. CASE ~(Used(i) /\ table[i].active > 0)
  BY <1>1, <1>3 DEF Aged
<1>4. QED
  BY <1>2, <1>3

LEMMA FreshEntry ==
    ASSUME NEW n \in Names, NEW a \in Addrs
    PROVE  Fresh(n, a) \in Entry /\ Fresh(n, a).addr = a /\ Fresh(n, a).crc = Crc[n]
BY KvCacheAssumption DEF Fresh, Entry

\* What update_kv_cache leaves with an address: one entry of the name's CRC, with
\* that address, and of the others those that were there.
LEMMA UpdateShape ==
    ASSUME TypeOK, FirstOfCrc, NEW n \in Names, NEW a \in Addrs,
           NEW T, T = Update(n, a)
    PROVE  /\ T \in [Slots -> Entry]
           /\ \A i \in Slots : T[i].addr # NoAddr =>
                 \/ T[i].addr = a /\ T[i].crc = Crc[n]
                 \/ Used(i) /\ T[i].addr = table[i].addr /\ T[i].crc = table[i].crc
                    /\ T[i].crc # Crc[n]
           /\ \A i, j \in Slots : T[i].addr # NoAddr /\ T[j].crc = T[i].crc => i <= j
<1>0. Crc[n] \in Nat /\ OfCrc(n) \in SUBSET Slots
  BY KvCacheAssumption DEF OfCrc
<1>1. CASE OfCrc(n) # {}
  <2> DEFINE f == First(OfCrc(n))
  <2>1. f \in OfCrc(n) /\ \A j \in OfCrc(n) : f <= j
    BY <1>0, <1>1, FirstIsLeast
  <2>2. f \in Slots /\ table[f] \in Entry /\ table[f].crc = Crc[n]
    BY <2>1 DEF OfCrc, TypeOK
  <2>3. T = [j \in Slots |-> IF j = f THEN [table[f] EXCEPT !.addr = a]
                             ELSE IF j < f THEN Aged(j) ELSE table[j]]
    BY <1>1 DEF Update
  <2> HIDE DEF f
  <2>4. [table[f] EXCEPT !.addr = a] \in Entry
    BY <2>2 DEF Entry
  <2>5. ASSUME NEW j \in Slots
        PROVE  /\ T[j] \in Entry /\ T[j].crc = table[j].crc
               /\ T[j].addr = IF j = f THEN a ELSE table[j].addr
    <3>1. table[j] \in Entry
      BY DEF TypeOK
    <3>2. CASE j = f
      <4>1. T[j] = [table[f] EXCEPT !.addr = a]
        BY <2>3, <3>2
      <4>2. QED
        BY <2>2, <2>4, <3>2, <4>1 DEF Entry
    <3>3. CASE j # f /\ j < f
      BY <2>3, <3>3, AgedSame
    <3>4. CASE j # f /\ ~(j < f)
      BY <2>3, <3>1, <3>4
    <3>5. QED
      BY <3>2, <3>3, <3>4
  <2>6. T \in [Slots -> Entry]
    BY <2>3, <2>5
  <2>7. ASSUME NEW i \in Slots, i # f, Used(i)
        PROVE  table[i].crc # Crc[n]
    <3>1. SUFFICES ASSUME table[i].crc = Crc[n] PROVE FALSE
      OBVIOUS
    <3>2. i <= f
      BY <2>2, <2>7, <3>1 DEF FirstOfCrc
    <3>3. f <= i
      BY <2>1, <3>1 DEF OfCrc
    <3>4. QED
      BY <2>2, <2>7, <3>2, <3>3 DEF Slots
  <2>8. ASSUME NEW i \in Slots, T[i].addr # NoAddr
        PROVE  \/ T[i].addr = a /\ T[i].crc = Crc[n]
               \/ Used(i) /\ T[i].addr = table[i].addr /\ T[i].crc = table[i].crc
                  /\ T[i].crc # Crc[n]
    <3>1. CASE i = f
      BY <2>2, <2>5, <3>1
    <3>2. CASE i # f
      <4>1. Used(i)
        BY <2>5, <2>8, <3>2 DEF Used
      <4>2. QED
        BY <2>5, <2>7, <3>2, <4>1
    <3>3. QED
      BY <3>1, <3>2
  <2>9. ASSUME NEW i \in Slots, NEW j \in Slots, T[i].addr # NoAddr, T[j].crc = T[i].crc
        PROVE  i <= j
    <3>1. table[j].crc = table[i].crc
      BY <2>5, <2>9
    <3>2. CASE i = f
      BY <2>1, <2>2, <3>1, <3>2 DEF OfCrc
    <3>3. CASE i # f
      BY <2>5, <2>9, <3>1, <3>3 DEF FirstOfCrc, Used
    <3>4. QED
      BY <3>2, <3>3
  <2>10. QED
    BY <2>6, <2>8, <2>9
<1>2. CASE OfCrc(n) = {}
  <2> DEFINE new == IF Unused # {} THEN First(Unused) ELSE First(LeastActive)
  <2>1. T = [j \in Slots |-> IF j = new THEN Fresh(n, a) ELSE Aged(j)]
    BY <1>2 DEF Update
  <2> HIDE DEF new
  <2>2. ASSUME NEW j \in Slots
        PROVE  /\ T[j] \in Entry
               /\ T[j].addr = IF j = new THEN a ELSE table[j].addr
               /\ T[j].crc = IF j = new THEN Crc[n] ELSE table[j].crc
    <3>1. CASE j = new
      BY <2>1, <3>1, FreshEntry
    <3>2. CASE j # new
      BY <2>1, <3>2, AgedSame
    <3>3. QED
      BY <3>1, <3>2
  <2>3. T \in [Slots -> Entry]
    BY <2>1, <2>2
  <2>4. \A j \in Slots : table[j].crc # Crc[n]
    BY <1>2 DEF OfCrc
  <2>5. ASSUME NEW i \in Slots, T[i].addr # NoAddr
        PROVE  \/ T[i].addr = a /\ T[i].crc = Crc[n]
               \/ Used(i) /\ T[i].addr = table[i].addr /\ T[i].crc = table[i].crc
                  /\ T[i].crc # Crc[n]
    BY <2>2, <2>4, <2>5 DEF Used
  <2>6. ASSUME NEW i \in Slots, NEW j \in Slots, T[i].addr # NoAddr, T[j].crc = T[i].crc
        PROVE  i <= j
    <3>1. CASE i = new
      <4>1. j = new
        BY <2>2, <2>4, <2>6, <3>1
      <4>2. QED
        BY <3>1, <4>1 DEF Slots
    <3>2. CASE i # new
      <4>1. j # new
        BY <2>2, <2>4, <2>6, <3>2
      <4>2. QED
        BY <2>2, <2>6, <3>2, <4>1 DEF FirstOfCrc, Used
    <3>3. QED
      BY <3>1, <3>2
  <2>7. QED
    BY <2>3, <2>5, <2>6
<1>3. QED
  BY <1>1, <1>2

\* What update_kv_cache leaves without an address: no entry of the name's CRC is
\* in use, and the others are as they were.
LEMMA ForgetShape ==
    ASSUME TypeOK, FirstOfCrc, NEW n \in Names, NEW T, T = Forget(n)
    PROVE  /\ T \in [Slots -> Entry]
           /\ \A i \in Slots : /\ T[i].crc = table[i].crc
                               /\ T[i].addr # NoAddr =>
                                     T[i].addr = table[i].addr /\ T[i].crc # Crc[n]
<1>0. OfCrc(n) \in SUBSET Slots
  BY DEF OfCrc
<1>1. CASE OfCrc(n) = {}
  BY <1>1 DEF Forget, TypeOK, OfCrc
<1>2. CASE OfCrc(n) # {}
  <2> DEFINE f == First(OfCrc(n))
  <2>1. f \in OfCrc(n) /\ \A j \in OfCrc(n) : f <= j
    BY <1>0, <1>2, FirstIsLeast
  <2>2. f \in Slots /\ table[f] \in Entry /\ table \in [Slots -> Entry]
    BY <2>1 DEF OfCrc, TypeOK
  <2>3. T = [table EXCEPT ![f] = [addr |-> NoAddr, crc |-> table[f].crc, active |-> 0]]
    BY <1>2 DEF Forget
  <2> HIDE DEF f
  <2> DEFINE e == [addr |-> NoAddr, crc |-> table[f].crc, active |-> 0]
  <2>4. e \in Entry /\ e.addr = NoAddr /\ e.crc = table[f].crc
    BY <2>2, KvCacheAssumption DEF Entry
  <2>5. T[f] = e /\ \A j \in Slots : j # f => T[j] = table[j]
    BY <2>2, <2>3
  <2> HIDE DEF e
  <2>6. T \in [Slots -> Entry]
    BY <2>2, <2>3, <2>4 DEF e
  <2>7. ASSUME NEW i \in Slots, T[i].addr # NoAddr
        PROVE  T[i].addr = table[i].addr /\ T[i].crc # Crc[n]
    <3>1. i # f /\ T[i] = table[i]
      BY <2>4, <2>5, <2>7
    <3>2. SUFFICES ASSUME table[i].crc = Crc[n] PROVE FALSE
      BY <3>1
    <3>3. i <= f
      BY <2>1, <2>7, <3>1, <3>2 DEF FirstOfCrc, Used, OfCrc
    <3>4. f <= i
      BY <2>1, <3>2 DEF OfCrc
    <3>5. QED
      BY <2>2, <3>1, <3>3, <3>4 DEF Slots
  <2>8. QED
    BY <2>4, <2>5, <2>6, <2>7
<1>3. QED
  BY <1>1, <1>2

\* A hit changes the activity of one entry only, and within its 16 bits.
LEMMA TouchedShape ==
    ASSUME TypeOK, NEW i \in Slots, NEW T, T = Touched(i)
    PROVE  /\ T \in [Slots -> Entry]
           /\ \A j \in Slots : T[j].addr = table[j].addr /\ T[j].crc = table[j].crc
<1> DEFINE act == IF table[i].active >= MaxActive - TableSize THEN MaxActive
                  ELSE table[i].active + TableSize
           e   == [table[i] EXCEPT !.active = act]
<1>1. table \in [Slots -> Entry] /\ table[i] \in Entry
  BY DEF TypeOK
<1>2. act \in 0..MaxActive
  BY <1>1, KvCacheAssumption DEF Entry
<1>3. T = [table EXCEPT ![i] = e]
  BY <1>1 DEF Touched
<1> HIDE DEF act
<1>4. e \in Entry /\ e.addr = table[i].addr /\ e.crc = table[i].crc
  BY <1>1, <1>2 DEF Entry
<1>5. T[i] = e /\ \A j \in Slots : j # i => T[j] = table[j]
  BY <1>1, <1>3
<1> HIDE DEF e
<1>6. QED
  BY <1>1, <1>3, <1>4, <1>5

LEMMA InitInvariant == Init => IInv
<1> SUFFICES ASSUME Init PROVE IInv
  OBVIOUS
<1>1. PICK c \in {0} \cup {Crc[n] : n \in Names} :
        table = [i \in Slots |-> [addr |-> NoAddr, crc |-> c, active |-> 0]]
  BY DEF Init
<1>2. c \in Nat
  BY <1>1, KvCacheAssumption
<1>3. table \in [Slots -> Entry]
  BY <1>1, <1>2, KvCacheAssumption DEF Entry
<1>4. \A i \in Slots : ~Used(i)
  BY <1>1 DEF Used
<1>5. QED
  BY <1>3, <1>4 DEF Init, IInv, TypeOK, FirstOfCrc, Owned, LiveNamed

\* find_kv learns the address of the live node.
LEMMA FindKeeps == ASSUME IInv, NEW n \in Names, Find(n) PROVE IInv'
<1> USE DEF IInv
<1>1. UNCHANGED <<name, live>>
  BY DEF Find
<1>2. CASE Hits(n) # {}
  <2> DEFINE f == First(Hits(n))
  <2>1. f \in Slots
    BY <1>2, FirstIsLeast DEF Hits, OfCrc
  <2>2. table' = Touched(f)
    BY <1>2 DEF Find
  <2> HIDE DEF f
  <2>3. /\ table' \in [Slots -> Entry]
        /\ \A j \in Slots : table'[j].addr = table[j].addr /\ table'[j].crc = table[j].crc
    BY <2>1, <2>2, TouchedShape
  <2>4. TypeOK'
    BY <1>1, <2>3 DEF TypeOK
  <2>5. FirstOfCrc'
    BY <2>3 DEF FirstOfCrc, Used
  <2>6. Owned'
    BY <1>1, <2>3 DEF Owned, Used
  <2>7. LiveNamed'
    BY <1>1 DEF LiveNamed
  <2>8. QED
    BY <2>4, <2>5, <2>6, <2>7
<1>3. CASE Hits(n) = {} /\ live[n] # NoAddr
  <2>1. live[n] \in Addrs
    BY <1>3 DEF TypeOK
  <2>2. table' = Update(n, live[n])
    BY <1>3 DEF Find
  <2>3. /\ table' \in [Slots -> Entry]
        /\ \A i \in Slots : table'[i].addr # NoAddr =>
              \/ table'[i].addr = live[n] /\ table'[i].crc = Crc[n]
              \/ Used(i) /\ table'[i].addr = table[i].addr /\ table'[i].crc = table[i].crc
                 /\ table'[i].crc # Crc[n]
        /\ \A i, j \in Slots : table'[i].addr # NoAddr /\ table'[j].crc = table'[i].crc => i <= j
    BY <2>1, <2>2, UpdateShape
  <2>4. TypeOK'
    BY <1>1, <2>3 DEF TypeOK
  <2>5. FirstOfCrc'
    BY <2>3 DEF FirstOfCrc, Used
  <2>6. Owned'
    BY <1>1, <2>3 DEF Owned, Used
  <2>7. LiveNamed'
    BY <1>1 DEF LiveNamed
  <2>8. QED
    BY <2>4, <2>5, <2>6, <2>7
<1>4. CASE Hits(n) = {} /\ live[n] = NoAddr
  BY <1>1, <1>4 DEF Find, TypeOK, FirstOfCrc, Owned, LiveNamed, Used
<1>5. QED
  BY <1>2, <1>3, <1>4

\* A set or a move: the entry of the CRC, whose ever it was, is the new node's.
LEMMA WriteKeeps == ASSUME IInv, NEW n \in Names, NEW a \in Addrs, Write(n, a) PROVE IInv'
<1> USE DEF IInv
<1>1. /\ name[a] = NoName
      /\ name' = [name EXCEPT ![a] = n] /\ live' = [live EXCEPT ![n] = a]
      /\ table' = Update(n, a)
  BY DEF Write
<1>2. /\ table' \in [Slots -> Entry]
      /\ \A i \in Slots : table'[i].addr # NoAddr =>
            \/ table'[i].addr = a /\ table'[i].crc = Crc[n]
            \/ Used(i) /\ table'[i].addr = table[i].addr /\ table'[i].crc = table[i].crc
               /\ table'[i].crc # Crc[n]
      /\ \A i, j \in Slots : table'[i].addr # NoAddr /\ table'[j].crc = table'[i].crc => i <= j
  BY <1>1, UpdateShape
<1>3. name \in [Addrs -> Names \cup {NoName}] /\ live \in [Names -> Addrs \cup {NoAddr}]
  BY DEF TypeOK
<1>4. TypeOK'
  BY <1>1, <1>2, <1>3 DEF TypeOK
<1>5. FirstOfCrc'
  BY <1>2 DEF FirstOfCrc, Used
<1>6. live'[n] = a /\ \A m \in Names : m # n => live'[m] = live[m]
  BY <1>1, <1>3
<1>7. Owned'
  <2> SUFFICES ASSUME NEW i \in Slots, table'[i].addr # NoAddr
               PROVE  \E m \in Names : Crc[m] = table'[i].crc /\ live'[m] = table'[i].addr
    BY DEF Owned, Used
  <2>1. CASE table'[i].addr = a /\ table'[i].crc = Crc[n]
    BY <1>6, <2>1
  <2>2. CASE Used(i) /\ table'[i].addr = table[i].addr /\ table'[i].crc = table[i].crc
             /\ table'[i].crc # Crc[n]
    <3>1. PICK m \in Names : Crc[m] = table[i].crc /\ live[m] = table[i].addr
      BY <2>2 DEF Owned
    <3>2. m # n
      BY <2>2, <3>1
    <3>3. QED
      BY <1>6, <2>2, <3>1, <3>2
  <2>3. QED
    BY <1>2, <2>1, <2>2
<1>8. LiveNamed'
  <2> SUFFICES ASSUME NEW m \in Names, live'[m] # NoAddr
               PROVE  name'[live'[m]] = m
    BY DEF LiveNamed
  <2>1. CASE m = n
    BY <1>1, <1>3, <1>6, <2>1
  <2>2. CASE m # n
    <3>1. live'[m] = live[m] /\ live[m] \in Addrs /\ name[live[m]] = m
      BY <1>3, <1>6, <2>2 DEF LiveNamed
    <3>2. live[m] # a
      BY <1>1, <3>1, KvCacheAssumption
    <3>3. QED
      BY <1>1, <1>3, <3>1, <3>2
  <2>3. QED
    BY <2>1, <2>2
<1>9. QED
  BY <1>4, <1>5, <1>7, <1>8

\* A deletion also forgets another name's entry of the same CRC.
LEMMA DeleteKeeps == ASSUME IInv, NEW n \in Names, Delete(n) PROVE IInv'
<1> USE DEF IInv
<1>1. live' = [live EXCEPT ![n] = NoAddr] /\ table' = Forget(n) /\ name' = name
  BY DEF Delete
<1>2. /\ table' \in [Slots -> Entry]
      /\ \A i \in Slots : /\ table'[i].crc = table[i].crc
                          /\ table'[i].addr # NoAddr =>
                                table'[i].addr = table[i].addr /\ table'[i].crc # Crc[n]
  BY <1>1, ForgetShape
<1>3. live \in [Names -> Addrs \cup {NoAddr}]
  BY DEF TypeOK
<1>4. live'[n] = NoAddr /\ \A m \in Names : m # n => live'[m] = live[m]
  BY <1>1, <1>3
<1>5. TypeOK'
  BY <1>1, <1>2, <1>3 DEF TypeOK
<1>6. FirstOfCrc'
  BY <1>2 DEF FirstOfCrc, Used
<1>7. Owned'
  <2> SUFFICES ASSUME NEW i \in Slots, table'[i].addr # NoAddr
               PROVE  \E m \in Names : Crc[m] = table'[i].crc /\ live'[m] = table'[i].addr
    BY DEF Owned, Used
  <2>1. PICK m \in Names : Crc[m] = table[i].crc /\ live[m] = table[i].addr
    BY <1>2 DEF Owned, Used
  <2>2. m # n
    BY <1>2, <2>1
  <2>3. QED
    BY <1>2, <1>4, <2>1, <2>2
<1>8. LiveNamed'
  BY <1>1, <1>4 DEF LiveNamed
<1>9. QED
  BY <1>5, <1>6, <1>7, <1>8

LEMMA EraseKeeps == ASSUME IInv, NEW a \in Addrs, Erase(a) PROVE IInv'
<1> USE DEF IInv
<1>1. name' = [name EXCEPT ![a] = NoName] /\ UNCHANGED <<table, live>>
      /\ \A n \in Names : live[n] # a
  BY DEF Erase
<1>2. name \in [Addrs -> Names \cup {NoName}] /\ live \in [Names -> Addrs \cup {NoAddr}]
  BY DEF TypeOK
<1>3. TypeOK'
  BY <1>1, <1>2 DEF TypeOK
<1>4. FirstOfCrc' /\ Owned'
  BY <1>1 DEF FirstOfCrc, Owned, Used
<1>5. LiveNamed'
  <2> SUFFICES ASSUME NEW n \in Names, live[n] # NoAddr
               PROVE  name'[live[n]] = n
    BY <1>1 DEF LiveNamed
  <2>1. live[n] \in Addrs /\ live[n] # a /\ name[live[n]] = n
    BY <1>1, <1>2 DEF LiveNamed
  <2>2. QED
    BY <1>1, <1>2, <2>1
<1>6. QED
  BY <1>3, <1>4, <1>5

LEMMA StepKeeps == IInv /\ [Next]_vars => IInv'
<1> SUFFICES ASSUME IInv, [Next]_vars PROVE IInv'
  OBVIOUS
<1>1. ASSUME NEW n \in Names, Find(n) PROVE IInv'
  BY <1>1, FindKeeps
<1>2. ASSUME NEW n \in Names, Delete(n) PROVE IInv'
  BY <1>2, DeleteKeeps
<1>3. ASSUME NEW n \in Names, NEW a \in Addrs, Write(n, a) PROVE IInv'
  BY <1>3, WriteKeeps
<1>4. ASSUME NEW a \in Addrs, Erase(a) PROVE IInv'
  BY <1>4, EraseKeeps
<1>5. CASE UNCHANGED vars
  BY <1>5 DEF vars, IInv, TypeOK, FirstOfCrc, Owned, LiveNamed, Used
<1>6. QED
  BY <1>1, <1>2, <1>3, <1>4, <1>5 DEF Next

\* The entries of the cache have the addresses of live nodes, and activities stay
\* in 16 bits, for any table, names and CRCs.
THEOREM CacheInductive == Spec => []IInv
BY InitInvariant, StepKeeps, PTL DEF Spec

\* get_kv_from_cache returns the live node of the name that was asked for or
\* misses, provided that no name is a prefix of another with the same 16 bits of
\* CRC: this is all that its comparison of name_len characters needs.
THEOREM CacheHitsLive ==
    ASSUME \A p \in Prefixes : Crc[p[1]] # Crc[p[2]]
    PROVE  Spec => []HitsLive
<1>1. IInv => HitsLive
  <2> SUFFICES ASSUME IInv, NEW n \in Names, NEW i \in Hits(n)
               PROVE  table[i].addr = live[n]
    BY DEF HitsLive
  <2>1. i \in Slots /\ Used(i) /\ table[i].crc = Crc[n] /\ NameMatches(n, table[i].addr)
    BY DEF Hits, OfCrc
  <2>2. PICK m \in Names : Crc[m] = table[i].crc /\ live[m] = table[i].addr
    BY <2>1 DEF IInv, Owned
  <2>3. name[table[i].addr] = m
    BY <2>1, <2>2 DEF IInv, LiveNamed, Used
  <2>4. ~(<<n, m>> \in Prefixes)
    BY <2>1, <2>2
  <2>5. m = n
    BY <2>1, <2>3, <2>4 DEF NameMatches
  <2>6. QED
    BY <2>2, <2>5
<1>2. QED
  BY <1>1, CacheInductive, PTL
=============================================================================
