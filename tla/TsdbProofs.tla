----------------------------- MODULE TsdbProofs -----------------------------
(***************************************************************************)
(* What fdb_tsdb.c keeps on flash and in cur_sec, for any sectors, sizes   *)
(* of logs, statuses and power cuts (module Tsdb).                         *)
(*                                                                         *)
(* IInv, the inductive invariant, says where the nodes of a sector end,    *)
(* how the headers of a format and of a full sector come about, and what   *)
(* cur_sec knows at each step of a call.  LInv adds the lengths of the     *)
(* logs, as far as the flash tells them.  SInv, DInv and TInv say in which *)
(* order sectors fill up, what the cells of a log hold and how times grow, *)
(* so that the database is the time-ordered log of TsLog.                  *)
(***************************************************************************)
EXTENDS Tsdb, OrderLemmas, FiniteSetTheorems

USE DEF EMPTY, USING, FULL, UNUSED, PRE_WRITE, WRITE, Copies, Erased

-----------------------------------------------------------------------------
(* Numbers, times and sums.                                                *)

\* One more index fits when there is room for its units.
LEMMA OneMoreFits ==
    ASSUME NEW n \in Nat, NEW l \in Nat \ {0}, NEW c \in Nat, (n + 1) * l <= c
    PROVE  n + 1 <= c \div l
OBVIOUS

LEMMA DivNat ==
    ASSUME NEW l \in Nat \ {0}, NEW c \in Nat
    PROVE  c \div l \in Nat
OBVIOUS

LEMMA ProductNat ==
    ASSUME NEW n \in Nat, NEW l \in Nat
    PROVE  /\ n * l \in Nat
           /\ (n + 1) * l = n * l + l
           /\ 0 * l = 0
OBVIOUS

\* Programming a status never lowers it.
LEMMA ProgramRises ==
    ASSUME NEW st \in Int, NEW i \in Int
    PROVE  /\ Program(st, i) \in {st, i}
           /\ Program(st, i) >= st
           /\ Program(st, i) >= i
BY DEF Program

\* A time programmed over another is a time.
LEMMA AndIsTime ==
    ASSUME MaxTime \in Nat, NEW a \in FlashTime, NEW b \in FlashTime
    PROVE  And(a, b) \in FlashTime
<1> DEFINE S == {0} \cup CommonBits(a, b)
<1>1. S \in SUBSET (0..MaxTime) /\ S # {}
  BY DEF CommonBits
<1> HIDE DEF S
<1>2. Max(S) \in 0..MaxTime
  BY <1>1, MaxOfNaturals
<1>3. And(a, b) = IF a = Erased THEN b ELSE Max(S)
  BY DEF And, S
<1>4. QED
  BY <1>2, <1>3 DEF FlashTime

\* The sums read_sector_info makes of a sector's nodes exist, are naturals, and
\* depend on the nodes before only.
SumOf(f, K, w) == f = [n \in 0..K |-> IF n = 0 THEN 0 ELSE f[n - 1] + w[n - 1]]

LEMMA SumExists ==
    ASSUME NEW K \in Nat, NEW w
    PROVE  \E f : SumOf(f, K, w)
<1> DEFINE S == {k \in Nat : ~ \E f : SumOf(f, k, w)}
<1>1. SUFFICES ASSUME S # {} PROVE FALSE
  OBVIOUS
<1>2. PICK k \in S : \A j \in S : k <= j
  <2>1. S \in SUBSET Nat
    OBVIOUS
  <2> HIDE DEF S
  <2>2. QED
    BY <1>1, <2>1, LeastNatural
<1>3. k # 0
  <2>1. SumOf([n \in 0..0 |-> 0], 0, w)
    BY DEF SumOf
  <2>2. QED
    BY <2>1
<1>4. k - 1 \in Nat /\ k - 1 \notin S
  BY <1>2, <1>3
<1>5. PICK g : SumOf(g, k - 1, w)
  BY <1>4
<1> DEFINE h == [n \in 0..k |-> IF n = k THEN g[k - 1] + w[k - 1] ELSE g[n]]
<1>6. \A n \in 0..(k - 1) : g[n] = IF n = 0 THEN 0 ELSE g[n - 1] + w[n - 1]
  BY <1>5 DEF SumOf
<1>7. \A n \in 0..k : h[n] = IF n = 0 THEN 0 ELSE h[n - 1] + w[n - 1]
  BY <1>3, <1>6
<1>8. h = [n \in 0..k |-> h[n]]
  OBVIOUS
<1>9. SumOf(h, k, w)
  <2> HIDE DEF h
  <2>1. QED
    BY <1>7, <1>8 DEF SumOf
<1>10. QED
  BY <1>9, <1>2

LEMMA SumNat ==
    ASSUME NEW K \in Nat, NEW w, NEW f, SumOf(f, K, w), \A n \in 0..K : w[n] \in Nat
    PROVE  \A n \in 0..K : f[n] \in Nat
<1> DEFINE S == {k \in 0..K : f[k] \notin Nat}
<1>1. SUFFICES ASSUME S # {} PROVE FALSE
  OBVIOUS
<1>2. PICK k \in S : \A j \in S : k <= j
  <2>1. S \in SUBSET Nat
    OBVIOUS
  <2> HIDE DEF S
  <2>2. QED
    BY <1>1, <2>1, LeastNatural
<1>3. f[k] = IF k = 0 THEN 0 ELSE f[k - 1] + w[k - 1]
  <2>1. \A n \in 0..K : f[n] = IF n = 0 THEN 0 ELSE f[n - 1] + w[n - 1]
    BY SMT DEF SumOf
  <2>2. k \in 0..K
    BY <1>2
  <2>3. QED
    BY ONLY <2>1, <2>2, Zenon
<1>4. k # 0 => f[k - 1] \in Nat /\ w[k - 1] \in Nat
  BY <1>2
<1>5. QED
  BY <1>2, <1>3, <1>4

LEMMA SumPrefix ==
    ASSUME NEW K \in Nat, NEW w, NEW v, NEW f, NEW g,
           SumOf(f, K, w), SumOf(g, K, v),
           NEW j \in 0..K, \A n \in 0..(j - 1) : w[n] = v[n]
    PROVE  f[j] = g[j]
<1> DEFINE S == {k \in 0..j : f[k] # g[k]}
<1>1. SUFFICES ASSUME S # {} PROVE FALSE
  OBVIOUS
<1>2. PICK k \in S : \A i \in S : k <= i
  <2>1. S \in SUBSET Nat
    OBVIOUS
  <2> HIDE DEF S
  <2>2. QED
    BY <1>1, <2>1, LeastNatural
<1>3. /\ f[k] = IF k = 0 THEN 0 ELSE f[k - 1] + w[k - 1]
      /\ g[k] = IF k = 0 THEN 0 ELSE g[k - 1] + v[k - 1]
  <2>1. /\ \A n \in 0..K : f[n] = IF n = 0 THEN 0 ELSE f[n - 1] + w[n - 1]
        /\ \A n \in 0..K : g[n] = IF n = 0 THEN 0 ELSE g[n - 1] + v[n - 1]
    BY SMT DEF SumOf
  <2>2. k \in 0..K
    BY <1>2
  <2>3. QED
    BY ONLY <2>1, <2>2, Zenon
<1>4. k # 0 => f[k - 1] = g[k - 1]
  BY <1>2
<1>5. QED
  BY <1>2, <1>3, <1>4
-----------------------------------------------------------------------------
(* The nodes of a sector, read from its slots.                             *)

CountIn(nodes) == CHOOSE n \in Slots : /\ \A m \in 0..(n - 1) : nodes[m].st >= WRITE
                                       /\ n = Cap \div IdxLen \/ nodes[n].st < WRITE
UsedIn(nodes, k) ==
    LET upTo[n \in Slots] == IF n = 0 THEN 0 ELSE upTo[n - 1] + LenOf(nodes[n - 1].data)
    IN  upTo[k]

LEMMA ConstantFacts ==
    /\ NSec \in Nat /\ NSec > 1
    /\ Cap \in Nat /\ IdxLen \in Nat \ {0}
    /\ Cap \div IdxLen \in Nat
    /\ Slots = 0..(Cap \div IdxLen) /\ 0 \in Slots
    /\ Sectors = 0..(NSec - 1) /\ 0 \in Sectors
    /\ MaxLen \in Nat /\ IdxLen + MaxLen <= Cap
    /\ \A l \in Logs : Size[l] \in Nat \ {0}
    /\ MaxTime \in Nat /\ MaxCuts \in Nat /\ MaxRestarts \in Nat
    /\ \A st \in Marks : st \in 3..5
    /\ Rollovers \subseteq BOOLEAN
<1>1. Cap \in Nat /\ IdxLen \in Nat \ {0}
  BY TsdbAssumption
<1>2. Cap \div IdxLen \in Nat
  BY <1>1, DivNat
<1>3. /\ NSec \in Nat /\ NSec > 1
      /\ MaxLen \in Nat /\ IdxLen + MaxLen <= Cap
      /\ MaxTime \in Nat /\ MaxCuts \in Nat /\ MaxRestarts \in Nat
      /\ Rollovers \subseteq BOOLEAN
  BY TsdbAssumption
<1>4. \A l \in Logs : Size[l] \in Nat \ {0}
  BY TsdbAssumption
<1>5. \A st \in Marks : st \in 3..5
  BY TsdbAssumption
<1>6. QED
  BY <1>1, <1>2, <1>3, <1>4, <1>5 DEF Slots, Sectors

LEMMA CountIs ==
    ASSUME NEW nodes, NEW k \in Slots, \A n \in Slots : nodes[n].st \in Int,
           \A n \in Slots : nodes[n].st >= WRITE <=> n < k
    PROVE  CountIn(nodes) = k
<1> DEFINE P(n) == /\ \A m \in 0..(n - 1) : nodes[m].st >= WRITE
                   /\ n = Cap \div IdxLen \/ nodes[n].st < WRITE
<1>1. Cap \div IdxLen \in Nat /\ Slots = 0..(Cap \div IdxLen)
  BY ConstantFacts
<1>2. P(k)
  BY <1>1
<1>3. \A n \in Slots : P(n) => n = k
  BY <1>1
<1>4. QED
  <2> HIDE DEF P
  <2>1. (CHOOSE n \in Slots : P(n)) = k
    BY <1>2, <1>3
  <2>2. QED
    BY <2>1 DEF CountIn, P

LEMMA CountOf == \A s : Count(s) = CountIn(slot[s])
BY DEF Count, CountIn

LEMMA CountOfNext == \A s : Count(s)' = CountIn(slot'[s])
BY DEF Count, CountIn

LEMMA UsedOf == \A s : Used(s) = UsedIn(slot[s], Count(s))
BY DEF Used, UsedIn

LEMMA UsedOfNext == \A s : Used(s)' = UsedIn(slot'[s], Count(s)')
BY DEF Used, UsedIn

LEMMA UsedIsSum ==
    ASSUME NEW nodes, NEW k
    PROVE  \E f : /\ SumOf(f, Cap \div IdxLen, [n \in Slots |-> LenOf(nodes[n].data)])
                  /\ UsedIn(nodes, k) = f[k]
<1> DEFINE w == [n \in Slots |-> LenOf(nodes[n].data)]
           Q(f) == f = [n \in Slots |-> IF n = 0 THEN 0
                                        ELSE f[n - 1] + LenOf(nodes[n - 1].data)]
<1>1. Cap \div IdxLen \in Nat /\ Slots = 0..(Cap \div IdxLen)
  BY ConstantFacts
<1>2. \A n \in Slots : n # 0 => w[n - 1] = LenOf(nodes[n - 1].data)
  BY <1>1
<1>3. \A f : SumOf(f, Cap \div IdxLen, w) <=> Q(f)
  <2> HIDE DEF w
  <2>1. QED
    BY <1>1, <1>2 DEF SumOf
<1>4. \E f : SumOf(f, Cap \div IdxLen, w)
  BY <1>1, SumExists
<1>5. Q(CHOOSE f : Q(f))
  BY <1>3, <1>4
<1>6. UsedIn(nodes, k) = (CHOOSE f : Q(f))[k]
  BY DEF UsedIn
<1>7. QED
  <2> HIDE DEF Q, w
  <2>1. SumOf(CHOOSE f : Q(f), Cap \div IdxLen, w)
    BY <1>3, <1>5
  <2>2. QED
    BY <1>6, <2>1 DEF w

LEMMA LenNat ==
    ASSUME NEW d \in SUBSET Logs
    PROVE  LenOf(d) \in Nat
BY ConstantFacts DEF LenOf

LEMMA UsedIsNat ==
    ASSUME NEW nodes, \A n \in Slots : nodes[n].data \in SUBSET Logs, NEW k \in Slots
    PROVE  UsedIn(nodes, k) \in Nat
<1> DEFINE w == [n \in Slots |-> LenOf(nodes[n].data)]
<1>1. Cap \div IdxLen \in Nat /\ Slots = 0..(Cap \div IdxLen)
  BY ConstantFacts
<1>2. \A n \in Slots : w[n] \in Nat
  BY LenNat
<1>3. PICK f : SumOf(f, Cap \div IdxLen, w) /\ UsedIn(nodes, k) = f[k]
  BY UsedIsSum
<1> HIDE DEF w
<1>4. \A n \in 0..(Cap \div IdxLen) : f[n] \in Nat
  BY <1>1, <1>2, <1>3, SumNat
<1>5. QED
  BY <1>1, <1>3, <1>4

LEMMA UsedStart ==
    ASSUME NEW nodes
    PROVE  UsedIn(nodes, 0) = 0
<1>1. Cap \div IdxLen \in Nat
  BY ConstantFacts
<1>2. PICK f : SumOf(f, Cap \div IdxLen, [n \in Slots |-> LenOf(nodes[n].data)])
               /\ UsedIn(nodes, 0) = f[0]
  BY UsedIsSum
<1>3. QED
  BY <1>1, <1>2 DEF SumOf

LEMMA UsedAgree ==
    ASSUME NEW nodes, NEW other, NEW k \in Slots,
           \A n \in Slots : n < k => nodes[n].data = other[n].data
    PROVE  UsedIn(nodes, k) = UsedIn(other, k)
<1> DEFINE w == [n \in Slots |-> LenOf(nodes[n].data)]
           v == [n \in Slots |-> LenOf(other[n].data)]
<1>1. Cap \div IdxLen \in Nat /\ Slots = 0..(Cap \div IdxLen)
  BY ConstantFacts
<1>2. \A n \in 0..(k - 1) : n \in Slots /\ n < k
  BY <1>1
<1>3. \A n \in 0..(k - 1) : w[n] = v[n]
  BY <1>2
<1>4. PICK f : SumOf(f, Cap \div IdxLen, w) /\ UsedIn(nodes, k) = f[k]
  BY UsedIsSum
<1>5. PICK g : SumOf(g, Cap \div IdxLen, v) /\ UsedIn(other, k) = g[k]
  BY UsedIsSum
<1> HIDE DEF w, v
<1>6. f[k] = g[k]
  BY <1>1, <1>3, <1>4, <1>5, SumPrefix
<1>7. QED
  BY <1>4, <1>5, <1>6

LEMMA UsedNext ==
    ASSUME NEW nodes, NEW k \in Slots, k + 1 \in Slots
    PROVE  UsedIn(nodes, k + 1) = UsedIn(nodes, k) + LenOf(nodes[k].data)
<1> DEFINE w == [n \in Slots |-> LenOf(nodes[n].data)]
<1>1. Cap \div IdxLen \in Nat /\ Slots = 0..(Cap \div IdxLen)
  BY ConstantFacts
<1>2. w[k] = LenOf(nodes[k].data)
  OBVIOUS
<1>3. PICK f : SumOf(f, Cap \div IdxLen, w) /\ UsedIn(nodes, k + 1) = f[k + 1]
  BY UsedIsSum
<1>4. PICK g : SumOf(g, Cap \div IdxLen, w) /\ UsedIn(nodes, k) = g[k]
  BY UsedIsSum
<1> HIDE DEF w
<1>5. f[k] = g[k]
  BY <1>1, <1>3, <1>4, SumPrefix
<1>6. \A n \in 0..(Cap \div IdxLen) : f[n] = IF n = 0 THEN 0 ELSE f[n - 1] + w[n - 1]
  BY <1>1, <1>3 DEF SumOf
<1>7. f[k + 1] = f[k] + w[k]
  BY <1>1, <1>6
<1>8. QED
  BY <1>2, <1>3, <1>4, <1>5, <1>7

-----------------------------------------------------------------------------
(* The inductive invariant.                                                *)

\* The types, with no bound yet on the room the logs of cur_sec take.
CurInfo == [sec : 0..NSec, store : 0..3, stat : [Copies -> 0..5], start : FlashTime,
            endTime : FlashTime, endIdx : Sectors \X Slots, n : Slots, used : Nat]
Types ==
    /\ hdr \in [Sectors -> Header]
    /\ slot \in [Sectors -> [Slots -> Slot]]
    /\ pc \in PCs
    /\ job \in {"none", "append", "clean", "init"}
    /\ req \in [log : Logs, time : 0..MaxTime]
    /\ fmt \in Sectors
    /\ result \in {"none", "ok", "rejected", "full", "write_error"}
    /\ cur \in CurInfo
    /\ lastTime \in FlashTime
    /\ oldest \in 0..NSec
    /\ rollover \in BOOLEAN
    /\ cuts \in 0..MaxCuts
    /\ restarts \in 0..MaxRestarts

Ending     == {"end_pre", "end_body", "end_write"}
Formatting == {"erase", "empty", "magic"}
Placing    == {"start", "idx_pre", "idx_body", "log", "commit"}

\* The nodes of a sector are those that are written: there is no gap.
Packed == \A s \in Sectors : /\ Count(s) \in Slots
                             /\ \A n \in Slots : slot[s][n].st >= WRITE <=> n < Count(s)
\* The magic word is written after the store status, and the nodes after USING.
Headers == \A s \in Sectors : hdr[s].magic => hdr[s].store >= EMPTY
NoNodes == \A s \in Sectors : hdr[s].store <= EMPTY => slot[s] = [n \in Slots |-> Blank]
AtMostOne == \A s, t \in Sectors : hdr[s].store = USING /\ hdr[t].store = USING => s = t
\* What the flash holds at any time.
Flash == Packed /\ Headers /\ NoNodes /\ AtMostOne

\* Both ends begun and none complete: the second end is under way, or power
\* failed meanwhile.
HangsOnlyAtEnd ==
    \A s \in Sectors : Asserts(hdr[s]) =>
        /\ pc \in {"end_body", "end_write", "off", "hung"}
        /\ hdr[s].store = USING
        /\ \A t \in Sectors : hdr[t].magic

\* The job that each step belongs to, and how far a format has come.
Jobs ==
    /\ pc \in {"off", "idle", "hung"} => job = "none"
    /\ pc \in Ending \cup {"full", "using"} \cup Placing => job = "append"
    /\ pc \in Formatting => job # "none"
    /\ job = "append" => Size[req.log] <= MaxLen
NoEnds(h) == \A i \in Copies : h.end[i].st = UNUSED
Formatted(h) == h.store = EMPTY /\ h.magic /\ NoEnds(h)
Unused == \A s \in Sectors : hdr[s].store # USING
FormatSteps ==
    /\ pc = "empty" => hdr[fmt].store = 0 /\ ~ hdr[fmt].magic /\ NoEnds(hdr[fmt])
    /\ pc = "magic" => hdr[fmt].store = EMPTY /\ ~ hdr[fmt].magic /\ NoEnds(hdr[fmt])
    /\ pc \in Formatting /\ job = "append" => fmt = cur.sec /\ Unused
    /\ pc \in Formatting /\ job # "append" => \A s \in 0..(fmt - 1) : Formatted(hdr[s])

\* cur_sec while the database serves calls; Known leaves out the steps where the
\* sector it names is being formatted.
Serving == pc \notin {"off", "hung"} /\ job \notin {"clean", "init"}
Known   == Serving /\ cur.sec # Nowhere /\ pc \notin Formatting
NoPlace == Serving /\ cur.sec = Nowhere =>
               cur.store \notin {EMPTY, USING} /\ pc \in {"idle", "idx_pre"}
AllMagic == Serving /\ cur.sec # Nowhere =>
    \A s \in Sectors : hdr[s].magic \/ (s = fmt /\ pc \in {"empty", "magic"})
StoreKnown == Known =>
    /\ cur.store = hdr[cur.sec].store
    /\ cur.store # FULL => cur.n = Count(cur.sec)
    /\ pc \in Ending \cup {"full"} \cup Placing => cur.store = USING
    /\ pc = "using" => cur.store = EMPTY
    /\ cur.store = EMPTY => Unused
StatKnown == Known /\ cur.store # FULL =>
    /\ pc \notin {"end_body", "end_write", "full"} =>
           \A i \in Copies : cur.stat[i] = hdr[cur.sec].end[i].st
    /\ pc \in Ending => FreeCopies # {} /\ cur.n > 0
    /\ pc \in {"end_body", "end_write"} => \A i \in Copies :
           hdr[cur.sec].end[i].st = IF i = Min(FreeCopies) THEN PRE_WRITE ELSE cur.stat[i]

\* The log being placed fits behind the nodes of the sector.
NoLength == cur.n = 0 => cur.used = 0
Room == Known /\ pc \in Placing => Remain(cur) >= IdxLen + Size[req.log]

\* A deinit leaves cur_sec as it was, and the next init relies on what it finds.
Off == pc = "off" /\ cur.store \in {EMPTY, USING} =>
           cur.sec # Nowhere /\ hdr[cur.sec].store = cur.store

IInv == /\ Types
        /\ Flash
        /\ HangsOnlyAtEnd /\ Jobs /\ FormatSteps
        /\ NoPlace /\ AllMagic /\ StoreKnown /\ StatKnown
        /\ NoLength /\ Room /\ Off

-----------------------------------------------------------------------------
(* What the steps do to the flash.                                         *)

\* The nodes of a sector whose slots are typed are counted by Count.
LEMMA CountsNext ==
    ASSUME NEW s \in Sectors, NEW k \in Slots, slot' \in [Sectors -> [Slots -> Slot]],
           \A n \in Slots : slot'[s][n].st >= WRITE <=> n < k
    PROVE  Count(s)' = k
<1>1. \A n \in Slots : slot'[s][n].st \in Int
  BY DEF Slot
<1>2. CountIn(slot'[s]) = k
  BY <1>1, CountIs
<1>3. QED
  BY <1>2, CountOfNext

LEMMA SlotsStay ==
    ASSUME UNCHANGED slot
    PROVE  \A s : Count(s)' = Count(s) /\ Used(s)' = Used(s)
BY CountOf, CountOfNext, UsedOf, UsedOfNext

LEMMA FlashStays ==
    ASSUME Flash, UNCHANGED flash
    PROVE  Flash'
BY SlotsStay DEF Flash, Packed, Headers, NoNodes, AtMostOne, flash

\* A program that completes no node and touches no unused sector.
LEMMA NodeWritten ==
    ASSUME Types, Flash, UNCHANGED hdr, NEW s \in Sectors, NEW n \in Slots, NEW v \in Slot,
           slot' = [slot EXCEPT ![s][n] = v], hdr[s].store >= USING,
           v.st >= WRITE <=> slot[s][n].st >= WRITE
    PROVE  Flash' /\ \A t \in Sectors : Count(t)' = Count(t)
<1>1. slot' \in [Sectors -> [Slots -> Slot]]
  BY DEF Types
<1>2. \A t \in Sectors : \A m \in Slots : slot'[t][m].st >= WRITE <=> slot[t][m].st >= WRITE
  BY DEF Types
<1>3. \A t \in Sectors : Count(t)' = Count(t)
  BY <1>1, <1>2, CountsNext DEF Flash, Packed
<1>4. Packed'
  BY <1>2, <1>3 DEF Flash, Packed
<1>5. \A t \in Sectors : hdr[t].store <= EMPTY => t # s
  <2>1. hdr \in [Sectors -> Header]
    BY DEF Types
  <2>2. hdr[s].store \in Int
    BY <2>1 DEF Header
  <2>3. QED
    BY <2>2
<1>6. \A t \in Sectors : t # s => slot'[t] = slot[t]
  BY DEF Types
<1>7. NoNodes'
  BY <1>5, <1>6 DEF Flash, NoNodes
<1>8. QED
  BY <1>3, <1>4, <1>7 DEF Flash, Headers, AtMostOne

-----------------------------------------------------------------------------
(* write_tsl.                                                              *)

LEMMA ServingFacts ==
    ASSUME IInv
    PROVE  /\ pc \in Ending \cup {"full", "using"} \cup Placing => job = "append" /\ Serving
           /\ Serving /\ cur.sec # Nowhere => cur.sec \in Sectors
           /\ Serving /\ pc \notin {"idle", "idx_pre"} => cur.sec # Nowhere
<1>1. Jobs /\ NoPlace
  BY DEF IInv
<1>2. cur.sec \in 0..NSec
  BY DEF IInv, Types, CurInfo
<1>3. cur.sec # Nowhere => cur.sec \in Sectors
  BY <1>2, ConstantFacts DEF Nowhere
<1>4. pc \in Ending \cup {"full", "using"} \cup Placing => job = "append" /\ Serving
  BY <1>1 DEF Jobs, Serving, Ending, Placing
<1>5. QED
  BY <1>1, <1>3, <1>4 DEF NoPlace

\* The next node of the current sector is there, and not written yet.
LEMMA Place ==
    ASSUME IInv, pc \in Placing, cur.sec # Nowhere
    PROVE  /\ cur.sec \in Sectors /\ cur.n \in Slots /\ cur.n + 1 \in Slots
           /\ cur.n = Count(cur.sec) /\ cur.store = USING /\ hdr[cur.sec].store = USING
           /\ slot[cur.sec][cur.n] \in Slot /\ slot[cur.sec][cur.n].st < WRITE
           /\ job = "append" /\ Known
<1>1. job = "append" /\ Serving /\ cur.sec \in Sectors
  BY ServingFacts
<1>2. Known
  BY <1>1 DEF Known, Placing, Formatting
<1>3. /\ cur.store = USING /\ hdr[cur.sec].store = USING /\ cur.n = Count(cur.sec)
  BY <1>2 DEF IInv, StoreKnown
<1>4. cur.n \in Slots /\ cur.used \in Nat /\ req.log \in Logs
  BY DEF IInv, Types, CurInfo
<1>5. Cap - cur.n * IdxLen - cur.used >= IdxLen + Size[req.log]
  BY <1>2 DEF IInv, Room, Remain
<1>6. cur.n + 1 \in Slots
  <2>1. cur.n \in Nat /\ cur.n * IdxLen \in Nat /\ (cur.n + 1) * IdxLen = cur.n * IdxLen + IdxLen
    BY <1>4, ConstantFacts, ProductNat
  <2>2. (cur.n + 1) * IdxLen <= Cap
    <3>1. Cap \in Nat /\ IdxLen \in Nat /\ Size[req.log] \in Nat
      BY <1>4, ConstantFacts
    <3> DEFINE p == cur.n * IdxLen
               q == (cur.n + 1) * IdxLen
    <3>2. p \in Nat /\ q = p + IdxLen /\ Cap - p - cur.used >= IdxLen + Size[req.log]
      BY <1>5, <2>1
    <3> HIDE DEF p, q
    <3>3. q <= Cap
      BY ONLY <1>4, <3>1, <3>2
    <3>4. QED
      BY <3>3 DEF q
  <2>3. cur.n + 1 <= Cap \div IdxLen
    BY <2>1, <2>2, ConstantFacts, OneMoreFits
  <2>4. QED
    BY <2>1, <2>3, ConstantFacts
<1>7. slot[cur.sec][cur.n] \in Slot
  BY <1>1, <1>4 DEF IInv, Types
<1>8. slot[cur.sec][cur.n].st < WRITE
  <2>1. slot[cur.sec][cur.n].st >= WRITE <=> cur.n < Count(cur.sec)
    BY <1>1, <1>4 DEF IInv, Flash, Packed
  <2>2. slot[cur.sec][cur.n].st \in Int
    BY <1>7 DEF Slot
  <2>3. QED
    BY <1>3, <1>4, <2>1, <2>2, ConstantFacts
<1>9. QED
  BY <1>1, <1>2, <1>3, <1>4, <1>6, <1>7, <1>8

\* A program of the slot at the place of the next node.
LEMMA PlaceWritten ==
    ASSUME IInv, pc \in Placing, cur.sec # Nowhere, NEW v \in Slot, v.st < WRITE,
           slot' = [slot EXCEPT ![cur.sec][cur.n] = v],
           UNCHANGED <<hdr, job, req, fmt, result, ram, bounds>>, pc' \in Placing
    PROVE  IInv'
<1>1. /\ cur.sec \in Sectors /\ cur.n \in Slots /\ hdr[cur.sec].store = USING
      /\ slot[cur.sec][cur.n].st < WRITE /\ slot[cur.sec][cur.n] \in Slot
      /\ job = "append" /\ Known
  BY Place
<1>2. /\ hdr' = hdr /\ job' = job /\ req' = req /\ fmt' = fmt /\ result' = result
      /\ cur' = cur /\ lastTime' = lastTime /\ oldest' = oldest /\ rollover' = rollover
      /\ cuts' = cuts /\ restarts' = restarts
  BY DEF ram, bounds
<1>3. Types'
  BY <1>1, <1>2 DEF IInv, Types, Placing, PCs
<1>4. Flash' /\ \A t \in Sectors : Count(t)' = Count(t)
  <2>1. v.st >= WRITE <=> slot[cur.sec][cur.n].st >= WRITE
    BY <1>1 DEF Slot
  <2>2. Types /\ Flash /\ UNCHANGED hdr /\ hdr[cur.sec].store >= USING
    BY <1>1, <1>2 DEF IInv
  <2>3. QED
    BY ONLY <1>1, <2>1, <2>2, NodeWritten, v \in Slot,
            slot' = [slot EXCEPT ![cur.sec][cur.n] = v]
<1>5. HangsOnlyAtEnd'
  BY <1>2 DEF IInv, HangsOnlyAtEnd, Placing, Asserts
<1>6. Jobs' /\ FormatSteps' /\ Off'
  BY <1>1, <1>2 DEF IInv, Jobs, FormatSteps, Off, Placing, Formatting, Ending
<1>7. Serving /\ Serving' /\ Known /\ Known'
  BY <1>1, <1>2 DEF Serving, Known, Placing, Formatting
<1>8. NoPlace' /\ AllMagic' /\ StoreKnown'
  <2>1. NoPlace'
    BY <1>1, <1>2, ConstantFacts DEF NoPlace, Nowhere
  <2>2. AllMagic'
    BY <1>2, <1>7 DEF IInv, AllMagic, Placing
  <2>3. StoreKnown'
    BY <1>1, <1>2, <1>4, <1>7 DEF IInv, StoreKnown, Placing, Ending, Unused
  <2>4. QED
    BY <2>1, <2>2, <2>3
<1>9. StatKnown'
  BY <1>2, <1>7 DEF IInv, StatKnown, Placing, Ending
<1>10. NoLength' /\ Room'
  BY <1>2, <1>7 DEF IInv, NoLength, Room, Remain
<1>11. QED
  BY <1>3, <1>4, <1>5, <1>6, <1>8, <1>9, <1>10 DEF IInv

\* The steps of write_tsl up to the commit program the index behind the nodes.
LEMMA NodeFacts ==
    ASSUME IInv, IdxPrepare \/ IdxBody \/ WriteLog
    PROVE  /\ pc \in Placing /\ pc # "commit" /\ pc' \in Placing /\ cur.sec # Nowhere
           /\ UNCHANGED <<hdr, job, req, fmt, result, ram, bounds>>
           /\ \E v \in Slot :
                 /\ v.st < WRITE /\ slot' = [slot EXCEPT ![cur.sec][cur.n] = v]
                 /\ WriteLog => v.data = slot[cur.sec][cur.n].data \cup {req.log}
                 /\ ~ WriteLog => pc' # "commit" /\ v.data = slot[cur.sec][cur.n].data
<1>1. pc \in Placing /\ pc # "commit" /\ pc' \in Placing
  BY DEF IdxPrepare, IdxBody, WriteLog, Placing
<1>2. cur.sec # Nowhere
  BY <1>1, ServingFacts DEF IdxPrepare, IdxBody, WriteLog
<1>3. UNCHANGED <<hdr, job, req, fmt, result, ram, bounds>>
  BY DEF IdxPrepare, IdxBody, WriteLog
<1> DEFINE o == slot[cur.sec][cur.n]
<1>4. o.st < WRITE /\ o \in Slot
  BY <1>1, <1>2, Place
<1>5. ASSUME IdxPrepare, ~ WriteLog
      PROVE  \E v \in Slot : /\ v.st < WRITE /\ slot' = [slot EXCEPT ![cur.sec][cur.n] = v]
                             /\ pc' # "commit" /\ v.data = o.data
  <2> DEFINE v == [st |-> Program(o.st, PRE_WRITE), time |-> o.time, data |-> o.data]
  <2>1. v \in Slot /\ v.st < WRITE /\ v.data = o.data
    BY <1>4 DEF Slot, Program
  <2>2. slot' = [slot EXCEPT ![cur.sec][cur.n].st = Program(o.st, PRE_WRITE)] /\ pc' # "commit"
    BY <1>5 DEF IdxPrepare
  <2>3. [o EXCEPT !.st = Program(o.st, PRE_WRITE)] = v
    BY <1>4 DEF Slot
  <2>4. slot' = [slot EXCEPT ![cur.sec][cur.n] = v]
    BY <2>2, <2>3
  <2> HIDE DEF v, o
  <2>5. QED
    BY <2>1, <2>2, <2>4
<1>6. ASSUME IdxBody, ~ WriteLog
      PROVE  \E v \in Slot : /\ v.st < WRITE /\ slot' = [slot EXCEPT ![cur.sec][cur.n] = v]
                             /\ pc' # "commit" /\ v.data = o.data
  <2> DEFINE v == [st |-> o.st, time |-> And(o.time, req.time), data |-> o.data]
  <2>1. And(o.time, req.time) \in FlashTime
    <3>1. o.time \in FlashTime
      BY <1>4 DEF Slot
    <3>2. req.time \in FlashTime
      BY ConstantFacts DEF IInv, Types, FlashTime
    <3>3. QED
      BY <3>1, <3>2, ConstantFacts, AndIsTime
  <2>2. v \in Slot /\ v.st < WRITE /\ v.data = o.data
    BY <1>4, <2>1 DEF Slot
  <2>3. slot' = [slot EXCEPT ![cur.sec][cur.n].time = And(o.time, req.time)] /\ pc' # "commit"
    BY <1>6 DEF IdxBody
  <2>4. [o EXCEPT !.time = And(o.time, req.time)] = v
    BY <1>4 DEF Slot
  <2>5. slot' = [slot EXCEPT ![cur.sec][cur.n] = v]
    BY <2>3, <2>4
  <2> HIDE DEF v, o
  <2>6. QED
    BY <2>2, <2>3, <2>5
<1>7. ASSUME WriteLog
      PROVE  \E v \in Slot : /\ v.st < WRITE /\ slot' = [slot EXCEPT ![cur.sec][cur.n] = v]
                             /\ v.data = o.data \cup {req.log}
  <2> DEFINE v == [st |-> o.st, time |-> o.time, data |-> o.data \cup {req.log}]
  <2>1. req.log \in Logs
    BY DEF IInv, Types
  <2>2. v \in Slot /\ v.st < WRITE /\ v.data = o.data \cup {req.log}
    BY <1>4, <2>1 DEF Slot
  <2>3. slot' = [slot EXCEPT ![cur.sec][cur.n].data = o.data \cup {req.log}]
    BY <1>7 DEF WriteLog
  <2>4. [o EXCEPT !.data = o.data \cup {req.log}] = v
    BY <1>4 DEF Slot
  <2>5. slot' = [slot EXCEPT ![cur.sec][cur.n] = v]
    BY <2>3, <2>4
  <2> HIDE DEF v, o
  <2>6. QED
    BY <2>2, <2>5
<1> HIDE DEF o
<1>8. QED
  BY <1>1, <1>2, <1>3, <1>5, <1>6, <1>7 DEF o

LEMMA NodeStepKeeps == IInv /\ (IdxPrepare \/ IdxBody \/ WriteLog) => IInv'
BY NodeFacts, PlaceWritten

\* The commit makes the node the last one of its sector.
LEMMA CommitFacts ==
    ASSUME IInv, Commit
    PROVE  /\ cur.sec \in Sectors /\ cur.n \in Slots /\ cur.n + 1 \in Slots
           /\ cur.n = Count(cur.sec) /\ hdr[cur.sec].store = USING /\ Known
           /\ slot' \in [Sectors -> [Slots -> Slot]]
           /\ \A t \in Sectors, m \in Slots :
                 /\ slot'[t][m].data = slot[t][m].data
                 /\ slot'[t][m].time = slot[t][m].time
                 /\ slot'[t][m].st = IF t = cur.sec /\ m = cur.n THEN WRITE ELSE slot[t][m].st
           /\ \A t \in Sectors : t # cur.sec => slot'[t] = slot[t]
           /\ \A t \in Sectors : Count(t)' = IF t = cur.sec THEN cur.n + 1 ELSE Count(t)
<1>1. pc \in Placing /\ pc \notin {"idle", "idx_pre"}
  BY DEF Commit, Placing
<1>2. cur.sec # Nowhere
  BY <1>1, ServingFacts
<1>3. /\ cur.sec \in Sectors /\ cur.n \in Slots /\ cur.n + 1 \in Slots
      /\ cur.n = Count(cur.sec) /\ hdr[cur.sec].store = USING /\ Known
      /\ slot[cur.sec][cur.n].st < WRITE /\ slot[cur.sec][cur.n] \in Slot
  BY <1>1, <1>2, Place
<1> DEFINE o == slot[cur.sec][cur.n]
           v == [st |-> WRITE, time |-> o.time, data |-> o.data]
<1>4. v \in Slot /\ v.st = WRITE /\ v.time = o.time /\ v.data = o.data
  BY <1>3 DEF Slot
<1>5. slot' = [slot EXCEPT ![cur.sec][cur.n] = v]
  <2>1. slot' = [slot EXCEPT ![cur.sec][cur.n].st = Program(o.st, WRITE)]
    BY DEF Commit
  <2>2. Program(o.st, WRITE) = WRITE
    BY <1>3 DEF Program, Slot
  <2>3. [o EXCEPT !.st = WRITE] = v
    BY <1>3 DEF Slot
  <2>4. slot' = [slot EXCEPT ![cur.sec][cur.n].st = WRITE]
    BY ONLY <2>1, <2>2
  <2>5. QED
    BY <2>3, <2>4
<1> HIDE DEF v
<1>6. slot \in [Sectors -> [Slots -> Slot]]
  BY DEF IInv, Types
<1>7. slot' \in [Sectors -> [Slots -> Slot]]
  BY ONLY <1>3, <1>4, <1>5, <1>6
<1>8. \A t \in Sectors, m \in Slots :
         /\ slot'[t][m].data = slot[t][m].data
         /\ slot'[t][m].time = slot[t][m].time
         /\ slot'[t][m].st = IF t = cur.sec /\ m = cur.n THEN WRITE ELSE slot[t][m].st
  BY ONLY <1>3, <1>4, <1>5, <1>6
<1>9. \A t \in Sectors : t # cur.sec => slot'[t] = slot[t]
  BY ONLY <1>3, <1>5, <1>6
<1>10. \A t \in Sectors : Count(t)' = IF t = cur.sec THEN cur.n + 1 ELSE Count(t)
  <2> TAKE t \in Sectors
  <2>1. /\ Count(t) \in Slots
        /\ \A m \in Slots : slot[t][m].st >= WRITE <=> m < Count(t)
    BY DEF IInv, Flash, Packed
  <2>2. Slots \subseteq Nat
    BY ConstantFacts
  <2>3. ASSUME t = cur.sec PROVE Count(t)' = cur.n + 1
    <3>1. ASSUME NEW m \in Slots
          PROVE  slot'[t][m].st >= WRITE <=> m < cur.n + 1
      <4>1. slot'[t][m].st = IF m = cur.n THEN WRITE ELSE slot[t][m].st
        BY <1>8, <2>3
      <4>2. slot[t][m].st >= WRITE <=> m < cur.n
        BY <1>3, <2>1, <2>3
      <4>3. m \in Nat /\ cur.n \in Nat
        BY <1>3, <2>2
      <4>4. QED
        BY ONLY <4>1, <4>2, <4>3
    <3>2. QED
      BY ONLY <1>3, <1>7, <3>1, CountsNext, t \in Sectors
  <2>4. ASSUME t # cur.sec PROVE Count(t)' = Count(t)
    <3>1. \A m \in Slots : slot'[t][m].st >= WRITE <=> m < Count(t)
      BY ONLY <1>8, <2>1, <2>4
    <3>2. QED
      BY <1>7, <2>1, <3>1, CountsNext
  <2>5. QED
    BY <2>3, <2>4
<1>11. QED
  BY <1>3, <1>7, <1>8, <1>9, <1>10

LEMMA CommitKeeps == IInv /\ Commit => IInv'
<1> SUFFICES ASSUME IInv, Commit PROVE IInv'
  OBVIOUS
<1>1. /\ cur.sec \in Sectors /\ cur.n \in Slots /\ cur.n + 1 \in Slots
      /\ cur.n = Count(cur.sec) /\ hdr[cur.sec].store = USING /\ Known
      /\ slot' \in [Sectors -> [Slots -> Slot]]
  BY CommitFacts
<1>2. \A t \in Sectors, m \in Slots :
         slot'[t][m].st = IF t = cur.sec /\ m = cur.n THEN WRITE ELSE slot[t][m].st
  BY CommitFacts
<1>3. \A t \in Sectors : t # cur.sec => slot'[t] = slot[t]
  BY CommitFacts
<1>4. \A t \in Sectors : Count(t)' = IF t = cur.sec THEN cur.n + 1 ELSE Count(t)
  BY CommitFacts
<1>5. /\ pc = "commit" /\ pc' = "idle" /\ job' = "none" /\ req' = NoLog /\ result' = "ok"
      /\ hdr' = hdr /\ fmt' = fmt /\ lastTime' = req.time /\ oldest' = oldest
      /\ rollover' = rollover /\ cuts' = cuts /\ restarts' = restarts
  BY DEF Commit, bounds
<1>6. req.log \in Logs /\ req.time \in 0..MaxTime /\ cur \in CurInfo
  BY DEF IInv, Types
<1>7. cur' = [cur EXCEPT !.endTime = req.time, !.endIdx = <<cur.sec, cur.n>>,
                         !.n = cur.n + 1, !.used = cur.used + Size[req.log]]
  BY DEF Commit, CurAfterCommit
<1>8. /\ cur'.sec = cur.sec /\ cur'.store = cur.store /\ cur'.stat = cur.stat
      /\ cur'.n = cur.n + 1
  BY <1>6, <1>7 DEF CurInfo
<1>9. cur' \in CurInfo
  <2>1. req.time \in FlashTime
    BY <1>6, ConstantFacts DEF FlashTime
  <2>2. cur.used + Size[req.log] \in Nat
    BY <1>6, ConstantFacts DEF CurInfo
  <2>3. <<cur.sec, cur.n>> \in Sectors \X Slots
    BY <1>1
  <2>4. QED
    BY ONLY <1>1, <1>6, <1>7, <2>1, <2>2, <2>3 DEF CurInfo
<1>10. Types'
  <2>1. NoLog \in [log : Logs, time : 0..MaxTime]
    BY <1>6, ConstantFacts DEF NoLog
  <2>2. req.time \in FlashTime
    BY <1>6, ConstantFacts DEF FlashTime
  <2>3. QED
    BY <1>1, <1>5, <1>9, <2>1, <2>2 DEF IInv, Types, PCs
<1>11. Flash'
  <2>1. Slots \subseteq Nat
    BY ConstantFacts
  <2>2. Packed'
    <3>1. \A t \in Sectors : /\ Count(t) \in Slots
                             /\ \A m \in Slots : slot[t][m].st >= WRITE <=> m < Count(t)
      BY DEF IInv, Flash, Packed
    <3>2. \A t \in Sectors : Count(t)' \in Slots
      BY <1>1, <1>4, <3>1
    <3>3. ASSUME NEW t \in Sectors, NEW m \in Slots
          PROVE  slot'[t][m].st >= WRITE <=> m < Count(t)'
      <4>1. /\ Count(t)' = IF t = cur.sec THEN cur.n + 1 ELSE Count(t)
            /\ slot'[t][m].st = IF t = cur.sec /\ m = cur.n THEN WRITE ELSE slot[t][m].st
            /\ slot[t][m].st >= WRITE <=> m < Count(t)
            /\ m \in Nat /\ cur.n \in Nat /\ cur.n = Count(cur.sec)
        BY <1>1, <1>2, <1>4, <2>1, <3>1
      <4>2. QED
        BY ONLY <4>1
    <3>4. QED
      BY <3>2, <3>3 DEF Packed
  <2>3. NoNodes'
    BY <1>1, <1>3, <1>5 DEF IInv, Flash, NoNodes
  <2>4. QED
    BY <1>5, <2>2, <2>3 DEF IInv, Flash, Headers, AtMostOne
<1>12. HangsOnlyAtEnd' /\ Jobs' /\ FormatSteps' /\ Off'
  BY <1>5 DEF IInv, HangsOnlyAtEnd, Jobs, FormatSteps, Off, Asserts, Placing, Ending, Formatting
<1>13. Known'
  BY <1>1, <1>5, <1>8 DEF Known, Serving, Formatting
<1>14. NoPlace' /\ AllMagic'
  BY <1>1, <1>5, <1>8 DEF IInv, NoPlace, AllMagic, Known, Serving
<1>15. StoreKnown'
  <2>1. cur.store = USING
    BY <1>1, <1>5 DEF IInv, StoreKnown, Placing
  <2>2. QED
    BY <1>1, <1>4, <1>5, <1>8, <2>1 DEF StoreKnown, Ending, Placing
<1>16. StatKnown'
  BY <1>1, <1>5, <1>8 DEF IInv, StatKnown, Ending
<1>17. NoLength' /\ Room'
  <2>1. cur.n + 1 # 0
    BY <1>1, ConstantFacts
  <2>2. QED
    BY <1>5, <1>8, <2>1 DEF NoLength, Room, Placing
<1>18. QED
  BY <1>10, <1>11, <1>12, <1>14, <1>15, <1>16, <1>17 DEF IInv

\* After an init that found no sector: the header of sector 0 takes the write.
LEMMA WriteNowhereKeeps == IInv /\ WriteNowhere => IInv'
<1> SUFFICES ASSUME IInv, WriteNowhere PROVE IInv'
  OBVIOUS
<1>1. /\ pc = "idx_pre" /\ pc' = "idle" /\ job' = "none" /\ req' = NoLog /\ cur.sec = Nowhere
      /\ result' = "write_error" /\ slot' = slot /\ fmt' = fmt /\ cur' = cur
      /\ lastTime' = lastTime /\ oldest' = oldest /\ rollover' = rollover
      /\ cuts' = cuts /\ restarts' = restarts
  BY DEF WriteNowhere, ram, bounds
<1>2. hdr' = [hdr EXCEPT ![0].magic = FALSE]
  BY DEF WriteNowhere
<1>3. hdr \in [Sectors -> Header] /\ 0 \in Sectors
  BY ConstantFacts DEF IInv, Types
<1>4. \A t \in Sectors : /\ hdr'[t].store = hdr[t].store /\ hdr'[t].end = hdr[t].end
                         /\ hdr'[t].magic => hdr[t].magic
  BY <1>2, <1>3 DEF Header
<1>5. hdr' \in [Sectors -> Header]
  BY <1>2, <1>3 DEF Header
<1>6. Types'
  <2>1. NoLog \in [log : Logs, time : 0..MaxTime]
    BY ConstantFacts DEF IInv, Types, NoLog
  <2>2. QED
    BY <1>1, <1>5, <2>1 DEF IInv, Types, PCs
<1>7. Flash'
  <2>1. Packed'
    BY <1>1, SlotsStay DEF IInv, Flash, Packed
  <2>2. Headers' /\ NoNodes' /\ AtMostOne'
    BY <1>1, <1>4 DEF IInv, Flash, Headers, NoNodes, AtMostOne
  <2>3. QED
    BY <2>1, <2>2 DEF Flash
<1>8. HangsOnlyAtEnd'
  <2>1. \A t \in Sectors : ~ Asserts(hdr[t])
    BY <1>1 DEF IInv, HangsOnlyAtEnd
  <2>2. \A t \in Sectors : ~ Asserts(hdr'[t])
    BY <1>4, <2>1 DEF Asserts
  <2>3. QED
    BY <2>2 DEF HangsOnlyAtEnd
<1>9. Jobs' /\ FormatSteps' /\ Off'
  BY <1>1 DEF Jobs, FormatSteps, Off, Ending, Placing, Formatting
<1>10. NoPlace' /\ AllMagic' /\ StoreKnown' /\ StatKnown'
  <2>1. Serving
    BY <1>1, ServingFacts DEF Placing
  <2>2. cur.store \notin {EMPTY, USING}
    BY <1>1, <2>1 DEF IInv, NoPlace
  <2>3. QED
    BY <1>1, <2>2 DEF NoPlace, AllMagic, StoreKnown, StatKnown, Known
<1>11. NoLength' /\ Room'
  BY <1>1 DEF IInv, NoLength, Room, Placing
<1>12. QED
  BY <1>6, <1>7, <1>8, <1>9, <1>10, <1>11 DEF IInv

-----------------------------------------------------------------------------
(* Steps that leave the call where it is: refusals, options and statuses.  *)

LEMMA SameCall ==
    ASSUME IInv, Types', Flash', \A t \in Sectors : Count(t)' = Count(t),
           UNCHANGED <<hdr, pc, job, req, fmt, cur>>
    PROVE  IInv'
<1>1. /\ hdr' = hdr /\ pc' = pc /\ job' = job /\ req' = req /\ fmt' = fmt /\ cur' = cur
  OBVIOUS
<1>2. HangsOnlyAtEnd' /\ Jobs' /\ FormatSteps' /\ Off'
  BY <1>1 DEF IInv, HangsOnlyAtEnd, Jobs, FormatSteps, Off, Asserts, Unused
<1>3. /\ Serving' <=> Serving
      /\ Known' <=> Known
  BY <1>1 DEF Serving, Known
<1>4. NoPlace' /\ AllMagic'
  BY <1>1, <1>3 DEF IInv, NoPlace, AllMagic
<1>5. StoreKnown'
  <2>1. Known => cur.sec \in Sectors
    BY ServingFacts DEF Known
  <2>2. QED
    BY <1>1, <1>3, <2>1 DEF IInv, StoreKnown, Unused
<1>6. StatKnown'
  BY <1>1, <1>3 DEF IInv, StatKnown, FreeCopies
<1>7. NoLength' /\ Room'
  BY <1>1, <1>3 DEF IInv, NoLength, Room, Remain
<1>8. QED
  BY <1>2, <1>4, <1>5, <1>6, <1>7 DEF IInv

LEMMA RefuseKeeps ==
    ASSUME NEW l \in Logs, NEW t \in Times, IInv, Refuse(l, t) \/ RefuseFull(l, t)
    PROVE  IInv'
<1>1. /\ UNCHANGED flash /\ pc' = pc /\ job' = job /\ req' = req /\ fmt' = fmt
      /\ cur' = cur /\ lastTime' = lastTime /\ oldest' = oldest /\ rollover' = rollover
      /\ cuts' = cuts /\ restarts' = restarts /\ result' \in {"rejected", "full"}
  BY DEF Refuse, RefuseFull, ram, bounds
<1>2. hdr' = hdr /\ slot' = slot
  BY <1>1 DEF flash
<1>3. Types'
  BY <1>1, <1>2 DEF IInv, Types
<1>4. Flash' /\ \A s \in Sectors : Count(s)' = Count(s)
  BY <1>1, <1>2, FlashStays, SlotsStay DEF IInv
<1>5. QED
  BY <1>1, <1>2, <1>3, <1>4, SameCall

LEMMA SetRolloverKeeps ==
    ASSUME NEW b \in Rollovers, IInv, SetRollover(b)
    PROVE  IInv'
<1>1. /\ UNCHANGED flash /\ pc' = pc /\ job' = job /\ req' = req /\ fmt' = fmt
      /\ cur' = cur /\ lastTime' = lastTime /\ oldest' = oldest /\ rollover' = b
      /\ cuts' = cuts /\ restarts' = restarts /\ result' = result
  BY DEF SetRollover, bounds
<1>2. hdr' = hdr /\ slot' = slot
  BY <1>1 DEF flash
<1>3. b \in BOOLEAN
  BY ConstantFacts
<1>4. Types'
  BY <1>1, <1>2, <1>3 DEF IInv, Types
<1>5. Flash' /\ \A s \in Sectors : Count(s)' = Count(s)
  BY <1>1, <1>2, FlashStays, SlotsStay DEF IInv
<1>6. QED
  BY <1>1, <1>2, <1>4, <1>5, SameCall

\* A status is set on a stored node: it is written before and after.
LEMMA StatusFacts ==
    ASSUME NEW s \in Sectors, NEW n \in Slots, NEW st \in Marks, IInv, TslSetStatus(s, n, st)
    PROVE  \E v \in Slot : /\ slot' = [slot EXCEPT ![s][n] = v]
                           /\ hdr[s].store >= USING /\ n < Count(s)
                           /\ slot[s][n].st >= WRITE /\ v.st >= slot[s][n].st
                           /\ v.time = slot[s][n].time /\ v.data = slot[s][n].data
<1>1. hdr[s].store >= USING /\ n < Count(s)
  BY DEF TslSetStatus, Stored
<1>2. slot[s][n].st >= WRITE /\ slot[s][n] \in Slot
  BY <1>1 DEF IInv, Flash, Packed, Types
<1> DEFINE o == slot[s][n]
           v == [st |-> Program(o.st, st), time |-> o.time, data |-> o.data]
<1>3. st \in 3..5
  BY ConstantFacts
<1>4. Program(o.st, st) \in 0..5 /\ Program(o.st, st) >= o.st
  BY <1>2, <1>3 DEF Slot, Program
<1>5. v \in Slot /\ v.st >= o.st /\ v.time = o.time /\ v.data = o.data
  BY <1>2, <1>4 DEF Slot
<1>6. slot' = [slot EXCEPT ![s][n] = v]
  <2>1. slot' = [slot EXCEPT ![s][n].st = Program(o.st, st)]
    BY DEF TslSetStatus
  <2>2. [o EXCEPT !.st = Program(o.st, st)] = v
    BY <1>2 DEF Slot
  <2>3. QED
    BY <2>1, <2>2
<1> HIDE DEF v
<1>7. QED
  BY <1>1, <1>2, <1>5, <1>6

LEMMA TslSetStatusKeeps ==
    ASSUME NEW s \in Sectors, NEW n \in Slots, NEW st \in Marks, IInv, TslSetStatus(s, n, st)
    PROVE  IInv'
<1>1. PICK v \in Slot : /\ slot' = [slot EXCEPT ![s][n] = v]
                        /\ hdr[s].store >= USING
                        /\ slot[s][n].st >= WRITE /\ v.st >= slot[s][n].st
  BY StatusFacts
<1>2. /\ hdr' = hdr /\ pc' = pc /\ job' = job /\ req' = req /\ fmt' = fmt
      /\ cur' = cur /\ lastTime' = lastTime /\ oldest' = oldest /\ rollover' = rollover
      /\ cuts' = cuts /\ restarts' = restarts /\ result' = result
  BY DEF TslSetStatus, ram, bounds
<1>3. v.st >= WRITE <=> slot[s][n].st >= WRITE
  <2>1. slot[s][n] \in Slot /\ v \in Slot
    BY DEF IInv, Types
  <2>2. slot[s][n].st \in Int /\ v.st \in Int
    BY ONLY <2>1 DEF Slot
  <2>3. QED
    BY <1>1, <2>2
<1>4. Flash' /\ \A t \in Sectors : Count(t)' = Count(t)
  <2>1. Types /\ Flash /\ UNCHANGED hdr
    BY <1>2 DEF IInv
  <2>2. QED
    BY ONLY <1>1, <1>3, <2>1, NodeWritten, s \in Sectors, n \in Slots
<1>5. Types'
  BY <1>1, <1>2 DEF IInv, Types
<1>6. QED
  BY <1>2, <1>4, <1>5, SameCall

-----------------------------------------------------------------------------
(* Calls begin, the database goes down and power fails: the flash stays.   *)

LEMMA SameFlash ==
    ASSUME IInv, UNCHANGED flash
    PROVE  /\ Flash' /\ hdr' = hdr /\ slot' = slot
           /\ \A t \in Sectors : Count(t)' = Count(t)
           /\ hdr' \in [Sectors -> Header] /\ slot' \in [Sectors -> [Slots -> Slot]]
           /\ Unused' <=> Unused
<1>1. hdr' = hdr /\ slot' = slot
  BY DEF flash
<1>2. Flash' /\ \A t \in Sectors : Count(t)' = Count(t)
  BY <1>1, FlashStays, SlotsStay DEF IInv
<1>3. Unused' <=> Unused
  BY <1>1 DEF Unused
<1>4. hdr' \in [Sectors -> Header] /\ slot' \in [Sectors -> [Slots -> Slot]]
  BY <1>1 DEF IInv, Types
<1>5. QED
  BY <1>1, <1>2, <1>3, <1>4

\* An empty sector that is in use by no node has room for any log.
LEMMA NodesBeforeFull ==
    ASSUME IInv, NEW l \in Logs, Size[l] <= MaxLen, Remain(cur) < IdxLen + Size[l]
    PROVE  cur.n > 0
<1>1. cur.n \in Nat /\ cur.used \in Nat
  BY ConstantFacts DEF IInv, Types, CurInfo
<1>2. SUFFICES ASSUME cur.n = 0 PROVE FALSE
  BY <1>1
<1>3. cur.used = 0
  BY <1>2 DEF IInv, NoLength
<1>4. 0 * IdxLen = 0
  BY ConstantFacts, ProductNat
<1>5. Cap - 0 * IdxLen - 0 < IdxLen + Size[l]
  BY <1>2, <1>3 DEF Remain
<1>6. QED
  <2>1. Cap \in Nat /\ IdxLen \in Nat /\ MaxLen \in Nat /\ Size[l] \in Nat /\ IdxLen + MaxLen <= Cap
    BY ConstantFacts
  <2>2. Cap - 0 - 0 < IdxLen + Size[l]
    BY ONLY <1>4, <1>5
  <2>3. QED
    BY ONLY <2>1, <2>2, Size[l] <= MaxLen

LEMMA BeginAppendKeeps ==
    ASSUME NEW l \in Logs, NEW t \in Times, IInv, BeginAppend(l, t)
    PROVE  IInv'
<1>1. /\ pc = "idle" /\ job' = "append" /\ req' = [log |-> l, time |-> t] /\ result' = "none"
      /\ UNCHANGED flash /\ fmt' = fmt /\ cur' = cur /\ lastTime' = lastTime
      /\ oldest' = oldest /\ rollover' = rollover /\ cuts' = cuts /\ restarts' = restarts
  BY DEF BeginAppend, ram, bounds
<1>2. /\ pc' = IF NeedsNewSector(l) THEN IF FreeCopies # {} THEN "end_pre" ELSE "full"
               ELSE IF cur.store = EMPTY THEN "using" ELSE "idx_pre"
      /\ cur.store # FULL /\ Size[l] <= MaxLen
  BY DEF BeginAppend, AcceptsAt
<1>3. pc' \in {"end_pre", "full", "using", "idx_pre"}
  BY <1>2
<1>4. /\ Flash' /\ hdr' = hdr /\ slot' = slot /\ \A s \in Sectors : Count(s)' = Count(s)
      /\ hdr' \in [Sectors -> Header] /\ slot' \in [Sectors -> [Slots -> Slot]]
      /\ Unused' <=> Unused
  BY <1>1, SameFlash
<1>5. req' \in [log : Logs, time : 0..MaxTime] /\ req'.log = l
  BY <1>1, ConstantFacts DEF Times
<1>6. Types'
  BY <1>1, <1>3, <1>4, <1>5 DEF IInv, Types, PCs
<1>7. Serving /\ job = "none"
  BY <1>1 DEF IInv, Jobs, Serving
<1>8. HangsOnlyAtEnd'
  BY <1>1, <1>4 DEF IInv, HangsOnlyAtEnd, Asserts
<1>9. Jobs'
  BY <1>1, <1>2, <1>3, <1>5 DEF Jobs, Formatting
<1>10. FormatSteps' /\ Off'
  BY <1>3 DEF FormatSteps, Off, Formatting
<1>11. NoPlace'
  BY <1>1, <1>2, <1>7 DEF IInv, NoPlace, NeedsNewSector
<1>12. AllMagic'
  BY <1>1, <1>3, <1>4, <1>7 DEF IInv, AllMagic
<1>13. cur.sec # Nowhere => cur.store \in {EMPTY, USING}
  <2> SUFFICES ASSUME cur.sec # Nowhere PROVE cur.store \in {EMPTY, USING}
    OBVIOUS
  <2>1. cur.sec \in Sectors
    BY <1>7, ServingFacts
  <2>2. hdr[cur.sec].magic
    BY <1>1, <1>7, <2>1 DEF IInv, AllMagic
  <2>3. hdr[cur.sec].store >= EMPTY
    BY <2>1, <2>2 DEF IInv, Flash, Headers
  <2>4. cur.store = hdr[cur.sec].store
    BY <1>1, <1>7 DEF IInv, StoreKnown, Known, Formatting
  <2>5. hdr[cur.sec].store \in 0..3
    BY <2>1 DEF IInv, Types, Header
  <2>6. QED
    BY <1>2, <2>3, <2>4, <2>5
<1>14. Known' => Known /\ cur.sec \in Sectors
  BY <1>1, <1>7, ServingFacts DEF Known, Formatting
<1>15. StoreKnown'
  <2> SUFFICES ASSUME Known' PROVE StoreKnown'
    BY DEF StoreKnown
  <2>1. pc' \in Ending \cup {"full"} \cup Placing => cur.store = USING
    BY <1>2, <1>3, <1>13, <1>14 DEF NeedsNewSector, Known, Ending, Placing
  <2>2. pc' = "using" => cur.store = EMPTY
    BY <1>2
  <2>3. QED
    BY <1>1, <1>4, <1>14, <2>1, <2>2 DEF IInv, StoreKnown
<1>16. StatKnown'
  <2>1. pc' \in Ending => FreeCopies # {} /\ cur.n > 0
    BY <1>2, NodesBeforeFull DEF NeedsNewSector, Ending
  <2>2. FreeCopies' = FreeCopies
    BY <1>1 DEF FreeCopies
  <2>3. QED
    BY <1>1, <1>3, <1>4, <1>14, <2>1, <2>2 DEF IInv, StatKnown
<1>17. NoLength' /\ Room'
  <2>1. NoLength'
    BY <1>1 DEF IInv, NoLength
  <2>2. ASSUME Known', pc' \in Placing PROVE Remain(cur) >= IdxLen + Size[l]
    <3>1. pc' = "idx_pre" /\ cur.store = USING
      BY <1>2, <1>3, <1>13, <1>14, <2>2 DEF Placing, Known
    <3>2. ~ (Remain(cur) < IdxLen + Size[l])
      BY <1>2, <3>1 DEF NeedsNewSector
    <3>3. Remain(cur) \in Int
      <4>1. cur.n \in Nat /\ cur.used \in Nat
        BY ConstantFacts DEF IInv, Types, CurInfo
      <4>2. cur.n * IdxLen \in Nat
        BY <4>1, ConstantFacts, ProductNat
      <4> DEFINE p == cur.n * IdxLen
      <4> HIDE DEF p
      <4>3. p \in Nat /\ Cap \in Nat
        BY <4>2, ConstantFacts DEF p
      <4>4. Cap - p - cur.used \in Int
        BY ONLY <4>1, <4>3
      <4>5. QED
        BY <4>4 DEF Remain, p
    <3>4. IdxLen + Size[l] \in Int
      BY ConstantFacts
    <3>5. QED
      BY ONLY <3>2, <3>3, <3>4
  <2>3. Remain(cur)' = Remain(cur)
    BY <1>1 DEF Remain
  <2>4. QED
    BY <1>5, <2>1, <2>2, <2>3 DEF Room
<1>18. QED
  BY <1>4, <1>6, <1>8, <1>9, <1>10, <1>11, <1>12, <1>15, <1>16, <1>17 DEF IInv

LEMMA BeginCleanKeeps == IInv /\ BeginClean => IInv'
<1> SUFFICES ASSUME IInv, BeginClean PROVE IInv'
  OBVIOUS
<1>1. /\ pc = "idle" /\ pc' = "erase" /\ job' = "clean" /\ fmt' = 0 /\ UNCHANGED flash
      /\ req' = req /\ result' = result /\ cur' = cur /\ lastTime' = lastTime
      /\ oldest' = oldest /\ rollover' = rollover /\ cuts' = cuts /\ restarts' = restarts
  BY DEF BeginClean, ram, bounds
<1>2. /\ Flash' /\ hdr' = hdr
      /\ hdr' \in [Sectors -> Header] /\ slot' \in [Sectors -> [Slots -> Slot]]
  BY <1>1, SameFlash
<1>3. Types'
  BY <1>1, <1>2, ConstantFacts DEF IInv, Types, PCs
<1>4. HangsOnlyAtEnd'
  BY <1>1, <1>2 DEF IInv, HangsOnlyAtEnd, Asserts
<1>5. Jobs' /\ Off'
  BY <1>1 DEF Jobs, Off, Ending, Placing, Formatting
<1>6. FormatSteps'
  BY <1>1 DEF FormatSteps
<1>7. ~ Serving' /\ ~ Known'
  BY <1>1 DEF Serving, Known
<1>8. NoPlace' /\ AllMagic' /\ StoreKnown' /\ StatKnown' /\ Room'
  BY <1>7 DEF NoPlace, AllMagic, StoreKnown, StatKnown, Room
<1>9. NoLength'
  BY <1>1 DEF IInv, NoLength
<1>10. QED
  BY <1>2, <1>3, <1>4, <1>5, <1>6, <1>8, <1>9 DEF IInv

LEMMA DeinitKeeps == IInv /\ Deinit => IInv'
<1> SUFFICES ASSUME IInv, Deinit PROVE IInv'
  OBVIOUS
<1>1. /\ pc = "idle" /\ pc' = "off" /\ restarts < MaxRestarts /\ restarts' = restarts + 1
      /\ UNCHANGED flash /\ result' = "none" /\ job' = job /\ req' = req /\ fmt' = fmt
      /\ cur' = cur /\ lastTime' = lastTime /\ oldest' = oldest /\ rollover' = rollover
      /\ cuts' = cuts
  BY DEF Deinit, ram
<1>2. /\ Flash' /\ hdr' = hdr
      /\ hdr' \in [Sectors -> Header] /\ slot' \in [Sectors -> [Slots -> Slot]]
  BY <1>1, SameFlash
<1>3. Types'
  <2>1. restarts' \in 0..MaxRestarts
    BY <1>1, ConstantFacts DEF IInv, Types
  <2>2. QED
    BY <1>1, <1>2, <2>1 DEF IInv, Types, PCs
<1>4. Serving /\ job = "none"
  BY <1>1 DEF IInv, Jobs, Serving
<1>5. HangsOnlyAtEnd' /\ Jobs' /\ FormatSteps'
  BY <1>1, <1>2, <1>4 DEF IInv, HangsOnlyAtEnd, Jobs, FormatSteps, Asserts, Ending, Placing, Formatting
<1>6. ~ Serving' /\ ~ Known'
  BY <1>1 DEF Serving, Known
<1>7. NoPlace' /\ AllMagic' /\ StoreKnown' /\ StatKnown' /\ Room'
  BY <1>6 DEF NoPlace, AllMagic, StoreKnown, StatKnown, Room
<1>8. NoLength'
  BY <1>1 DEF IInv, NoLength
<1>9. Off'
  BY <1>1, <1>2, <1>4 DEF IInv, Off, NoPlace, StoreKnown, Known, Formatting
<1>10. QED
  BY <1>2, <1>3, <1>5, <1>7, <1>8, <1>9 DEF IInv

LEMMA PowerCutKeeps == IInv /\ PowerCut => IInv'
<1> SUFFICES ASSUME IInv, PowerCut PROVE IInv'
  OBVIOUS
<1>1. /\ pc' = "off" /\ job' = "none" /\ cuts < MaxCuts /\ cuts' = cuts + 1
      /\ UNCHANGED flash /\ result' = "none" /\ req' = NoLog /\ fmt' = 0
      /\ cur' = ZeroInfo /\ lastTime' = 0 /\ oldest' = 0 /\ rollover' = rollover
      /\ restarts' = restarts
  BY DEF PowerCut
<1>2. /\ Flash' /\ hdr' = hdr
      /\ hdr' \in [Sectors -> Header] /\ slot' \in [Sectors -> [Slots -> Slot]]
  BY <1>1, SameFlash
<1>3. Types'
  <2>1. cuts' \in 0..MaxCuts
    BY <1>1, ConstantFacts DEF IInv, Types
  <2>2. NoLog \in [log : Logs, time : 0..MaxTime]
    BY ConstantFacts DEF IInv, Types, NoLog
  <2>3. 0 \in FlashTime /\ 0 \in 0..NSec
    BY ConstantFacts DEF FlashTime
  <2>4. ZeroInfo \in CurInfo
    BY <2>3, ConstantFacts DEF ZeroInfo, CurInfo
  <2>5. QED
    BY <1>1, <1>2, <2>1, <2>2, <2>3, <2>4, ConstantFacts DEF IInv, Types, PCs
<1>4. HangsOnlyAtEnd'
  BY <1>1, <1>2 DEF IInv, HangsOnlyAtEnd, Asserts
<1>5. Jobs' /\ FormatSteps'
  BY <1>1 DEF Jobs, FormatSteps, Ending, Placing, Formatting
<1>6. ~ Serving' /\ ~ Known'
  BY <1>1 DEF Serving, Known
<1>7. NoPlace' /\ AllMagic' /\ StoreKnown' /\ StatKnown' /\ Room'
  BY <1>6 DEF NoPlace, AllMagic, StoreKnown, StatKnown, Room
<1>8. NoLength' /\ Off'
  BY <1>1 DEF NoLength, Off, ZeroInfo
<1>9. QED
  BY <1>2, <1>3, <1>4, <1>5, <1>7, <1>8 DEF IInv

-----------------------------------------------------------------------------
(* update_sec_status: the end of a sector is written.                      *)

\* A header program that leaves store status and magic word as they are.
LEMMA HeaderWritten ==
    ASSUME IInv, UNCHANGED slot, NEW s \in Sectors, NEW h \in Header,
           hdr' = [hdr EXCEPT ![s] = h], h.store = hdr[s].store, h.magic = hdr[s].magic
    PROVE  /\ Flash' /\ \A t \in Sectors : Count(t)' = Count(t)
           /\ hdr' \in [Sectors -> Header] /\ hdr'[s] = h
           /\ \A t \in Sectors : t # s => hdr'[t] = hdr[t]
           /\ \A t \in Sectors : hdr'[t].store = hdr[t].store /\ hdr'[t].magic = hdr[t].magic
           /\ Unused' <=> Unused
<1>1. hdr \in [Sectors -> Header]
  BY DEF IInv, Types
<1>2. hdr' \in [Sectors -> Header] /\ hdr'[s] = h /\ \A t \in Sectors : t # s => hdr'[t] = hdr[t]
  BY <1>1
<1>3. \A t \in Sectors : hdr'[t].store = hdr[t].store /\ hdr'[t].magic = hdr[t].magic
  BY <1>2
<1>4. Packed' /\ \A t \in Sectors : Count(t)' = Count(t)
  BY SlotsStay DEF IInv, Flash, Packed
<1>5. Headers' /\ NoNodes' /\ AtMostOne'
  BY <1>3 DEF IInv, Flash, Headers, NoNodes, AtMostOne
<1>6. Unused' <=> Unused
  BY <1>3 DEF Unused
<1>7. QED
  BY <1>2, <1>3, <1>4, <1>5, <1>6 DEF Flash

\* The copy that update_sec_status writes.
LEMMA EndPlace ==
    ASSUME IInv, pc \in Ending
    PROVE  /\ cur.sec \in Sectors /\ Known /\ job = "append" /\ cur.store = USING
           /\ hdr[cur.sec].store = USING /\ \A t \in Sectors : hdr[t].magic
           /\ FreeCopies # {} /\ Min(FreeCopies) \in Copies /\ cur.stat[Min(FreeCopies)] = UNUSED
           /\ cur.n > 0 /\ cur.n - 1 \in Slots
           /\ hdr[cur.sec] \in Header /\ hdr[cur.sec].end[Min(FreeCopies)] \in EndInfo
<1>1. job = "append" /\ Serving /\ pc \notin {"idle", "idx_pre"}
  BY ServingFacts DEF Ending
<1>2. cur.sec # Nowhere /\ cur.sec \in Sectors
  BY <1>1, ServingFacts
<1>3. Known
  BY <1>1, <1>2 DEF Known, Ending, Formatting
<1>4. cur.store = USING /\ hdr[cur.sec].store = USING
  BY <1>3 DEF IInv, StoreKnown
<1>5. \A t \in Sectors : hdr[t].magic
  BY <1>1, <1>2 DEF IInv, AllMagic, Ending
<1>6. FreeCopies # {} /\ cur.n > 0
  BY <1>3, <1>4 DEF IInv, StatKnown
<1>7. Min(FreeCopies) \in FreeCopies
  <2>1. FreeCopies \in SUBSET Nat
    BY DEF FreeCopies
  <2>2. QED
    BY <1>6, <2>1, MinOfNaturals
<1>8. Min(FreeCopies) \in Copies /\ cur.stat[Min(FreeCopies)] = UNUSED
  BY <1>7 DEF FreeCopies
<1>9. cur.n - 1 \in Slots
  BY <1>6, ConstantFacts DEF IInv, Types, CurInfo
<1>10. hdr[cur.sec] \in Header
  BY <1>2 DEF IInv, Types
<1>11. hdr[cur.sec].end[Min(FreeCopies)] \in EndInfo
  BY <1>8, <1>10 DEF Header
<1>12. QED
  BY <1>1, <1>2, <1>3, <1>4, <1>5, <1>6, <1>8, <1>9, <1>10, <1>11

LEMMA EndWritten ==
    ASSUME IInv, pc \in Ending, NEW e \in EndInfo,
           hdr' = [hdr EXCEPT ![cur.sec].end[Min(FreeCopies)] = e],
           pc' \in {"end_body", "end_write", "full"},
           pc' = "full" => e.st = WRITE, pc' # "full" => e.st = PRE_WRITE,
           UNCHANGED <<slot, job, req, fmt, result, ram, bounds>>
    PROVE  IInv'
<1> DEFINE c == Min(FreeCopies)
           o == hdr[cur.sec]
           h == [store |-> o.store, magic |-> o.magic, start |-> o.start,
                 end |-> [o.end EXCEPT ![c] = e]]
<1>1. /\ cur.sec \in Sectors /\ Known /\ job = "append" /\ cur.store = USING
      /\ o.store = USING /\ \A t \in Sectors : hdr[t].magic
      /\ FreeCopies # {} /\ c \in Copies /\ cur.n > 0 /\ o \in Header
  BY EndPlace
<1>2. /\ slot' = slot /\ job' = job /\ req' = req /\ fmt' = fmt /\ result' = result
      /\ cur' = cur /\ lastTime' = lastTime /\ oldest' = oldest /\ rollover' = rollover
      /\ cuts' = cuts /\ restarts' = restarts
  BY DEF ram, bounds
<1>3. o.end \in [Copies -> EndInfo]
  BY <1>1 DEF Header
<1>4. /\ [o.end EXCEPT ![c] = e] \in [Copies -> EndInfo]
      /\ \A i \in Copies : h.end[i] = IF i = c THEN e ELSE o.end[i]
  BY <1>1, <1>3
<1>5. h \in Header /\ h.store = o.store /\ h.magic = o.magic
  BY <1>1, <1>4 DEF Header
<1>6. hdr' = [hdr EXCEPT ![cur.sec] = h]
  <2>1. [o EXCEPT !.end = [o.end EXCEPT ![c] = e]] = h
    BY <1>1 DEF Header
  <2>2. QED
    BY <2>1
<1> HIDE DEF h
<1>7. /\ Flash' /\ \A t \in Sectors : Count(t)' = Count(t)
      /\ hdr' \in [Sectors -> Header] /\ hdr'[cur.sec] = h
      /\ \A t \in Sectors : t # cur.sec => hdr'[t] = hdr[t]
      /\ \A t \in Sectors : hdr'[t].store = hdr[t].store /\ hdr'[t].magic = hdr[t].magic
      /\ Unused' <=> Unused
  BY <1>1, <1>2, <1>5, <1>6, HeaderWritten
<1>8. Types'
  BY <1>2, <1>7 DEF IInv, Types, PCs
<1>9. \A t \in Sectors : Asserts(hdr'[t]) => t = cur.sec
  <2> SUFFICES ASSUME NEW t \in Sectors, Asserts(hdr'[t]), t # cur.sec PROVE FALSE
    OBVIOUS
  <2>1. Asserts(hdr[t])
    BY <1>7
  <2>2. hdr[t].store = USING
    BY <2>1 DEF IInv, HangsOnlyAtEnd
  <2>3. QED
    BY <1>1, <2>2 DEF IInv, Flash, AtMostOne
<1>10. HangsOnlyAtEnd'
  <2>1. pc' = "full" => ~ Asserts(hdr'[cur.sec])
    BY <1>1, <1>4, <1>7 DEF Asserts
  <2>2. hdr'[cur.sec].store = USING /\ \A t \in Sectors : hdr'[t].magic
    BY <1>1, <1>7
  <2>3. QED
    BY <1>9, <2>1, <2>2 DEF HangsOnlyAtEnd
<1>11. Jobs' /\ FormatSteps' /\ Off'
  BY <1>1, <1>2 DEF IInv, Jobs, FormatSteps, Off, Formatting, Ending, Placing
<1>12. Known' /\ Serving' /\ Serving
  BY <1>1, <1>2 DEF Known, Serving, Formatting
<1>13. cur.sec # Nowhere
  BY <1>1 DEF Known
<1>14. NoPlace' /\ AllMagic'
  BY <1>1, <1>2, <1>7, <1>13 DEF NoPlace, AllMagic
<1>15. StoreKnown'
  <2>1. cur.store = USING /\ cur.n = Count(cur.sec) /\ hdr'[cur.sec].store = USING
    BY <1>1, <1>7 DEF IInv, StoreKnown
  <2>2. QED
    BY <1>1, <1>2, <1>7, <2>1 DEF StoreKnown
<1>16. StatKnown'
  <2>1. FreeCopies' = FreeCopies
    BY <1>2 DEF FreeCopies
  <2>2. \A i \in Copies : i # c => o.end[i].st = cur.stat[i]
    BY <1>1 DEF IInv, StatKnown, Ending
  <2>3. pc' # "full" => \A i \in Copies :
           hdr'[cur.sec].end[i].st = IF i = c THEN PRE_WRITE ELSE cur.stat[i]
    BY <1>4, <1>7, <2>2
  <2>4. QED
    BY <1>1, <1>2, <2>1, <2>3 DEF StatKnown
<1>17. NoLength' /\ Room'
  BY <1>2 DEF IInv, NoLength, Room, Placing
<1>18. QED
  BY <1>7, <1>8, <1>10, <1>11, <1>14, <1>15, <1>16, <1>17 DEF IInv

LEMMA EndPrepareKeeps == IInv /\ EndPrepare => IInv'
<1> SUFFICES ASSUME IInv, EndPrepare PROVE IInv'
  OBVIOUS
<1> DEFINE c == Min(FreeCopies)
           o == hdr[cur.sec].end[c]
           e == [st |-> PRE_WRITE, time |-> o.time, idx |-> o.idx]
<1>1. pc \in Ending /\ pc = "end_pre" /\ pc' = "end_body"
  BY DEF EndPrepare, Ending
<1>2. /\ Known /\ cur.store = USING /\ c \in Copies /\ cur.stat[c] = UNUSED /\ o \in EndInfo
  BY <1>1, EndPlace
<1>3. o.st = UNUSED
  BY <1>1, <1>2 DEF IInv, StatKnown
<1>4. e \in EndInfo /\ e.st = PRE_WRITE
  BY <1>2 DEF EndInfo
<1>5. hdr' = [hdr EXCEPT ![cur.sec].end[c] = e]
  <2>1. hdr' = [hdr EXCEPT ![cur.sec].end[c].st = Program(o.st, PRE_WRITE)]
    BY DEF EndPrepare
  <2>2. Program(o.st, PRE_WRITE) = PRE_WRITE
    BY <1>3 DEF Program
  <2>3. [o EXCEPT !.st = PRE_WRITE] = e
    BY <1>2 DEF EndInfo
  <2>4. QED
    BY <2>1, <2>2, <2>3
<1>6. UNCHANGED <<slot, job, req, fmt, result, ram, bounds>>
  BY DEF EndPrepare
<1> HIDE DEF e
<1>7. QED
  BY <1>1, <1>4, <1>5, <1>6, EndWritten

LEMMA EndBodyKeeps == IInv /\ EndBody => IInv'
<1> SUFFICES ASSUME IInv, EndBody PROVE IInv'
  OBVIOUS
<1> DEFINE c == Min(FreeCopies)
           o == hdr[cur.sec].end[c]
           e == [st |-> o.st, time |-> And(o.time, lastTime), idx |-> cur.n - 1]
<1>1. pc \in Ending /\ pc = "end_body" /\ pc' = "end_write"
  BY DEF EndBody, Ending
<1>2. /\ Known /\ cur.store = USING /\ c \in Copies /\ o \in EndInfo /\ cur.n - 1 \in Slots
      /\ cur.sec \in Sectors /\ hdr[cur.sec] \in Header
  BY <1>1, EndPlace
<1>3. o.st = PRE_WRITE
  BY <1>1, <1>2 DEF IInv, StatKnown
<1>4. e \in EndInfo /\ e.st = PRE_WRITE
  <2>1. o.time \in FlashTime /\ lastTime \in FlashTime
    BY <1>2 DEF IInv, Types, EndInfo
  <2>2. And(o.time, lastTime) \in FlashTime
    BY <2>1, ConstantFacts, AndIsTime
  <2>3. QED
    BY <1>2, <1>3, <2>2 DEF EndInfo
<1>5. hdr' = [hdr EXCEPT ![cur.sec].end[c] = e]
  BY DEF EndBody
<1>6. UNCHANGED <<slot, job, req, fmt, result, ram, bounds>>
  BY DEF EndBody
<1> HIDE DEF e
<1>7. QED
  BY <1>1, <1>4, <1>5, <1>6, EndWritten

LEMMA EndCommitKeeps == IInv /\ EndCommit => IInv'
<1> SUFFICES ASSUME IInv, EndCommit PROVE IInv'
  OBVIOUS
<1> DEFINE c == Min(FreeCopies)
           o == hdr[cur.sec].end[c]
           e == [st |-> WRITE, time |-> o.time, idx |-> o.idx]
<1>1. pc \in Ending /\ pc = "end_write" /\ pc' = "full"
  BY DEF EndCommit, Ending
<1>2. /\ Known /\ cur.store = USING /\ c \in Copies /\ o \in EndInfo
  BY <1>1, EndPlace
<1>3. o.st = PRE_WRITE
  BY <1>1, <1>2 DEF IInv, StatKnown
<1>4. e \in EndInfo /\ e.st = WRITE
  BY <1>2 DEF EndInfo
<1>5. hdr' = [hdr EXCEPT ![cur.sec].end[c] = e]
  <2>1. hdr' = [hdr EXCEPT ![cur.sec].end[c].st = Program(o.st, WRITE)]
    BY DEF EndCommit
  <2>2. Program(o.st, WRITE) = WRITE
    BY <1>3 DEF Program
  <2>3. [o EXCEPT !.st = WRITE] = e
    BY <1>2 DEF EndInfo
  <2>4. QED
    BY <2>1, <2>2, <2>3
<1>6. UNCHANGED <<slot, job, req, fmt, result, ram, bounds>>
  BY DEF EndCommit
<1> HIDE DEF e
<1>7. QED
  BY <1>1, <1>4, <1>5, <1>6, EndWritten

-----------------------------------------------------------------------------
(* update_sec_status: the sector is full, the next one comes into use.     *)

LEMMA EmptyCounts ==
    ASSUME IInv, NEW s \in Sectors, hdr[s].store <= EMPTY
    PROVE  Count(s) = 0 /\ Used(s) = 0
<1>1. slot[s] = [n \in Slots |-> Blank]
  BY DEF IInv, Flash, NoNodes
<1>2. Count(s) \in Slots /\ (slot[s][0].st >= WRITE <=> 0 < Count(s))
  BY ConstantFacts DEF IInv, Flash, Packed
<1>3. slot[s][0].st = 0
  BY <1>1, ConstantFacts DEF Blank
<1>4. Count(s) = 0
  BY <1>2, <1>3, ConstantFacts
<1>5. QED
  BY <1>4, UsedOf, UsedStart

\* What read_sector_info finds in a sector with a magic word.
LEMMA ReadFacts ==
    ASSUME IInv, NEW s \in Sectors, hdr[s].magic, NEW old \in CurInfo, NEW tr \in BOOLEAN
    PROVE  LET c == ReadSector(s, old, tr)
               seen == tr /\ hdr[s].store = USING /\ Count(s) > 0
           IN  /\ c \in CurInfo
               /\ c.sec = s /\ c.store = hdr[s].store
               /\ \A i \in Copies : c.stat[i] = hdr[s].end[i].st
               /\ c.n = IF seen THEN Count(s) ELSE 0
               /\ c.used = IF seen THEN Used(s) ELSE 0
<1> DEFINE c == ReadSector(s, old, tr)
           h == hdr[s]
           seen == tr /\ h.store = USING /\ Count(s) > 0
           last == Count(s) - 1
           time == IF seen THEN slot[s][last].time
                   ELSE IF EndKnown(h) THEN EndOf(h).time ELSE old.endTime
           idx == IF seen THEN <<s, last>>
                  ELSE IF EndKnown(h) THEN <<s, EndOf(h).idx>> ELSE old.endIdx
           n == IF seen THEN Count(s) ELSE 0
           used == IF seen THEN Used(s) ELSE 0
           stat == [i \in Copies |-> h.end[i].st]
<1>1. c = [sec |-> s, store |-> h.store, start |-> h.start, stat |-> stat,
           endTime |-> time, endIdx |-> idx, n |-> n, used |-> used]
  BY DEF ReadSector
<1>2. h \in Header /\ slot[s] \in [Slots -> Slot]
  BY DEF IInv, Types
<1>3. h.end[0] \in EndInfo /\ h.end[1] \in EndInfo /\ h.end \in [Copies -> EndInfo]
  BY <1>2 DEF Header
<1>4. EndOf(h) \in EndInfo
  BY <1>3 DEF EndOf
<1>5. Count(s) \in Slots
  BY DEF IInv, Flash, Packed
<1>6. seen => last \in Slots
  BY <1>5, ConstantFacts
<1>7. time \in FlashTime
  <2>1. EndOf(h).time \in FlashTime
    BY <1>4 DEF EndInfo
  <2>2. old.endTime \in FlashTime
    BY DEF CurInfo
  <2>3. seen => slot[s][last].time \in FlashTime
    BY <1>2, <1>6 DEF Slot
  <2>4. QED
    BY ONLY <2>1, <2>2, <2>3
<1>8. idx \in Sectors \X Slots
  <2>1. EndOf(h).idx \in Slots
    BY <1>4 DEF EndInfo
  <2>2. old.endIdx \in Sectors \X Slots
    BY DEF CurInfo
  <2>3. QED
    BY ONLY <1>6, <2>1, <2>2, s \in Sectors
<1>9. n \in Slots
  BY <1>5, ConstantFacts
<1>10. used \in Nat
  <2>1. \A m \in Slots : slot[s][m].data \in SUBSET Logs
    BY <1>2 DEF Slot
  <2>2. Used(s) \in Nat
    BY <1>5, <2>1, UsedOf, UsedIsNat
  <2>3. QED
    BY ONLY <2>2
<1>11. stat \in [Copies -> 0..5] /\ \A i \in Copies : stat[i] = h.end[i].st
  BY <1>3 DEF EndInfo
<1>12. h.store \in 0..3 /\ h.start \in FlashTime
  BY <1>2 DEF Header
<1>13. s \in 0..NSec
  BY ConstantFacts
<1> HIDE DEF c, time, idx, used, stat, n
<1>14. c \in CurInfo
  BY <1>1, <1>7, <1>8, <1>9, <1>10, <1>11, <1>12, <1>13 DEF CurInfo
<1>15. c.sec = s /\ c.store = h.store /\ c.stat = stat /\ c.n = n /\ c.used = used
  BY <1>1
<1>16. QED
  BY <1>11, <1>14, <1>15 DEF c, n, used

\* A store status program on a sector that was formatted.
LEMMA StoreRaised ==
    ASSUME IInv, UNCHANGED slot, NEW s \in Sectors, NEW v \in {USING, FULL},
           hdr' = [hdr EXCEPT ![s].store = v], v = USING => Unused
    PROVE  /\ Flash' /\ \A t \in Sectors : Count(t)' = Count(t)
           /\ hdr' \in [Sectors -> Header] /\ hdr'[s].store = v
           /\ \A t \in Sectors : t # s => hdr'[t] = hdr[t]
           /\ \A t \in Sectors : hdr'[t].end = hdr[t].end /\ hdr'[t].magic = hdr[t].magic
           /\ \A t \in Sectors : Asserts(hdr'[t]) <=> Asserts(hdr[t])
<1>1. hdr \in [Sectors -> Header]
  BY DEF IInv, Types
<1>2. v \in 0..3 /\ v > EMPTY
  OBVIOUS
<1>3. /\ hdr' \in [Sectors -> Header] /\ hdr'[s].store = v
      /\ \A t \in Sectors : t # s => hdr'[t] = hdr[t]
      /\ \A t \in Sectors : hdr'[t].end = hdr[t].end /\ hdr'[t].magic = hdr[t].magic
  BY <1>1, <1>2 DEF Header
<1>4. Packed' /\ \A t \in Sectors : Count(t)' = Count(t)
  BY SlotsStay DEF IInv, Flash, Packed
<1>5. Headers' /\ NoNodes'
  BY <1>2, <1>3 DEF IInv, Flash, Headers, NoNodes
<1>6. AtMostOne'
  BY <1>3 DEF IInv, Flash, AtMostOne, Unused
<1>7. \A t \in Sectors : Asserts(hdr'[t]) <=> Asserts(hdr[t])
  BY <1>3 DEF Asserts
<1>8. QED
  BY <1>3, <1>4, <1>5, <1>6, <1>7 DEF Flash

LEMMA FullPlace ==
    ASSUME IInv, pc = "full", UNCHANGED slot, hdr' = FullHdr
    PROVE  /\ cur.sec \in Sectors /\ cur.sec # Nowhere /\ Known /\ job = "append"
           /\ \A t \in Sectors : hdr[t].magic /\ hdr'[t].magic
           /\ Flash' /\ \A t \in Sectors : Count(t)' = Count(t)
           /\ hdr' \in [Sectors -> Header] /\ hdr'[cur.sec].store = FULL
           /\ \A t \in Sectors : t # cur.sec => hdr'[t] = hdr[t]
           /\ Unused' /\ \A t \in Sectors : ~ Asserts(hdr'[t])
<1>1. job = "append" /\ Serving
  BY ServingFacts
<1>2. cur.sec \in Sectors /\ cur.sec # Nowhere
  BY <1>1, ServingFacts
<1>3. Known
  BY <1>1, <1>2 DEF Known, Formatting
<1>4. hdr[cur.sec].store = USING
  BY <1>3 DEF IInv, StoreKnown
<1>5. \A t \in Sectors : hdr[t].magic
  BY <1>1, <1>2 DEF IInv, AllMagic
<1>6. hdr' = [hdr EXCEPT ![cur.sec].store = FULL]
  <2>1. Program(USING, FULL) = FULL
    BY DEF Program
  <2>2. QED
    BY <1>4, <2>1 DEF FullHdr
<1>7. /\ Flash' /\ \A t \in Sectors : Count(t)' = Count(t)
      /\ hdr' \in [Sectors -> Header] /\ hdr'[cur.sec].store = FULL
      /\ \A t \in Sectors : t # cur.sec => hdr'[t] = hdr[t]
      /\ \A t \in Sectors : hdr'[t].end = hdr[t].end /\ hdr'[t].magic = hdr[t].magic
      /\ \A t \in Sectors : Asserts(hdr'[t]) <=> Asserts(hdr[t])
  <2>1. PICK v \in {USING, FULL} : v = FULL
    OBVIOUS
  <2>2. hdr' = [hdr EXCEPT ![cur.sec].store = v] /\ (v = USING => Unused)
    BY <1>6, <2>1
  <2>3. /\ Flash' /\ \A t \in Sectors : Count(t)' = Count(t)
        /\ hdr' \in [Sectors -> Header] /\ hdr'[cur.sec].store = v
        /\ \A t \in Sectors : t # cur.sec => hdr'[t] = hdr[t]
        /\ \A t \in Sectors : hdr'[t].end = hdr[t].end /\ hdr'[t].magic = hdr[t].magic
        /\ \A t \in Sectors : Asserts(hdr'[t]) <=> Asserts(hdr[t])
    BY ONLY <1>2, <2>2, IInv, UNCHANGED slot, StoreRaised
  <2>4. QED
    BY <2>1, <2>3
<1>8. \A t \in Sectors : ~ Asserts(hdr[t])
  BY DEF IInv, HangsOnlyAtEnd
<1>9. Unused'
  BY <1>2, <1>4, <1>7 DEF IInv, Flash, AtMostOne, Unused
<1>10. QED
  BY <1>1, <1>2, <1>3, <1>5, <1>7, <1>8, <1>9

LEMMA MarkLastFullKeeps == IInv /\ MarkLastFull => IInv'
<1> SUFFICES ASSUME IInv, MarkLastFull PROVE IInv'
  OBVIOUS
<1>1. /\ pc = "full" /\ pc' = "idle" /\ job' = "none" /\ req' = NoLog /\ result' = "full"
      /\ hdr' = FullHdr /\ slot' = slot /\ fmt' = fmt /\ lastTime' = lastTime
      /\ oldest' = oldest /\ rollover' = rollover /\ cuts' = cuts /\ restarts' = restarts
  BY DEF MarkLastFull, bounds
<1>2. /\ cur.sec \in Sectors /\ cur.sec # Nowhere
      /\ \A t \in Sectors : hdr'[t].magic
      /\ Flash' /\ hdr' \in [Sectors -> Header] /\ hdr'[cur.sec].store = FULL
      /\ \A t \in Sectors : ~ Asserts(hdr'[t])
  BY <1>1, FullPlace
<1>3. cur' = [cur EXCEPT !.store = FULL] /\ cur \in CurInfo
  BY DEF MarkLastFull, Full, IInv, Types
<1>4. cur' \in CurInfo /\ cur'.sec = cur.sec /\ cur'.store = FULL /\ cur'.n = cur.n /\ cur'.used = cur.used
  BY <1>3 DEF CurInfo
<1>5. Types'
  <2>1. NoLog \in [log : Logs, time : 0..MaxTime]
    BY ConstantFacts DEF IInv, Types, NoLog
  <2>2. QED
    BY <1>1, <1>2, <1>4, <2>1 DEF IInv, Types, PCs
<1>6. HangsOnlyAtEnd' /\ Jobs' /\ FormatSteps' /\ Off'
  BY <1>1, <1>2 DEF HangsOnlyAtEnd, Jobs, FormatSteps, Off, Ending, Placing, Formatting
<1>7. NoPlace' /\ AllMagic' /\ StoreKnown' /\ StatKnown'
  BY <1>1, <1>2, <1>4 DEF NoPlace, AllMagic, StoreKnown, StatKnown, Ending, Placing
<1>8. NoLength' /\ Room'
  BY <1>1, <1>4 DEF IInv, NoLength, Room, Placing
<1>9. QED
  BY <1>2, <1>5, <1>6, <1>7, <1>8 DEF IInv

LEMMA NextSecFacts ==
    ASSUME NEW s \in Sectors
    PROVE  NextSec(s) \in Sectors /\ NextSec(s) # s /\ NextSec(s) \in 0..NSec /\ NextSec(s) # Nowhere
BY ConstantFacts DEF NextSec, Nowhere

LEMMA MarkFullKeeps == IInv /\ MarkFull => IInv'
<1> SUFFICES ASSUME IInv, MarkFull PROVE IInv'
  OBVIOUS
<1> DEFINE s == NextSec(cur.sec)
           c == ReadSector(s, Full, FALSE)
<1>1. /\ pc = "full" /\ job' = job /\ req' = req /\ result' = result
      /\ hdr' = FullHdr /\ slot' = slot /\ lastTime' = lastTime
      /\ rollover' = rollover /\ cuts' = cuts /\ restarts' = restarts
  BY DEF MarkFull, bounds
<1>2. /\ cur' = c
      /\ IF c.store = EMPTY THEN pc' = "using" /\ fmt' = fmt /\ oldest' = oldest
         ELSE pc' = "erase" /\ fmt' = s /\ oldest' = NextSec(s)
  BY DEF MarkFull
<1>3. /\ cur.sec \in Sectors /\ cur.sec # Nowhere /\ Known /\ job = "append"
      /\ \A t \in Sectors : hdr[t].magic /\ hdr'[t].magic
      /\ Flash' /\ \A t \in Sectors : Count(t)' = Count(t)
      /\ hdr' \in [Sectors -> Header]
      /\ \A t \in Sectors : t # cur.sec => hdr'[t] = hdr[t]
      /\ Unused' /\ \A t \in Sectors : ~ Asserts(hdr'[t])
  BY <1>1, FullPlace
<1>4. s \in Sectors /\ s # cur.sec /\ s # Nowhere /\ NextSec(s) \in 0..NSec
  BY <1>3, NextSecFacts
<1>5. Full \in CurInfo
  BY DEF Full, CurInfo, IInv, Types
<1>6. /\ c \in CurInfo /\ c.sec = s /\ c.store = hdr[s].store /\ c.n = 0 /\ c.used = 0
      /\ \A i \in Copies : c.stat[i] = hdr[s].end[i].st
  <2>1. FALSE \in BOOLEAN /\ hdr[s].magic
    BY <1>3, <1>4
  <2> HIDE DEF s
  <2>2. QED
    BY <1>4, <1>5, <2>1, ReadFacts
<1> HIDE DEF s, c
<1>7. hdr'[s] = hdr[s] /\ pc' \in {"using", "erase"}
  BY <1>2, <1>3, <1>4
<1>8. Types'
  <2>1. fmt' \in Sectors /\ oldest' \in 0..NSec
    BY <1>2, <1>4 DEF IInv, Types
  <2>2. QED
    BY <1>1, <1>2, <1>3, <1>6, <1>7, <2>1 DEF IInv, Types, PCs
<1>9. HangsOnlyAtEnd'
  BY <1>3 DEF HangsOnlyAtEnd
<1>10. Jobs' /\ FormatSteps' /\ Off'
  BY <1>1, <1>2, <1>3, <1>6, <1>7 DEF IInv, Jobs, FormatSteps, Off, Ending, Placing, Formatting
<1>11. NoPlace' /\ AllMagic'
  BY <1>2, <1>3, <1>4, <1>6 DEF NoPlace, AllMagic
<1>12. pc' # "erase" => pc' = "using" /\ cur'.store = EMPTY
  BY <1>2, <1>7
<1>13. StoreKnown'
  <2> SUFFICES ASSUME Known' PROVE StoreKnown'
    BY DEF StoreKnown
  <2>1. pc' = "using" /\ cur'.store = EMPTY /\ hdr[s].store <= EMPTY
    BY <1>2, <1>6, <1>12 DEF Known, Formatting
  <2>2. Count(s) = 0
    BY <1>4, <2>1, EmptyCounts
  <2>3. cur'.sec = s /\ cur'.n = 0 /\ hdr'[s].store = cur'.store
    BY <1>2, <1>6, <1>7
  <2>4. PICK k \in Sectors : k = s
    BY <1>4
  <2>5. Count(cur.sec)' = 0
    <3>1. CountIn(slot[k]) = 0
      BY <2>2, <2>4, CountOf
    <3>2. CountIn(slot'[cur'.sec]) = 0
      BY <1>1, <2>3, <2>4, <3>1
    <3>3. QED
      BY <3>2 DEF Count, CountIn
  <2>6. QED
    BY <1>3, <2>1, <2>3, <2>5 DEF StoreKnown, Ending, Placing
<1>14. StatKnown'
  BY <1>2, <1>6, <1>7, <1>12 DEF StatKnown, Known, Ending, Formatting
<1>15. NoLength' /\ Room'
  BY <1>2, <1>6, <1>7 DEF NoLength, Room, Placing
<1>16. QED
  BY <1>3, <1>8, <1>9, <1>10, <1>11, <1>13, <1>14, <1>15 DEF IInv

LEMMA UseSectorKeeps == IInv /\ UseSector => IInv'
<1> SUFFICES ASSUME IInv, UseSector PROVE IInv'
  OBVIOUS
<1>1. /\ pc = "using" /\ pc' = "start" /\ slot' = slot /\ job' = job /\ req' = req
      /\ fmt' = fmt /\ result' = result /\ lastTime' = lastTime /\ oldest' = oldest
      /\ rollover' = rollover /\ cuts' = cuts /\ restarts' = restarts
  BY DEF UseSector, bounds
<1>2. job = "append" /\ Serving
  BY <1>1, ServingFacts
<1>3. cur.sec \in Sectors /\ cur.sec # Nowhere
  BY <1>1, <1>2, ServingFacts
<1>4. Known
  BY <1>1, <1>2, <1>3 DEF Known, Formatting
<1>5. /\ cur.store = EMPTY /\ hdr[cur.sec].store = EMPTY /\ Unused /\ cur.n = Count(cur.sec)
  BY <1>1, <1>4 DEF IInv, StoreKnown
<1>6. cur.n = 0 /\ cur.used = 0
  <2>1. Count(cur.sec) = 0
    BY <1>3, <1>5, EmptyCounts
  <2>2. QED
    BY <1>5, <2>1 DEF IInv, NoLength
<1>7. /\ Flash' /\ \A t \in Sectors : Count(t)' = Count(t)
      /\ hdr' \in [Sectors -> Header] /\ hdr'[cur.sec].store = USING
      /\ \A t \in Sectors : hdr'[t].end = hdr[t].end /\ hdr'[t].magic = hdr[t].magic
      /\ \A t \in Sectors : Asserts(hdr'[t]) <=> Asserts(hdr[t])
  <2>1. PICK v \in {USING, FULL} : v = USING
    OBVIOUS
  <2>2. hdr' = [hdr EXCEPT ![cur.sec].store = v] /\ (v = USING => Unused) /\ UNCHANGED slot
    <3>1. Program(EMPTY, USING) = v
      BY <2>1 DEF Program
    <3>2. QED
      BY <1>1, <1>5, <3>1 DEF UseSector
  <2>3. /\ Flash' /\ \A t \in Sectors : Count(t)' = Count(t)
        /\ hdr' \in [Sectors -> Header] /\ hdr'[cur.sec].store = v
        /\ \A t \in Sectors : hdr'[t].end = hdr[t].end /\ hdr'[t].magic = hdr[t].magic
        /\ \A t \in Sectors : Asserts(hdr'[t]) <=> Asserts(hdr[t])
    BY ONLY <1>3, <2>2, IInv, StoreRaised
  <2>4. QED
    BY <2>1, <2>3
<1>8. cur \in CurInfo /\ req.time \in FlashTime /\ req.log \in Logs
  BY ConstantFacts DEF IInv, Types, FlashTime
<1>9. cur' = [cur EXCEPT !.store = USING, !.start = req.time]
  BY DEF UseSector
<1>10. /\ cur' \in CurInfo /\ cur'.sec = cur.sec /\ cur'.store = USING /\ cur'.stat = cur.stat
       /\ cur'.n = cur.n /\ cur'.used = cur.used
  <2> DEFINE mid == [cur EXCEPT !.store = USING]
  <2>1. /\ mid \in CurInfo /\ mid.sec = cur.sec /\ mid.store = USING /\ mid.stat = cur.stat
        /\ mid.n = cur.n /\ mid.used = cur.used
    BY <1>8 DEF CurInfo
  <2>2. cur' = [mid EXCEPT !.start = req.time]
    BY <1>9
  <2> HIDE DEF mid
  <2>3. QED
    BY <1>8, <2>1, <2>2 DEF CurInfo
<1>11. Types'
  BY <1>1, <1>7, <1>10 DEF IInv, Types, PCs
<1>12. HangsOnlyAtEnd'
  BY <1>1, <1>7 DEF IInv, HangsOnlyAtEnd
<1>13. Jobs' /\ FormatSteps' /\ Off'
  BY <1>1, <1>2 DEF IInv, Jobs, FormatSteps, Off, Ending, Placing, Formatting
<1>14. NoPlace' /\ AllMagic'
  BY <1>1, <1>2, <1>3, <1>7, <1>10 DEF IInv, NoPlace, AllMagic
<1>15. StoreKnown'
  BY <1>1, <1>3, <1>5, <1>7, <1>10 DEF StoreKnown
<1>16. StatKnown'
  <2>1. \A i \in Copies : cur.stat[i] = hdr[cur.sec].end[i].st
    BY <1>1, <1>4, <1>5 DEF IInv, StatKnown
  <2>2. QED
    BY <1>1, <1>3, <1>7, <1>10, <2>1 DEF StatKnown, Ending
<1>17. NoLength'
  BY <1>6, <1>10 DEF NoLength
<1>18. Room'
  <2>1. Size[req.log] <= MaxLen
    BY <1>2 DEF IInv, Jobs
  <2>2. 0 * IdxLen = 0
    BY ConstantFacts, ProductNat
  <2>3. Remain(cur)' = Cap - 0 * IdxLen - 0
    BY <1>6, <1>10 DEF Remain
  <2>4. /\ Cap \in Nat /\ IdxLen \in Nat /\ MaxLen \in Nat /\ Size[req.log] \in Nat
        /\ IdxLen + MaxLen <= Cap
    BY <1>8, ConstantFacts
  <2>5. Cap - 0 - 0 >= IdxLen + Size[req.log]
    BY ONLY <2>1, <2>4
  <2>6. Remain(cur)' >= IdxLen + Size[req.log]
    BY <2>2, <2>3, <2>5
  <2>7. QED
    BY <1>1, <2>6 DEF Room
<1>19. QED
  BY <1>7, <1>11, <1>12, <1>13, <1>14, <1>15, <1>16, <1>17, <1>18 DEF IInv

LEMMA StartTimeKeeps == IInv /\ StartTime => IInv'
<1> SUFFICES ASSUME IInv, StartTime PROVE IInv'
  OBVIOUS
<1>1. /\ pc = "start" /\ pc' = "idx_pre" /\ slot' = slot /\ job' = job /\ req' = req
      /\ fmt' = fmt /\ result' = result /\ cur' = cur /\ lastTime' = lastTime
      /\ oldest' = oldest /\ rollover' = rollover /\ cuts' = cuts /\ restarts' = restarts
  BY DEF StartTime, ram, bounds
<1>2. pc \in Placing /\ job = "append" /\ Serving
  BY <1>1, ServingFacts DEF Placing
<1>3. cur.sec \in Sectors /\ cur.sec # Nowhere
  BY <1>1, <1>2, ServingFacts
<1> DEFINE o == hdr[cur.sec]
           h == [store |-> o.store, magic |-> o.magic, start |-> And(o.start, req.time),
                 end |-> o.end]
<1>4. o \in Header
  BY <1>3 DEF IInv, Types
<1>5. h \in Header /\ h.store = o.store /\ h.magic = o.magic /\ h.end = o.end
  <2>1. o.start \in FlashTime /\ req.time \in FlashTime
    BY <1>4, ConstantFacts DEF IInv, Types, FlashTime, Header
  <2>2. And(o.start, req.time) \in FlashTime
    BY <2>1, ConstantFacts, AndIsTime
  <2>3. QED
    BY <1>4, <2>2 DEF Header
<1>6. hdr' = [hdr EXCEPT ![cur.sec] = h]
  <2>1. hdr' = [hdr EXCEPT ![cur.sec].start = And(o.start, req.time)]
    BY DEF StartTime
  <2>2. [o EXCEPT !.start = And(o.start, req.time)] = h
    BY <1>4 DEF Header
  <2>3. QED
    BY <2>1, <2>2
<1> HIDE DEF h
<1>7. /\ Flash' /\ \A t \in Sectors : Count(t)' = Count(t)
      /\ hdr' \in [Sectors -> Header] /\ hdr'[cur.sec] = h
      /\ \A t \in Sectors : t # cur.sec => hdr'[t] = hdr[t]
      /\ \A t \in Sectors : hdr'[t].store = hdr[t].store /\ hdr'[t].magic = hdr[t].magic
      /\ Unused' <=> Unused
  BY <1>1, <1>3, <1>5, <1>6, HeaderWritten
<1>8. \A t \in Sectors : hdr'[t].end = hdr[t].end
  BY <1>3, <1>5, <1>7
<1>9. Types'
  BY <1>1, <1>7 DEF IInv, Types, PCs
<1>10. HangsOnlyAtEnd'
  <2>1. \A t \in Sectors : ~ Asserts(hdr[t])
    BY <1>1 DEF IInv, HangsOnlyAtEnd
  <2>2. \A t \in Sectors : ~ Asserts(hdr'[t])
    BY <1>7, <1>8, <2>1 DEF Asserts
  <2>3. QED
    BY <2>2 DEF HangsOnlyAtEnd
<1>11. Jobs' /\ FormatSteps' /\ Off'
  BY <1>1, <1>2 DEF IInv, Jobs, FormatSteps, Off, Ending, Placing, Formatting
<1>12. Known /\ Known'
  BY <1>1, <1>2, <1>3 DEF Known, Serving, Formatting
<1>13. NoPlace' /\ AllMagic'
  BY <1>1, <1>2, <1>3, <1>7 DEF IInv, NoPlace, AllMagic
<1>14. StoreKnown'
  BY <1>1, <1>2, <1>3, <1>7, <1>12 DEF IInv, StoreKnown
<1>15. StatKnown'
  BY <1>1, <1>3, <1>8, <1>12 DEF IInv, StatKnown, Ending
<1>16. NoLength' /\ Room'
  BY <1>1, <1>2, <1>12 DEF IInv, NoLength, Room, Remain
<1>17. QED
  BY <1>7, <1>9, <1>10, <1>11, <1>13, <1>14, <1>15, <1>16 DEF IInv

-----------------------------------------------------------------------------
(* format_sector.                                                          *)

LEMMA HeaderTypes ==
    /\ ErasedHdr \in Header /\ ErasedHdr.store = 0 /\ ~ ErasedHdr.magic /\ NoEnds(ErasedHdr)
<1>1. Erased \in FlashTime /\ 0 \in Slots
  BY ConstantFacts DEF FlashTime
<1>2. NoEnd \in EndInfo /\ NoEnd.st = UNUSED
  BY <1>1 DEF NoEnd, EndInfo
<1>3. QED
  BY <1>1, <1>2 DEF Header, ErasedHdr, NoEnds

LEMMA FormatFacts ==
    ASSUME IInv, pc \in Formatting
    PROVE  /\ fmt \in Sectors /\ job \in {"append", "clean", "init"}
           /\ job = "append" => fmt = cur.sec /\ cur.sec # Nowhere /\ Unused /\ Serving
           /\ job # "append" => ~ Serving
           /\ \A s \in Sectors : ~ Asserts(hdr[s])
<1>1. fmt \in Sectors /\ job \in {"append", "clean", "init"}
  BY DEF IInv, Types, Jobs
<1>2. job = "append" => fmt = cur.sec /\ Unused
  BY DEF IInv, FormatSteps
<1>3. fmt # Nowhere
  BY <1>1, ConstantFacts DEF Nowhere
<1>4. /\ job = "append" => Serving
      /\ job # "append" => ~ Serving
  BY <1>1 DEF Serving, Formatting
<1>5. \A s \in Sectors : ~ Asserts(hdr[s])
  BY DEF IInv, HangsOnlyAtEnd, Formatting
<1>6. QED
  BY <1>1, <1>2, <1>3, <1>4, <1>5

\* A header without logs is programmed over one.
LEMMA FormatWritten ==
    ASSUME IInv, UNCHANGED slot, NEW h \in Header, hdr' = [hdr EXCEPT ![fmt] = h],
           hdr[fmt].store <= EMPTY, h.store <= EMPTY, h.magic => h.store >= EMPTY
    PROVE  /\ Flash' /\ hdr' \in [Sectors -> Header] /\ hdr'[fmt] = h
           /\ \A t \in Sectors : t # fmt => hdr'[t] = hdr[t]
           /\ Unused => Unused'
<1>1. hdr \in [Sectors -> Header] /\ fmt \in Sectors
  BY DEF IInv, Types
<1>2. /\ hdr' \in [Sectors -> Header] /\ hdr'[fmt] = h
      /\ \A t \in Sectors : t # fmt => hdr'[t] = hdr[t]
  BY <1>1
<1>3. Packed'
  BY SlotsStay DEF IInv, Flash, Packed
<1>4. h.store # USING
  BY DEF Header
<1>5. Headers' /\ NoNodes' /\ AtMostOne'
  BY <1>2, <1>4 DEF IInv, Flash, Headers, NoNodes, AtMostOne
<1>6. Unused => Unused'
  BY <1>2, <1>4 DEF Unused
<1>7. QED
  BY <1>2, <1>3, <1>5, <1>6 DEF Flash

LEMMA EraseKeeps == IInv /\ Erase => IInv'
<1> SUFFICES ASSUME IInv, Erase PROVE IInv'
  OBVIOUS
<1>1. /\ pc = "erase" /\ pc' = "empty" /\ job' = job /\ req' = req /\ fmt' = fmt
      /\ result' = result /\ cur' = cur /\ lastTime' = lastTime /\ oldest' = oldest
      /\ rollover' = rollover /\ cuts' = cuts /\ restarts' = restarts
  BY DEF Erase, ram, bounds
<1>2. /\ fmt \in Sectors /\ job \in {"append", "clean", "init"}
      /\ job = "append" => fmt = cur.sec /\ cur.sec # Nowhere /\ Unused /\ Serving
      /\ job # "append" => ~ Serving
      /\ \A s \in Sectors : ~ Asserts(hdr[s])
  BY <1>1, FormatFacts DEF Formatting
<1>3. hdr' = [hdr EXCEPT ![fmt] = ErasedHdr] /\ slot' = [slot EXCEPT ![fmt] = [n \in Slots |-> Blank]]
  BY DEF Erase
<1>4. hdr \in [Sectors -> Header] /\ slot \in [Sectors -> [Slots -> Slot]]
  BY DEF IInv, Types
<1>5. Blank \in Slot /\ Blank.st = 0
  BY ConstantFacts DEF Blank, Slot, FlashTime
<1>6. ErasedHdr \in Header /\ ErasedHdr.store = 0 /\ ~ ErasedHdr.magic /\ NoEnds(ErasedHdr)
  BY HeaderTypes
<1>7. /\ hdr' \in [Sectors -> Header] /\ hdr'[fmt] = ErasedHdr
      /\ \A t \in Sectors : t # fmt => hdr'[t] = hdr[t]
  BY <1>2, <1>3, <1>4, <1>6
<1>8. /\ slot' \in [Sectors -> [Slots -> Slot]] /\ slot'[fmt] = [n \in Slots |-> Blank]
      /\ \A t \in Sectors : t # fmt => slot'[t] = slot[t]
  BY <1>2, <1>3, <1>4, <1>5
<1>9. Types'
  BY <1>1, <1>7, <1>8 DEF IInv, Types, PCs
<1>10. Packed'
  <2> SUFFICES ASSUME NEW t \in Sectors
               PROVE  /\ Count(t)' \in Slots
                      /\ \A n \in Slots : slot'[t][n].st >= WRITE <=> n < Count(t)'
    BY DEF Packed
  <2>1. ASSUME t = fmt
        PROVE  /\ Count(t)' \in Slots
               /\ \A n \in Slots : slot'[t][n].st >= WRITE <=> n < Count(t)'
    <3>1. 0 \in Slots /\ Slots \subseteq Nat
      BY ConstantFacts
    <3>2. \A n \in Slots : slot'[t][n].st >= WRITE <=> n < 0
      BY <1>5, <1>8, <2>1, <3>1
    <3>3. Count(t)' = 0
      BY <1>8, <3>1, <3>2, CountsNext
    <3>4. QED
      BY <3>1, <3>2, <3>3
  <2>2. ASSUME t # fmt
        PROVE  /\ Count(t)' \in Slots
               /\ \A n \in Slots : slot'[t][n].st >= WRITE <=> n < Count(t)'
    <3>1. slot'[t] = slot[t]
      BY <1>8, <2>2
    <3>2. Count(t)' = Count(t)
      BY <3>1, CountOf, CountOfNext
    <3>3. QED
      BY <3>1, <3>2 DEF IInv, Flash, Packed
  <2>3. QED
    BY <2>1, <2>2
<1>11. Flash'
  BY <1>6, <1>7, <1>8, <1>10 DEF IInv, Flash, Headers, NoNodes, AtMostOne
<1>12. Unused => Unused'
  BY <1>6, <1>7 DEF Unused
<1>13. HangsOnlyAtEnd'
  BY <1>2, <1>6, <1>7 DEF HangsOnlyAtEnd, Asserts
<1>14. Jobs' /\ Off'
  BY <1>1, <1>2 DEF IInv, Jobs, Off, Ending, Placing, Formatting
<1>15. FormatSteps'
  <2>1. job # "append" => \A s \in 0..(fmt - 1) : Formatted(hdr'[s])
    <3>1. \A s \in 0..(fmt - 1) : s \in Sectors /\ s # fmt
      BY <1>2, ConstantFacts
    <3>2. QED
      BY <1>1, <1>7, <3>1 DEF IInv, FormatSteps, Formatting
  <2>2. QED
    BY <1>1, <1>2, <1>6, <1>7, <1>12, <2>1 DEF FormatSteps, Formatted, NoEnds
<1>16. NoPlace' /\ AllMagic'
  BY <1>1, <1>2, <1>7 DEF IInv, NoPlace, AllMagic, Serving
<1>17. StoreKnown' /\ StatKnown' /\ Room'
  BY <1>1 DEF StoreKnown, StatKnown, Room, Known, Formatting
<1>18. NoLength'
  BY <1>1 DEF IInv, NoLength
<1>19. QED
  BY <1>9, <1>11, <1>13, <1>14, <1>15, <1>16, <1>17, <1>18 DEF IInv

LEMMA WriteEmptyKeeps == IInv /\ WriteEmpty => IInv'
<1> SUFFICES ASSUME IInv, WriteEmpty PROVE IInv'
  OBVIOUS
<1>1. /\ pc = "empty" /\ pc' = "magic" /\ slot' = slot /\ job' = job /\ req' = req /\ fmt' = fmt
      /\ result' = result /\ cur' = cur /\ lastTime' = lastTime /\ oldest' = oldest
      /\ rollover' = rollover /\ cuts' = cuts /\ restarts' = restarts
  BY DEF WriteEmpty, ram, bounds
<1>2. /\ fmt \in Sectors /\ job \in {"append", "clean", "init"}
      /\ job = "append" => fmt = cur.sec /\ cur.sec # Nowhere /\ Unused /\ Serving
      /\ job # "append" => ~ Serving
      /\ \A s \in Sectors : ~ Asserts(hdr[s])
  BY <1>1, FormatFacts DEF Formatting
<1>3. hdr[fmt].store = 0 /\ ~ hdr[fmt].magic /\ NoEnds(hdr[fmt]) /\ hdr[fmt] \in Header
  BY <1>1, <1>2 DEF IInv, FormatSteps, Types
<1> DEFINE o == hdr[fmt]
           h == [store |-> EMPTY, magic |-> o.magic, start |-> o.start, end |-> o.end]
<1>4. hdr' = [hdr EXCEPT ![fmt] = h]
  <2>1. Program(o.store, EMPTY) = EMPTY
    BY <1>3 DEF Program
  <2>2. hdr' = [hdr EXCEPT ![fmt].store = EMPTY]
    BY <2>1 DEF WriteEmpty
  <2>3. [o EXCEPT !.store = EMPTY] = h
    BY <1>3 DEF Header
  <2>4. QED
    BY <2>2, <2>3
<1>5. /\ h \in Header /\ h.store = EMPTY /\ ~ h.magic /\ NoEnds(h)
      /\ h.store <= EMPTY /\ (h.magic => h.store >= EMPTY)
  BY <1>3 DEF Header, NoEnds
<1> HIDE DEF h
<1>6. /\ Flash' /\ hdr' \in [Sectors -> Header] /\ hdr'[fmt] = h
      /\ \A t \in Sectors : t # fmt => hdr'[t] = hdr[t]
      /\ Unused => Unused'
  <2>1. UNCHANGED slot /\ hdr[fmt].store <= EMPTY
    BY <1>1, <1>3
  <2>2. QED
    BY ONLY IInv, <1>4, <1>5, <2>1, FormatWritten
<1>7. Types'
  BY <1>1, <1>6 DEF IInv, Types, PCs
<1>8. HangsOnlyAtEnd'
  BY <1>2, <1>5, <1>6 DEF HangsOnlyAtEnd, Asserts
<1>9. Jobs' /\ Off'
  BY <1>1, <1>2 DEF IInv, Jobs, Off, Ending, Placing, Formatting
<1>10. FormatSteps'
  <2>1. job # "append" => \A s \in 0..(fmt - 1) : Formatted(hdr'[s])
    <3>1. \A s \in 0..(fmt - 1) : s \in Sectors /\ s # fmt
      BY <1>2, ConstantFacts
    <3>2. QED
      BY <1>1, <1>6, <3>1 DEF IInv, FormatSteps, Formatting
  <2>2. QED
    BY <1>1, <1>2, <1>5, <1>6, <2>1 DEF FormatSteps, Formatted, NoEnds
<1>11. NoPlace' /\ AllMagic'
  BY <1>1, <1>2, <1>6 DEF IInv, NoPlace, AllMagic, Serving
<1>12. StoreKnown' /\ StatKnown' /\ Room'
  BY <1>1 DEF StoreKnown, StatKnown, Room, Known, Formatting
<1>13. NoLength'
  BY <1>1 DEF IInv, NoLength
<1>14. QED
  BY <1>6, <1>7, <1>8, <1>9, <1>10, <1>11, <1>12, <1>13 DEF IInv

LEMMA FreshFacts ==
    ASSUME NEW s \in Sectors, NEW old \in CurInfo
    PROVE  LET c == Fresh(s, old)
           IN  /\ c \in CurInfo /\ c.sec = s /\ c.store = EMPTY /\ c.n = 0 /\ c.used = 0
               /\ \A i \in Copies : c.stat[i] = UNUSED
<1> DEFINE c1 == [old EXCEPT !.sec = s]
           c2 == [c1 EXCEPT !.store = EMPTY]
           c3 == [c2 EXCEPT !.start = Erased]
           c4 == [c3 EXCEPT !.n = 0]
           c5 == [c4 EXCEPT !.used = 0]
           stat == [i \in Copies |-> UNUSED]
           c6 == [c5 EXCEPT !.stat = stat]
<1>1. Fresh(s, old) = c6
  BY DEF Fresh
<1>2. s \in 0..NSec /\ Erased \in FlashTime /\ 0 \in Slots
  BY ConstantFacts DEF FlashTime
<1>3. stat \in [Copies -> 0..5] /\ \A i \in Copies : stat[i] = UNUSED
  OBVIOUS
<1>4. c1 \in CurInfo /\ c1.sec = s
  BY <1>2 DEF CurInfo
<1> HIDE DEF c1, stat
<1>5. c2 \in CurInfo /\ c2.sec = s /\ c2.store = EMPTY
  BY <1>4 DEF CurInfo
<1> HIDE DEF c2
<1>6. c3 \in CurInfo /\ c3.sec = s /\ c3.store = EMPTY
  BY <1>2, <1>5 DEF CurInfo
<1> HIDE DEF c3
<1>7. c4 \in CurInfo /\ c4.sec = s /\ c4.store = EMPTY /\ c4.n = 0
  BY <1>2, <1>6 DEF CurInfo
<1> HIDE DEF c4
<1>8. c5 \in CurInfo /\ c5.sec = s /\ c5.store = EMPTY /\ c5.n = 0 /\ c5.used = 0
  BY <1>7 DEF CurInfo
<1> HIDE DEF c5
<1>9. /\ c6 \in CurInfo /\ c6.sec = s /\ c6.store = EMPTY /\ c6.n = 0 /\ c6.used = 0
      /\ c6.stat = stat
  BY <1>3, <1>8 DEF CurInfo
<1> HIDE DEF c6
<1>10. QED
  BY <1>1, <1>3, <1>9

LEMMA WriteMagicKeeps == IInv /\ WriteMagic => IInv'
<1> SUFFICES ASSUME IInv, WriteMagic PROVE IInv'
  OBVIOUS
<1>1. /\ pc = "magic" /\ slot' = slot /\ req' = req /\ result' = result
      /\ rollover' = rollover /\ cuts' = cuts /\ restarts' = restarts
  BY DEF WriteMagic, bounds
<1>2. /\ fmt \in Sectors /\ job \in {"append", "clean", "init"}
      /\ job = "append" => fmt = cur.sec /\ cur.sec # Nowhere /\ Unused /\ Serving
      /\ job # "append" => ~ Serving
      /\ \A s \in Sectors : ~ Asserts(hdr[s])
  BY <1>1, FormatFacts DEF Formatting
<1>3. /\ hdr[fmt].store = EMPTY /\ ~ hdr[fmt].magic /\ NoEnds(hdr[fmt]) /\ hdr[fmt] \in Header
      /\ hdr \in [Sectors -> Header]
  BY <1>1, <1>2 DEF IInv, FormatSteps, Types
<1> DEFINE o == hdr[fmt]
           h == [o EXCEPT !.magic = TRUE]
<1>4. hdr' = [hdr EXCEPT ![fmt] = h]
  BY DEF WriteMagic
<1>5. /\ h \in Header /\ h.store = EMPTY /\ h.magic /\ NoEnds(h)
      /\ h.store <= EMPTY /\ (h.magic => h.store >= EMPTY)
  <2>1. h \in Header
    BY <1>3 DEF Header
  <2>2. h.store = o.store /\ h.end = o.end
    BY <1>3 DEF Header
  <2>3. h.magic
    BY <1>3 DEF Header
  <2> HIDE DEF h
  <2>4. NoEnds(h)
    BY <1>3, <2>2 DEF NoEnds
  <2>5. QED
    BY <1>3, <2>1, <2>2, <2>3, <2>4
<1> HIDE DEF h
<1>6. /\ Flash' /\ hdr' \in [Sectors -> Header] /\ hdr'[fmt] = h
      /\ \A t \in Sectors : t # fmt => hdr'[t] = hdr[t]
      /\ Unused => Unused'
  <2>1. UNCHANGED slot /\ hdr[fmt].store <= EMPTY
    BY <1>1, <1>3
  <2>2. QED
    BY ONLY IInv, <1>4, <1>5, <2>1, FormatWritten
<1>7. \A s \in Sectors : ~ Asserts(hdr'[s])
  BY <1>2, <1>5, <1>6 DEF Asserts, NoEnds
<1>8. HangsOnlyAtEnd'
  BY <1>7 DEF HangsOnlyAtEnd
<1>9. cur \in CurInfo /\ slot' \in [Sectors -> [Slots -> Slot]] /\ 0 \in FlashTime
  BY <1>1, ConstantFacts DEF IInv, Types, FlashTime
<1>10. \A s \in Sectors : hdr[s].store <= EMPTY => CountIn(slot[s]) = 0
  BY EmptyCounts, CountOf
<1>11. ASSUME job = "append" PROVE IInv'
  <2>1. /\ pc' = "using" /\ job' = job /\ fmt' = fmt /\ lastTime' = lastTime /\ oldest' = oldest
        /\ cur' = Fresh(fmt, cur)
    BY <1>11 DEF WriteMagic
  <2>2. /\ cur' \in CurInfo /\ cur'.sec = fmt /\ cur'.store = EMPTY /\ cur'.n = 0 /\ cur'.used = 0
        /\ \A i \in Copies : cur'.stat[i] = UNUSED
    BY <1>2, <1>9, <2>1, FreshFacts
  <2>3. Types'
    BY <1>1, <1>2, <1>6, <1>9, <2>1, <2>2 DEF IInv, Types, PCs
  <2>4. Jobs' /\ FormatSteps' /\ Off'
    BY <1>1, <1>11, <2>1 DEF IInv, Jobs, FormatSteps, Off, Ending, Placing, Formatting
  <2>5. fmt # Nowhere
    BY <1>2, <1>11
  <2>6. NoPlace' /\ AllMagic'
    <3>1. \A s \in Sectors : s # fmt => hdr[s].magic
      BY <1>1, <1>2, <1>11 DEF IInv, AllMagic
    <3>2. \A s \in Sectors : hdr'[s].magic
      BY <1>5, <1>6, <3>1
    <3>3. QED
      BY <2>2, <2>5, <3>2 DEF NoPlace, AllMagic
  <2>7. StoreKnown'
    <3>1. CountIn(slot'[cur'.sec]) = 0
      BY <1>1, <1>2, <1>3, <1>10, <2>2
    <3>2. Count(cur.sec)' = 0
      BY <3>1 DEF Count, CountIn
    <3>3. Unused' /\ hdr'[cur'.sec].store = EMPTY
      BY <1>2, <1>5, <1>6, <1>11, <2>2
    <3>4. QED
      BY <2>1, <2>2, <3>2, <3>3 DEF StoreKnown, Ending, Placing
  <2>8. StatKnown'
    BY <1>5, <1>6, <2>1, <2>2 DEF StatKnown, Ending, NoEnds
  <2>9. NoLength' /\ Room'
    BY <2>1, <2>2 DEF NoLength, Room, Placing
  <2>10. QED
    BY <1>6, <1>8, <2>3, <2>4, <2>6, <2>7, <2>8, <2>9 DEF IInv
<1>12. ASSUME job # "append", fmt + 1 < NSec PROVE IInv'
  <2>1. /\ pc' = "erase" /\ job' = job /\ fmt' = fmt + 1 /\ lastTime' = lastTime /\ oldest' = oldest
        /\ cur' = cur
    BY <1>12 DEF WriteMagic, NextToFormat
  <2>2. fmt + 1 \in Sectors
    BY <1>2, <1>12, ConstantFacts
  <2>3. Types'
    BY <1>1, <1>6, <1>9, <2>1, <2>2 DEF IInv, Types, PCs
  <2>4. Jobs' /\ Off'
    BY <1>1, <1>2, <1>12, <2>1 DEF Jobs, Off, Ending, Placing, Formatting
  <2>5. FormatSteps'
    <3>1. \A s \in 0..(fmt - 1) : Formatted(hdr[s])
      BY <1>1, <1>12 DEF IInv, FormatSteps, Formatting
    <3>2. \A s \in 0..fmt : s \in Sectors /\ (s # fmt => s \in 0..(fmt - 1))
      BY <1>2, ConstantFacts
    <3>3. \A s \in 0..fmt : Formatted(hdr'[s])
      BY <1>5, <1>6, <3>1, <3>2 DEF Formatted
    <3>4. fmt' - 1 = fmt
      BY <1>2, <2>1, ConstantFacts
    <3>5. QED
      BY <1>12, <2>1, <3>3, <3>4 DEF FormatSteps, Formatted, NoEnds
  <2>6. ~ Serving' /\ ~ Known'
    BY <1>2, <1>12, <2>1 DEF Serving, Known
  <2>7. NoPlace' /\ AllMagic' /\ StoreKnown' /\ StatKnown' /\ Room'
    BY <2>6 DEF NoPlace, AllMagic, StoreKnown, StatKnown, Room
  <2>8. NoLength'
    BY <2>1 DEF IInv, NoLength
  <2>9. QED
    BY <1>6, <1>8, <2>3, <2>4, <2>5, <2>7, <2>8 DEF IInv
<1>13. ASSUME job # "append", ~ (fmt + 1 < NSec) PROVE IInv'
  <2>1. /\ pc' = "idle" /\ job' = "none" /\ fmt' = 0 /\ lastTime' = 0 /\ oldest' = 0
        /\ cur' = Fresh(0, cur)
    BY <1>13 DEF WriteMagic
  <2>2. /\ cur' \in CurInfo /\ cur'.sec = 0 /\ cur'.store = EMPTY /\ cur'.n = 0 /\ cur'.used = 0
        /\ \A i \in Copies : cur'.stat[i] = UNUSED
    <3>1. 0 \in Sectors /\ cur \in CurInfo
      BY <1>9, ConstantFacts
    <3>2. QED
      BY <2>1, <3>1, FreshFacts
  <2>3. Types'
    <3>1. 0 \in 0..NSec /\ 0 \in Sectors
      BY ConstantFacts
    <3>2. QED
      BY <1>1, <1>6, <1>9, <2>1, <2>2, <3>1 DEF IInv, Types, PCs
  <2>4. Jobs' /\ FormatSteps' /\ Off'
    BY <2>1 DEF Jobs, FormatSteps, Off, Ending, Placing, Formatting
  <2>5. \A s \in Sectors : hdr'[s].store = EMPTY /\ hdr'[s].magic /\ NoEnds(hdr'[s])
    <3>1. \A s \in 0..(fmt - 1) : Formatted(hdr[s])
      BY <1>1, <1>13 DEF IInv, FormatSteps, Formatting
    <3>2. \A s \in Sectors : s # fmt => s \in 0..(fmt - 1)
      BY <1>2, <1>13, ConstantFacts
    <3>3. QED
      BY <1>5, <1>6, <3>1, <3>2 DEF Formatted
  <2>6. 0 \in Sectors /\ Unused'
    BY <2>5, ConstantFacts DEF Unused
  <2>7. NoPlace' /\ AllMagic'
    <3>1. 0 # Nowhere
      BY ConstantFacts DEF Nowhere
    <3>2. QED
      BY <2>2, <2>5, <3>1 DEF NoPlace, AllMagic
  <2>8. StoreKnown'
    <3>1. CountIn(slot[0]) = 0
      <4>1. hdr[0].store <= EMPTY
        BY <1>3, <1>6, <2>5, <2>6
      <4>2. QED
        BY <1>10, <2>6, <4>1
    <3>2. CountIn(slot'[cur'.sec]) = 0
      BY <1>1, <2>2, <3>1
    <3>3. Count(cur.sec)' = 0
      BY <3>2 DEF Count, CountIn
    <3>4. hdr'[cur'.sec].store = EMPTY
      BY <2>2, <2>5, <2>6
    <3>5. QED
      BY <2>1, <2>2, <2>6, <3>3, <3>4 DEF StoreKnown, Ending, Placing
  <2>9. StatKnown'
    BY <2>1, <2>2, <2>5, <2>6 DEF StatKnown, Ending, NoEnds
  <2>10. NoLength' /\ Room'
    BY <2>1, <2>2 DEF NoLength, Room, Placing
  <2>11. QED
    BY <1>6, <1>8, <2>3, <2>4, <2>7, <2>8, <2>9, <2>10 DEF IInv
<1>14. QED
  BY <1>11, <1>12, <1>13

-----------------------------------------------------------------------------
(* fdb_tsdb_init.                                                          *)

\* An init that runs into no assertion finds no sector that could make it do so:
\* with both ends begun the sector is the only one in use and no other is suspect.
LEMMA NoneHangs ==
    ASSUME IInv, ~ InitHangs
    PROVE  \A s \in Sectors : ~ Asserts(hdr[s])
<1> SUFFICES ASSUME NEW s \in Sectors, Asserts(hdr[s]) PROVE FALSE
  OBVIOUS
<1>1. hdr[s].store = USING /\ \A t \in Sectors : hdr[t].magic
  BY DEF IInv, HangsOnlyAtEnd
<1>2. \A t \in 0..(s - 1) : t \in Sectors /\ t # s
  BY ConstantFacts
<1>3. \A t \in 0..(s - 1) : ~ Suspect(t)
  BY <1>1, <1>2 DEF IInv, Flash, AtMostOne, Suspect, InUse
<1>4. QED
  BY <1>3 DEF InitHangs

LEMMA InitAssertsKeeps == IInv /\ InitAsserts => IInv'
<1> SUFFICES ASSUME IInv, InitAsserts PROVE IInv'
  OBVIOUS
<1>1. /\ pc = "off" /\ pc' = "hung" /\ UNCHANGED flash /\ rollover' = TRUE /\ job' = job
      /\ req' = req /\ fmt' = fmt /\ result' = result /\ cur' = cur /\ lastTime' = lastTime
      /\ oldest' = oldest /\ cuts' = cuts /\ restarts' = restarts
  BY DEF InitAsserts, bounds
<1>2. /\ Flash' /\ hdr' = hdr
      /\ hdr' \in [Sectors -> Header] /\ slot' \in [Sectors -> [Slots -> Slot]]
  BY <1>1, SameFlash
<1>3. Types'
  BY <1>1, <1>2 DEF IInv, Types, PCs
<1>4. HangsOnlyAtEnd'
  BY <1>1, <1>2 DEF IInv, HangsOnlyAtEnd, Asserts
<1>5. Jobs' /\ FormatSteps' /\ Off'
  BY <1>1 DEF IInv, Jobs, FormatSteps, Off, Ending, Placing, Formatting
<1>6. ~ Serving' /\ ~ Known'
  BY <1>1 DEF Serving, Known
<1>7. NoPlace' /\ AllMagic' /\ StoreKnown' /\ StatKnown' /\ Room'
  BY <1>6 DEF NoPlace, AllMagic, StoreKnown, StatKnown, Room
<1>8. NoLength'
  BY <1>1 DEF IInv, NoLength
<1>9. QED
  BY <1>2, <1>3, <1>4, <1>5, <1>7, <1>8 DEF IInv

LEMMA InitFormatsKeeps == IInv /\ InitFormats => IInv'
<1> SUFFICES ASSUME IInv, InitFormats PROVE IInv'
  OBVIOUS
<1>1. /\ pc = "off" /\ pc' = "erase" /\ UNCHANGED flash /\ rollover' = TRUE /\ job' = "init"
      /\ req' = req /\ fmt' = 0 /\ result' = result /\ cur' = cur /\ lastTime' = lastTime
      /\ oldest' = oldest /\ cuts' = cuts /\ restarts' = restarts
  BY DEF InitFormats, bounds
<1>2. /\ Flash' /\ hdr' = hdr
      /\ hdr' \in [Sectors -> Header] /\ slot' \in [Sectors -> [Slots -> Slot]]
  BY <1>1, SameFlash
<1>3. Types'
  BY <1>1, <1>2, ConstantFacts DEF IInv, Types, PCs
<1>4. HangsOnlyAtEnd'
  BY <1>2, NoneHangs DEF InitFormats, HangsOnlyAtEnd, Asserts
<1>5. Jobs' /\ FormatSteps' /\ Off'
  BY <1>1 DEF Jobs, FormatSteps, Off, Ending, Placing, Formatting
<1>6. ~ Serving' /\ ~ Known'
  BY <1>1 DEF Serving, Known
<1>7. NoPlace' /\ AllMagic' /\ StoreKnown' /\ StatKnown' /\ Room'
  BY <1>6 DEF NoPlace, AllMagic, StoreKnown, StatKnown, Room
<1>8. NoLength'
  BY <1>1 DEF IInv, NoLength
<1>9. QED
  BY <1>2, <1>3, <1>4, <1>5, <1>7, <1>8 DEF IInv

\* The sector an init goes on with: the one in use, or else the first empty one
\* and then none is in use.
LEMMA CurrentFacts ==
    ASSUME IInv, ~ CheckFails
    PROVE  /\ \A s \in Sectors : hdr[s].magic
           /\ Current \in 0..NSec
           /\ Current = Nowhere => \A s \in Sectors : hdr[s].store \notin {EMPTY, USING}
           /\ Current = Nowhere \/ Current \in Sectors
           /\ Current # Nowhere => hdr[Current].store \in {EMPTY, USING}
           /\ Current # Nowhere /\ hdr[Current].store = EMPTY => Unused
<1>1. \A s \in Sectors : ~ Suspect(s)
  BY DEF CheckFails
<1>2. \A s \in Sectors : hdr[s].magic
  BY <1>1 DEF Suspect
<1>3. Nowhere \notin Sectors /\ Nowhere \in 0..NSec /\ Sectors \subseteq Nat /\ Sectors \subseteq 0..NSec
  BY ConstantFacts DEF Nowhere
<1> DEFINE S == InUse \cup Empties
<1>4. \A s \in Sectors : s \in S <=> hdr[s].store \in {EMPTY, USING}
  BY DEF InUse, Empties
<1>5. S \subseteq Sectors
  BY DEF InUse, Empties
<1>6. ASSUME S = {}
      PROVE  Current = Nowhere /\ \A s \in Sectors : hdr[s].store \notin {EMPTY, USING}
  BY <1>4, <1>6 DEF Current
<1>7. ASSUME S # {}
      PROVE  /\ Current \in Sectors /\ hdr[Current].store \in {EMPTY, USING}
             /\ hdr[Current].store = EMPTY => Unused
  <2>1. Current = Min(S)
    BY <1>7 DEF Current
  <2>2. Min(S) \in S /\ \A t \in S : Min(S) <= t
    <3>1. S \in SUBSET Nat
      BY <1>3, <1>5
    <3> HIDE DEF S
    <3>2. QED
      BY <1>7, <3>1, MinOfNaturals
  <2> HIDE DEF S
  <2>3. Current \in Sectors /\ hdr[Current].store \in {EMPTY, USING} /\ Current \in S
    BY <1>4, <1>5, <2>1, <2>2
  <2>4. ASSUME hdr[Current].store = EMPTY, NEW s \in Sectors, hdr[s].store = USING PROVE FALSE
    <3>1. s \in S /\ s # Current /\ Current <= s
      BY <1>4, <2>1, <2>2, <2>4
    <3>2. Current \in 0..(s - 1)
      BY <1>3, <2>3, <3>1
    <3>3. Suspect(s)
      BY <2>3, <2>4, <3>2 DEF Suspect, InUse, S
    <3>4. QED
      BY <1>1, <3>3
  <2>5. QED
    BY <2>3, <2>4 DEF Unused
<1>8. QED
  BY <1>2, <1>3, <1>6, <1>7

LEMMA OldestIsSector ==
    ASSUME IInv, ~ CheckFails
    PROVE  OldestAtInit \in 0..NSec
<1> DEFINE latest == IF Empties # {} THEN Max(Empties) ELSE Current
<1>1. latest \in 0..NSec
  <2>1. ASSUME Empties # {} PROVE Max(Empties) \in 0..NSec
    <3>1. Empties \in SUBSET (0..NSec) /\ NSec \in Nat
      BY ConstantFacts DEF Empties
    <3>2. Max(Empties) \in Empties
      BY <2>1, <3>1, MaxOfNaturals
    <3>3. QED
      BY <3>1, <3>2
  <2>2. QED
    BY <2>1, CurrentFacts
<1>2. OldestAtInit = IF latest = Nowhere THEN Nowhere ELSE NextSec(latest)
  BY DEF OldestAtInit
<1> HIDE DEF latest
<1>3. QED
  BY <1>1, <1>2, ConstantFacts DEF Nowhere, NextSec

LEMMA IteratedFacts ==
    ASSUME IInv, \A t \in Sectors : hdr[t].magic, NEW s \in Sectors, NEW stack \in CurInfo
    PROVE  Iterated(s, stack) \in CurInfo
<1> DEFINE before == {t \in 0..(s - 1) : EndSeen(t)}
<1>1. Iterated(s, stack) = IF before = {} THEN stack ELSE ReadSector(Max(before), stack, TRUE)
  BY DEF Iterated
<1>2. ASSUME before # {} PROVE Max(before) \in Sectors
  <2>1. before \in SUBSET (0..(s - 1))
    OBVIOUS
  <2> HIDE DEF before
  <2>2. /\ s \in Nat /\ \A t \in 0..(s - 1) : t \in Sectors
        /\ s - 1 \in Nat \/ 0..(s - 1) = {}
    <3>1. NSec \in Nat /\ s \in 0..(NSec - 1) /\ Sectors = 0..(NSec - 1)
      BY ConstantFacts DEF Sectors
    <3>2. QED
      BY ONLY <3>1
  <2>3. s - 1 \in Nat
    BY ONLY <1>2, <2>1, <2>2
  <2>4. Max(before) \in before
    BY <1>2, <2>1, <2>3, MaxOfNaturals
  <2>5. QED
    BY ONLY <2>1, <2>2, <2>4
<1> HIDE DEF before
<1>3. before # {} => ReadSector(Max(before), stack, TRUE) \in CurInfo
  BY <1>2, ReadFacts
<1>4. QED
  BY <1>1, <1>3

LEMMA ReadNodes ==
    ASSUME IInv, NEW s \in Sectors, hdr[s].magic, NEW old \in CurInfo,
           hdr[s].store \in {EMPTY, USING}
    PROVE  LET c == ReadSector(s, old, TRUE)
           IN  /\ c \in CurInfo
               /\ c.sec = s /\ c.store = hdr[s].store
               /\ \A i \in Copies : c.stat[i] = hdr[s].end[i].st
               /\ c.n = Count(s) /\ c.used = Used(s)
<1>1. PICK tr \in BOOLEAN : tr = TRUE
  OBVIOUS
<1> DEFINE c == ReadSector(s, old, TRUE)
           seen == tr /\ hdr[s].store = USING /\ Count(s) > 0
<1>2. /\ c \in CurInfo /\ c.sec = s /\ c.store = hdr[s].store
      /\ \A i \in Copies : c.stat[i] = hdr[s].end[i].st
      /\ c.n = IF seen THEN Count(s) ELSE 0
      /\ c.used = IF seen THEN Used(s) ELSE 0
  <2>1. c = ReadSector(s, old, tr)
    BY <1>1
  <2> HIDE DEF c
  <2>2. QED
    BY <2>1, ReadFacts
<1> HIDE DEF c
<1>3. hdr[s].store = EMPTY => Count(s) = 0 /\ Used(s) = 0
  BY EmptyCounts
<1>4. Count(s) \in Nat
  BY ConstantFacts DEF IInv, Flash, Packed
<1>5. Count(s) = 0 => Used(s) = 0
  BY UsedOf, UsedStart
<1>6. c.n = Count(s) /\ c.used = Used(s)
  BY <1>1, <1>2, <1>3, <1>4, <1>5
<1>7. QED
  BY <1>2, <1>6 DEF c

LEMMA InitTsdbFacts ==
    ASSUME IInv, InitTsdb
    PROVE  /\ \A s \in Sectors : hdr[s].magic /\ ~ Asserts(hdr[s])
           /\ cur' \in CurInfo /\ lastTime' \in FlashTime /\ cur'.sec = Current
           /\ Current = Nowhere => cur' = [cur EXCEPT !.sec = Nowhere]
           /\ Current # Nowhere =>
                 /\ Current \in Sectors /\ cur'.store = hdr[Current].store
                 /\ cur'.store \in {EMPTY, USING} /\ (cur'.store = EMPTY => Unused)
                 /\ \A i \in Copies : cur'.stat[i] = hdr[Current].end[i].st
                 /\ cur'.n = Count(Current) /\ cur'.used = Used(Current)
<1>1. ~ CheckFails /\ ~ InitHangs
  BY DEF InitTsdb
<1>2. /\ \A s \in Sectors : hdr[s].magic
      /\ Current = Nowhere \/ Current \in Sectors
      /\ Current # Nowhere => hdr[Current].store \in {EMPTY, USING}
      /\ Current # Nowhere /\ hdr[Current].store = EMPTY => Unused
  BY <1>1, CurrentFacts
<1>3. \A s \in Sectors : ~ Asserts(hdr[s])
  BY <1>1, NoneHangs
<1> DEFINE stackOf(junk) == [ZeroInfo EXCEPT !.endTime = junk]
           found(junk) == IF Current = Nowhere THEN [cur EXCEPT !.sec = Nowhere]
                          ELSE ReadSector(Current, Iterated(Current, stackOf(junk)), TRUE)
<1>4. PICK junk \in FlashTime : /\ cur' = found(junk)
                                /\ lastTime' = LastTimeAtInit(found(junk), OldestAtInit, stackOf(junk))
  BY DEF InitTsdb
<1>5. stackOf(junk) \in CurInfo
  <2>1. 0 \in FlashTime /\ 0 \in 0..NSec
    BY ConstantFacts DEF FlashTime
  <2>2. ZeroInfo \in CurInfo
    BY <2>1, ConstantFacts DEF ZeroInfo, CurInfo
  <2>3. QED
    BY <2>2 DEF CurInfo
<1> DEFINE stack == stackOf(junk)
           c == found(junk)
<1> HIDE DEF stackOf
<1>6. ASSUME Current = Nowhere
      PROVE  c = [cur EXCEPT !.sec = Nowhere] /\ c \in CurInfo /\ c.sec = Current
  <2>1. cur \in CurInfo /\ Nowhere \in 0..NSec
    BY ConstantFacts DEF IInv, Types, Nowhere
  <2>2. c = [cur EXCEPT !.sec = Nowhere]
    BY <1>6
  <2> HIDE DEF c
  <2>3. QED
    BY <1>6, <2>1, <2>2 DEF CurInfo
<1>7. ASSUME Current # Nowhere
      PROVE  /\ Current \in Sectors /\ c \in CurInfo /\ c.sec = Current
             /\ c.store = hdr[Current].store
             /\ \A i \in Copies : c.stat[i] = hdr[Current].end[i].st
             /\ c.n = Count(Current) /\ c.used = Used(Current)
  <2>1. PICK s \in Sectors : s = Current
    BY <1>2, <1>7
  <2> DEFINE old == Iterated(s, stack)
  <2>2. old \in CurInfo
    BY <1>2, <1>5, IteratedFacts
  <2>3. c = ReadSector(s, old, TRUE)
    BY <1>7, <2>1
  <2> HIDE DEF old, c
  <2>4. /\ c \in CurInfo /\ c.sec = s /\ c.store = hdr[s].store
        /\ \A i \in Copies : c.stat[i] = hdr[s].end[i].st
        /\ c.n = Count(s) /\ c.used = Used(s)
    <3>1. hdr[s].magic /\ hdr[s].store \in {EMPTY, USING}
      BY <1>2, <1>7, <2>1
    <3>2. QED
      BY <2>2, <2>3, <3>1, ReadNodes
  <2>5. QED
    BY <2>1, <2>4
<1>8. c \in CurInfo /\ c.sec = Current
  BY <1>2, <1>6, <1>7
<1>9. LastTimeAtInit(c, OldestAtInit, stack) \in FlashTime
  <2>1. c.endTime \in FlashTime /\ lastTime \in FlashTime
    BY <1>8 DEF CurInfo, IInv, Types
  <2>2. ASSUME c.store = EMPTY, OldestAtInit # c.sec
        PROVE  ReadSector(PrevSec(c.sec), stack, FALSE).endTime \in FlashTime
    <3>1. c.sec \in Sectors
      <4>1. Current # Nowhere
        <5>1. SUFFICES ASSUME Current = Nowhere PROVE FALSE
          OBVIOUS
        <5>2. Empties = {}
          BY <1>1, <5>1, CurrentFacts DEF Empties
        <5>3. OldestAtInit = Nowhere
          BY <5>1, <5>2 DEF OldestAtInit
        <5>4. QED
          BY <1>8, <2>2, <5>1, <5>3
      <4>2. QED
        BY <1>7, <1>8, <4>1
    <3>2. PICK p \in Sectors : p = PrevSec(c.sec)
      <4>1. PICK k \in Sectors : k = c.sec
        BY <3>1
      <4>2. PrevSec(k) \in Sectors
        BY ConstantFacts DEF PrevSec, Sectors
      <4>3. QED
        BY <4>1, <4>2
    <3> DEFINE d == ReadSector(p, stack, FALSE)
    <3>3. d \in CurInfo
      BY <1>2, <1>5, ReadFacts
    <3> HIDE DEF d
    <3>4. d.endTime \in FlashTime
      BY <3>3 DEF CurInfo
    <3>5. QED
      BY <3>2, <3>4 DEF d
  <2> HIDE DEF c, stack
  <2>3. QED
    BY <2>1, <2>2 DEF LastTimeAtInit
<1>10. cur' = c /\ lastTime' = LastTimeAtInit(c, OldestAtInit, stack)
  BY <1>4
<1> HIDE DEF c, stack
<1>11. QED
  BY <1>2, <1>3, <1>6, <1>7, <1>8, <1>9, <1>10

LEMMA InitTsdbKeeps == IInv /\ InitTsdb => IInv'
<1> SUFFICES ASSUME IInv, InitTsdb PROVE IInv'
  OBVIOUS
<1>1. /\ pc = "off" /\ pc' = "idle" /\ UNCHANGED flash /\ rollover' = TRUE /\ job' = job
      /\ req' = req /\ fmt' = fmt /\ result' = result /\ oldest' = OldestAtInit
      /\ cuts' = cuts /\ restarts' = restarts
  BY DEF InitTsdb, bounds
<1>2. /\ Flash' /\ hdr' = hdr /\ slot' = slot
      /\ \A t \in Sectors : Count(t)' = Count(t)
      /\ hdr' \in [Sectors -> Header] /\ slot' \in [Sectors -> [Slots -> Slot]]
      /\ Unused' <=> Unused
  BY <1>1, SameFlash
<1>3. /\ \A s \in Sectors : hdr[s].magic /\ ~ Asserts(hdr[s])
      /\ cur' \in CurInfo /\ lastTime' \in FlashTime /\ cur'.sec = Current
      /\ Current = Nowhere => cur' = [cur EXCEPT !.sec = Nowhere]
  BY InitTsdbFacts
<1>4. Current # Nowhere =>
         /\ Current \in Sectors /\ cur'.store = hdr[Current].store
         /\ cur'.store \in {EMPTY, USING} /\ (cur'.store = EMPTY => Unused)
         /\ \A i \in Copies : cur'.stat[i] = hdr[Current].end[i].st
         /\ cur'.n = Count(Current) /\ cur'.used = Used(Current)
  BY InitTsdbFacts
<1>5. ~ CheckFails /\ job = "none"
  BY <1>1 DEF InitTsdb, IInv, Jobs
<1>6. Types'
  <2>1. oldest' \in 0..NSec
    BY <1>1, <1>5, OldestIsSector
  <2>2. QED
    BY <1>1, <1>2, <1>3, <2>1 DEF IInv, Types, PCs
<1>7. HangsOnlyAtEnd'
  BY <1>2, <1>3 DEF HangsOnlyAtEnd, Asserts
<1>8. Jobs' /\ FormatSteps' /\ Off'
  BY <1>1, <1>5 DEF Jobs, FormatSteps, Off, Ending, Placing, Formatting
<1>9. cur \in CurInfo
  BY DEF IInv, Types
<1>10. Current = Nowhere => cur'.store = cur.store /\ cur'.n = cur.n /\ cur'.used = cur.used
  BY <1>3, <1>9 DEF CurInfo
<1>11. NoPlace'
  <2> SUFFICES ASSUME Current = Nowhere PROVE cur.store \notin {EMPTY, USING}
    BY <1>1, <1>3, <1>10 DEF NoPlace
  <2>1. \A s \in Sectors : hdr[s].store \notin {EMPTY, USING}
    BY <1>5, CurrentFacts
  <2>2. cur.sec \in 0..NSec
    BY <1>9 DEF CurInfo
  <2>3. cur.sec # Nowhere => cur.sec \in Sectors
    BY <2>2, ConstantFacts DEF Nowhere
  <2>4. QED
    BY <1>1, <2>1, <2>3 DEF IInv, Off
<1>12. AllMagic'
  BY <1>2, <1>3 DEF AllMagic
<1>13. StoreKnown'
  <2> SUFFICES ASSUME Known' PROVE StoreKnown'
    BY DEF StoreKnown
  <2>1. Current # Nowhere /\ cur'.sec = Current
    BY <1>3 DEF Known
  <2>2. CountIn(slot'[cur'.sec]) = Count(Current)
    BY <1>2, <2>1, CountOf
  <2>3. Count(cur.sec)' = Count(Current)
    BY <2>2 DEF Count, CountIn
  <2>4. QED
    BY <1>1, <1>2, <1>4, <2>1, <2>3 DEF StoreKnown, Ending, Placing
<1>14. StatKnown'
  BY <1>1, <1>2, <1>3, <1>4 DEF StatKnown, Known, Ending
<1>15. NoLength'
  <2>1. Current = Nowhere => (cur'.n = 0 => cur'.used = 0)
    BY <1>10 DEF IInv, NoLength
  <2>2. Current # Nowhere => (cur'.n = 0 => cur'.used = 0)
    BY <1>4, UsedOf, UsedStart
  <2>3. QED
    BY <2>1, <2>2 DEF NoLength
<1>16. Room'
  BY <1>1 DEF Room, Placing
<1>17. QED
  BY <1>2, <1>6, <1>7, <1>8, <1>11, <1>12, <1>13, <1>14, <1>15, <1>16 DEF IInv

-----------------------------------------------------------------------------
(* The theorems.                                                           *)

LEMMA InitHolds == Init => IInv
<1> SUFFICES ASSUME Init PROVE IInv
  OBVIOUS
<1>1. /\ pc = "off" /\ job = "none" /\ req = NoLog /\ fmt = 0 /\ result = "none" /\ cur = ZeroInfo
      /\ lastTime = 0 /\ oldest = 0 /\ rollover = TRUE /\ cuts = 0 /\ restarts = 0
      /\ hdr = [s \in Sectors |-> FormattedHdr]
      /\ slot = [s \in Sectors |-> [n \in Slots |-> Blank]]
  BY DEF Init
<1>2. FormattedHdr \in Header /\ FormattedHdr.store = EMPTY /\ NoEnds(FormattedHdr)
  <2> DEFINE mid == [ErasedHdr EXCEPT !.store = EMPTY]
  <2>1. mid \in Header /\ mid.store = EMPTY /\ NoEnds(mid)
    BY HeaderTypes DEF Header, NoEnds
  <2>2. FormattedHdr = [mid EXCEPT !.magic = TRUE]
    BY DEF FormattedHdr, ErasedHdr
  <2> HIDE DEF mid
  <2>3. QED
    BY <2>1, <2>2 DEF Header, NoEnds
<1>3. Blank \in Slot /\ Blank.st = 0
  BY ConstantFacts DEF Blank, Slot, FlashTime
<1>4. \A s \in Sectors : hdr[s] = FormattedHdr /\ slot[s] = [n \in Slots |-> Blank]
  BY <1>1
<1>5. hdr \in [Sectors -> Header] /\ slot \in [Sectors -> [Slots -> Slot]]
  BY <1>1, <1>2, <1>3
<1>6. cur \in CurInfo /\ cur.store = 0 /\ cur.n = 0 /\ cur.used = 0
  BY <1>1, ConstantFacts DEF ZeroInfo, CurInfo, FlashTime
<1>7. NoLog \in [log : Logs, time : 0..MaxTime]
  <2>1. (CHOOSE l \in Logs : TRUE) \in Logs
    BY TsdbAssumption
  <2>2. 0 \in 0..MaxTime
    BY ConstantFacts
  <2>3. QED
    BY <2>1, <2>2 DEF NoLog
<1>8. Types
  <2>1. lastTime \in FlashTime /\ oldest \in 0..NSec /\ cuts \in 0..MaxCuts
        /\ restarts \in 0..MaxRestarts /\ fmt \in Sectors
    BY <1>1, ConstantFacts DEF FlashTime
  <2>2. QED
    BY <1>1, <1>5, <1>6, <1>7, <2>1 DEF Types, PCs
<1>9. Packed
  <2> SUFFICES ASSUME NEW s \in Sectors
               PROVE  /\ Count(s) \in Slots
                      /\ \A n \in Slots : slot[s][n].st >= WRITE <=> n < Count(s)
    BY DEF Packed
  <2>1. 0 \in Slots /\ Slots \subseteq Nat
    BY ConstantFacts
  <2>2. \A n \in Slots : slot[s][n].st = 0
    BY <1>3, <1>4
  <2>3. \A n \in Slots : slot[s][n].st \in Int /\ (slot[s][n].st >= WRITE <=> n < 0)
    BY <2>1, <2>2
  <2>4. Count(s) = 0
    BY <2>1, <2>3, CountIs, CountOf
  <2>5. QED
    BY <2>1, <2>3, <2>4
<1>10. Flash
  BY <1>2, <1>4, <1>9 DEF Flash, Headers, NoNodes, AtMostOne
<1>11. HangsOnlyAtEnd
  BY <1>2, <1>4 DEF HangsOnlyAtEnd, Asserts, NoEnds
<1>12. Jobs /\ FormatSteps /\ Off
  BY <1>1, <1>6 DEF Jobs, FormatSteps, Off, Ending, Placing, Formatting
<1>13. ~ Serving /\ ~ Known
  BY <1>1 DEF Serving, Known
<1>14. NoPlace /\ AllMagic /\ StoreKnown /\ StatKnown /\ Room /\ NoLength
  BY <1>6, <1>13 DEF NoPlace, AllMagic, StoreKnown, StatKnown, Room, NoLength
<1>15. QED
  BY <1>8, <1>10, <1>11, <1>12, <1>14 DEF IInv

LEMMA StepKeeps == IInv /\ [Next]_vars => IInv'
<1> SUFFICES ASSUME IInv, [Next]_vars PROVE IInv'
  OBVIOUS
<1>1. CASE UNCHANGED vars
  <2>1. /\ UNCHANGED <<hdr, pc, job, req, fmt, cur>> /\ UNCHANGED flash
        /\ result' = result /\ lastTime' = lastTime /\ oldest' = oldest /\ rollover' = rollover
        /\ cuts' = cuts /\ restarts' = restarts
    BY <1>1 DEF vars, flash, ram, bounds
  <2>2. /\ Flash' /\ \A t \in Sectors : Count(t)' = Count(t)
        /\ hdr' \in [Sectors -> Header] /\ slot' \in [Sectors -> [Slots -> Slot]]
    BY <2>1, SameFlash
  <2>3. Types'
    BY <2>1, <2>2 DEF IInv, Types
  <2>4. QED
    BY <2>1, <2>2, <2>3, SameCall
<1>2. CASE Step
  BY <1>2, EndPrepareKeeps, EndBodyKeeps, EndCommitKeeps, MarkLastFullKeeps, MarkFullKeeps,
     UseSectorKeeps, StartTimeKeeps, NodeStepKeeps, CommitKeeps,
     WriteNowhereKeeps, EraseKeeps, WriteEmptyKeeps, WriteMagicKeeps, InitTsdbKeeps,
     InitFormatsKeeps, InitAssertsKeeps DEF Step
<1>3. CASE Call
  <2>1. ASSUME NEW l \in Logs, NEW t \in Times,
               Refuse(l, t) \/ RefuseFull(l, t) \/ BeginAppend(l, t)
        PROVE  IInv'
    BY <2>1, RefuseKeeps, BeginAppendKeeps
  <2>2. QED
    BY <1>3, <2>1, BeginCleanKeeps, DeinitKeeps, SetRolloverKeeps, TslSetStatusKeeps DEF Call
<1>4. CASE PowerCut
  BY <1>4, PowerCutKeeps
<1>5. QED
  BY <1>1, <1>2, <1>3, <1>4 DEF Next

\* The state of a database on flash and in RAM, between any two programs and
\* whatever power cuts, restarts and statuses of other threads came before.
THEOREM TsdbInductive == Spec => []IInv
BY InitHolds, StepKeeps, PTL DEF Spec

\* At most one sector is in use, whenever power fails and however often.
THEOREM NeverTwoInUse == Spec => []OneInUse
<1>1. IInv => OneInUse
  <2> SUFFICES ASSUME IInv PROVE OneInUse
    OBVIOUS
  <2>1. CASE InUse = {}
    BY <2>1, FS_EmptySet DEF OneInUse
  <2>2. CASE InUse # {}
    <3>1. PICK s : s \in InUse
      BY <2>2
    <3>2. InUse = {s}
      BY <3>1 DEF IInv, Flash, AtMostOne, InUse
    <3>3. Cardinality({s}) = 1
      BY FS_Singleton
    <3>4. Cardinality(InUse) = 1
      BY <3>2, <3>3, Zenon
    <3> HIDE DEF InUse
    <3>5. QED
      BY <3>4 DEF OneInUse
  <2>3. QED
    BY <2>1, <2>2
<1>2. QED
  BY <1>1, TsdbInductive, PTL

\* Once the init is over, no sector read_sector_info is called on has both copies
\* of its end begun and none complete: FDB_ASSERT(0) waits for an init.
THEOREM NoAssertAfterInit == Spec => []AssertsOnlyAtInit
<1>1. IInv => AssertsOnlyAtInit
  BY DEF IInv, HangsOnlyAtEnd, AssertsOnlyAtInit
<1>2. QED
  BY <1>1, TsdbInductive, PTL

\* No step touches a stored log, but for a user status that rises, unless its
\* whole sector is erased.
KeptStep ==
    \A s \in Sectors, n \in Slots :
        /\ <<s, n>> \in Stored
        /\ slot'[s] # [m \in Slots |-> Blank]
        => /\ slot'[s][n].time = slot[s][n].time
           /\ slot'[s][n].data = slot[s][n].data
           /\ slot'[s][n].st >= slot[s][n].st

LEMMA StatusesAreInts == IInv => \A s \in Sectors, n \in Slots : slot[s][n].st \in Int
<1> SUFFICES ASSUME IInv PROVE \A s \in Sectors, n \in Slots : slot[s][n].st \in Int
  OBVIOUS
<1>1. slot \in [Sectors -> [Slots -> Slot]]
  BY DEF IInv, Types
<1>2. QED
  BY <1>1 DEF Slot

LEMMA SameSlotsKeep == ASSUME IInv, UNCHANGED slot PROVE KeptStep
<1>1. SUFFICES ASSUME NEW s \in Sectors, NEW n \in Slots
               PROVE  slot'[s][n] = slot[s][n] /\ slot[s][n].st \in Int
  BY <1>1 DEF KeptStep
<1>2. QED
  BY StatusesAreInts

\* The index being written is behind the nodes.
LEMMA NodeKeeps ==
    ASSUME IInv, pc \in Placing, cur.sec # Nowhere, NEW v,
           slot' = [slot EXCEPT ![cur.sec][cur.n] = v]
    PROVE  KeptStep
<1>1. cur.sec \in Sectors /\ cur.n \in Slots /\ cur.n = Count(cur.sec)
  BY Place
<1>2. SUFFICES ASSUME NEW s \in Sectors, NEW n \in Slots, <<s, n>> \in Stored
               PROVE  slot'[s][n] = slot[s][n]
  BY <1>2, StatusesAreInts DEF KeptStep
<1>3. n < Count(s)
  BY <1>2 DEF Stored
<1>4. ~ (s = cur.sec /\ n = cur.n)
  BY <1>1, <1>3, ConstantFacts
<1>5. slot \in [Sectors -> [Slots -> Slot]]
  BY DEF IInv, Types
<1>6. QED
  BY <1>1, <1>4, <1>5

LEMMA EraseKeepsRest == IInv /\ Erase => KeptStep
<1> SUFFICES ASSUME IInv, Erase, NEW s \in Sectors, NEW n \in Slots,
                    slot'[s] # [m \in Slots |-> Blank]
             PROVE  slot'[s][n] = slot[s][n]
  BY StatusesAreInts DEF KeptStep
<1>1. fmt \in Sectors /\ slot \in [Sectors -> [Slots -> Slot]]
  BY DEF IInv, Types
<1>2. slot' = [slot EXCEPT ![fmt] = [m \in Slots |-> Blank]]
  BY DEF Erase
<1>3. s # fmt
  BY <1>1, <1>2
<1>4. QED
  BY <1>1, <1>2, <1>3

LEMMA StatusRises ==
    ASSUME NEW s \in Sectors, NEW n \in Slots, NEW st \in Marks, IInv, TslSetStatus(s, n, st)
    PROVE  KeptStep
<1>1. PICK v \in Slot : /\ slot' = [slot EXCEPT ![s][n] = v] /\ v.st >= slot[s][n].st
                        /\ v.time = slot[s][n].time /\ v.data = slot[s][n].data
  BY StatusFacts
<1>2. slot \in [Sectors -> [Slots -> Slot]]
  BY DEF IInv, Types
<1> SUFFICES ASSUME NEW t \in Sectors, NEW m \in Slots
             PROVE  /\ slot'[t][m].time = slot[t][m].time
                    /\ slot'[t][m].data = slot[t][m].data
                    /\ slot'[t][m].st >= slot[t][m].st
  BY DEF KeptStep
<1>3. slot[t][m] \in Slot /\ slot[t][m].st \in Int
  <2>1. slot[t][m] \in Slot
    BY <1>2
  <2>2. QED
    BY <2>1 DEF Slot
<1>4. CASE t = s /\ m = n
  BY <1>1, <1>2, <1>4
<1>5. CASE ~ (t = s /\ m = n)
  <2>1. slot'[t][m] = slot[t][m]
    BY <1>1, <1>2, <1>5
  <2>2. QED
    BY <1>3, <2>1
<1>6. QED
  BY <1>4, <1>5

LEMMA PlacedKeeps ==
    ASSUME IInv, IdxPrepare \/ IdxBody \/ WriteLog \/ Commit
    PROVE  KeptStep
<1>1. CASE IdxPrepare \/ IdxBody \/ WriteLog
  BY <1>1, NodeFacts, NodeKeeps
<1>2. CASE Commit
  <2>1. pc \in Placing /\ pc # "idle" /\ pc # "idx_pre"
    BY <1>2 DEF Commit, Placing
  <2>2. cur.sec # Nowhere
    BY <2>1, ServingFacts
  <2>3. QED
    BY <1>2, <2>1, <2>2, NodeKeeps DEF Commit
<1>3. QED
  BY <1>1, <1>2

LEMMA NextKeeps == IInv /\ [Next]_vars => KeptStep
<1> SUFFICES ASSUME IInv, [Next]_vars PROVE KeptStep
  OBVIOUS
<1>1. CASE UNCHANGED slot
  BY <1>1, SameSlotsKeep
<1>2. CASE IdxPrepare \/ IdxBody \/ WriteLog \/ Commit
  BY <1>2, PlacedKeeps
<1>3. CASE Erase
  BY <1>3, EraseKeepsRest
<1>4. CASE Step
  BY <1>1, <1>2, <1>3, <1>4
     DEF Step, EndPrepare, EndBody, EndCommit, MarkLastFull, MarkFull, UseSector, StartTime,
         WriteNowhere, WriteEmpty, WriteMagic, InitTsdb, InitFormats, InitAsserts, flash
<1>5. CASE Call
  <2>1. ASSUME NEW l \in Logs, NEW t \in Times,
               Refuse(l, t) \/ RefuseFull(l, t) \/ BeginAppend(l, t)
        PROVE  UNCHANGED slot
    BY <2>1 DEF Refuse, RefuseFull, BeginAppend, flash
  <2>2. ASSUME NEW b \in Rollovers, SetRollover(b) PROVE UNCHANGED slot
    BY <2>2 DEF SetRollover, flash
  <2>3. ASSUME BeginClean \/ Deinit PROVE UNCHANGED slot
    BY <2>3 DEF BeginClean, Deinit, flash
  <2>4. QED
    BY <1>1, <1>5, <2>1, <2>2, <2>3, StatusRises DEF Call
<1>6. CASE PowerCut
  BY <1>1, <1>6 DEF PowerCut, flash
<1>7. CASE UNCHANGED vars
  BY <1>1, <1>7 DEF vars, flash
<1>8. QED
  BY <1>4, <1>5, <1>6, <1>7 DEF Next

\* A stored log is never touched again, but for its user status, which only
\* rises, until its whole sector is erased: no program of tsl_append,
\* format_sector or fdb_tsl_set_status reaches the cells of another log.
THEOREM StoredLogsKept == Spec => StoredLogsStay
<1>1. IInv /\ [Next]_vars => [KeptStep]_vars
  BY NextKeeps
<1>2. Spec => [][KeptStep]_vars
  BY <1>1, TsdbInductive, PTL DEF Spec
<1>3. QED
  BY <1>2 DEF StoredLogsStay, KeptStep

-----------------------------------------------------------------------------
(* The room that cur_sec knows of.  The length of a log is read back from  *)
(* its index: it is the length that was written if all logs have one size, *)
(* or if power never fails between a log and the status that completes it. *)

LengthsRead == \/ \A l, m \in Logs : Size[l] = Size[m]
               \/ "commit" \notin CutAt

\* The log just written has the length that is about to be counted.
Landed == pc = "commit" => LenOf(slot[cur.sec][cur.n].data) = Size[req.log]
\* Behind the nodes of the sector in use there is no log but the one under way.
TailBare == "commit" \notin CutAt =>
    \A s \in Sectors, n \in Slots :
        /\ hdr[s].store = USING
        /\ n >= Count(s)
        => slot[s][n].data = {} \/ (pc = "commit" /\ s = cur.sec /\ n = cur.n)
Fits == \A s \in Sectors : hdr[s].store = USING => Count(s) * IdxLen + Used(s) <= Cap
UsedKnown == Known /\ cur.store = USING => cur.used = Used(cur.sec)
UsedFits == cur.used <= Cap

LInv == Landed /\ TailBare /\ Fits /\ UsedKnown /\ UsedFits

LEMMA OneLength ==
    ASSUME LengthsRead, NEW d \in SUBSET Logs, NEW l \in Logs,
           "commit" \notin CutAt => d = {}
    PROVE  LenOf(d \cup {l}) = Size[l]
<1>1. d \cup {l} # {} /\ d \cup {l} \subseteq Logs
  OBVIOUS
<1>2. PICK m : m = CHOOSE x \in d \cup {l} : TRUE
  OBVIOUS
<1>3. m \in d \cup {l}
  BY <1>2
<1>4. LenOf(d \cup {l}) = Size[m]
  BY <1>1, <1>2 DEF LenOf
<1>5. QED
  BY <1>3, <1>4 DEF LengthsRead

\* A step that writes no log and puts no sector in use.
LEMMA LengthsStay ==
    ASSUME IInv, IInv', LInv,
           \A t \in Sectors : hdr'[t].store = USING =>
               /\ hdr[t].store = USING /\ Count(t)' = Count(t)
               /\ \A m \in Slots : slot'[t][m].data = slot[t][m].data,
           pc' = "commit" => UNCHANGED <<hdr, pc, cur, req>>,
           pc = "commit" => UNCHANGED <<hdr, pc, cur, req>> \/ "commit" \in CutAt,
           Known' /\ cur'.store = USING =>
               Known /\ cur.store = USING /\ cur'.sec = cur.sec /\ cur'.used = cur.used,
           cur'.used <= Cap
    PROVE  LInv'
<1>1. \A t \in Sectors : hdr'[t].store = USING => Used(t)' = Used(t)
  <2> SUFFICES ASSUME NEW t \in Sectors, hdr'[t].store = USING PROVE Used(t)' = Used(t)
    OBVIOUS
  <2>1. Count(t) \in Slots /\ Count(t)' = Count(t)
    BY DEF IInv, Flash, Packed
  <2>2. \A m \in Slots : m < Count(t) => slot'[t][m].data = slot[t][m].data
    OBVIOUS
  <2>3. UsedIn(slot'[t], Count(t)) = UsedIn(slot[t], Count(t))
    BY <2>1, <2>2, UsedAgree
  <2>4. QED
    BY <2>1, <2>3, UsedOf, UsedOfNext
<1>2. Landed'
  <2> SUFFICES ASSUME pc' = "commit"
               PROVE  LenOf(slot'[cur'.sec][cur'.n].data) = Size[req'.log]
    BY DEF Landed, LenOf
  <2>1. UNCHANGED <<hdr, pc, cur, req>> /\ pc = "commit" /\ pc \in Placing
    BY DEF Placing
  <2>2. cur.sec # Nowhere
    BY <2>1, ServingFacts
  <2>3. cur.sec \in Sectors /\ cur.n \in Slots /\ hdr[cur.sec].store = USING
    BY <2>1, <2>2, Place
  <2>4. slot'[cur.sec][cur.n].data = slot[cur.sec][cur.n].data
    BY <2>1, <2>3
  <2>5. QED
    BY <2>1, <2>4 DEF LInv, Landed
<1>3. TailBare'
  <2> SUFFICES ASSUME "commit" \notin CutAt, NEW s \in Sectors, NEW n \in Slots,
                      hdr'[s].store = USING, n >= Count(s)'
               PROVE  slot'[s][n].data = {} \/ (pc' = "commit" /\ s = cur'.sec /\ n = cur'.n)
    BY DEF TailBare
  <2>1. hdr[s].store = USING /\ n >= Count(s) /\ slot'[s][n].data = slot[s][n].data
    OBVIOUS
  <2>2. slot[s][n].data = {} \/ (pc = "commit" /\ s = cur.sec /\ n = cur.n)
    BY <2>1 DEF LInv, TailBare
  <2>3. pc = "commit" => pc' = "commit" /\ cur' = cur
    OBVIOUS
  <2>4. QED
    BY <2>1, <2>2, <2>3
<1>4. Fits'
  <2> SUFFICES ASSUME NEW s \in Sectors, hdr'[s].store = USING
               PROVE  Count(s)' * IdxLen + Used(s)' <= Cap
    BY DEF Fits
  <2>1. hdr[s].store = USING /\ Count(s)' = Count(s) /\ Used(s)' = Used(s)
    BY <1>1
  <2>2. QED
    BY <2>1 DEF LInv, Fits
<1>5. UsedKnown'
  <2> SUFFICES ASSUME Known', cur'.store = USING
               PROVE  cur'.used = Used(cur.sec)'
    BY DEF UsedKnown
  <2>1. Known /\ cur.store = USING /\ cur'.sec = cur.sec /\ cur'.used = cur.used
    OBVIOUS
  <2>2. hdr'[cur.sec].store = USING
    BY <2>1 DEF IInv, StoreKnown
  <2>3. cur.sec \in Sectors
    BY <2>1, ServingFacts DEF Known
  <2>4. PICK s \in Sectors : s = cur.sec
    BY <2>3
  <2>5. UsedIn(slot'[s], Count(s)') = UsedIn(slot[s], Count(s))
    BY <1>1, <2>2, <2>4, UsedOf, UsedOfNext
  <2>6. Used(cur.sec) = UsedIn(slot[s], Count(s))
    BY <2>4, UsedOf
  <2>7. Used(cur.sec)' = UsedIn(slot'[cur'.sec], CountIn(slot'[cur'.sec]))
    BY DEF Used, UsedIn, Count, CountIn
  <2>8. Count(s)' = CountIn(slot'[s])
    BY CountOfNext
  <2>9. QED
    BY <2>1, <2>4, <2>5, <2>6, <2>7, <2>8 DEF LInv, UsedKnown
<1>6. QED
  BY <1>2, <1>3, <1>4, <1>5 DEF LInv, UsedFits

\* Steps of a call that change neither cur_sec nor the logs.
LEMMA QuietLengths ==
    ASSUME IInv, IInv', LInv, UNCHANGED <<slot, cur>>, pc # "commit", pc' # "commit",
           \A t \in Sectors : hdr'[t].store = USING => hdr[t].store = USING,
           Known' => Known
    PROVE  LInv'
<1>1. cur' = cur /\ slot' = slot
  OBVIOUS
<1>2. \A t \in Sectors : Count(t)' = Count(t)
  BY SlotsStay
<1>3. cur'.used <= Cap
  BY <1>1 DEF LInv, UsedFits
<1>4. QED
  BY <1>1, <1>2, <1>3, LengthsStay

LEMMA CallLengths ==
    ASSUME IInv, IInv', LInv, NEW l \in Logs, NEW t \in Times,
           Refuse(l, t) \/ RefuseFull(l, t) \/ BeginAppend(l, t)
    PROVE  LInv'
<1>1. /\ UNCHANGED <<slot, cur>> /\ hdr' = hdr /\ pc = "idle" /\ pc' # "commit"
  BY DEF Refuse, RefuseFull, BeginAppend, flash, ram
<1>2. Known' => Known
  BY <1>1 DEF IInv, Jobs, Known, Serving, Formatting
<1>3. QED
  BY <1>1, <1>2, QuietLengths

LEMMA OtherCallLengths ==
    ASSUME IInv, IInv', LInv, BeginClean \/ Deinit \/ \E b \in Rollovers : SetRollover(b)
    PROVE  LInv'
<1>1. /\ UNCHANGED <<slot, cur>> /\ hdr' = hdr /\ pc = "idle" /\ pc' # "commit"
  BY DEF BeginClean, Deinit, SetRollover, flash, ram
<1>2. Known' => Known
  BY <1>1 DEF IInv, Jobs, Known, Serving, Formatting
<1>3. QED
  BY <1>1, <1>2, QuietLengths

LEMMA EndLengths ==
    ASSUME IInv, IInv', LInv, EndPrepare \/ EndBody \/ EndCommit
    PROVE  LInv'
<1>1. /\ UNCHANGED <<slot, cur>> /\ pc \in Ending /\ pc # "commit" /\ pc' # "commit" /\ job' = job
  BY DEF EndPrepare, EndBody, EndCommit, ram, Ending
<1>2. Known' => Known
  BY <1>1 DEF Known, Serving, Ending, Formatting
<1>3. hdr \in [Sectors -> Header]
  BY DEF IInv, Types
<1>4. \A t \in Sectors : hdr'[t].store = hdr[t].store
  <2>1. PICK x : hdr' = [hdr EXCEPT ![cur.sec].end = x]
    BY DEF EndPrepare, EndBody, EndCommit
  <2>2. QED
    BY <1>3, <2>1 DEF Header
<1>5. QED
  BY <1>1, <1>2, <1>4, QuietLengths

\* The sector after a full one is read without its nodes.
LEMMA NextUnread ==
    ASSUME IInv, MarkFull
    PROVE  cur'.used = 0
<1>1. pc = "full" /\ slot' = slot /\ hdr' = FullHdr
  BY DEF MarkFull
<1>2. cur.sec \in Sectors /\ \A t \in Sectors : hdr[t].magic
  BY <1>1, FullPlace
<1>3. PICK s \in Sectors : s = NextSec(cur.sec)
  BY <1>2, NextSecFacts
<1>4. cur' = ReadSector(s, Full, FALSE) /\ hdr[s].magic
  BY <1>2, <1>3 DEF MarkFull
<1>5. QED
  BY <1>4 DEF ReadSector

LEMMA MarkLengths ==
    ASSUME IInv, IInv', LInv, MarkLastFull \/ MarkFull
    PROVE  LInv'
<1>1. slot' = slot /\ hdr' = FullHdr /\ pc = "full" /\ pc' # "commit"
  BY DEF MarkLastFull, MarkFull
<1>2. \A t \in Sectors : Count(t)' = Count(t)
  BY <1>1, SlotsStay
<1>3. \A t \in Sectors : hdr'[t].store = USING => hdr[t].store = USING
  BY <1>1, FullPlace
<1>4. (Known' => cur'.store # USING) /\ cur'.used <= Cap
  <2>1. CASE MarkLastFull
    <3>1. cur' = Full /\ Full.store = FULL /\ Full.used = cur.used
      BY <2>1 DEF MarkLastFull, Full, IInv, Types, CurInfo
    <3>2. QED
      BY <3>1 DEF LInv, UsedFits
  <2>2. CASE MarkFull
    <3>1. pc' = "erase" \/ cur'.store = EMPTY
      BY <2>2 DEF MarkFull
    <3>2. cur'.used = 0
      BY <1>1, <2>2, NextUnread
    <3>3. QED
      BY <3>1, <3>2, ConstantFacts DEF Known, Formatting
  <2>3. QED
    BY <2>1, <2>2
<1>5. QED
  BY <1>1, <1>2, <1>3, <1>4, LengthsStay

LEMMA StartTimeLengths ==
    ASSUME IInv, IInv', LInv, StartTime
    PROVE  LInv'
<1>1. /\ UNCHANGED <<slot, cur>> /\ pc = "start" /\ pc' = "idx_pre" /\ job' = job
      /\ hdr' = [hdr EXCEPT ![cur.sec].start = And(@, req.time)]
  BY DEF StartTime, ram
<1>2. Known' => Known
  BY <1>1 DEF Known, Serving, Formatting
<1>3. \A t \in Sectors : hdr'[t].store = hdr[t].store
  BY <1>1 DEF IInv, Types, Header
<1>4. QED
  BY <1>1, <1>2, <1>3, QuietLengths

LEMMA NowhereLengths ==
    ASSUME IInv, IInv', LInv, WriteNowhere
    PROVE  LInv'
<1>1. /\ UNCHANGED <<slot, cur>> /\ pc = "idx_pre" /\ pc' = "idle" /\ cur.sec = Nowhere
      /\ hdr' = [hdr EXCEPT ![0].magic = FALSE]
  BY DEF WriteNowhere, ram
<1>2. ~ Known'
  BY <1>1 DEF Known, Nowhere
<1>3. \A t \in Sectors : hdr'[t].store = hdr[t].store
  BY <1>1 DEF IInv, Types, Header
<1>4. QED
  BY <1>1, <1>2, <1>3, QuietLengths

LEMMA WriteEmptyLengths ==
    ASSUME IInv, IInv', LInv, WriteEmpty
    PROVE  LInv'
<1>1. /\ UNCHANGED <<slot, cur>> /\ pc = "empty" /\ pc' = "magic"
      /\ hdr' = [hdr EXCEPT ![fmt].store = Program(@, EMPTY)]
  BY DEF WriteEmpty, ram
<1>2. ~ Known'
  BY <1>1 DEF Known, Formatting
<1>3. \A t \in Sectors : hdr'[t].store = USING => hdr[t].store = USING
  BY <1>1 DEF IInv, Types, Header, Program
<1>4. QED
  BY <1>1, <1>2, <1>3, QuietLengths

LEMMA WriteMagicLengths ==
    ASSUME IInv, IInv', LInv, WriteMagic
    PROVE  LInv'
<1>1. /\ slot' = slot /\ pc = "magic" /\ pc' # "commit"
      /\ hdr' = [hdr EXCEPT ![fmt].magic = TRUE]
  BY DEF WriteMagic
<1>2. \A t \in Sectors : Count(t)' = Count(t)
  BY <1>1, SlotsStay
<1>3. \A t \in Sectors : hdr'[t].store = hdr[t].store
  BY <1>1 DEF IInv, Types, Header
<1>4. /\ Cap \in Nat /\ 0 \in Sectors /\ fmt \in Sectors /\ cur \in CurInfo
      /\ cur.used <= Cap
  BY ConstantFacts DEF IInv, Types, LInv, UsedFits
<1>5. (Known' => cur'.store # USING) /\ cur'.used <= Cap
  <2>1. CASE job = "append"
    <3>1. cur' = Fresh(fmt, cur)
      BY <2>1 DEF WriteMagic
    <3>2. cur'.store = EMPTY /\ cur'.used = 0
      BY <1>4, <3>1, FreshFacts
    <3>3. QED
      BY <1>4, <3>2
  <2>2. CASE job # "append" /\ fmt + 1 < NSec
    BY <1>4, <2>2 DEF WriteMagic, Known, Formatting
  <2>3. CASE job # "append" /\ ~ (fmt + 1 < NSec)
    <3>1. cur' = Fresh(0, cur)
      BY <2>3 DEF WriteMagic
    <3>2. cur'.store = EMPTY /\ cur'.used = 0
      BY <1>4, <3>1, FreshFacts
    <3>3. QED
      BY <1>4, <3>2
  <2>4. QED
    BY <2>1, <2>2, <2>3
<1>6. QED
  BY <1>1, <1>2, <1>3, <1>5, LengthsStay

LEMMA EraseLengths ==
    ASSUME IInv, IInv', LInv, Erase
    PROVE  LInv'
<1>1. /\ cur' = cur /\ pc = "erase" /\ pc' = "empty" /\ hdr' = [hdr EXCEPT ![fmt] = ErasedHdr]
      /\ slot' = [slot EXCEPT ![fmt] = [n \in Slots |-> Blank]]
  BY DEF Erase, ram
<1>2. ~ Known'
  BY <1>1 DEF Known, Formatting
<1>3. hdr \in [Sectors -> Header] /\ slot \in [Sectors -> [Slots -> Slot]] /\ ErasedHdr.store = 0
  BY HeaderTypes DEF IInv, Types
<1>4. ASSUME NEW t \in Sectors, hdr'[t].store = USING
      PROVE  /\ hdr[t].store = USING /\ Count(t)' = Count(t)
             /\ \A m \in Slots : slot'[t][m].data = slot[t][m].data
  <2>1. t # fmt
    BY <1>1, <1>3, <1>4
  <2>2. hdr'[t] = hdr[t] /\ slot'[t] = slot[t]
    BY <1>1, <1>3, <2>1
  <2>3. QED
    BY <1>4, <2>2, CountOf, CountOfNext
<1>5. cur'.used <= Cap
  BY <1>1 DEF LInv, UsedFits
<1>6. QED
  BY <1>1, <1>2, <1>4, <1>5, LengthsStay

LEMMA CutLengths ==
    ASSUME IInv, IInv', LInv, PowerCut
    PROVE  LInv'
<1>1. /\ slot' = slot /\ hdr' = hdr /\ cur' = ZeroInfo /\ pc' = "off"
      /\ pc = "commit" => "commit" \in CutAt
  BY DEF PowerCut, flash
<1>2. \A t \in Sectors : Count(t)' = Count(t)
  BY <1>1, SlotsStay
<1>3. ~ Known'
  BY <1>1 DEF Known, Serving
<1>4. cur'.used <= Cap
  BY <1>1, ConstantFacts DEF ZeroInfo
<1>5. QED
  BY <1>1, <1>2, <1>3, <1>4, LengthsStay

LEMMA StatusLengths ==
    ASSUME IInv, IInv', LInv, NEW s \in Sectors, NEW n \in Slots, NEW st \in Marks,
           TslSetStatus(s, n, st)
    PROVE  LInv'
<1>1. UNCHANGED <<hdr, pc, cur, req, job>>
  BY DEF TslSetStatus, ram
<1>2. PICK v \in Slot : /\ slot' = [slot EXCEPT ![s][n] = v] /\ v.data = slot[s][n].data
                        /\ slot[s][n].st >= WRITE /\ v.st >= slot[s][n].st
  BY StatusFacts
<1>3. slot \in [Sectors -> [Slots -> Slot]]
  BY DEF IInv, Types
<1>4. \A t \in Sectors, m \in Slots : /\ slot'[t][m].data = slot[t][m].data
                                      /\ slot'[t][m].st >= WRITE <=> slot[t][m].st >= WRITE
  BY <1>2, <1>3 DEF Slot
<1>5. \A t \in Sectors : Count(t)' = Count(t)
  BY <1>4, CountsNext DEF IInv, Types, Flash, Packed
<1>6. Known' => Known
  BY <1>1 DEF Known, Serving
<1>7. cur' = cur /\ cur'.used <= Cap
  BY <1>1 DEF LInv, UsedFits
<1>8. QED
  BY <1>1, <1>4, <1>5, <1>6, <1>7, LengthsStay

LEMMA NodeLengths ==
    ASSUME IInv, IInv', LInv, LengthsRead, IdxPrepare \/ IdxBody \/ WriteLog
    PROVE  LInv'
<1>1. /\ pc \in Placing /\ pc # "commit" /\ pc' \in Placing /\ cur.sec # Nowhere
      /\ UNCHANGED <<hdr, job, req, fmt, result, ram, bounds>>
  BY NodeFacts
<1>2. PICK v \in Slot :
         /\ v.st < WRITE /\ slot' = [slot EXCEPT ![cur.sec][cur.n] = v]
         /\ WriteLog => v.data = slot[cur.sec][cur.n].data \cup {req.log}
         /\ ~ WriteLog => pc' # "commit" /\ v.data = slot[cur.sec][cur.n].data
  BY NodeFacts
<1>3. hdr' = hdr /\ cur' = cur /\ req' = req
  BY <1>1 DEF ram
<1>4. /\ cur.sec \in Sectors /\ cur.n \in Slots /\ cur.n = Count(cur.sec)
      /\ hdr[cur.sec].store = USING /\ slot[cur.sec][cur.n].st < WRITE /\ Known
      /\ slot[cur.sec][cur.n] \in Slot
  BY <1>1, Place
<1>5. slot \in [Sectors -> [Slots -> Slot]] /\ slot' \in [Sectors -> [Slots -> Slot]]
  BY DEF IInv, Types
<1>6. \A t \in Sectors, m \in Slots : ~ (t = cur.sec /\ m = cur.n) => slot'[t][m] = slot[t][m]
  BY <1>2, <1>4, <1>5
<1>7. slot'[cur.sec][cur.n] = v
  BY <1>2, <1>4, <1>5
<1>8. \A t \in Sectors : Count(t)' = Count(t)
  <2> SUFFICES ASSUME NEW t \in Sectors PROVE Count(t)' = Count(t)
    OBVIOUS
  <2>1. /\ Count(t) \in Slots
        /\ \A m \in Slots : slot[t][m].st >= WRITE <=> m < Count(t)
    BY DEF IInv, Flash, Packed
  <2>2. v.st \in Int /\ \A m \in Slots : slot[t][m].st \in Int
    <3>1. v.st \in Int
      BY DEF Slot
    <3>2. QED
      BY <3>1, StatusesAreInts
  <2>3. \A m \in Slots : slot'[t][m].st >= WRITE <=> slot[t][m].st >= WRITE
    BY <1>2, <1>4, <1>6, <1>7, <2>2
  <2>4. QED
    BY <1>5, <2>1, <2>3, CountsNext
<1>9. CASE ~ WriteLog
  <2>1. \A t \in Sectors, m \in Slots : slot'[t][m].data = slot[t][m].data
    BY <1>2, <1>6, <1>7, <1>9
  <2>2. pc' # "commit" /\ cur'.used <= Cap /\ (Known' => Known)
    BY <1>2, <1>3, <1>4, <1>9 DEF LInv, UsedFits
  <2>3. QED
    BY <1>1, <1>3, <1>8, <2>1, <2>2, LengthsStay
<1>10. CASE WriteLog
  <2>1. pc = "log" /\ pc' = "commit"
    BY <1>10 DEF WriteLog
  <2>2. "commit" \notin CutAt => slot[cur.sec][cur.n].data = {}
    <3>1. cur.n >= Count(cur.sec)
      BY <1>4, ConstantFacts
    <3>2. QED
      BY <1>1, <1>4, <3>1 DEF LInv, TailBare
  <2>3. Landed'
    <3>1. slot[cur.sec][cur.n].data \in SUBSET Logs /\ req.log \in Logs
      BY <1>4 DEF Slot, IInv, Types
    <3>2. LenOf(slot[cur.sec][cur.n].data \cup {req.log}) = Size[req.log]
      BY <2>2, <3>1, OneLength
    <3>3. slot'[cur'.sec][cur'.n].data = slot[cur.sec][cur.n].data \cup {req.log}
      BY <1>2, <1>3, <1>7, <1>10
    <3>4. QED
      BY <1>3, <3>2, <3>3 DEF Landed, LenOf
  <2>4. TailBare'
    <3> SUFFICES ASSUME "commit" \notin CutAt, NEW s \in Sectors, NEW n \in Slots,
                        hdr'[s].store = USING, n >= Count(s)'
                 PROVE  slot'[s][n].data = {} \/ (pc' = "commit" /\ s = cur'.sec /\ n = cur'.n)
      BY DEF TailBare
    <3>1. hdr[s].store = USING /\ n >= Count(s)
      BY <1>3, <1>8
    <3>2. slot[s][n].data = {}
      BY <1>1, <3>1 DEF LInv, TailBare
    <3>3. QED
      BY <1>3, <1>6, <2>1, <3>2
  <2>5. \A t \in Sectors : UsedIn(slot'[t], Count(t)') = UsedIn(slot[t], Count(t))
    <3> SUFFICES ASSUME NEW t \in Sectors
                 PROVE  UsedIn(slot'[t], Count(t)') = UsedIn(slot[t], Count(t))
      OBVIOUS
    <3>1. Count(t)' = Count(t) /\ Count(t) \in Slots
      BY <1>8 DEF IInv, Flash, Packed
    <3>2. \A m \in Slots : m < Count(t) => slot'[t][m].data = slot[t][m].data
      BY <1>4, <1>6, ConstantFacts
    <3>3. QED
      BY <3>1, <3>2, UsedAgree
  <2>6. \A t \in Sectors : Used(t)' = Used(t)
    BY <2>5, UsedOf, UsedOfNext
  <2>7. Fits'
    BY <1>3, <1>8, <2>6 DEF LInv, Fits
  <2>8. UsedKnown'
    <3>1. PICK s \in Sectors : s = cur.sec
      BY <1>4
    <3>2. Used(cur.sec)' = UsedIn(slot'[cur'.sec], CountIn(slot'[cur'.sec]))
      BY DEF Used, UsedIn, Count, CountIn
    <3>3. Count(s)' = CountIn(slot'[s])
      BY CountOfNext
    <3>4. Used(cur.sec) = UsedIn(slot[s], Count(s))
      BY <3>1, UsedOf
    <3>5. QED
      BY <1>3, <1>4, <2>5, <3>1, <3>2, <3>3, <3>4 DEF LInv, UsedKnown
  <2>9. UsedFits'
    BY <1>3 DEF LInv, UsedFits
  <2>10. QED
    BY <2>3, <2>4, <2>7, <2>8, <2>9 DEF LInv
<1>11. QED
  BY <1>9, <1>10

LEMMA CommitLengths ==
    ASSUME IInv, IInv', LInv, Commit
    PROVE  LInv'
<1>1. /\ cur.sec \in Sectors /\ cur.n \in Slots /\ cur.n + 1 \in Slots
      /\ cur.n = Count(cur.sec) /\ hdr[cur.sec].store = USING /\ Known
  BY CommitFacts
<1>2. \A t \in Sectors, m \in Slots : slot'[t][m].data = slot[t][m].data
  BY CommitFacts
<1>3. \A t \in Sectors : Count(t)' = IF t = cur.sec THEN cur.n + 1 ELSE Count(t)
  BY CommitFacts
<1>4. /\ pc = "commit" /\ pc' = "idle" /\ hdr' = hdr
      /\ cur' = [cur EXCEPT !.endTime = req.time, !.endIdx = <<cur.sec, cur.n>>,
                            !.n = cur.n + 1, !.used = cur.used + Size[req.log]]
  BY DEF Commit, CurAfterCommit
<1>5. cur \in CurInfo /\ req.log \in Logs
  BY DEF IInv, Types
<1>6. /\ cur'.sec = cur.sec /\ cur'.used = cur.used + Size[req.log]
  BY <1>4, <1>5 DEF CurInfo
<1>7. cur.store = USING /\ cur.used = Used(cur.sec)
  BY <1>1, <1>4 DEF IInv, StoreKnown, Placing, LInv, UsedKnown
<1>8. PICK s \in Sectors : s = cur.sec
  BY <1>1
<1>9. UsedIn(slot'[s], Count(s)') = cur.used + Size[req.log]
  <2>1. Count(s)' = cur.n + 1
    BY <1>3, <1>8
  <2>2. UsedIn(slot'[s], cur.n + 1) = UsedIn(slot'[s], cur.n) + LenOf(slot'[s][cur.n].data)
    BY <1>1, UsedNext
  <2>3. UsedIn(slot'[s], cur.n) = UsedIn(slot[s], cur.n)
    BY <1>1, <1>2, UsedAgree
  <2>4. cur.used = UsedIn(slot[s], cur.n)
    BY <1>1, <1>7, <1>8, UsedOf
  <2>5. LenOf(slot'[s][cur.n].data) = Size[req.log]
    BY <1>1, <1>2, <1>4, <1>8 DEF LInv, Landed
  <2>6. QED
    BY <2>1, <2>2, <2>3, <2>4, <2>5
<1>10. (cur.n + 1) * IdxLen + (cur.used + Size[req.log]) <= Cap
  <2>1. Cap - cur.n * IdxLen - cur.used >= IdxLen + Size[req.log]
    BY <1>1, <1>4 DEF IInv, Room, Placing, Remain
  <2>2. /\ cur.n \in Nat /\ cur.used \in Nat /\ Size[req.log] \in Nat /\ Cap \in Nat
        /\ IdxLen \in Nat
    BY <1>1, <1>5, ConstantFacts DEF CurInfo
  <2>3. cur.n * IdxLen \in Nat /\ (cur.n + 1) * IdxLen = cur.n * IdxLen + IdxLen
    BY <2>2, ProductNat
  <2> DEFINE p == cur.n * IdxLen
             q == (cur.n + 1) * IdxLen
  <2>4. p \in Nat /\ q = p + IdxLen /\ Cap - p - cur.used >= IdxLen + Size[req.log]
    BY <2>1, <2>3
  <2> HIDE DEF p, q
  <2>5. q + (cur.used + Size[req.log]) <= Cap
    BY ONLY <2>2, <2>4
  <2>6. QED
    BY <2>5 DEF q
<1>11. Landed'
  BY <1>4 DEF Landed
<1>12. TailBare'
  <2> SUFFICES ASSUME "commit" \notin CutAt, NEW t \in Sectors, NEW n \in Slots,
                      hdr'[t].store = USING, n >= Count(t)'
               PROVE  slot'[t][n].data = {}
    BY DEF TailBare
  <2>1. Count(t) \in Slots /\ Slots \subseteq Nat
    BY ConstantFacts DEF IInv, Flash, Packed
  <2>2. n >= Count(t) /\ ~ (t = cur.sec /\ n = cur.n)
    <3>1. /\ n \in Nat /\ cur.n \in Nat /\ Count(t) \in Nat
          /\ n >= IF t = cur.sec THEN cur.n + 1 ELSE Count(t)
          /\ t = cur.sec => cur.n = Count(t)
      BY <1>1, <1>3, <2>1
    <3>2. QED
      BY ONLY <3>1
  <2>3. slot[t][n].data = {}
    BY <1>4, <2>2 DEF LInv, TailBare
  <2>4. QED
    BY <1>2, <2>3
<1>13. Fits'
  <2> SUFFICES ASSUME NEW t \in Sectors, hdr'[t].store = USING
               PROVE  Count(t)' * IdxLen + Used(t)' <= Cap
    BY DEF Fits
  <2>1. t = s
    BY <1>1, <1>4, <1>8 DEF IInv, Flash, AtMostOne
  <2>2. Count(t)' = cur.n + 1 /\ Used(t)' = cur.used + Size[req.log]
    BY <1>3, <1>8, <1>9, <2>1, UsedOfNext
  <2>3. QED
    BY <1>10, <2>2
<1>14. UsedKnown'
  <2>1. Used(cur.sec)' = UsedIn(slot'[cur'.sec], CountIn(slot'[cur'.sec]))
    BY DEF Used, UsedIn, Count, CountIn
  <2>2. Count(s)' = CountIn(slot'[s])
    BY CountOfNext
  <2>3. QED
    BY <1>6, <1>8, <1>9, <2>1, <2>2 DEF UsedKnown
<1>15. UsedFits'
  <2>1. cur.n + 1 \in Nat /\ cur.used + Size[req.log] \in Nat /\ IdxLen \in Nat /\ Cap \in Nat
    BY <1>1, <1>5, ConstantFacts DEF CurInfo
  <2>2. (cur.n + 1) * IdxLen \in Nat
    BY <2>1, ProductNat
  <2> DEFINE q == (cur.n + 1) * IdxLen
             u == cur.used + Size[req.log]
  <2>3. q \in Nat /\ u \in Nat /\ Cap \in Nat /\ q + u <= Cap
    BY <1>10, <2>1, <2>2
  <2> HIDE DEF q, u
  <2>4. u <= Cap
    BY ONLY <2>3
  <2>5. QED
    BY <1>6, <2>4 DEF UsedFits, u
<1>16. QED
  BY <1>11, <1>12, <1>13, <1>14, <1>15 DEF LInv

LEMMA UseSectorLengths ==
    ASSUME IInv, IInv', LInv, UseSector
    PROVE  LInv'
<1>1. /\ pc = "using" /\ pc' = "start" /\ slot' = slot
      /\ cur' = [cur EXCEPT !.store = USING, !.start = req.time]
      /\ hdr' = [hdr EXCEPT ![cur.sec].store = Program(@, USING)]
  BY DEF UseSector
<1>2. cur.sec \in Sectors /\ Known
  BY <1>1, ServingFacts DEF Known, Formatting
<1>3. hdr[cur.sec].store = EMPTY /\ Unused /\ cur.n = Count(cur.sec)
  BY <1>1, <1>2 DEF IInv, StoreKnown
<1>4. Count(cur.sec) = 0 /\ Used(cur.sec) = 0 /\ cur.used = 0
  <2>1. Count(cur.sec) = 0 /\ Used(cur.sec) = 0
    BY <1>2, <1>3, EmptyCounts
  <2>2. QED
    BY <1>3, <2>1 DEF IInv, NoLength
<1>5. hdr \in [Sectors -> Header] /\ cur \in CurInfo
  BY DEF IInv, Types
<1>6. cur'.used = 0 /\ cur'.sec = cur.sec
  BY <1>1, <1>4, <1>5 DEF CurInfo
<1>7. PICK s \in Sectors : s = cur.sec
  BY <1>2
<1>8. \A t \in Sectors : hdr'[t].store = USING => t = s
  BY <1>1, <1>3, <1>5, <1>7 DEF Unused
<1>9. \A t : Count(t)' = Count(t) /\ Used(t)' = Used(t)
  BY <1>1, SlotsStay
<1>10. Landed'
  BY <1>1 DEF Landed
<1>11. TailBare'
  <2>1. \A n \in Slots : slot'[s][n].data = {}
    <3>1. slot[s] = [n \in Slots |-> Blank]
      BY <1>3, <1>7 DEF IInv, Flash, NoNodes
    <3>2. QED
      BY <1>1, <3>1 DEF Blank
  <2>2. QED
    BY <1>8, <2>1 DEF TailBare
<1>12. Fits'
  BY <1>4, <1>7, <1>8, <1>9, ConstantFacts DEF Fits
<1>13. UsedKnown'
  <2>1. Used(cur.sec)' = UsedIn(slot'[cur'.sec], CountIn(slot'[cur'.sec]))
    BY DEF Used, UsedIn, Count, CountIn
  <2>2. Used(s) = UsedIn(slot[s], CountIn(slot[s]))
    BY UsedOf, CountOf
  <2>3. QED
    BY <1>1, <1>4, <1>6, <1>7, <2>1, <2>2 DEF UsedKnown
<1>14. UsedFits'
  BY <1>6, ConstantFacts DEF UsedFits
<1>15. QED
  BY <1>10, <1>11, <1>12, <1>13, <1>14 DEF LInv

LEMMA InitLengths ==
    ASSUME IInv, IInv', LInv, InitTsdb \/ InitFormats \/ InitAsserts
    PROVE  LInv'
<1>1. slot' = slot /\ hdr' = hdr /\ pc = "off" /\ pc' # "commit"
  BY DEF InitTsdb, InitFormats, InitAsserts, flash
<1>2. CASE InitFormats \/ InitAsserts
  <2>1. cur' = cur /\ ~ Known'
    BY <1>2 DEF InitFormats, InitAsserts, Known, Serving, Formatting
  <2>2. QED
    BY <1>1, <2>1, QuietLengths
<1>3. CASE InitTsdb
  <2>1. Current = Nowhere => cur' = [cur EXCEPT !.sec = Nowhere]
    BY <1>3, InitTsdbFacts
  <2>2. Current # Nowhere =>
           /\ Current \in Sectors /\ cur'.store = hdr[Current].store
           /\ cur'.store \in {EMPTY, USING} /\ cur'.used = Used(Current)
    BY <1>3, InitTsdbFacts
  <2>3. cur'.sec = Current /\ cur \in CurInfo
    BY <1>3, InitTsdbFacts DEF IInv, Types
  <2>4. \A t : Count(t)' = Count(t) /\ Used(t)' = Used(t)
    BY <1>1, SlotsStay
  <2>5. Landed' /\ TailBare' /\ Fits'
    BY <1>1, <2>4 DEF LInv, Landed, TailBare, Fits
  <2>6. UsedKnown'
    <3> SUFFICES ASSUME Known' PROVE UsedKnown'
      BY DEF UsedKnown
    <3>1. Current # Nowhere
      BY <2>3 DEF Known
    <3>2. Used(cur.sec)' = UsedIn(slot'[cur'.sec], CountIn(slot'[cur'.sec]))
      BY DEF Used, UsedIn, Count, CountIn
    <3>3. Used(Current) = UsedIn(slot[Current], CountIn(slot[Current]))
      BY UsedOf, CountOf
    <3>4. QED
      BY <1>1, <2>2, <2>3, <3>1, <3>2, <3>3 DEF UsedKnown
  <2>7. UsedFits'
    <3>1. CASE Current = Nowhere
      BY <2>1, <2>3, <3>1 DEF CurInfo, LInv, UsedFits
    <3>2. CASE Current # Nowhere
      <4>1. PICK s \in Sectors : s = Current
        BY <2>2, <3>2
      <4>2. hdr[s].store = EMPTY => Used(s) = 0
        BY EmptyCounts
      <4>3. hdr[s].store = USING => Used(s) <= Cap
        <5>1. SUFFICES ASSUME hdr[s].store = USING PROVE Used(s) <= Cap
          BY <5>1
        <5>2. Count(s) \in Nat /\ Used(s) \in Nat /\ Count(s) * IdxLen + Used(s) <= Cap
          <6>1. Count(s) \in Slots /\ \A n \in Slots : slot[s][n].data \in SUBSET Logs
            BY DEF IInv, Flash, Packed, Types, Slot
          <6>2. Used(s) \in Nat
            BY <6>1, UsedOf, UsedIsNat
          <6>3. QED
            BY <5>1, <6>1, <6>2, ConstantFacts DEF LInv, Fits
        <5>3. Count(s) * IdxLen \in Nat /\ Cap \in Nat
          BY <5>2, ConstantFacts, ProductNat
        <5> DEFINE p == Count(s) * IdxLen
                   u == Used(s)
        <5>4. p \in Nat /\ u \in Nat /\ Cap \in Nat /\ p + u <= Cap
          BY <5>2, <5>3
        <5> HIDE DEF p, u
        <5>5. u <= Cap
          BY ONLY <5>4
        <5>6. QED
          BY <5>5 DEF u
      <4>4. QED
        BY <2>2, <3>2, <4>1, <4>2, <4>3, ConstantFacts DEF UsedFits
    <3>3. QED
      BY <3>1, <3>2
  <2>8. QED
    BY <2>5, <2>6, <2>7 DEF LInv
<1>4. QED
  BY <1>2, <1>3

LEMMA InitLengthsHold == Init => LInv
<1> SUFFICES ASSUME Init PROVE LInv
  OBVIOUS
<1>1. pc = "off" /\ cur = ZeroInfo /\ hdr = [s \in Sectors |-> FormattedHdr]
  BY DEF Init
<1>2. FormattedHdr.store = EMPTY
  BY DEF FormattedHdr, ErasedHdr
<1>3. \A s \in Sectors : hdr[s].store # USING
  BY <1>1, <1>2
<1>4. cur.used = 0 /\ ~ Known
  BY <1>1 DEF ZeroInfo, Known, Serving
<1>5. QED
  BY <1>1, <1>3, <1>4, ConstantFacts DEF LInv, Landed, TailBare, Fits, UsedKnown, UsedFits

LEMMA LengthsNext ==
    ASSUME IInv, IInv', LInv, LengthsRead, [Next]_vars
    PROVE  LInv'
<1>1. CASE UNCHANGED vars
  <2>1. UNCHANGED <<slot, hdr, pc, cur, req, job>>
    BY <1>1 DEF vars, flash, ram
  <2>2. \A t \in Sectors : Count(t)' = Count(t)
    BY <2>1, SlotsStay
  <2>3. cur'.used <= Cap /\ (Known' => Known)
    BY <2>1 DEF LInv, UsedFits, Known, Serving
  <2>4. QED
    BY <2>1, <2>2, <2>3, LengthsStay
<1>2. CASE Step
  BY <1>2, EndLengths, MarkLengths, UseSectorLengths, StartTimeLengths, NodeLengths,
     CommitLengths, NowhereLengths, EraseLengths, WriteEmptyLengths, WriteMagicLengths,
     InitLengths DEF Step
<1>3. CASE Call
  BY <1>3, CallLengths, OtherCallLengths, StatusLengths DEF Call
<1>4. CASE PowerCut
  BY <1>4, CutLengths
<1>5. QED
  BY <1>1, <1>2, <1>3, <1>4 DEF Next

LEMMA LengthsInductive == LengthsRead => (Spec => []LInv)
<1> SUFFICES ASSUME LengthsRead PROVE Spec => []LInv
  OBVIOUS
<1>1. IInv /\ IInv' /\ LInv /\ [Next]_vars => LInv'
  BY LengthsNext
<1>2. QED
  BY <1>1, InitLengthsHold, TsdbInductive, PTL DEF Spec

\* cur_sec agrees with the flash whenever the database waits for a call: the
\* next node goes behind the last one, into room that is really there.
THEOREM CurrentAgrees == LengthsRead => (Spec => []CurrentKnown)
<1> SUFFICES ASSUME LengthsRead PROVE Spec => []CurrentKnown
  OBVIOUS
<1>1. IInv /\ LInv => CurrentKnown
  <2> SUFFICES ASSUME IInv, LInv, pc = "idle", cur.sec # Nowhere
               PROVE  /\ cur.store = hdr[cur.sec].store
                      /\ cur.store = USING => cur.n = Count(cur.sec) /\ cur.used = Used(cur.sec)
                      /\ \A i \in Copies : cur.store # FULL => cur.stat[i] = hdr[cur.sec].end[i].st
    BY DEF CurrentKnown
  <2>1. Known
    BY DEF IInv, Jobs, Known, Serving, Formatting
  <2>2. QED
    BY <2>1 DEF IInv, StoreKnown, StatKnown, LInv, UsedKnown
<1>2. QED
  BY <1>1, TsdbInductive, LengthsInductive, PTL

\* Every variable has its type: the number of nodes and the room their logs
\* take stay within those of a sector.
THEOREM TypesHold == LengthsRead => (Spec => []TypeOK)
<1> SUFFICES ASSUME LengthsRead PROVE Spec => []TypeOK
  OBVIOUS
<1>1. IInv /\ LInv => TypeOK
  <2> SUFFICES ASSUME IInv, LInv PROVE TypeOK
    OBVIOUS
  <2>1. cur \in CurInfo /\ cur.used <= Cap /\ Cap \in Nat
    BY ConstantFacts DEF IInv, Types, LInv, UsedFits
  <2>2. cur \in SecInfo
    BY <2>1 DEF CurInfo, SecInfo
  <2>3. QED
    BY <2>2 DEF IInv, Types, TypeOK
<1>2. QED
  BY <1>1, TsdbInductive, LengthsInductive, PTL

-----------------------------------------------------------------------------
(* The log in time order.  The cuts it survives are those between calls    *)
(* and while the end of a sector is saved; a cut while a log or a format   *)
(* is written costs logs.  Rollover is set before logs are stored, and no  *)
(* cut meets a database that refuses logs because it is full.              *)

SwitchedOff == FALSE \in Rollovers
EndCuts == {"idle", "full"} \cup Ending
KeepsOrder ==
    /\ ~ Late
    /\ \/ MaxCuts = 0
       \/ CutAt \subseteq EndCuts /\ ("idle" \in CutAt => ~ SwitchedOff)

AtRest == {"idle", "off", "hung"}
Down   == {"off", "hung"}

\* The sector that holds the newest logs: cur_sec, but for the sector before it
\* while cur_sec still holds the oldest, and the one in use while RAM is not set.
AtHead(h) ==
    IF pc = "erase" /\ job = "append" THEN h = PrevSec(fmt)
    ELSE IF pc \in Down /\ ~ Unused THEN h \in Sectors /\ hdr[h].store = USING
    ELSE h = cur.sec

All(store) == \A s \in Sectors : hdr[s].store = store
AllBehind(h, store) == \A s \in Sectors : s > h => hdr[s].store = store

\* Sectors fill up in the order of their addresses and from the first again.
Laid(h) == /\ \A s \in Sectors : s < h => hdr[s].store = FULL
           /\ AllBehind(h, FULL) \/ AllBehind(h, EMPTY)

\* Between calls one sector is in use, or the database is empty, or full for good.
Resting(h) == \/ h \in Sectors /\ hdr[h].store = USING
              \/ All(EMPTY)
              \/ All(FULL) /\ cur.store = FULL /\ h >= NSec - 1 /\ SwitchedOff

MagicSet == \A s \in Sectors : hdr[s].magic \/ (s = fmt /\ pc \in {"empty", "magic"})
NeverInit == job # "init"
FullNowhere == cur.sec = Nowhere => cur.store = FULL /\ (pc \in AtRest \/ job = "clean")
Sequence == job # "clean" => \A h \in 0..NSec : AtHead(h) => Laid(h)
Rest == pc \in AtRest => \A h \in 0..NSec : AtHead(h) => Resting(h)
\* A sector is formatted for an append when all are full, and with rollover on.
Wrapped == pc \in Formatting /\ job = "append" =>
               /\ \A s \in Sectors : s # fmt => hdr[s].store = FULL
               /\ pc = "erase" => hdr[fmt].store = FULL /\ rollover
Filled == \A s \in Sectors :
              /\ hdr[s].store = FULL => Count(s) > 0
              /\ hdr[s].store = USING => Count(s) > 0 \/ (pc \in Placing /\ s = cur.sec)
RollsOver == rollover \/ SwitchedOff
\* Without rollover no sector is used twice.
OneRound == ~ rollover /\ job # "clean" /\ pc \notin Down =>
                \A h \in 0..NSec : AtHead(h) => AllBehind(h, EMPTY)

SInv == /\ MagicSet /\ NeverInit /\ FullNowhere /\ Sequence /\ Rest
        /\ Wrapped /\ Filled /\ RollsOver /\ OneRound

LEMMA CutFacts ==
    ASSUME IInv, KeepsOrder, PowerCut
    PROVE  pc \in EndCuts /\ (pc = "idle" => ~ SwitchedOff)
<1>1. pc \in CutAt /\ cuts < MaxCuts
  BY DEF PowerCut
<1>2. MaxCuts # 0
  BY <1>1, ConstantFacts DEF IInv, Types
<1>3. QED
  BY <1>1, <1>2 DEF KeepsOrder

LEMMA HeadExists == IInv => \E h \in 0..NSec : AtHead(h)
<1> SUFFICES ASSUME IInv PROVE \E h \in 0..NSec : AtHead(h)
  OBVIOUS
<1>1. cur.sec \in 0..NSec /\ fmt \in Sectors
  BY DEF IInv, Types, CurInfo
<1>2. PrevSec(fmt) \in 0..NSec /\ Sectors \subseteq 0..NSec
  BY <1>1, ConstantFacts DEF PrevSec
<1>3. CASE pc = "erase" /\ job = "append"
  BY <1>2, <1>3 DEF AtHead
<1>4. CASE ~ (pc = "erase" /\ job = "append")
  BY <1>1, <1>2, <1>4 DEF AtHead, Unused
<1>5. QED
  BY <1>3, <1>4

\* Before a call and while it is served the newest logs are in cur_sec.
LEMMA HeadServing ==
    ASSUME pc \notin Down, ~ (pc = "erase" /\ job = "append")
    PROVE  \A h : AtHead(h) <=> h = cur.sec
BY DEF AtHead

\* Steps that change no variable of these.
LEMMA SameStores ==
    ASSUME SInv, UNCHANGED <<hdr, pc, job, fmt, cur, rollover>>,
           \A s \in Sectors : Count(s)' = Count(s)
    PROVE  SInv'
<1>1. \A h : AtHead(h)' <=> AtHead(h)
  BY DEF AtHead, Unused
<1>2. MagicSet' /\ NeverInit' /\ FullNowhere' /\ RollsOver'
  BY DEF SInv, MagicSet, NeverInit, FullNowhere, RollsOver
<1>3. Sequence' /\ Rest' /\ OneRound'
  BY <1>1 DEF SInv, Sequence, Rest, OneRound, Laid, Resting, AllBehind, All
<1>4. Wrapped' /\ Filled'
  BY DEF SInv, Wrapped, Filled
<1>5. QED
  BY <1>2, <1>3, <1>4 DEF SInv

\* Steps of a call that leave the store statuses alone.
LEMMA StoresStay ==
    ASSUME IInv, SInv,
           \A s \in Sectors : hdr'[s].store = hdr[s].store /\ hdr'[s].magic = hdr[s].magic,
           \A s \in Sectors : Count(s) > 0 => Count(s)' > 0,
           UNCHANGED rollover, cur'.sec = cur.sec, cur'.store = cur.store,
           pc \notin Down \cup Formatting, pc' \notin Down \cup Formatting,
           job \in {"none", "append"}, job' \in {"none", "append"},
           pc' = "idle" =>
               pc = "idle" \/ (hdr[cur.sec].store = USING /\ Count(cur.sec)' > 0),
           pc' \notin Placing => pc \notin Placing \/ Count(cur.sec)' > 0,
           cur.sec = Nowhere => pc' = "idle"
    PROVE  SInv'
<1>1. \A h : (AtHead(h) <=> h = cur.sec) /\ (AtHead(h)' <=> h = cur.sec)
  <2>1. pc # "erase" /\ pc' # "erase"
    BY DEF Formatting
  <2>2. QED
    BY <2>1 DEF AtHead
<1>2. MagicSet' /\ NeverInit' /\ RollsOver'
  BY DEF SInv, MagicSet, NeverInit, RollsOver, Formatting
<1>3. FullNowhere'
  BY DEF SInv, FullNowhere, AtRest
<1>4. Sequence' /\ OneRound'
  BY <1>1 DEF SInv, Sequence, OneRound, Laid, AllBehind
<1>5. Rest'
  <2> SUFFICES ASSUME pc' = "idle", NEW h \in 0..NSec, h = cur.sec PROVE Resting(h)'
    BY <1>1 DEF Rest, AtRest, Down
  <2>1. CASE pc = "idle"
    <3>1. Resting(h)
      BY <1>1, <2>1 DEF SInv, Rest, AtRest
    <3>2. QED
      BY <3>1 DEF Resting, All
  <2>2. CASE pc # "idle"
    <3>1. h \in Sectors
      <4>1. cur.sec \in 0..NSec
        OBVIOUS
      <4>2. cur.sec # Nowhere
        BY <2>2 DEF SInv, FullNowhere, AtRest, Down
      <4>3. QED
        BY <4>1, <4>2, ConstantFacts DEF Nowhere
    <3>2. QED
      BY <2>2, <3>1 DEF Resting
  <2>3. QED
    BY <2>1, <2>2
<1>6. Wrapped'
  BY DEF Wrapped
<1>7. Filled'
  <2> SUFFICES ASSUME NEW s \in Sectors
               PROVE  /\ hdr'[s].store = FULL => Count(s)' > 0
                      /\ hdr'[s].store = USING => Count(s)' > 0 \/ (pc' \in Placing /\ s = cur'.sec)
    BY DEF Filled
  <2>1. s = cur.sec /\ Count(cur.sec)' > 0 => Count(s)' > 0
    BY DEF Count
  <2>2. QED
    BY <2>1 DEF SInv, Filled
<1>8. QED
  BY <1>2, <1>3, <1>4, <1>5, <1>6, <1>7 DEF SInv

LEMMA NodeCounts ==
    ASSUME IInv, IdxPrepare \/ IdxBody \/ WriteLog
    PROVE  \A t \in Sectors : Count(t)' = Count(t)
<1>1. /\ pc \in Placing /\ cur.sec # Nowhere /\ UNCHANGED hdr
      /\ \E v \in Slot : v.st < WRITE /\ slot' = [slot EXCEPT ![cur.sec][cur.n] = v]
  BY NodeFacts
<1>2. PICK v \in Slot : v.st < WRITE /\ slot' = [slot EXCEPT ![cur.sec][cur.n] = v]
  BY <1>1
<1>3. /\ cur.sec \in Sectors /\ cur.n \in Slots /\ hdr[cur.sec].store = USING
      /\ slot[cur.sec][cur.n].st < WRITE /\ slot[cur.sec][cur.n] \in Slot
  BY <1>1, Place
<1>4. v.st >= WRITE <=> slot[cur.sec][cur.n].st >= WRITE
  BY <1>2, <1>3 DEF Slot
<1>5. Types /\ Flash /\ hdr[cur.sec].store >= USING
  BY <1>3 DEF IInv
<1>6. QED
  BY ONLY <1>1, <1>2, <1>3, <1>4, <1>5, NodeWritten

LEMMA StatusCounts ==
    ASSUME IInv, NEW s \in Sectors, NEW n \in Slots, NEW st \in Marks, TslSetStatus(s, n, st)
    PROVE  \A t \in Sectors : Count(t)' = Count(t)
<1>1. PICK v \in Slot : /\ slot' = [slot EXCEPT ![s][n] = v]
                        /\ hdr[s].store >= USING
                        /\ slot[s][n].st >= WRITE /\ v.st >= slot[s][n].st
  BY StatusFacts
<1>2. UNCHANGED hdr /\ Types /\ Flash
  BY DEF TslSetStatus, IInv
<1>3. v.st >= WRITE <=> slot[s][n].st >= WRITE
  <2>1. slot[s][n] \in Slot
    BY DEF IInv, Types
  <2>2. QED
    BY <1>1, <2>1 DEF Slot
<1>4. QED
  BY ONLY <1>1, <1>2, <1>3, NodeWritten, s \in Sectors, n \in Slots

LEMMA EraseCounts ==
    ASSUME IInv, Erase
    PROVE  /\ fmt \in Sectors /\ slot'[fmt] = [n \in Slots |-> Blank]
           /\ \A t \in Sectors : t # fmt => slot'[t] = slot[t]
           /\ \A t \in Sectors : Count(t)' = IF t = fmt THEN 0 ELSE Count(t)
<1>1. fmt \in Sectors /\ slot \in [Sectors -> [Slots -> Slot]]
  BY DEF IInv, Types
<1>2. slot' = [slot EXCEPT ![fmt] = [n \in Slots |-> Blank]]
  BY DEF Erase
<1>3. /\ slot'[fmt] = [n \in Slots |-> Blank] /\ \A t \in Sectors : t # fmt => slot'[t] = slot[t]
  BY <1>1, <1>2
<1>4. CountIn(slot'[fmt]) = 0
  <2>1. 0 \in Slots /\ Slots \subseteq Nat
    BY ConstantFacts
  <2>2. \A n \in Slots : slot'[fmt][n].st = 0
    BY <1>3 DEF Blank
  <2>3. \A n \in Slots : slot'[fmt][n].st \in Int /\ (slot'[fmt][n].st >= WRITE <=> n < 0)
    BY <2>1, <2>2
  <2>4. QED
    BY <2>1, <2>3, CountIs
<1>5. \A t \in Sectors : Count(t)' = IF t = fmt THEN 0 ELSE Count(t)
  BY <1>3, <1>4, CountOf, CountOfNext
<1>6. QED
  BY <1>1, <1>3, <1>5

LEMMA CallStores ==
    ASSUME IInv, SInv, NEW l \in Logs, NEW t \in Times,
           Refuse(l, t) \/ RefuseFull(l, t) \/ BeginAppend(l, t)
    PROVE  SInv'
<1>1. /\ pc = "idle" /\ hdr' = hdr /\ slot' = slot /\ cur' = cur /\ fmt' = fmt
      /\ rollover' = rollover /\ job \in {"none", "append"}
  BY DEF Refuse, RefuseFull, BeginAppend, flash, ram, IInv, Jobs
<1>2. \A s \in Sectors : Count(s)' = Count(s)
  BY <1>1, SlotsStay
<1>3. CASE Refuse(l, t) \/ RefuseFull(l, t)
  <2>1. pc' = pc /\ job' = job
    BY <1>3 DEF Refuse, RefuseFull
  <2>2. QED
    BY <1>1, <1>2, <2>1, SameStores
<1>4. CASE BeginAppend(l, t)
  <2>1. pc' \in {"end_pre", "full", "using", "idx_pre"} /\ job' = "append" /\ cur.store # FULL
    BY <1>4 DEF BeginAppend
  <2>2. cur.sec # Nowhere
    BY <2>1 DEF SInv, FullNowhere
  <2>3. pc \notin Down \cup Formatting \cup Placing /\ pc' \notin Down \cup Formatting
    BY <1>1, <2>1 DEF Down, Formatting, Placing
  <2>4. QED
    BY <1>1, <1>2, <2>1, <2>2, <2>3, StoresStay
<1>5. QED
  BY <1>3, <1>4

LEMMA EndStores ==
    ASSUME IInv, SInv, EndPrepare \/ EndBody \/ EndCommit
    PROVE  SInv'
<1>1. /\ pc \in Ending /\ slot' = slot /\ cur' = cur /\ rollover' = rollover /\ job' = job
      /\ pc' \in {"end_body", "end_write", "full"}
  BY DEF EndPrepare, EndBody, EndCommit, ram, Ending
<1>2. cur.sec \in Sectors /\ job = "append" /\ cur.sec # Nowhere
  BY <1>1, EndPlace DEF Known
<1>3. \A t \in Sectors : hdr'[t].store = hdr[t].store /\ hdr'[t].magic = hdr[t].magic
  <2>1. hdr \in [Sectors -> Header]
    BY DEF IInv, Types
  <2>2. PICK x : hdr' = [hdr EXCEPT ![cur.sec].end = x]
    BY DEF EndPrepare, EndBody, EndCommit
  <2>3. QED
    BY <2>1, <2>2 DEF Header
<1>4. \A s \in Sectors : Count(s)' = Count(s)
  BY <1>1, SlotsStay
<1>5. pc \notin Down \cup Formatting \cup Placing /\ pc' \notin Down \cup Formatting /\ pc' # "idle"
  BY <1>1 DEF Down, Formatting, Placing, Ending
<1>6. QED
  BY <1>1, <1>2, <1>3, <1>4, <1>5, StoresStay

\* write_tsl up to the status that completes the log.
LEMMA PlaceStores ==
    ASSUME IInv, SInv, StartTime \/ IdxPrepare \/ IdxBody \/ WriteLog
    PROVE  SInv'
<1>1. /\ pc \in Placing /\ cur' = cur /\ rollover' = rollover /\ job' = job /\ pc' \in Placing
      /\ pc # "idx_pre" \/ cur.sec # Nowhere
  BY DEF StartTime, IdxPrepare, IdxBody, WriteLog, ram, Placing
<1>2. job = "append" /\ cur.sec # Nowhere
  BY <1>1, ServingFacts DEF Placing
<1>3. \A t \in Sectors : hdr'[t].store = hdr[t].store /\ hdr'[t].magic = hdr[t].magic
  <2>1. hdr \in [Sectors -> Header]
    BY DEF IInv, Types
  <2>2. CASE StartTime
    <3>1. PICK x : hdr' = [hdr EXCEPT ![cur.sec].start = x]
      BY <2>2 DEF StartTime
    <3>2. QED
      BY <2>1, <3>1 DEF Header
  <2>3. CASE IdxPrepare \/ IdxBody \/ WriteLog
    BY <2>3 DEF IdxPrepare, IdxBody, WriteLog
  <2>4. QED
    BY <2>2, <2>3
<1>4. \A s \in Sectors : Count(s)' = Count(s)
  <2>1. CASE StartTime
    BY <2>1, SlotsStay DEF StartTime
  <2>2. CASE IdxPrepare \/ IdxBody \/ WriteLog
    BY <2>2, NodeCounts
  <2>3. QED
    BY <2>1, <2>2
<1>5. pc \notin Down \cup Formatting /\ pc' \notin Down \cup Formatting /\ pc' # "idle"
  BY <1>1 DEF Down, Formatting, Placing
<1>6. QED
  BY <1>1, <1>2, <1>3, <1>4, <1>5, StoresStay

LEMMA CommitStores == ASSUME IInv, SInv, Commit PROVE SInv'
<1>1. /\ pc = "commit" /\ pc' = "idle" /\ job' = "none" /\ rollover' = rollover /\ hdr' = hdr
      /\ cur' = CurAfterCommit
  BY DEF Commit
<1>2. /\ cur.sec \in Sectors /\ cur.n \in Nat /\ hdr[cur.sec].store = USING
      /\ \A t \in Sectors : Count(t)' = IF t = cur.sec THEN cur.n + 1 ELSE Count(t)
  BY CommitFacts, ConstantFacts
<1>3. cur'.sec = cur.sec /\ cur'.store = cur.store
  BY <1>1 DEF CurAfterCommit, IInv, Types, CurInfo
<1>4. job = "append"
  BY <1>1 DEF IInv, Jobs, Placing
<1>5. Count(cur.sec)' > 0
  <2>1. PICK s \in Sectors : s = cur.sec
    BY <1>2
  <2>2. Count(s)' > 0
    BY <1>2, <2>1
  <2>3. cur'.sec = s
    BY <1>3, <2>1
  <2>4. QED
    BY <2>2, <2>3 DEF Count
<1>6. \A s \in Sectors : Count(s) > 0 => Count(s)' > 0
  BY <1>2
<1>7. pc \notin Down \cup Formatting /\ pc' \notin Down \cup Formatting
  BY <1>1 DEF Down, Formatting
<1>8. QED
  BY <1>1, <1>2, <1>3, <1>4, <1>5, <1>6, <1>7, StoresStay

LEMMA StatusStores ==
    ASSUME IInv, SInv, NEW s \in Sectors, NEW n \in Slots, NEW st \in Marks, TslSetStatus(s, n, st)
    PROVE  SInv'
<1>1. UNCHANGED <<hdr, pc, job, fmt, cur, rollover>>
  BY DEF TslSetStatus, ram
<1>2. \A t \in Sectors : Count(t)' = Count(t)
  BY StatusCounts
<1>3. QED
  BY <1>1, <1>2, SameStores

\* The sector that is full is the newest one, and has logs.
LEMMA FullStores ==
    ASSUME IInv, SInv, pc = "full", UNCHANGED slot, hdr' = FullHdr
    PROVE  /\ cur.sec \in Sectors /\ cur.sec \in 0..NSec /\ job = "append" /\ Laid(cur.sec)
           /\ hdr[cur.sec].store = USING
           /\ ~ rollover => AllBehind(cur.sec, EMPTY)
           /\ \A t \in Sectors : /\ hdr'[t].magic /\ Count(t)' = Count(t)
                                 /\ hdr'[t].store = IF t = cur.sec THEN FULL ELSE hdr[t].store
           /\ \A t \in Sectors : hdr'[t].store = FULL => Count(t)' > 0
           /\ Unused'
<1>1. /\ cur.sec \in Sectors /\ cur.sec # Nowhere /\ Known /\ job = "append"
      /\ \A t \in Sectors : hdr'[t].magic /\ Count(t)' = Count(t)
      /\ hdr'[cur.sec].store = FULL /\ \A t \in Sectors : t # cur.sec => hdr'[t] = hdr[t]
      /\ Unused'
  BY FullPlace
<1>2. hdr[cur.sec].store = USING
  BY <1>1 DEF IInv, StoreKnown
<1>3. cur.sec \in 0..NSec
  BY DEF IInv, Types, CurInfo
<1>4. AtHead(cur.sec)
  BY HeadServing DEF Down
<1>5. Laid(cur.sec) /\ (~ rollover => AllBehind(cur.sec, EMPTY))
  BY <1>1, <1>3, <1>4 DEF SInv, Sequence, OneRound, Down
<1>6. \A t \in Sectors : hdr'[t].store = FULL => Count(t)' > 0
  <2>1. \A t \in Sectors : hdr[t].store \in {USING, FULL} => Count(t) > 0
    BY DEF SInv, Filled, Placing
  <2>2. QED
    BY <1>1, <1>2, <2>1
<1>7. QED
  BY <1>1, <1>2, <1>3, <1>5, <1>6

LEMMA LastStores == ASSUME IInv, SInv, MarkLastFull PROVE SInv'
<1>1. /\ pc = "full" /\ pc' = "idle" /\ job' = "none" /\ hdr' = FullHdr /\ slot' = slot
      /\ fmt' = fmt /\ rollover' = rollover /\ cur' = Full /\ ~ HasNext
  BY DEF MarkLastFull
<1>2. /\ cur.sec \in Sectors /\ Laid(cur.sec)
      /\ \A t \in Sectors : /\ hdr'[t].magic
                            /\ hdr'[t].store = IF t = cur.sec THEN FULL ELSE hdr[t].store
      /\ \A t \in Sectors : hdr'[t].store = FULL => Count(t)' > 0
  BY <1>1, FullStores
<1>3. cur'.sec = cur.sec /\ cur'.store = FULL
  BY <1>1 DEF Full, IInv, Types, CurInfo
<1>4. ~ rollover /\ cur.sec = NSec - 1 /\ cur.sec # Nowhere
  BY <1>1, <1>2, ConstantFacts DEF HasNext, Nowhere
<1>5. \A t \in Sectors : hdr'[t].store = FULL
  <2>1. \A t \in Sectors : t # cur.sec => t < cur.sec
    BY <1>4, ConstantFacts
  <2>2. QED
    BY <1>2, <2>1 DEF Laid
<1>6. \A h : AtHead(h)' <=> h = cur.sec
  BY <1>1, <1>3 DEF AtHead, Down
<1>7. SwitchedOff
  BY <1>4 DEF SInv, RollsOver
<1>8. MagicSet' /\ NeverInit' /\ FullNowhere' /\ RollsOver' /\ Wrapped'
  BY <1>1, <1>2, <1>3, <1>4, <1>7
     DEF MagicSet, NeverInit, FullNowhere, RollsOver, Wrapped, Formatting
<1>9. Sequence'
  BY <1>5 DEF Sequence, Laid, AllBehind
<1>10. Rest'
  <2>1. All(FULL)' /\ cur'.store = FULL /\ cur.sec >= NSec - 1
    BY <1>3, <1>4, <1>5, ConstantFacts DEF All
  <2>2. \A h \in 0..NSec : h = cur.sec => Resting(h)'
    BY <1>7, <2>1 DEF Resting
  <2>3. QED
    BY <1>6, <2>2 DEF Rest
<1>11. Filled'
  BY <1>2, <1>5 DEF Filled
<1>12. OneRound'
  <2>1. \A s \in Sectors : ~ (s > cur.sec)
    BY <1>4, ConstantFacts
  <2>2. QED
    BY <1>6, <2>1 DEF OneRound, AllBehind
<1>13. QED
  BY <1>8, <1>9, <1>10, <1>11, <1>12 DEF SInv

\* The next sector is empty and follows the newest, or all sectors are full.
LEMMA NextStores ==
    ASSUME IInv, SInv, MarkFull
    PROVE  \E s \in Sectors :
              /\ s = NextSec(cur.sec) /\ cur'.sec = s /\ cur'.store = hdr[s].store
              /\ \/ /\ pc' = "using" /\ s = cur.sec + 1 /\ hdr[s].store = EMPTY
                    /\ AllBehind(cur.sec, EMPTY)
                 \/ /\ pc' = "erase" /\ fmt' = s /\ rollover
                    /\ \A t \in Sectors : t # cur.sec => hdr[t].store = FULL
<1>1. /\ pc = "full" /\ hdr' = FullHdr /\ slot' = slot /\ HasNext
      /\ cur' = ReadSector(NextSec(cur.sec), Full, FALSE)
      /\ IF cur'.store = EMPTY THEN pc' = "using"
         ELSE pc' = "erase" /\ fmt' = NextSec(cur.sec)
  BY DEF MarkFull
<1>2. /\ cur.sec \in Sectors /\ Laid(cur.sec) /\ (~ rollover => AllBehind(cur.sec, EMPTY))
      /\ \A t \in Sectors : hdr[t].magic
  BY <1>1, FullStores, FullPlace
<1>3. PICK s \in Sectors : s = NextSec(cur.sec)
  BY <1>2, NextSecFacts
<1>4. cur'.sec = s /\ cur'.store = hdr[s].store
  <2>1. Full \in CurInfo
    BY DEF Full, CurInfo, IInv, Types
  <2>2. PICK tr \in BOOLEAN : tr = FALSE
    OBVIOUS
  <2>3. hdr[s].magic
    BY <1>2
  <2> DEFINE c == ReadSector(s, Full, tr)
  <2>4. c.sec = s /\ c.store = hdr[s].store
    BY <2>1, <2>3, ReadFacts
  <2>5. cur' = c
    BY <1>1, <1>3, <2>2
  <2> HIDE DEF c
  <2>6. QED
    BY <2>4, <2>5
<1>5. CASE cur.sec = NSec - 1
  <2>1. s = 0 /\ s < cur.sec /\ \A t \in Sectors : t # cur.sec => t < cur.sec
    BY <1>3, <1>5, ConstantFacts DEF NextSec
  <2>2. \A t \in Sectors : t # cur.sec => hdr[t].store = FULL
    BY <1>2, <2>1 DEF Laid
  <2>3. rollover
    BY <1>1, <1>5, ConstantFacts DEF HasNext
  <2>4. pc' = "erase" /\ fmt' = s
    <3>1. s # cur.sec
      BY <1>2, <2>1, ConstantFacts
    <3>2. cur'.store = FULL
      BY <1>4, <2>2, <3>1
    <3>3. ~ (cur'.store = EMPTY)
      BY <3>2
    <3>4. QED
      BY ONLY <1>1, <1>3, <3>3
  <2>5. QED
    BY <1>3, <1>4, <2>2, <2>3, <2>4
<1>6. CASE cur.sec # NSec - 1
  <2>1. s = cur.sec + 1 /\ s > cur.sec
    BY <1>2, <1>3, <1>6, ConstantFacts DEF NextSec
  <2>2. CASE hdr[s].store = EMPTY
    <3>1. ~ AllBehind(cur.sec, FULL)
      BY <2>1, <2>2 DEF AllBehind
    <3>2. AllBehind(cur.sec, EMPTY)
      BY <1>2, <3>1 DEF Laid
    <3>3. QED
      BY <1>1, <1>3, <1>4, <2>1, <2>2, <3>2
  <2>3. CASE hdr[s].store # EMPTY
    <3>1. ~ AllBehind(cur.sec, EMPTY)
      BY <2>1, <2>3 DEF AllBehind
    <3>2. rollover /\ AllBehind(cur.sec, FULL)
      BY <1>2, <3>1 DEF Laid
    <3>3. \A t \in Sectors : t # cur.sec => t < cur.sec \/ t > cur.sec
      BY <1>2, ConstantFacts
    <3>4. \A t \in Sectors : t # cur.sec => hdr[t].store = FULL
      BY <1>2, <3>2, <3>3 DEF Laid, AllBehind
    <3>5. QED
      BY <1>1, <1>3, <1>4, <2>3, <3>2, <3>4
  <2>4. QED
    BY <2>2, <2>3
<1>7. QED
  BY <1>5, <1>6

LEMMA MarkStores == ASSUME IInv, SInv, MarkFull PROVE SInv'
<1>1. /\ pc = "full" /\ hdr' = FullHdr /\ slot' = slot /\ job' = job /\ rollover' = rollover
      /\ pc' = "using" => fmt' = fmt
  BY DEF MarkFull
<1>2. /\ cur.sec \in Sectors /\ Laid(cur.sec) /\ job = "append"
      /\ ~ rollover => AllBehind(cur.sec, EMPTY)
      /\ \A t \in Sectors : /\ hdr'[t].magic
                            /\ hdr'[t].store = IF t = cur.sec THEN FULL ELSE hdr[t].store
      /\ \A t \in Sectors : hdr'[t].store = FULL => Count(t)' > 0
      /\ Unused'
  BY <1>1, FullStores
<1>3. PICK s \in Sectors :
         /\ s = NextSec(cur.sec) /\ cur'.sec = s
         /\ \/ /\ pc' = "using" /\ s = cur.sec + 1 /\ hdr[s].store = EMPTY
               /\ AllBehind(cur.sec, EMPTY)
            \/ /\ pc' = "erase" /\ fmt' = s /\ rollover
               /\ \A t \in Sectors : t # cur.sec => hdr[t].store = FULL
  BY NextStores
<1>4. cur'.sec # Nowhere
  BY <1>3, ConstantFacts DEF Nowhere
<1>5. MagicSet' /\ NeverInit' /\ FullNowhere' /\ RollsOver' /\ Rest' /\ Filled'
  <2>1. Filled'
    BY <1>2 DEF Filled, Unused
  <2>2. Rest'
    BY <1>3 DEF Rest, AtRest
  <2>3. QED
    BY <1>1, <1>2, <1>4, <2>1, <2>2
       DEF SInv, MagicSet, NeverInit, FullNowhere, RollsOver
<1>6. CASE pc' = "using"
  <2>1. s = cur.sec + 1 /\ AllBehind(cur.sec, EMPTY)
    BY <1>3, <1>6
  <2>2. \A h : AtHead(h)' <=> h = s
    BY <1>3, <1>6 DEF AtHead, Down
  <2>3. \A t \in Sectors : (t < s => t = cur.sec \/ t < cur.sec) /\ (t > s => t > cur.sec /\ t # cur.sec)
    BY <1>2, <2>1, ConstantFacts
  <2>4. Laid(s)' /\ AllBehind(s, EMPTY)'
    BY <1>2, <2>1, <2>3 DEF Laid, AllBehind
  <2>5. Sequence' /\ OneRound'
    BY <2>2, <2>4 DEF Sequence, OneRound
  <2>6. Wrapped'
    BY <1>6 DEF Wrapped, Formatting
  <2>7. QED
    BY <1>5, <2>5, <2>6 DEF SInv
<1>7. CASE pc' = "erase"
  <2>1. fmt' = s /\ rollover /\ \A t \in Sectors : hdr'[t].store = FULL
    BY <1>2, <1>3, <1>7
  <2>2. Sequence' /\ OneRound' /\ Wrapped'
    BY <1>1, <1>7, <2>1 DEF Sequence, OneRound, Wrapped, Laid, AllBehind, Formatting
  <2>3. QED
    BY <1>5, <2>2 DEF SInv
<1>8. QED
  BY <1>3, <1>6, <1>7

LEMMA UseStores == ASSUME IInv, SInv, UseSector PROVE SInv'
<1>1. /\ pc = "using" /\ pc' = "start" /\ slot' = slot /\ job' = job /\ fmt' = fmt
      /\ rollover' = rollover
      /\ hdr' = [hdr EXCEPT ![cur.sec].store = Program(@, USING)]
      /\ cur' = [cur EXCEPT !.store = USING, !.start = req.time]
  BY DEF UseSector
<1>2. job = "append" /\ Serving /\ cur.sec # Nowhere /\ cur.sec \in Sectors
  BY <1>1, ServingFacts
<1>3. Known
  BY <1>1, <1>2 DEF Known, Formatting
<1>4. hdr[cur.sec].store = EMPTY
  BY <1>1, <1>3 DEF IInv, StoreKnown
<1>5. \A t \in Sectors : /\ hdr'[t].magic = hdr[t].magic
                         /\ hdr'[t].store = IF t = cur.sec THEN USING ELSE hdr[t].store
  <2>1. hdr \in [Sectors -> Header]
    BY DEF IInv, Types
  <2>2. Program(EMPTY, USING) = USING
    BY DEF Program
  <2>3. QED
    BY <1>1, <1>2, <1>4, <2>1, <2>2 DEF Header
<1>6. \A t \in Sectors : Count(t)' = Count(t)
  BY <1>1, SlotsStay
<1>7. cur'.sec = cur.sec
  BY <1>1 DEF IInv, Types, CurInfo
<1>8. \A h : (AtHead(h)' <=> h = cur.sec) /\ (AtHead(h) <=> h = cur.sec)
  BY <1>1, <1>7 DEF AtHead, Down
<1>9. MagicSet' /\ NeverInit' /\ FullNowhere' /\ RollsOver' /\ Rest' /\ Wrapped'
  BY <1>1, <1>2, <1>5, <1>7
     DEF SInv, MagicSet, NeverInit, FullNowhere, RollsOver, Rest, Wrapped, AtRest, Formatting
<1>10. \A s, t \in Sectors : s < t \/ s > t => s # t
  BY ConstantFacts
<1>11. Sequence' /\ OneRound'
  <2>1. \A h \in 0..NSec : h = cur.sec => Laid(h) /\ (~ rollover => AllBehind(h, EMPTY))
    BY <1>1, <1>2, <1>8 DEF SInv, Sequence, OneRound, Down
  <2>2. \A h \in 0..NSec : h = cur.sec => Laid(h)' /\ (~ rollover => AllBehind(h, EMPTY)')
    BY <1>2, <1>5, <1>10, <2>1 DEF Laid, AllBehind
  <2>3. QED
    BY <1>1, <1>8, <2>2 DEF Sequence, OneRound
<1>12. Filled'
  BY <1>1, <1>5, <1>6, <1>7 DEF SInv, Filled, Placing
<1>13. QED
  BY <1>9, <1>11, <1>12 DEF SInv

\* The index of a log is never written over a header.
LEMMA NeverNowhere == ASSUME IInv, SInv, WriteNowhere PROVE FALSE
<1>1. pc = "idx_pre" /\ cur.sec = Nowhere
  BY DEF WriteNowhere
<1>2. job = "append"
  BY <1>1 DEF IInv, Jobs, Placing
<1>3. QED
  BY <1>1, <1>2 DEF SInv, FullNowhere, AtRest

\* A sector is erased, for an append the one that holds the oldest logs.
LEMMA EraseStores == ASSUME IInv, IInv', SInv, Erase PROVE SInv'
<1>1. /\ pc = "erase" /\ pc' = "empty" /\ job' = job /\ fmt' = fmt /\ cur' = cur
      /\ rollover' = rollover /\ hdr' = [hdr EXCEPT ![fmt] = ErasedHdr]
  BY DEF Erase, ram
<1>2. /\ fmt \in Sectors /\ job \in {"append", "clean"}
      /\ job = "append" => fmt = cur.sec /\ cur.sec # Nowhere
  BY <1>1, FormatFacts DEF Formatting, SInv, NeverInit
<1>3. /\ hdr'[fmt].store = 0 /\ \A t \in Sectors : t # fmt => hdr'[t] = hdr[t]
  BY <1>1, <1>2, HeaderTypes DEF IInv, Types
<1>4. \A t \in Sectors : t # fmt => Count(t)' = Count(t)
  BY <1>2, EraseCounts
<1>5. MagicSet' /\ NeverInit' /\ FullNowhere' /\ RollsOver' /\ Rest'
  BY <1>1, <1>2, <1>3
     DEF SInv, MagicSet, NeverInit, FullNowhere, RollsOver, Rest, AtRest
<1>6. Filled'
  BY <1>1, <1>3, <1>4 DEF SInv, Filled, Placing
<1>7. job = "append" => rollover /\ \A t \in Sectors : t # fmt => hdr'[t].store = FULL
  BY <1>1, <1>3 DEF SInv, Wrapped, Formatting
<1>8. Wrapped' /\ OneRound'
  BY <1>1, <1>2, <1>7 DEF Wrapped, OneRound
<1>9. Sequence'
  <2> SUFFICES ASSUME job = "append", NEW h \in 0..NSec, h = cur.sec PROVE Laid(h)'
    BY <1>1, <1>2 DEF Sequence, AtHead, Down
  <2>1. \A t \in Sectors : t < h \/ t > h => t # fmt
    BY <1>2, ConstantFacts
  <2>2. QED
    BY <1>7, <2>1 DEF Laid, AllBehind
<1>10. QED
  BY <1>5, <1>6, <1>8, <1>9 DEF SInv

LEMMA EmptyStores == ASSUME IInv, SInv, WriteEmpty PROVE SInv'
<1>1. /\ pc = "empty" /\ pc' = "magic" /\ job' = job /\ fmt' = fmt /\ cur' = cur
      /\ rollover' = rollover /\ slot' = slot
      /\ hdr' = [hdr EXCEPT ![fmt].store = Program(@, EMPTY)]
  BY DEF WriteEmpty, ram
<1>2. /\ fmt \in Sectors /\ job \in {"append", "clean"}
      /\ job = "append" => fmt = cur.sec /\ cur.sec # Nowhere
  BY <1>1, FormatFacts DEF Formatting, SInv, NeverInit
<1>3. hdr[fmt].store = 0
  BY <1>1 DEF IInv, FormatSteps
<1>4. /\ hdr'[fmt].store = EMPTY /\ \A t \in Sectors : t # fmt => hdr'[t] = hdr[t]
  <2>1. hdr \in [Sectors -> Header]
    BY DEF IInv, Types
  <2>2. Program(0, EMPTY) = EMPTY
    BY DEF Program
  <2>3. QED
    BY <1>1, <1>2, <1>3, <2>1, <2>2 DEF Header
<1>5. \A t \in Sectors : Count(t)' = Count(t)
  BY <1>1, SlotsStay
<1>6. MagicSet' /\ NeverInit' /\ FullNowhere' /\ RollsOver' /\ Rest'
  BY <1>1, <1>2, <1>4
     DEF SInv, MagicSet, NeverInit, FullNowhere, RollsOver, Rest, AtRest
<1>7. Filled'
  BY <1>1, <1>4, <1>5 DEF SInv, Filled, Placing
<1>8. job = "append" => \A t \in Sectors : t # fmt => hdr'[t].store = FULL
  BY <1>1, <1>4 DEF SInv, Wrapped, Formatting
<1>9. Wrapped'
  BY <1>1, <1>8 DEF Wrapped
<1>10. \A s, t \in Sectors : s < t \/ s > t => s # t
  BY ConstantFacts
<1>11. Sequence'
  <2> SUFFICES ASSUME job = "append", NEW h \in 0..NSec, h = cur.sec PROVE Laid(h)'
    BY <1>1, <1>2 DEF Sequence, AtHead, Down
  <2>1. \A t \in Sectors : t < h \/ t > h => t # fmt
    BY <1>2, <1>10
  <2>2. QED
    BY <1>8, <2>1 DEF Laid, AllBehind
<1>12. OneRound'
  <2> SUFFICES ASSUME job = "append", ~ rollover, NEW h \in 0..NSec, h = cur.sec
               PROVE  AllBehind(h, EMPTY)'
    BY <1>1, <1>2 DEF OneRound, AtHead, Down
  <2>1. AtHead(h)
    BY <1>1 DEF AtHead, Down
  <2>2. AllBehind(h, EMPTY)
    BY <1>1, <2>1 DEF SInv, OneRound, Down
  <2>3. \A t \in Sectors : t > h => t # fmt
    BY <1>2, <1>10
  <2>4. QED
    BY <1>4, <2>2, <2>3 DEF AllBehind
<1>13. QED
  BY <1>6, <1>7, <1>9, <1>11, <1>12 DEF SInv

\* The magic word ends the format of a sector; the last one ends a clean.
LEMMA MagicStores == ASSUME IInv, SInv, WriteMagic PROVE SInv'
<1>1. /\ pc = "magic" /\ rollover' = rollover /\ slot' = slot
      /\ hdr' = [hdr EXCEPT ![fmt].magic = TRUE]
  BY DEF WriteMagic
<1>2. /\ fmt \in Sectors /\ job \in {"append", "clean"}
      /\ job = "append" => fmt = cur.sec /\ cur.sec # Nowhere
  BY <1>1, FormatFacts DEF Formatting, SInv, NeverInit
<1>3. hdr[fmt].store = EMPTY
  BY <1>1 DEF IInv, FormatSteps
<1>4. /\ hdr'[fmt].magic
      /\ \A t \in Sectors : /\ hdr'[t].store = hdr[t].store
                            /\ t # fmt => hdr'[t] = hdr[t]
  <2>1. hdr \in [Sectors -> Header]
    BY DEF IInv, Types
  <2>2. QED
    BY <1>1, <1>2, <2>1 DEF Header
<1>5. \A t \in Sectors : Count(t)' = Count(t)
  BY <1>1, SlotsStay
<1>6. \A t \in Sectors : hdr'[t].magic
  BY <1>1, <1>4 DEF SInv, MagicSet
<1>7. MagicSet' /\ RollsOver' /\ Filled'
  BY <1>1, <1>4, <1>5, <1>6 DEF SInv, MagicSet, RollsOver, Filled, Placing
<1>8. CASE job = "append"
  <2>1. pc' = "using" /\ job' = job /\ cur' = Fresh(fmt, cur)
    BY <1>8 DEF WriteMagic
  <2>2. cur'.sec = fmt
    BY <1>2, <2>1, FreshFacts DEF IInv, Types
  <2>3. \A h : (AtHead(h)' <=> h = cur.sec) /\ (AtHead(h) <=> h = cur.sec)
    BY <1>1, <1>2, <1>8, <2>1, <2>2 DEF AtHead, Down
  <2>4. NeverInit' /\ FullNowhere' /\ Rest' /\ Wrapped'
    BY <1>2, <1>8, <2>1, <2>2
       DEF SInv, NeverInit, FullNowhere, Rest, Wrapped, AtRest, Formatting
  <2>5. Sequence' /\ OneRound'
    <3>1. \A h : (Laid(h)' <=> Laid(h)) /\ (AllBehind(h, EMPTY)' <=> AllBehind(h, EMPTY))
      BY <1>4 DEF Laid, AllBehind
    <3>2. QED
      BY <1>1, <1>8, <2>1, <2>3, <3>1 DEF SInv, Sequence, OneRound, Down
  <2>6. QED
    BY <1>7, <2>4, <2>5 DEF SInv
<1>9. CASE job = "clean" /\ fmt + 1 < NSec
  <2>1. pc' = "erase" /\ job' = job /\ cur' = cur
    BY <1>9 DEF WriteMagic
  <2>2. NeverInit' /\ FullNowhere' /\ Rest' /\ Wrapped' /\ Sequence' /\ OneRound'
    BY <1>9, <2>1
       DEF SInv, NeverInit, FullNowhere, Rest, Wrapped, Sequence, OneRound, AtRest
  <2>3. QED
    BY <1>7, <2>2 DEF SInv
<1>10. CASE job = "clean" /\ ~ (fmt + 1 < NSec)
  <2>1. pc' = "idle" /\ job' = "none" /\ cur' = Fresh(0, cur)
    BY <1>10 DEF WriteMagic
  <2>2. cur'.sec = 0
    BY <2>1, FreshFacts, ConstantFacts DEF IInv, Types
  <2>3. All(EMPTY)'
    <3>1. \A s \in Sectors : s = fmt \/ s \in 0..(fmt - 1)
      BY <1>2, <1>10, ConstantFacts
    <3>2. \A s \in 0..(fmt - 1) : hdr[s].store = EMPTY
      BY <1>1, <1>10 DEF IInv, FormatSteps, Formatting, Formatted
    <3>3. QED
      BY <1>3, <1>4, <3>1, <3>2 DEF All
  <2>4. \A h : AtHead(h)' <=> h = 0
    BY <2>1, <2>2 DEF AtHead, Down
  <2>5. \A s \in Sectors : ~ (s < 0)
    BY ConstantFacts
  <2>6. NeverInit' /\ FullNowhere' /\ Wrapped'
    BY <2>1, <2>2, ConstantFacts DEF NeverInit, FullNowhere, Wrapped, Formatting, Nowhere
  <2>7. Sequence' /\ OneRound' /\ Rest'
    BY <2>3, <2>4, <2>5 DEF Sequence, OneRound, Rest, Resting, Laid, AllBehind, All
  <2>8. QED
    BY <1>7, <2>6, <2>7 DEF SInv
<1>11. QED
  BY <1>2, <1>8, <1>9, <1>10

LEMMA CleanStores == ASSUME IInv, SInv, BeginClean PROVE SInv'
<1>1. /\ pc = "idle" /\ pc' = "erase" /\ job' = "clean" /\ hdr' = hdr /\ slot' = slot
      /\ cur' = cur /\ rollover' = rollover
  BY DEF BeginClean, flash, ram
<1>2. \A t \in Sectors : Count(t)' = Count(t)
  BY <1>1, SlotsStay
<1>3. QED
  BY <1>1, <1>2
     DEF SInv, MagicSet, NeverInit, FullNowhere, Sequence, Rest, Wrapped, Filled, RollsOver,
         OneRound, AtRest, Placing, AllBehind

\* The database goes down with the flash at rest, or with a sector in use.
LEMMA DownStores ==
    ASSUME IInv, SInv, pc \in EndCuts, UNCHANGED <<hdr, slot, rollover>>,
           pc' = "off", job' = "none", cur'.sec # Nowhere \/ cur' = cur,
           cur' = cur \/ (cur'.sec = 0 /\ (pc = "idle" => ~ SwitchedOff))
    PROVE  SInv'
<1>1. \A t \in Sectors : Count(t)' = Count(t)
  BY SlotsStay
<1>2. cur.sec \in 0..NSec
  BY DEF IInv, Types, CurInfo
<1>3. AtHead(cur.sec) /\ job \in {"none", "append"}
  BY DEF AtHead, Down, EndCuts, Ending, IInv, Jobs
<1>4. Laid(cur.sec)
  BY <1>2, <1>3 DEF SInv, Sequence
<1>5. (cur.sec \in Sectors /\ hdr[cur.sec].store = USING) \/ (pc = "idle" /\ Resting(cur.sec))
  <2>1. CASE pc = "idle"
    BY <1>2, <1>3, <2>1 DEF SInv, Rest, AtRest
  <2>2. CASE pc \in Ending
    BY <2>2, EndPlace
  <2>3. CASE pc = "full"
    <3>1. Serving /\ cur.sec \in Sectors /\ cur.sec # Nowhere
      BY <2>3, ServingFacts
    <3>2. Known
      BY <2>3, <3>1 DEF Known, Formatting
    <3>3. QED
      BY <2>3, <3>1, <3>2 DEF IInv, StoreKnown
  <2>4. QED
    BY <2>1, <2>2, <2>3 DEF EndCuts
<1>6. MagicSet' /\ NeverInit' /\ RollsOver' /\ Wrapped' /\ OneRound'
  BY DEF SInv, MagicSet, NeverInit, RollsOver, Wrapped, OneRound, EndCuts, Ending, Formatting, Down
<1>7. Filled'
  BY <1>1 DEF SInv, Filled, EndCuts, Ending, Placing
<1>8. FullNowhere'
  BY DEF SInv, FullNowhere, AtRest
<1>9. CASE cur.sec \in Sectors /\ hdr[cur.sec].store = USING
  <2>1. \A h : AtHead(h)' => h = cur.sec
    BY <1>9 DEF AtHead, Down, Unused, IInv, Flash, AtMostOne
  <2>2. Sequence' /\ Rest'
    BY <1>4, <1>9, <2>1 DEF Sequence, Rest, Resting, Laid, AllBehind
  <2>3. QED
    BY <1>6, <1>7, <1>8, <2>2 DEF SInv
<1>10. CASE pc = "idle" /\ Resting(cur.sec) /\ Unused
  <2>1. \A h : AtHead(h)' => h = cur'.sec
    BY <1>10 DEF AtHead, Down, Unused
  <2>2. ASSUME cur' = cur PROVE Sequence' /\ Rest'
    <3>1. Laid(cur.sec)' /\ Resting(cur.sec)'
      BY <1>4, <1>10, <2>2 DEF Resting, Laid, AllBehind, All
    <3>2. \A h : AtHead(h)' => Laid(h)' /\ Resting(h)'
      BY <2>1, <2>2, <3>1 DEF Resting, Laid, AllBehind, All
    <3>3. QED
      BY <3>2 DEF Sequence, Rest
  <2>3. ASSUME cur' # cur PROVE Sequence' /\ Rest'
    <3>1. All(EMPTY) /\ cur'.sec = 0
      BY <1>10, <2>3 DEF Resting, Unused
    <3>2. \A s \in Sectors : ~ (s < 0)
      BY ConstantFacts
    <3>3. QED
      BY <2>1, <3>1, <3>2 DEF Sequence, Rest, Resting, Laid, AllBehind, All
  <2>4. Sequence' /\ Rest'
    BY <2>2, <2>3
  <2>5. QED
    BY <1>6, <1>7, <1>8, <2>4 DEF SInv
<1>11. QED
  <2>1. ~ Unused /\ pc = "idle" /\ Resting(cur.sec) => cur.sec \in Sectors /\ hdr[cur.sec].store = USING
    BY DEF Resting, All, Unused
  <2>2. QED
    BY <1>5, <1>9, <1>10, <2>1

LEMMA OffStores ==
    ASSUME IInv, SInv, KeepsOrder, Deinit \/ PowerCut
    PROVE  SInv'
<1>1. CASE Deinit
  <2>1. /\ pc = "idle" /\ pc' = "off" /\ UNCHANGED <<hdr, slot, rollover>> /\ cur' = cur
        /\ job' = "none"
    BY <1>1 DEF Deinit, flash, ram, IInv, Jobs
  <2>2. pc \in EndCuts
    BY <2>1 DEF EndCuts
  <2>3. QED
    BY <2>1, <2>2, DownStores
<1>2. CASE PowerCut
  <2>1. /\ pc' = "off" /\ UNCHANGED <<hdr, slot, rollover>> /\ cur' = ZeroInfo /\ job' = "none"
    BY <1>2 DEF PowerCut, flash
  <2>2. cur'.sec = 0 /\ cur'.sec # Nowhere
    BY <2>1, ConstantFacts DEF ZeroInfo, Nowhere
  <2>3. pc \in EndCuts /\ (pc = "idle" => ~ SwitchedOff)
    BY <1>2, CutFacts
  <2>4. QED
    BY <2>1, <2>2, <2>3, DownStores
<1>3. QED
  BY <1>1, <1>2

\* A database without logs that waits for a call is empty.
LEMMA NothingStored ==
    ASSUME IInv, SInv, pc = "idle", Stored = {}
    PROVE  All(EMPTY)
<1>1. \A s \in Sectors : hdr[s].store >= USING => ~ (Count(s) > 0)
  <2> SUFFICES ASSUME NEW s \in Sectors, hdr[s].store >= USING, Count(s) > 0 PROVE FALSE
    OBVIOUS
  <2>1. 0 \in Slots
    BY ConstantFacts
  <2>2. <<s, 0>> \in Stored
    BY <2>1 DEF Stored
  <2>3. QED
    BY <2>2
<1>2. \A s \in Sectors : hdr[s].store \notin {USING, FULL}
  BY <1>1 DEF SInv, Filled, Placing
<1>3. PICK h \in 0..NSec : AtHead(h)
  BY HeadExists
<1>4. Resting(h)
  BY <1>3 DEF SInv, Rest, AtRest
<1>5. 0 \in Sectors
  BY ConstantFacts
<1>6. QED
  BY <1>2, <1>4, <1>5 DEF Resting, All

LEMMA RolloverStores ==
    ASSUME IInv, SInv, KeepsOrder, NEW b \in Rollovers, SetRollover(b)
    PROVE  SInv'
<1>1. /\ pc = "idle" /\ Stored = {} /\ rollover' = b /\ cur' = cur
      /\ UNCHANGED <<hdr, slot, pc, job, fmt>>
  BY DEF SetRollover, KeepsOrder, flash
<1>2. \A t \in Sectors : Count(t)' = Count(t)
  BY <1>1, SlotsStay
<1>3. \A h : AtHead(h)' <=> AtHead(h)
  BY <1>1 DEF AtHead, Unused
<1>4. MagicSet' /\ NeverInit' /\ FullNowhere' /\ Wrapped' /\ Filled'
  BY <1>1, <1>2 DEF SInv, MagicSet, NeverInit, FullNowhere, Wrapped, Filled, Formatting
<1>5. Sequence' /\ Rest'
  BY <1>1, <1>3 DEF SInv, Sequence, Rest, Laid, Resting, AllBehind, All
<1>6. RollsOver'
  <2>1. b \in BOOLEAN
    BY ConstantFacts
  <2>2. b = FALSE => SwitchedOff
    BY DEF SwitchedOff
  <2>3. QED
    BY <1>1, <2>1, <2>2 DEF RollsOver
<1>7. OneRound'
  BY <1>1, NothingStored DEF OneRound, AllBehind, All
<1>8. QED
  BY <1>4, <1>5, <1>6, <1>7 DEF SInv

\* What an init finds, and the sector it goes on with.
LEMMA InitHead ==
    ASSUME IInv, SInv, InitTsdb
    PROVE  \E h \in 0..NSec :
              /\ AtHead(h) /\ Laid(h)
              /\ \/ h \in Sectors /\ hdr[h].store = USING /\ cur'.sec = h /\ cur'.store = USING
                 \/ All(EMPTY) /\ cur'.sec = 0 /\ cur'.store = EMPTY
                 \/ /\ All(FULL) /\ h >= NSec - 1 /\ SwitchedOff
                    /\ cur'.sec = Nowhere /\ cur'.store = FULL
<1>1. pc = "off" /\ ~ CheckFails
  BY DEF InitTsdb
<1>2. PICK h \in 0..NSec : AtHead(h)
  BY HeadExists
<1>3. Laid(h) /\ Resting(h)
  <2>1. job # "clean"
    BY <1>1 DEF IInv, Jobs
  <2>2. QED
    BY <1>1, <1>2, <2>1 DEF SInv, Sequence, Rest, AtRest
<1>4. /\ Current = Nowhere => \A s \in Sectors : hdr[s].store \notin {EMPTY, USING}
      /\ Current = Nowhere \/ Current \in Sectors
      /\ Current # Nowhere => hdr[Current].store \in {EMPTY, USING}
      /\ Current # Nowhere /\ hdr[Current].store = EMPTY => Unused
  BY <1>1, CurrentFacts
<1>5. /\ cur'.sec = Current
      /\ Current = Nowhere => cur' = [cur EXCEPT !.sec = Nowhere]
      /\ Current # Nowhere => cur'.store = hdr[Current].store
  BY InitTsdbFacts
<1>6. CASE h \in Sectors /\ hdr[h].store = USING
  <2>1. Current \in Sectors /\ hdr[Current].store = USING
    BY <1>4, <1>6 DEF Unused
  <2>2. Current = h
    BY <1>6, <2>1 DEF IInv, Flash, AtMostOne
  <2>3. Current # Nowhere
    BY <2>1, ConstantFacts DEF Nowhere
  <2>4. QED
    BY <1>2, <1>3, <1>5, <1>6, <2>2, <2>3
<1>7. CASE All(EMPTY)
  <2>1. 0 \in Sectors /\ Sectors \in SUBSET Nat
    BY ConstantFacts
  <2>2. InUse \cup Empties = Sectors
    BY <1>7 DEF InUse, Empties, All
  <2>3. Current = Min(Sectors)
    BY <2>1, <2>2 DEF Current
  <2>4. Min(Sectors) \in Sectors /\ \A y \in Sectors : Min(Sectors) <= y
    BY <2>1, MinOfNaturals
  <2>5. Current = 0 /\ Current # Nowhere
    BY <2>1, <2>3, <2>4, ConstantFacts DEF Nowhere
  <2>6. QED
    BY <1>2, <1>3, <1>5, <1>7, <2>1, <2>5 DEF All
<1>8. CASE All(FULL) /\ cur.store = FULL /\ h >= NSec - 1 /\ SwitchedOff
  <2>1. Current = Nowhere
    BY <1>4, <1>8 DEF All
  <2>2. cur'.store = FULL
    BY <1>5, <1>8, <2>1 DEF IInv, Types, CurInfo
  <2>3. QED
    BY <1>2, <1>3, <1>5, <1>8, <2>1, <2>2
<1>9. QED
  BY <1>3, <1>6, <1>7, <1>8 DEF Resting

LEMMA InitStores == ASSUME IInv, SInv, InitTsdb PROVE SInv'
<1>1. /\ pc = "off" /\ pc' = "idle" /\ UNCHANGED <<hdr, slot, job, fmt>> /\ rollover' = TRUE
  BY DEF InitTsdb, flash
<1>2. job = "none"
  BY <1>1 DEF IInv, Jobs
<1>3. \A t \in Sectors : Count(t)' = Count(t)
  BY <1>1, SlotsStay
<1>4. PICK h \in 0..NSec :
         /\ Laid(h)
         /\ \/ h \in Sectors /\ hdr[h].store = USING /\ cur'.sec = h
            \/ All(EMPTY) /\ cur'.sec = 0
            \/ /\ All(FULL) /\ h >= NSec - 1 /\ SwitchedOff
               /\ cur'.sec = Nowhere /\ cur'.store = FULL
  BY InitHead
<1>5. \A g : AtHead(g)' <=> g = cur'.sec
  BY <1>1, <1>2 DEF AtHead, Down
<1>6. MagicSet' /\ NeverInit' /\ RollsOver' /\ Wrapped' /\ Filled' /\ OneRound'
  BY <1>1, <1>2, <1>3
     DEF SInv, MagicSet, NeverInit, RollsOver, Wrapped, Filled, OneRound, Formatting, Placing
<1>7. /\ 0 # Nowhere /\ Nowhere \notin Sectors /\ Nowhere >= NSec - 1
      /\ \A s \in Sectors : ~ (s > Nowhere) /\ ~ (s < 0)
  BY ConstantFacts DEF Nowhere
<1>8. FullNowhere'
  BY <1>1, <1>4, <1>7 DEF FullNowhere, AtRest
<1>9. CASE h \in Sectors /\ hdr[h].store = USING /\ cur'.sec = h
  <2>1. Laid(h)' /\ Resting(h)'
    BY <1>1, <1>4, <1>9 DEF Laid, AllBehind, Resting
  <2>2. QED
    BY <1>5, <1>6, <1>8, <1>9, <2>1 DEF SInv, Sequence, Rest
<1>10. CASE All(EMPTY) /\ cur'.sec = 0
  <2>1. Laid(0)' /\ Resting(0)'
    BY <1>1, <1>7, <1>10 DEF Laid, AllBehind, Resting, All
  <2>2. QED
    BY <1>5, <1>6, <1>8, <1>10, <2>1 DEF SInv, Sequence, Rest
<1>11. CASE All(FULL) /\ SwitchedOff /\ cur'.sec = Nowhere /\ cur'.store = FULL
  <2>1. Laid(Nowhere)' /\ Resting(Nowhere)'
    <3>1. All(FULL)'
      BY <1>1, <1>11 DEF All
    <3>2. Laid(Nowhere)'
      BY <3>1 DEF Laid, AllBehind, All
    <3>3. QED
      BY <1>7, <1>11, <3>1, <3>2 DEF Resting
  <2>2. Sequence' /\ Rest'
    BY <1>5, <1>11, <2>1 DEF Sequence, Rest
  <2>3. QED
    BY <1>6, <1>8, <2>2 DEF SInv
<1>12. QED
  BY <1>4, <1>9, <1>10, <1>11

\* No init of these finds a reason to format.
LEMMA NoFormats == ASSUME IInv, SInv, InitFormats PROVE FALSE
<1>1. pc = "off" /\ CheckFails
  BY DEF InitFormats
<1>2. job = "none"
  BY <1>1 DEF IInv, Jobs
<1>3. PICK s \in Sectors : Suspect(s)
  BY <1>1 DEF CheckFails
<1>4. hdr[s].magic
  BY <1>1 DEF SInv, MagicSet
<1>5. PICK t \in 0..(s - 1) : t \in InUse \cup Empties
  BY <1>3, <1>4 DEF Suspect
<1>6. hdr[s].store = USING
  BY <1>3, <1>4 DEF Suspect, InUse
<1>7. t \in Sectors /\ t < s /\ s \in 0..NSec
  BY ConstantFacts
<1>8. AtHead(s)
  BY <1>1, <1>2, <1>6 DEF AtHead, Down, Unused
<1>9. hdr[t].store = FULL
  BY <1>2, <1>7, <1>8 DEF SInv, Sequence, Laid
<1>10. QED
  BY <1>5, <1>9 DEF InUse, Empties

LEMMA AssertStores == ASSUME IInv, SInv, InitAsserts PROVE SInv'
<1>1. /\ pc = "off" /\ pc' = "hung" /\ UNCHANGED <<hdr, slot, job, fmt>> /\ cur' = cur
      /\ rollover' = TRUE
  BY DEF InitAsserts, flash
<1>2. \A t \in Sectors : Count(t)' = Count(t)
  BY <1>1, SlotsStay
<1>3. \A h : AtHead(h)' <=> AtHead(h)
  BY <1>1 DEF AtHead, Down, Unused
<1>4. MagicSet' /\ NeverInit' /\ FullNowhere' /\ RollsOver' /\ Wrapped' /\ Filled' /\ OneRound'
  BY <1>1, <1>2
     DEF SInv, MagicSet, NeverInit, FullNowhere, RollsOver, Wrapped, Filled, OneRound, Down,
         AtRest, Formatting, Placing
<1>5. Sequence' /\ Rest'
  BY <1>1, <1>3 DEF SInv, Sequence, Rest, AtRest, Laid, Resting, AllBehind, All
<1>6. QED
  BY <1>4, <1>5 DEF SInv

LEMMA StoresHold == Init => SInv
<1> SUFFICES ASSUME Init PROVE SInv
  OBVIOUS
<1>1. /\ pc = "off" /\ job = "none" /\ cur = ZeroInfo /\ rollover = TRUE
      /\ \A s \in Sectors : hdr[s].store = EMPTY /\ hdr[s].magic
  BY DEF Init, FormattedHdr, ErasedHdr
<1>2. cur.sec = 0
  BY <1>1 DEF ZeroInfo
<1>3. \A h : AtHead(h) => h = 0
  BY <1>1, <1>2 DEF AtHead, Unused
<1>4. (\A s \in Sectors : ~ (s < 0)) /\ 0 # Nowhere
  BY ConstantFacts DEF Nowhere
<1>5. MagicSet /\ NeverInit /\ FullNowhere /\ RollsOver /\ Wrapped /\ Filled /\ OneRound
  BY <1>1, <1>2, <1>4
     DEF MagicSet, NeverInit, FullNowhere, RollsOver, Wrapped, Filled, OneRound, Down, Formatting
<1>6. Sequence /\ Rest
  BY <1>1, <1>3, <1>4 DEF Sequence, Rest, Laid, Resting, AllBehind, All
<1>7. QED
  BY <1>5, <1>6 DEF SInv

LEMMA StoresNext ==
    ASSUME IInv, IInv', SInv, KeepsOrder, [Next]_vars
    PROVE  SInv'
<1>1. CASE UNCHANGED vars
  <2>1. UNCHANGED <<slot, hdr, pc, job, fmt, cur, rollover>>
    BY <1>1 DEF vars, flash, ram
  <2>2. QED
    BY <2>1, SlotsStay, SameStores
<1>2. CASE Step
  BY <1>2, EndStores, LastStores, MarkStores, UseStores, PlaceStores, CommitStores,
     NeverNowhere, EraseStores, EmptyStores, MagicStores, InitStores, NoFormats, AssertStores
     DEF Step
<1>3. CASE Call
  BY <1>3, CallStores, CleanStores, OffStores, RolloverStores, StatusStores DEF Call
<1>4. CASE PowerCut
  BY <1>4, OffStores
<1>5. QED
  BY <1>1, <1>2, <1>3, <1>4 DEF Next

-----------------------------------------------------------------------------
(* What the cells of logs hold when no cut leaves programmed cells behind. *)

Half == {"idx_body", "log", "commit"}

\* Cells behind the nodes are erased, but for the log under way.
Bare == \A s \in Sectors, n \in Slots :
            n >= Count(s) => slot[s][n] = Blank \/ (pc \in Half /\ s = cur.sec /\ n = cur.n)
\* How far the log under way is written.
HalfWritten == pc \in Half =>
    /\ slot[cur.sec][cur.n].time = IF pc = "idx_body" THEN Erased ELSE req.time
    /\ slot[cur.sec][cur.n].data = IF pc = "commit" THEN {req.log} ELSE {}
Whole == \A s \in Sectors, n \in Slots :
             n < Count(s) => \E l \in Logs : slot[s][n].data = {l}

DInv == Bare /\ HalfWritten /\ Whole

LEMMA DataStays ==
    ASSUME DInv, UNCHANGED slot, pc \notin Half, pc' \notin Half
    PROVE  DInv'
<1>1. \A s : Count(s)' = Count(s)
  BY SlotsStay
<1>2. QED
  BY <1>1 DEF DInv, Bare, HalfWritten, Whole

\* A program of the slot under way that completes no log.
LEMMA SlotData ==
    ASSUME IInv, DInv, IdxPrepare \/ IdxBody \/ WriteLog
    PROVE  DInv'
<1>1. pc \in Placing /\ pc # "commit" /\ cur.sec # Nowhere /\ cur' = cur /\ req' = req
  BY NodeFacts DEF ram
<1>2. /\ cur.sec \in Sectors /\ cur.n \in Slots /\ cur.n = Count(cur.sec) /\ cur.n >= Count(cur.sec)
  BY <1>1, Place, ConstantFacts
<1>3. slot \in [Sectors -> [Slots -> Slot]]
  BY DEF IInv, Types
<1> DEFINE o == slot[cur.sec][cur.n]
<1>4. PICK v \in Slot : slot' = [slot EXCEPT ![cur.sec][cur.n] = v]
  BY NodeFacts
<1>5. /\ slot'[cur.sec][cur.n] = v
      /\ \A s \in Sectors, n \in Slots :
            ~ (s = cur.sec /\ n = cur.n) => slot'[s][n] = slot[s][n]
  BY <1>2, <1>3, <1>4
<1>6. \A s \in Sectors : Count(s)' = Count(s)
  BY NodeCounts
<1>7. pc' \in Half
  BY DEF IdxPrepare, IdxBody, WriteLog, Half
<1>8. Bare'
  <2> SUFFICES ASSUME NEW s \in Sectors, NEW n \in Slots, n >= Count(s)',
                      ~ (s = cur.sec /\ n = cur.n)
               PROVE  slot'[s][n] = Blank
    BY <1>1, <1>7 DEF Bare
  <2>1. n >= Count(s) /\ slot'[s][n] = slot[s][n]
    BY <1>5, <1>6
  <2>2. QED
    BY <2>1 DEF DInv, Bare
<1>9. Whole'
  <2> SUFFICES ASSUME NEW s \in Sectors, NEW n \in Slots, n < Count(s)'
               PROVE  \E l \in Logs : slot'[s][n].data = {l}
    BY DEF Whole
  <2>1. n < Count(s) /\ ~ (s = cur.sec /\ n = cur.n)
    BY <1>2, <1>6, ConstantFacts
  <2>2. slot'[s][n] = slot[s][n]
    BY <1>5, <2>1
  <2>3. QED
    BY <2>1, <2>2 DEF DInv, Whole
<1>10. HalfWritten'
  <2>1. CASE IdxPrepare
    <3>1. pc = "idx_pre" /\ pc' = "idx_body"
      BY <2>1 DEF IdxPrepare
    <3>2. o = Blank
      BY <1>2, <3>1 DEF DInv, Bare, Half
    <3>3. slot'[cur.sec][cur.n].time = o.time /\ slot'[cur.sec][cur.n].data = o.data
      BY <1>2, <1>3, <2>1 DEF IdxPrepare, Slot
    <3>4. slot'[cur.sec][cur.n].time = Erased /\ slot'[cur.sec][cur.n].data = {}
      BY <3>2, <3>3 DEF Blank
    <3>5. QED
      BY <1>1, <3>1, <3>4 DEF HalfWritten
  <2>2. CASE IdxBody
    <3>1. pc = "idx_body" /\ pc' = "log"
      BY <2>2 DEF IdxBody
    <3>2. o.time = Erased /\ o.data = {}
      BY <3>1 DEF DInv, HalfWritten, Half
    <3>3. /\ slot'[cur.sec][cur.n].time = And(o.time, req.time)
          /\ slot'[cur.sec][cur.n].data = o.data
      BY <1>2, <1>3, <2>2 DEF IdxBody, Slot
    <3>4. slot'[cur.sec][cur.n].time = req.time /\ slot'[cur.sec][cur.n].data = {}
      BY <3>2, <3>3 DEF And
    <3>5. QED
      BY <1>1, <3>1, <3>4 DEF HalfWritten
  <2>3. CASE WriteLog
    <3>1. pc = "log" /\ pc' = "commit"
      BY <2>3 DEF WriteLog
    <3>2. o.time = req.time /\ o.data = {}
      BY <3>1 DEF DInv, HalfWritten, Half
    <3>3. /\ slot'[cur.sec][cur.n].time = o.time
          /\ slot'[cur.sec][cur.n].data = o.data \cup {req.log}
      BY <1>2, <1>3, <2>3 DEF WriteLog, Slot
    <3>4. slot'[cur.sec][cur.n].time = req.time /\ slot'[cur.sec][cur.n].data = {req.log}
      BY <3>2, <3>3
    <3>5. QED
      BY <1>1, <3>1, <3>4 DEF HalfWritten
  <2>4. QED
    BY <2>1, <2>2, <2>3
<1>11. QED
  BY <1>8, <1>9, <1>10 DEF DInv

\* What Commit adds: the log that was asked for.
LEMMA CommitNode ==
    ASSUME IInv, DInv, Commit
    PROVE  /\ cur.sec \in Sectors /\ cur.n \in Slots /\ cur.n = Count(cur.sec)
           /\ slot'[cur.sec][cur.n].time = req.time
           /\ slot'[cur.sec][cur.n].data = {req.log}
           /\ slot'[cur.sec][cur.n].st = WRITE
           /\ \A s \in Sectors, n \in Slots :
                 ~ (s = cur.sec /\ n = cur.n) => slot'[s][n] = slot[s][n]
           /\ \A s \in Sectors : Count(s)' = IF s = cur.sec THEN cur.n + 1 ELSE Count(s)
<1>1. /\ cur.sec \in Sectors /\ cur.n \in Slots /\ cur.n = Count(cur.sec)
      /\ \A t \in Sectors, m \in Slots :
            /\ slot'[t][m].data = slot[t][m].data
            /\ slot'[t][m].time = slot[t][m].time
            /\ slot'[t][m].st = IF t = cur.sec /\ m = cur.n THEN WRITE ELSE slot[t][m].st
      /\ \A t \in Sectors : Count(t)' = IF t = cur.sec THEN cur.n + 1 ELSE Count(t)
  BY CommitFacts
<1>2. slot[cur.sec][cur.n].time = req.time /\ slot[cur.sec][cur.n].data = {req.log}
  BY DEF Commit, DInv, HalfWritten, Half
<1>3. \A s \in Sectors, n \in Slots :
         ~ (s = cur.sec /\ n = cur.n) => slot'[s][n] = slot[s][n]
  <2>1. PICK x : slot' = [slot EXCEPT ![cur.sec][cur.n] = x]
    BY DEF Commit
  <2>2. slot \in [Sectors -> [Slots -> Slot]]
    BY DEF IInv, Types
  <2>3. QED
    BY <1>1, <2>1, <2>2
<1>4. QED
  BY <1>1, <1>2, <1>3

LEMMA CommitData == ASSUME IInv, DInv, Commit PROVE DInv'
<1>1. /\ cur.sec \in Sectors /\ cur.n \in Slots /\ cur.n = Count(cur.sec)
      /\ slot'[cur.sec][cur.n].data = {req.log}
      /\ \A s \in Sectors, n \in Slots :
            ~ (s = cur.sec /\ n = cur.n) => slot'[s][n] = slot[s][n]
      /\ \A s \in Sectors : Count(s)' = IF s = cur.sec THEN cur.n + 1 ELSE Count(s)
  BY CommitNode
<1>2. pc = "commit" /\ pc' = "idle" /\ req.log \in Logs
  BY DEF Commit, IInv, Types
<1>3. \A s \in Sectors : Count(s) \in Nat
  BY ConstantFacts DEF IInv, Flash, Packed
<1>4. Slots \subseteq Nat
  BY ConstantFacts
<1>5. Bare'
  <2> SUFFICES ASSUME NEW s \in Sectors, NEW n \in Slots, n >= Count(s)'
               PROVE  slot'[s][n] = Blank
    BY DEF Bare
  <2>1. n >= Count(s) /\ ~ (s = cur.sec /\ n = cur.n)
    BY <1>1, <1>3, <1>4
  <2>2. QED
    BY <1>1, <2>1 DEF DInv, Bare
<1>6. Whole'
  <2> SUFFICES ASSUME NEW s \in Sectors, NEW n \in Slots, n < Count(s)'
               PROVE  \E l \in Logs : slot'[s][n].data = {l}
    BY DEF Whole
  <2>1. CASE s = cur.sec /\ n = cur.n
    BY <1>1, <1>2, <2>1
  <2>2. CASE ~ (s = cur.sec /\ n = cur.n)
    <3>1. n < Count(s)
      BY <1>1, <1>3, <1>4, <2>2
    <3>2. QED
      BY <1>1, <2>2, <3>1 DEF DInv, Whole
  <2>3. QED
    BY <2>1, <2>2
<1>7. HalfWritten'
  BY <1>2 DEF HalfWritten, Half
<1>8. QED
  BY <1>5, <1>6, <1>7 DEF DInv

\* What fdb_tsl_set_status leaves alone.
LEMMA StatusNode ==
    ASSUME IInv, NEW s \in Sectors, NEW n \in Slots, NEW st \in Marks, TslSetStatus(s, n, st)
    PROVE  /\ n < Count(s)
           /\ \A t \in Sectors, m \in Slots :
                 /\ slot'[t][m].time = slot[t][m].time /\ slot'[t][m].data = slot[t][m].data
                 /\ ~ (t = s /\ m = n) => slot'[t][m] = slot[t][m]
<1>1. PICK v \in Slot : /\ slot' = [slot EXCEPT ![s][n] = v] /\ n < Count(s)
                        /\ v.time = slot[s][n].time /\ v.data = slot[s][n].data
  BY StatusFacts
<1>2. slot \in [Sectors -> [Slots -> Slot]]
  BY DEF IInv, Types
<1>3. \A t \in Sectors, m \in Slots :
         /\ ~ (t = s /\ m = n) => slot'[t][m] = slot[t][m]
         /\ t = s /\ m = n => slot'[t][m] = v
  BY <1>1, <1>2
<1>4. QED
  BY <1>1, <1>3

LEMMA StatusData ==
    ASSUME IInv, DInv, NEW s \in Sectors, NEW n \in Slots, NEW st \in Marks, TslSetStatus(s, n, st)
    PROVE  DInv'
<1>1. pc' = pc /\ cur' = cur /\ req' = req
  BY DEF TslSetStatus, ram
<1>2. /\ n < Count(s)
      /\ \A t \in Sectors, m \in Slots :
            /\ slot'[t][m].time = slot[t][m].time /\ slot'[t][m].data = slot[t][m].data
            /\ ~ (t = s /\ m = n) => slot'[t][m] = slot[t][m]
  BY StatusNode
<1>3. \A t \in Sectors : Count(t)' = Count(t) /\ Count(t) \in Nat
  BY StatusCounts, ConstantFacts DEF IInv, Flash, Packed
<1>4. Bare'
  <2> SUFFICES ASSUME NEW t \in Sectors, NEW m \in Slots, m >= Count(t)'
               PROVE  slot'[t][m] = Blank \/ (pc' \in Half /\ t = cur'.sec /\ m = cur'.n)
    BY DEF Bare
  <2>1. m >= Count(t) /\ ~ (t = s /\ m = n)
    BY <1>2, <1>3, ConstantFacts
  <2>2. QED
    BY <1>1, <1>2, <2>1 DEF DInv, Bare
<1>5. Whole'
  BY <1>2, <1>3 DEF DInv, Whole
<1>6. HalfWritten'
  <2> SUFFICES ASSUME pc \in Half
               PROVE  /\ slot'[cur.sec][cur.n].time = slot[cur.sec][cur.n].time
                      /\ slot'[cur.sec][cur.n].data = slot[cur.sec][cur.n].data
    BY <1>1 DEF DInv, HalfWritten
  <2>1. pc \in Placing /\ pc # "idx_pre" /\ pc # "idle"
    BY DEF Half, Placing
  <2>2. cur.sec # Nowhere
    BY <2>1, ServingFacts
  <2>3. cur.sec \in Sectors /\ cur.n \in Slots
    BY <2>1, <2>2, Place
  <2>4. QED
    BY <1>2, <2>3
<1>7. QED
  BY <1>4, <1>5, <1>6 DEF DInv

LEMMA EraseData == ASSUME IInv, DInv, Erase PROVE DInv'
<1>1. pc = "erase" /\ pc' = "empty" /\ 0 \in Slots /\ Slots \subseteq Nat
  BY ConstantFacts DEF Erase
<1>2. /\ fmt \in Sectors /\ slot'[fmt] = [n \in Slots |-> Blank]
      /\ \A t \in Sectors : t # fmt => slot'[t] = slot[t]
      /\ \A t \in Sectors : Count(t)' = IF t = fmt THEN 0 ELSE Count(t)
  BY EraseCounts
<1>3. Bare'
  BY <1>1, <1>2 DEF DInv, Bare, Half
<1>4. Whole'
  <2> SUFFICES ASSUME NEW t \in Sectors, NEW n \in Slots, n < Count(t)'
               PROVE  \E l \in Logs : slot'[t][n].data = {l}
    BY DEF Whole
  <2>1. t # fmt
    BY <1>1, <1>2
  <2>2. QED
    BY <1>2, <2>1 DEF DInv, Whole
<1>5. HalfWritten'
  BY <1>1 DEF HalfWritten, Half
<1>6. QED
  BY <1>3, <1>4, <1>5 DEF DInv

LEMMA DataHolds == Init => DInv
<1> SUFFICES ASSUME Init PROVE DInv
  OBVIOUS
<1>1. pc = "off" /\ slot = [s \in Sectors |-> [n \in Slots |-> Blank]]
  BY DEF Init
<1>2. IInv
  BY InitHolds
<1>3. \A s \in Sectors, n \in Slots : slot[s][n] = Blank /\ ~ (n < Count(s))
  <2> TAKE s \in Sectors, n \in Slots
  <2>1. slot[s][n] = Blank
    BY <1>1
  <2>2. slot[s][n].st = 0
    BY <2>1 DEF Blank
  <2>3. slot[s][n].st >= WRITE <=> n < Count(s)
    BY <1>2 DEF IInv, Flash, Packed
  <2>4. QED
    BY <2>1, <2>2, <2>3
<1>4. QED
  BY <1>1, <1>3 DEF DInv, Bare, HalfWritten, Whole, Half

LEMMA DataNext ==
    ASSUME IInv, SInv, DInv, KeepsOrder, [Next]_vars
    PROVE  DInv'
<1>1. CASE UNCHANGED vars
  <2>1. UNCHANGED <<slot, pc, cur, req>>
    BY <1>1 DEF vars, flash, ram
  <2>2. \A s : Count(s)' = Count(s)
    BY <2>1, SlotsStay
  <2>3. QED
    BY <2>1, <2>2 DEF DInv, Bare, HalfWritten, Whole
<1>2. CASE Step
  <2>1. CASE EndPrepare \/ EndBody \/ EndCommit \/ MarkLastFull \/ MarkFull
    BY <2>1, DataStays DEF EndPrepare, EndBody, EndCommit, MarkLastFull, MarkFull, Half
  <2>2. CASE UseSector \/ StartTime \/ WriteEmpty \/ WriteMagic
    BY <2>2, DataStays DEF UseSector, StartTime, WriteEmpty, WriteMagic, Half
  <2>3. CASE InitTsdb \/ InitFormats \/ InitAsserts
    BY <2>3, DataStays DEF InitTsdb, InitFormats, InitAsserts, flash, Half
  <2>4. QED
    BY <1>2, <2>1, <2>2, <2>3, SlotData, CommitData, NeverNowhere, EraseData DEF Step
<1>3. CASE Call
  <2>1. ASSUME NEW l \in Logs, NEW t \in Times,
               Refuse(l, t) \/ RefuseFull(l, t) \/ BeginAppend(l, t)
        PROVE  DInv'
    <3>1. UNCHANGED slot /\ pc = "idle" /\ pc' \in {"idle", "end_pre", "full", "using", "idx_pre"}
      BY <2>1 DEF Refuse, RefuseFull, BeginAppend, flash
    <3>2. QED
      BY <3>1, DataStays DEF Half
  <2>2. ASSUME NEW b \in Rollovers, SetRollover(b) PROVE DInv'
    BY <2>2, DataStays DEF SetRollover, flash, Half
  <2>3. ASSUME BeginClean \/ Deinit PROVE DInv'
    BY <2>3, DataStays DEF BeginClean, Deinit, flash, Half
  <2>4. QED
    BY <1>3, <2>1, <2>2, <2>3, StatusData DEF Call
<1>4. CASE PowerCut
  <2>1. UNCHANGED slot /\ pc' = "off"
    BY <1>4 DEF PowerCut, flash
  <2>2. pc \notin Half
    BY <1>4, CutFacts DEF EndCuts, Ending, Half
  <2>3. QED
    BY <2>1, <2>2, DataStays DEF Half
<1>5. QED
  BY <1>1, <1>2, <1>3, <1>4 DEF Next

-----------------------------------------------------------------------------
(* The order of the times.                                                 *)

\* Whether sector s holds older logs than sector t when h holds the newest.
Older(h, s, t) == IF s <= h THEN s < t /\ t <= h ELSE t <= h \/ s < t

InSector == \A s \in Sectors : \A m, n \in Slots :
                m < n /\ n < Count(s) => slot[s][m].time < slot[s][n].time
Across(h) == \A s, t \in Sectors : \A m, n \in Slots :
                 /\ Older(h, s, t)
                 /\ m < Count(s)
                 /\ n < Count(t)
                 => slot[s][m].time < slot[t][n].time
Sorted == InSector /\ \A h \in 0..NSec : AtHead(h) => Across(h)
Stamped == \A s \in Sectors, n \in Slots : n < Count(s) => slot[s][n].time \in Times
\* last_time is at or after every stored log; an init finds it again in the
\* sector in use.
Latest == pc \notin Down \/ Unused =>
              \A s \in Sectors, n \in Slots : n < Count(s) => slot[s][n].time <= lastTime
Asked == job = "append" => req.time > lastTime /\ req.time \in Times

TInv == Sorted /\ Stamped /\ Latest /\ Asked

LEMMA TimesStay ==
    ASSUME TInv,
           \A s \in Sectors : Count(s)' = Count(s),
           \A s \in Sectors, n \in Slots : slot'[s][n].time = slot[s][n].time,
           \A h \in 0..NSec : AtHead(h)' => AtHead(h),
           UNCHANGED lastTime,
           pc' \notin Down \/ Unused' => pc \notin Down \/ Unused,
           job' = "append" => job = "append" /\ req' = req
    PROVE  TInv'
<1>1. InSector'
  BY DEF TInv, Sorted, InSector
<1>2. \A h \in 0..NSec : AtHead(h)' => Across(h)'
  <2> SUFFICES ASSUME NEW h \in 0..NSec, AtHead(h)' PROVE Across(h)'
    OBVIOUS
  <2>1. Across(h)
    BY DEF TInv, Sorted
  <2>2. QED
    BY <2>1 DEF Across, Older
<1>3. Stamped' /\ Latest'
  BY DEF TInv, Stamped, Latest
<1>4. Asked'
  BY DEF TInv, Asked
<1>5. QED
  BY <1>1, <1>2, <1>3, <1>4 DEF TInv, Sorted

\* Without logs any times are in order.
LEMMA NoTimes ==
    ASSUME \A s \in Sectors, n \in Slots : ~ (n < Count(s)), job # "append"
    PROVE  TInv
BY DEF TInv, Sorted, InSector, Across, Stamped, Latest, Asked

LEMMA NoTimesNext ==
    ASSUME \A s \in Sectors, n \in Slots : ~ (n < Count(s)'), job' # "append"
    PROVE  TInv'
BY DEF TInv, Sorted, InSector, Across, Stamped, Latest, Asked

LEMMA EmptyHasNone ==
    ASSUME IInv
    PROVE  \A s \in Sectors, n \in Slots : hdr[s].store = EMPTY => ~ (n < Count(s))
<1> SUFFICES ASSUME NEW s \in Sectors, NEW n \in Slots, hdr[s].store = EMPTY PROVE ~ (n < Count(s))
  OBVIOUS
<1>1. Count(s) = 0
  BY EmptyCounts
<1>2. QED
  BY <1>1, ConstantFacts

\* cur_sec stays the newest sector in the middle of a call.
LEMMA HeadStays ==
    ASSUME pc \notin Down, pc' \notin Down, ~ (pc = "erase" /\ job = "append"),
           ~ (pc' = "erase" /\ job' = "append"), cur'.sec = cur.sec
    PROVE  \A h \in 0..NSec : AtHead(h)' => AtHead(h)
BY DEF AtHead

LEMMA CallTimes ==
    ASSUME IInv, TInv, NEW l \in Logs, NEW t \in Times,
           Refuse(l, t) \/ RefuseFull(l, t) \/ BeginAppend(l, t)
    PROVE  TInv'
<1>1. /\ pc = "idle" /\ slot' = slot /\ hdr' = hdr /\ cur' = cur /\ lastTime' = lastTime
      /\ fmt' = fmt /\ pc' \in {"idle", "end_pre", "full", "using", "idx_pre"}
  BY DEF Refuse, RefuseFull, BeginAppend, flash, ram
<1>2. \A h \in 0..NSec : AtHead(h)' => AtHead(h)
  BY <1>1, HeadStays DEF Down
<1>3. \A s \in Sectors : Count(s)' = Count(s)
  BY <1>1, SlotsStay
<1>4. CASE Refuse(l, t) \/ RefuseFull(l, t)
  <2>1. job' = job /\ req' = req
    BY <1>4 DEF Refuse, RefuseFull
  <2>2. QED
    BY <1>1, <1>2, <1>3, <2>1, TimesStay DEF Down
<1>5. CASE BeginAppend(l, t)
  <2>1. req'.time = t /\ t > lastTime
    BY <1>5 DEF BeginAppend, AcceptsAt
  <2>2. InSector' /\ Stamped' /\ Latest'
    BY <1>1, <1>3 DEF TInv, Sorted, InSector, Stamped, Latest, Down
  <2>3. \A h \in 0..NSec : AtHead(h)' => Across(h)'
    BY <1>1, <1>2, <1>3 DEF TInv, Sorted, Across, Older
  <2>4. Asked'
    BY <1>1, <2>1 DEF Asked
  <2>5. QED
    BY <2>2, <2>3, <2>4 DEF TInv, Sorted
<1>6. QED
  BY <1>4, <1>5

LEMMA QuietTimes ==
    ASSUME IInv, TInv,
           \/ EndPrepare \/ EndBody \/ EndCommit \/ MarkLastFull \/ UseSector \/ StartTime
           \/ WriteEmpty
    PROVE  TInv'
<1>1. /\ slot' = slot /\ lastTime' = lastTime /\ pc \notin Down /\ pc' \notin Down
      /\ pc # "erase" /\ pc' # "erase" /\ (job' = "append" => job = "append" /\ req' = req)
  BY DEF EndPrepare, EndBody, EndCommit, MarkLastFull, UseSector, StartTime, WriteEmpty, ram, Down
<1>2. cur'.sec = cur.sec
  BY DEF EndPrepare, EndBody, EndCommit, MarkLastFull, UseSector, StartTime, WriteEmpty, ram,
         Full, IInv, Types, CurInfo
<1>3. \A h \in 0..NSec : AtHead(h)' => AtHead(h)
  BY <1>1, <1>2, HeadStays
<1>4. \A s \in Sectors : Count(s)' = Count(s)
  BY <1>1, SlotsStay
<1>5. QED
  BY <1>1, <1>3, <1>4, TimesStay

\* The index under way is behind the nodes.
LEMMA SlotTimes ==
    ASSUME IInv, TInv, IdxPrepare \/ IdxBody \/ WriteLog
    PROVE  TInv'
<1>1. /\ pc \in Placing /\ pc' \in Placing /\ cur.sec # Nowhere /\ cur' = cur
      /\ lastTime' = lastTime /\ job' = job /\ req' = req /\ hdr' = hdr
  BY NodeFacts DEF ram
<1>2. cur.sec \in Sectors /\ cur.n \in Slots /\ cur.n = Count(cur.sec)
  BY <1>1, Place
<1>3. slot \in [Sectors -> [Slots -> Slot]]
  BY DEF IInv, Types
<1>4. PICK v \in Slot : slot' = [slot EXCEPT ![cur.sec][cur.n] = v]
  BY NodeFacts
<1>5. \A s \in Sectors : Count(s)' = Count(s)
  BY NodeCounts
<1>6. \A s \in Sectors, n \in Slots : n < Count(s) => slot'[s][n] = slot[s][n]
  <2> TAKE s \in Sectors, n \in Slots
  <2>1. n < Count(s) => ~ (s = cur.sec /\ n = cur.n)
    BY <1>2, ConstantFacts
  <2>2. QED
    BY <1>2, <1>3, <1>4, <2>1
<1>7. \A h \in 0..NSec : AtHead(h)' => AtHead(h)
  BY <1>1, HeadStays DEF Placing, Down
<1>8. InSector'
  <2> SUFFICES ASSUME NEW s \in Sectors, NEW m \in Slots, NEW n \in Slots, m < n, n < Count(s)
               PROVE  slot'[s][m].time < slot'[s][n].time
    BY <1>5 DEF InSector
  <2>1. m < Count(s)
    BY ConstantFacts DEF IInv, Flash, Packed
  <2>2. QED
    BY <1>6, <2>1 DEF TInv, Sorted, InSector
<1>9. \A h \in 0..NSec : AtHead(h)' => Across(h)'
  <2> SUFFICES ASSUME NEW h \in 0..NSec, AtHead(h)' PROVE Across(h)'
    OBVIOUS
  <2>1. Across(h)
    BY <1>7 DEF TInv, Sorted
  <2>2. QED
    BY <1>5, <1>6, <2>1 DEF Across, Older
<1>10. Stamped' /\ Latest'
  BY <1>1, <1>5, <1>6 DEF TInv, Stamped, Latest, Placing, Down
<1>11. Asked'
  BY <1>1 DEF TInv, Asked
<1>12. QED
  BY <1>8, <1>9, <1>10, <1>11 DEF TInv, Sorted

LEMMA StatusTimes ==
    ASSUME IInv, TInv, NEW s \in Sectors, NEW n \in Slots, NEW st \in Marks, TslSetStatus(s, n, st)
    PROVE  TInv'
<1>1. UNCHANGED <<hdr, pc, job, req, fmt, cur, lastTime>>
  BY DEF TslSetStatus, ram
<1>2. \A h \in 0..NSec : AtHead(h)' => AtHead(h)
  BY <1>1 DEF AtHead, Unused
<1>3. \A t \in Sectors, m \in Slots : slot'[t][m].time = slot[t][m].time
  BY StatusNode
<1>4. \A t \in Sectors : Count(t)' = Count(t)
  BY StatusCounts
<1>5. Unused' <=> Unused
  BY <1>1 DEF Unused
<1>6. QED
  BY <1>1, <1>2, <1>3, <1>4, <1>5, TimesStay

\* A log is newer than all logs before it.
LEMMA CommitTimes ==
    ASSUME IInv, DInv, TInv, Commit
    PROVE  TInv'
<1>1. /\ cur.sec \in Sectors /\ cur.n \in Slots /\ cur.n = Count(cur.sec)
      /\ slot'[cur.sec][cur.n].time = req.time
      /\ \A s \in Sectors, n \in Slots :
            ~ (s = cur.sec /\ n = cur.n) => slot'[s][n] = slot[s][n]
      /\ \A s \in Sectors : Count(s)' = IF s = cur.sec THEN cur.n + 1 ELSE Count(s)
  BY CommitNode
<1>2. /\ pc = "commit" /\ pc' = "idle" /\ job' = "none" /\ lastTime' = req.time
      /\ cur' = CurAfterCommit /\ job = "append"
  BY DEF Commit, IInv, Jobs, Placing
<1>3. cur'.sec = cur.sec
  BY <1>2 DEF CurAfterCommit, IInv, Types, CurInfo
<1>4. req.time > lastTime /\ req.time \in Times /\ req.time \in Int /\ lastTime \in Int
  BY <1>2, ConstantFacts DEF TInv, Asked, Times, IInv, Types, FlashTime
<1>5. /\ \A s \in Sectors : Count(s) \in Nat
      /\ Slots \subseteq Nat
  BY ConstantFacts DEF IInv, Flash, Packed
<1>6. \A s \in Sectors, n \in Slots :
         n < Count(s)' => IF s = cur.sec /\ n = cur.n THEN slot'[s][n].time = req.time
                          ELSE n < Count(s) /\ slot'[s][n] = slot[s][n]
  <2> TAKE s \in Sectors, n \in Slots
  <2>1. n < Count(s)' => (s = cur.sec /\ n = cur.n) \/ n < Count(s)
    BY <1>1, <1>5
  <2>2. QED
    BY <1>1, <2>1
<1>7. \A s \in Sectors, n \in Slots :
         n < Count(s) => /\ slot[s][n].time \in Int /\ slot[s][n].time < req.time
                         /\ slot[s][n].time \in Times
  <2> SUFFICES ASSUME NEW s \in Sectors, NEW n \in Slots, n < Count(s)
               PROVE  /\ slot[s][n].time \in Int /\ slot[s][n].time < req.time
                      /\ slot[s][n].time \in Times
    OBVIOUS
  <2>1. slot[s][n].time <= lastTime /\ slot[s][n].time \in Times
    BY <1>2 DEF TInv, Latest, Stamped, Down
  <2>2. QED
    BY <1>4, <2>1, ConstantFacts DEF Times
<1>8. InSector'
  <2> SUFFICES ASSUME NEW s \in Sectors, NEW m \in Slots, NEW n \in Slots, m < n, n < Count(s)'
               PROVE  slot'[s][m].time < slot'[s][n].time
    BY DEF InSector
  <2>1. m < Count(s) /\ ~ (s = cur.sec /\ m = cur.n)
    BY <1>1, <1>5
  <2>2. CASE s = cur.sec /\ n = cur.n
    BY <1>1, <1>7, <2>1, <2>2
  <2>3. CASE ~ (s = cur.sec /\ n = cur.n)
    <3>1. n < Count(s)
      BY <1>1, <1>5, <2>3
    <3>2. QED
      BY <1>1, <2>1, <2>3, <3>1 DEF TInv, Sorted, InSector
  <2>4. QED
    BY <2>2, <2>3
<1>9. \A h \in 0..NSec : AtHead(h)' => Across(h)'
  <2> SUFFICES ASSUME NEW h \in 0..NSec, AtHead(h)',
                      NEW s \in Sectors, NEW t \in Sectors, NEW m \in Slots, NEW n \in Slots,
                      Older(h, s, t), m < Count(s)', n < Count(t)'
               PROVE  slot'[s][m].time < slot'[t][n].time
    BY DEF Across, Older
  <2>1. h = cur.sec
    BY <1>2, <1>3 DEF AtHead, Down
  <2>2. Across(h)
    BY <1>2, <2>1, HeadServing DEF TInv, Sorted, Down
  <2>3. s # cur.sec
    BY <2>1, ConstantFacts DEF Older
  <2>4. m < Count(s) /\ slot'[s][m] = slot[s][m]
    BY <1>6, <2>3
  <2>5. CASE t = cur.sec /\ n = cur.n
    BY <1>1, <1>7, <2>4, <2>5
  <2>6. CASE ~ (t = cur.sec /\ n = cur.n)
    <3>1. n < Count(t) /\ slot'[t][n] = slot[t][n]
      BY <1>6, <2>6
    <3>2. QED
      BY <2>2, <2>4, <3>1 DEF Across
  <2>7. QED
    BY <2>5, <2>6
<1>10. Stamped'
  BY <1>4, <1>6, <1>7 DEF Stamped
<1>11. Latest'
  <2> SUFFICES ASSUME NEW s \in Sectors, NEW n \in Slots, n < Count(s)'
               PROVE  slot'[s][n].time <= req.time
    BY <1>2 DEF Latest
  <2>1. CASE s = cur.sec /\ n = cur.n
    BY <1>1, <1>4, <2>1
  <2>2. CASE ~ (s = cur.sec /\ n = cur.n)
    <3>1. n < Count(s) /\ slot'[s][n] = slot[s][n]
      BY <1>6, <2>2
    <3>2. QED
      BY <1>4, <1>7, <3>1
  <2>3. QED
    BY <2>1, <2>2
<1>12. Asked'
  BY <1>2 DEF Asked
<1>13. QED
  BY <1>8, <1>9, <1>10, <1>11, <1>12 DEF TInv, Sorted

\* Steps that store no log and leave the order of the sectors that hold logs.
LEMMA TimesKept ==
    ASSUME TInv,
           \A s \in Sectors, n \in Slots :
               n < Count(s)' => n < Count(s) /\ slot'[s][n].time = slot[s][n].time,
           \A k \in 0..NSec : AtHead(k)' =>
               \E h \in 0..NSec :
                  /\ AtHead(h)
                  /\ \A s, t \in Sectors, m, n \in Slots :
                        m < Count(s)' /\ n < Count(t)' /\ Older(k, s, t) => Older(h, s, t),
           \A s \in Sectors : Count(s)' \in Slots
    PROVE  Sorted' /\ Stamped'
<1>1. InSector'
  <2> SUFFICES ASSUME NEW s \in Sectors, NEW m \in Slots, NEW n \in Slots, m < n, n < Count(s)'
               PROVE  slot'[s][m].time < slot'[s][n].time
    BY DEF InSector
  <2>1. m < Count(s)'
    BY ConstantFacts
  <2>2. QED
    BY <2>1 DEF TInv, Sorted, InSector
<1>2. ASSUME NEW k \in 0..NSec, AtHead(k)' PROVE Across(k)'
  <2>1. PICK h \in 0..NSec :
           /\ AtHead(h)
           /\ \A s, t \in Sectors, m, n \in Slots :
                 m < Count(s)' /\ n < Count(t)' /\ Older(k, s, t) => Older(h, s, t)
    BY <1>2
  <2>2. Across(h)
    BY <2>1 DEF TInv, Sorted
  <2> SUFFICES ASSUME NEW s \in Sectors, NEW t \in Sectors, NEW m \in Slots, NEW n \in Slots,
                      Older(k, s, t), m < Count(s)', n < Count(t)'
               PROVE  slot'[s][m].time < slot'[t][n].time
    BY DEF Across, Older
  <2>3. Older(h, s, t)
    BY <2>1
  <2>4. QED
    BY <2>2, <2>3 DEF Across
<1>3. Stamped'
  BY DEF TInv, Stamped
<1>4. QED
  BY <1>1, <1>2, <1>3 DEF Sorted

LEMMA SameOrder ==
    ASSUME TInv, IInv, UNCHANGED slot, \A h \in 0..NSec : AtHead(h)' => AtHead(h)
    PROVE  /\ Sorted' /\ Stamped'
           /\ \A s \in Sectors : Count(s)' = Count(s)
<1>1. \A s \in Sectors : Count(s)' = Count(s) /\ Count(s) \in Slots
  BY SlotsStay DEF IInv, Flash, Packed
<1>2. QED
  BY <1>1, TimesKept

\* The next sector is the newest one now if it is empty; otherwise it holds the
\* oldest logs still.
LEMMA MarkTimes == ASSUME IInv, SInv, TInv, MarkFull PROVE TInv'
<1>1. /\ pc = "full" /\ slot' = slot /\ lastTime' = lastTime /\ job' = job /\ req' = req
      /\ hdr' = FullHdr
  BY DEF MarkFull
<1>2. cur.sec \in Sectors /\ cur.sec \in 0..NSec /\ job = "append"
  BY <1>1, FullStores
<1>3. AtHead(cur.sec)
  BY <1>1 DEF AtHead, Down
<1>4. PICK s \in Sectors :
         /\ s = NextSec(cur.sec) /\ cur'.sec = s
         /\ \/ pc' = "using" /\ s = cur.sec + 1 /\ hdr[s].store = EMPTY
            \/ pc' = "erase" /\ fmt' = s
  BY NextStores
<1>5. \A t \in Sectors : Count(t)' = Count(t) /\ Count(t) \in Slots
  BY <1>1, SlotsStay DEF IInv, Flash, Packed
<1>6. Latest' /\ Asked'
  BY <1>1, <1>4, <1>5 DEF TInv, Latest, Asked, Down
<1>7. CASE pc' = "using" /\ s = cur.sec + 1 /\ hdr[s].store = EMPTY
  <2>1. \A k : AtHead(k)' => k = cur.sec + 1
    BY <1>4, <1>7 DEF AtHead, Down
  <2>2. \A a \in Sectors, m \in Slots : m < Count(a)' => a # cur.sec + 1
    BY <1>5, <1>7, EmptyHasNone
  <2>3. \A a, b \in Sectors, m, n \in Slots :
           m < Count(a)' /\ n < Count(b)' /\ Older(cur.sec + 1, a, b) => Older(cur.sec, a, b)
    <3> SUFFICES ASSUME NEW a \in Sectors, NEW b \in Sectors, a # cur.sec + 1, b # cur.sec + 1,
                        Older(cur.sec + 1, a, b)
                 PROVE  Older(cur.sec, a, b)
      BY <2>2
    <3>1. QED
      BY <1>2, ConstantFacts DEF Older
  <2>4. Sorted' /\ Stamped'
    BY <1>1, <1>2, <1>3, <1>5, <2>1, <2>3, TimesKept
  <2>5. QED
    BY <1>6, <2>4 DEF TInv
<1>8. CASE pc' = "erase" /\ fmt' = s
  <2>1. PrevSec(s) = cur.sec
    <3>1. cur.sec \in 0..(NSec - 1)
      BY <1>2, ConstantFacts
    <3>2. QED
      BY <1>4, <3>1, ConstantFacts DEF PrevSec, NextSec
  <2>2. \A k \in 0..NSec : AtHead(k)' => AtHead(k)
    BY <1>1, <1>2, <1>3, <1>8, <2>1 DEF AtHead, PrevSec, Down
  <2>3. Sorted' /\ Stamped'
    BY <1>1, <2>2, SameOrder
  <2>4. QED
    BY <1>6, <2>3 DEF TInv
<1>9. QED
  BY <1>4, <1>7, <1>8

\* The oldest logs go, and their sector is the newest one.
LEMMA EraseTimes == ASSUME IInv, SInv, TInv, Erase PROVE TInv'
<1>1. /\ pc = "erase" /\ pc' = "empty" /\ job' = job /\ req' = req /\ fmt' = fmt /\ cur' = cur
      /\ lastTime' = lastTime
  BY DEF Erase, ram
<1>2. /\ fmt \in Sectors /\ job \in {"append", "clean"}
      /\ job = "append" => fmt = cur.sec /\ cur.sec # Nowhere
  BY <1>1, FormatFacts DEF Formatting, SInv, NeverInit
<1>3. /\ \A t \in Sectors : t # fmt => slot'[t] = slot[t]
      /\ \A t \in Sectors : Count(t)' = IF t = fmt THEN 0 ELSE Count(t)
  BY EraseCounts
<1>4. \A t \in Sectors : Count(t) \in Slots /\ Count(t)' \in Slots
  BY <1>3, ConstantFacts DEF IInv, Flash, Packed
<1>5. \A t \in Sectors, n \in Slots :
         n < Count(t)' => t # fmt /\ n < Count(t) /\ slot'[t][n].time = slot[t][n].time
  BY <1>3, ConstantFacts
<1>6. Latest' /\ Asked'
  BY <1>1, <1>5 DEF TInv, Latest, Asked, Down
<1>7. CASE job = "append"
  <2>1. \A k : AtHead(k)' => k = fmt
    BY <1>1, <1>2, <1>7 DEF AtHead, Down
  <2>2. PrevSec(fmt) \in 0..NSec /\ AtHead(PrevSec(fmt))
    BY <1>1, <1>2, <1>7, ConstantFacts DEF AtHead, PrevSec
  <2>3. \A a, b \in Sectors :
           a # fmt /\ b # fmt /\ Older(fmt, a, b) => Older(PrevSec(fmt), a, b)
    BY <1>2, ConstantFacts DEF Older, PrevSec
  <2>4. Sorted' /\ Stamped'
    BY <1>4, <1>5, <2>1, <2>2, <2>3, TimesKept
  <2>5. QED
    BY <1>6, <2>4 DEF TInv
<1>8. CASE job = "clean"
  <2>1. \A k \in 0..NSec : AtHead(k)' => AtHead(k)
    BY <1>1, <1>8 DEF AtHead, Down
  <2>2. Sorted' /\ Stamped'
    BY <1>4, <1>5, <2>1, TimesKept
  <2>3. QED
    BY <1>6, <2>2 DEF TInv
<1>9. QED
  BY <1>2, <1>7, <1>8

LEMMA MagicTimes == ASSUME IInv, SInv, TInv, WriteMagic PROVE TInv'
<1>1. pc = "magic" /\ slot' = slot /\ req' = req
  BY DEF WriteMagic
<1>2. /\ fmt \in Sectors /\ job \in {"append", "clean"}
      /\ job = "append" => fmt = cur.sec /\ cur.sec # Nowhere
  BY <1>1, FormatFacts DEF Formatting, SInv, NeverInit
<1>3. CASE job = "append" \/ fmt + 1 < NSec
  <2>1. lastTime' = lastTime /\ pc' \in {"using", "erase"} /\ job' = job
    BY <1>3 DEF WriteMagic
  <2>2. cur'.sec = cur.sec /\ ~ (pc' = "erase" /\ job' = "append")
    <3>1. CASE job = "append"
      BY <1>2, <3>1, FreshFacts DEF WriteMagic, IInv, Types
    <3>2. CASE job = "clean"
      BY <1>2, <1>3, <3>2 DEF WriteMagic
    <3>3. QED
      BY <1>2, <3>1, <3>2
  <2>3. \A h \in 0..NSec : AtHead(h)' => AtHead(h)
    BY <1>1, <2>1, <2>2, HeadStays DEF Down
  <2>4. Sorted' /\ Stamped' /\ \A s \in Sectors : Count(s)' = Count(s)
    BY <1>1, <2>3, SameOrder
  <2>5. Latest' /\ Asked'
    BY <1>1, <2>1, <2>4 DEF TInv, Latest, Asked, Down
  <2>6. QED
    BY <2>4, <2>5 DEF TInv
<1>4. CASE job = "clean" /\ ~ (fmt + 1 < NSec)
  <2>1. job' = "none"
    BY <1>4 DEF WriteMagic
  <2>2. \A s \in Sectors : hdr[s].store = EMPTY
    <3>1. \A s \in Sectors : s = fmt \/ s \in 0..(fmt - 1)
      BY <1>2, <1>4, ConstantFacts
    <3>2. hdr[fmt].store = EMPTY /\ \A s \in 0..(fmt - 1) : hdr[s].store = EMPTY
      BY <1>1, <1>4 DEF IInv, FormatSteps, Formatting, Formatted
    <3>3. QED
      BY <3>1, <3>2
  <2>3. \A s \in Sectors : Count(s)' = Count(s)
    BY <1>1, SlotsStay
  <2>4. \A s \in Sectors, n \in Slots : ~ (n < Count(s)')
    BY <2>2, <2>3, EmptyHasNone
  <2>5. QED
    BY <2>1, <2>4, NoTimesNext
<1>5. QED
  BY <1>2, <1>3, <1>4

LEMMA OptionTimes ==
    ASSUME IInv, TInv, BeginClean \/ InitAsserts \/ \E b \in Rollovers : SetRollover(b)
    PROVE  TInv'
<1>1. /\ hdr' = hdr /\ slot' = slot /\ cur' = cur /\ lastTime' = lastTime /\ req' = req
      /\ pc # "erase" /\ (pc' = "erase" => job' = "clean")
      /\ (pc' \in Down <=> pc \in Down) /\ (job' = "append" => job = "append")
  BY DEF BeginClean, InitAsserts, SetRollover, flash, ram, Down
<1>2. \A h \in 0..NSec : AtHead(h)' => AtHead(h)
  BY <1>1 DEF AtHead, Unused
<1>3. Sorted' /\ Stamped' /\ \A s \in Sectors : Count(s)' = Count(s)
  BY <1>1, <1>2, SameOrder
<1>4. Latest' /\ Asked'
  BY <1>1, <1>3 DEF TInv, Latest, Unused, Asked
<1>5. QED
  BY <1>3, <1>4 DEF TInv

\* The database goes down between calls, or with a sector in use.
LEMMA HeadAtEnd ==
    ASSUME IInv, SInv, pc \in EndCuts
    PROVE  /\ AtHead(cur.sec) /\ cur.sec \in 0..NSec
           /\ ~ Unused => cur.sec \in Sectors /\ hdr[cur.sec].store = USING
           /\ Unused => pc = "idle" /\ (SwitchedOff \/ All(EMPTY))
<1>1. cur.sec \in 0..NSec
  BY DEF IInv, Types, CurInfo
<1>2. AtHead(cur.sec)
  BY DEF AtHead, Down, EndCuts, Ending
<1>3. (cur.sec \in Sectors /\ hdr[cur.sec].store = USING) \/ (pc = "idle" /\ Resting(cur.sec))
  <2>1. CASE pc = "idle"
    BY <1>1, <1>2, <2>1 DEF SInv, Rest, AtRest
  <2>2. CASE pc \in Ending
    BY <2>2, EndPlace
  <2>3. CASE pc = "full"
    <3>1. Serving /\ cur.sec \in Sectors /\ cur.sec # Nowhere
      BY <2>3, ServingFacts
    <3>2. Known
      BY <2>3, <3>1 DEF Known, Formatting
    <3>3. QED
      BY <2>3, <3>1, <3>2 DEF IInv, StoreKnown
  <2>4. QED
    BY <2>1, <2>2, <2>3 DEF EndCuts
<1>4. QED
  BY <1>1, <1>2, <1>3 DEF Resting, All, Unused

LEMMA OffTimes ==
    ASSUME IInv, SInv, TInv, KeepsOrder, Deinit \/ PowerCut
    PROVE  TInv'
<1>1. /\ hdr' = hdr /\ slot' = slot /\ pc' = "off" /\ job' = "none"
      /\ pc \in EndCuts /\ pc \notin Down /\ pc # "erase"
      /\ \/ pc = "idle" /\ cur' = cur /\ lastTime' = lastTime
         \/ pc = "idle" => ~ SwitchedOff
  <2>1. CASE Deinit
    BY <2>1 DEF Deinit, flash, ram, EndCuts, Down, IInv, Jobs
  <2>2. CASE PowerCut
    BY <2>2, CutFacts DEF PowerCut, flash, EndCuts, Ending, Down
  <2>3. QED
    BY <2>1, <2>2
<1>2. /\ AtHead(cur.sec) /\ cur.sec \in 0..NSec
      /\ ~ Unused => cur.sec \in Sectors /\ hdr[cur.sec].store = USING
      /\ Unused => pc = "idle" /\ (SwitchedOff \/ All(EMPTY))
  BY <1>1, HeadAtEnd
<1>3. Unused' <=> Unused
  BY <1>1 DEF Unused
<1>4. CASE Unused /\ All(EMPTY)
  <2>1. \A s \in Sectors : Count(s)' = Count(s)
    BY <1>1, SlotsStay
  <2>2. \A s \in Sectors, n \in Slots : ~ (n < Count(s)')
    BY <1>4, <2>1, EmptyHasNone DEF All
  <2>3. QED
    BY <1>1, <2>2, NoTimesNext
<1>5. CASE ~ (Unused /\ All(EMPTY))
  <2>1. \A h \in 0..NSec : AtHead(h)' => AtHead(h)
    <3> SUFFICES ASSUME NEW h \in 0..NSec, AtHead(h)' PROVE h = cur.sec
      BY <1>2
    <3>1. CASE Unused
      BY <1>1, <1>2, <1>3, <1>5, <3>1 DEF AtHead
    <3>2. CASE ~ Unused
      <4>1. h \in Sectors /\ hdr[h].store = USING
        BY <1>1, <1>3, <3>2 DEF AtHead, Down
      <4>2. QED
        BY <1>2, <3>2, <4>1 DEF IInv, Flash, AtMostOne
    <3>3. QED
      BY <3>1, <3>2
  <2>2. Sorted' /\ Stamped' /\ \A s \in Sectors : Count(s)' = Count(s)
    BY <1>1, <2>1, SameOrder
  <2>3. Latest'
    BY <1>1, <1>2, <1>3, <1>5, <2>2 DEF TInv, Latest, Down
  <2>4. Asked'
    BY <1>1 DEF Asked
  <2>5. QED
    BY <2>2, <2>3, <2>4 DEF TInv
<1>6. QED
  BY <1>4, <1>5

\* The time that an init reads from the sector in use is that of its last log.
LEMMA LastTimeRead ==
    ASSUME IInv, SInv, InitTsdb
    PROVE  /\ cur'.store = USING =>
                 /\ Count(cur'.sec) > 0
                 /\ lastTime' = slot[cur'.sec][Count(cur'.sec) - 1].time
           /\ cur'.store = FULL => lastTime' = lastTime
<1>1. PICK junk \in FlashTime :
         LET stack == [ZeroInfo EXCEPT !.endTime = junk]
             c == IF Current = Nowhere THEN [cur EXCEPT !.sec = Nowhere]
                  ELSE ReadSector(Current, Iterated(Current, stack), TRUE)
         IN  cur' = c /\ lastTime' = LastTimeAtInit(c, OldestAtInit, stack)
  BY DEF InitTsdb
<1>2. /\ cur'.store = FULL => lastTime' = lastTime
      /\ cur'.store = USING => lastTime' = cur'.endTime
  <2>1. PICK c, o, stack : cur' = c /\ lastTime' = LastTimeAtInit(c, o, stack)
    BY <1>1
  <2> DEFINE prev == ReadSector(PrevSec(c.sec), stack, FALSE).endTime
  <2>2. LastTimeAtInit(c, o, stack) = IF c.store = USING THEN c.endTime
                                      ELSE IF c.store = EMPTY /\ o # c.sec THEN prev ELSE lastTime
    BY ONLY Zenon DEF LastTimeAtInit
  <2> HIDE DEF prev
  <2>3. c.store = FULL => c.store # USING /\ c.store # EMPTY
    OBVIOUS
  <2>4. QED
    BY ONLY <2>1, <2>2, <2>3, Zenon
<1>3. ASSUME cur'.store = USING
      PROVE  Count(cur'.sec) > 0 /\ lastTime' = slot[cur'.sec][Count(cur'.sec) - 1].time
  <2>1. pc = "off"
    BY DEF InitTsdb
  <2>2. lastTime' = cur'.endTime
    BY <1>2, <1>3
  <2>3. Current # Nowhere
    <3>1. SUFFICES ASSUME Current = Nowhere PROVE FALSE
      OBVIOUS
    <3>2. cur' = [cur EXCEPT !.sec = Nowhere]
      BY <3>1, InitTsdbFacts
    <3>3. cur.store = USING
      BY <1>3, <3>2 DEF IInv, Types, CurInfo
    <3>4. cur.sec # Nowhere /\ hdr[cur.sec].store = USING
      BY <2>1, <3>3 DEF IInv, Off
    <3>5. cur.sec \in Sectors
      BY <3>4, ConstantFacts DEF IInv, Types, CurInfo, Nowhere
    <3>6. QED
      BY <3>1, <3>4, <3>5, CurrentFacts DEF InitTsdb
  <2>4. PICK s \in Sectors : s = Current
    BY <2>3, InitTsdbFacts
  <2>5. hdr[s].magic /\ cur'.sec = s /\ hdr[s].store = USING
    BY <1>3, <2>3, <2>4, InitTsdbFacts
  <2>6. Count(s) > 0
    BY <2>1, <2>5 DEF SInv, Filled, Placing
  <2>7. PICK old : cur' = ReadSector(s, old, TRUE)
    BY <1>1, <2>3, <2>4
  <2>8. cur'.endTime = slot[s][Count(s) - 1].time
    BY <2>5, <2>6, <2>7 DEF ReadSector
  <2>9. QED
    BY <2>2, <2>5, <2>6, <2>8
<1>4. QED
  BY <1>2, <1>3

LEMMA InitTimes == ASSUME IInv, SInv, TInv, InitTsdb PROVE TInv'
<1>1. pc = "off" /\ pc' = "idle" /\ slot' = slot /\ job' = job
  BY DEF InitTsdb, flash
<1>2. job = "none"
  BY <1>1 DEF IInv, Jobs
<1>3. \A s \in Sectors : Count(s)' = Count(s) /\ Count(s) \in Slots
  BY <1>1, SlotsStay DEF IInv, Flash, Packed
<1>4. PICK h \in 0..NSec :
         /\ AtHead(h)
         /\ \/ h \in Sectors /\ hdr[h].store = USING /\ cur'.sec = h /\ cur'.store = USING
            \/ All(EMPTY) /\ cur'.sec = 0 /\ cur'.store = EMPTY
            \/ /\ All(FULL) /\ h >= NSec - 1 /\ SwitchedOff
               /\ cur'.sec = Nowhere /\ cur'.store = FULL
  BY InitHead
<1>5. \A k : AtHead(k)' <=> k = cur'.sec
  BY <1>1, <1>2 DEF AtHead, Down
<1>6. Asked'
  BY <1>1, <1>2 DEF Asked
<1>7. CASE h \in Sectors /\ hdr[h].store = USING /\ cur'.sec = h /\ cur'.store = USING
  <2>1. Sorted' /\ Stamped'
    BY <1>1, <1>4, <1>5, <1>7, SameOrder
  <2>2. Count(h) > 0 /\ lastTime' = slot[h][Count(h) - 1].time
    BY <1>7, LastTimeRead
  <2>3. Count(h) \in Nat /\ Count(h) - 1 \in Slots /\ Count(h) - 1 < Count(h)
    BY <1>3, <1>7, <2>2, ConstantFacts
  <2>4. lastTime' \in Int
    BY <1>7, <2>2, <2>3, ConstantFacts DEF TInv, Stamped, Times
  <2>5. ASSUME NEW s \in Sectors, NEW n \in Slots, n < Count(s)
        PROVE  slot[s][n].time <= lastTime'
    <3>1. slot[s][n].time \in Int
      BY <2>5, ConstantFacts DEF TInv, Stamped, Times
    <3>2. CASE s = h
      <4>1. n = Count(h) - 1 \/ n < Count(h) - 1
        BY <2>3, <2>5, <3>2, ConstantFacts
      <4>2. QED
        BY <1>7, <2>2, <2>3, <2>4, <3>1, <3>2, <4>1 DEF TInv, Sorted, InSector
    <3>3. CASE s # h
      <4>1. Older(h, s, h)
        BY <1>4, <1>7, <3>3, ConstantFacts DEF Older
      <4>2. Across(h)
        BY <1>4 DEF TInv, Sorted
      <4>3. slot[s][n].time < slot[h][Count(h) - 1].time
        BY <1>7, <2>3, <2>5, <4>1, <4>2 DEF Across
      <4>4. QED
        BY <2>2, <2>4, <3>1, <4>3
    <3>4. QED
      BY <3>2, <3>3
  <2>6. Latest'
    BY <1>1, <1>3, <2>5 DEF Latest
  <2>7. QED
    BY <1>6, <2>1, <2>6 DEF TInv
<1>8. CASE All(EMPTY)
  <2>1. \A s \in Sectors, n \in Slots : ~ (n < Count(s)')
    BY <1>3, <1>8, EmptyHasNone DEF All
  <2>2. QED
    BY <1>1, <1>2, <2>1, NoTimesNext
<1>9. CASE All(FULL) /\ h >= NSec - 1 /\ cur'.sec = Nowhere /\ cur'.store = FULL
  <2>1. \A s, t \in Sectors : Older(Nowhere, s, t) => Older(h, s, t)
    BY <1>9, ConstantFacts DEF Older, Nowhere
  <2>2. Sorted' /\ Stamped'
    BY <1>1, <1>3, <1>4, <1>5, <1>9, <2>1, TimesKept
  <2>3. lastTime' = lastTime /\ Unused
    BY <1>9, LastTimeRead DEF All, Unused
  <2>4. Latest'
    BY <1>1, <1>3, <2>3 DEF TInv, Latest
  <2>5. QED
    BY <1>6, <2>2, <2>4 DEF TInv
<1>10. QED
  BY <1>4, <1>7, <1>8, <1>9

LEMMA TimesHold == Init => TInv
<1> SUFFICES ASSUME Init PROVE TInv
  OBVIOUS
<1>1. IInv
  BY InitHolds
<1>2. job = "none" /\ \A s \in Sectors : hdr[s].store = EMPTY
  BY DEF Init, FormattedHdr, ErasedHdr
<1>3. \A s \in Sectors, n \in Slots : ~ (n < Count(s))
  BY <1>1, <1>2, EmptyHasNone
<1>4. QED
  BY <1>2, <1>3, NoTimes

LEMMA TimesNext ==
    ASSUME IInv, SInv, DInv, TInv, KeepsOrder, [Next]_vars
    PROVE  TInv'
<1>1. CASE UNCHANGED vars
  <2>1. UNCHANGED <<slot, hdr, pc, job, req, fmt, cur, lastTime>>
    BY <1>1 DEF vars, flash, ram
  <2>2. \A h \in 0..NSec : AtHead(h)' => AtHead(h)
    BY <2>1 DEF AtHead, Unused
  <2>3. \A s \in Sectors : Count(s)' = Count(s)
    BY <2>1, SlotsStay
  <2>4. Unused' <=> Unused
    BY <2>1 DEF Unused
  <2>5. QED
    BY <2>1, <2>2, <2>3, <2>4, TimesStay
<1>2. CASE Step
  BY <1>2, QuietTimes, MarkTimes, SlotTimes, CommitTimes, NeverNowhere, EraseTimes, MagicTimes,
     InitTimes, NoFormats, OptionTimes DEF Step
<1>3. CASE Call
  BY <1>3, CallTimes, OptionTimes, OffTimes, StatusTimes DEF Call
<1>4. CASE PowerCut
  BY <1>4, OffTimes
<1>5. QED
  BY <1>1, <1>2, <1>3, <1>4 DEF Next

\* Under KeepsOrder every sector that is full or in use takes its place in the
\* round of the sectors, every log holds its own bytes, and times grow along
\* the round.
THEOREM OrderInductive == KeepsOrder => (Spec => [](SInv /\ DInv /\ TInv))
<1> SUFFICES ASSUME KeepsOrder PROVE Spec => [](SInv /\ DInv /\ TInv)
  OBVIOUS
<1>1. IInv /\ IInv' /\ SInv /\ DInv /\ TInv /\ [Next]_vars => (SInv /\ DInv /\ TInv)'
  BY StoresNext, DataNext, TimesNext
<1>2. QED
  BY <1>1, StoresHold, DataHolds, TimesHold, TsdbInductive, PTL DEF Spec

-----------------------------------------------------------------------------
(* The database implements TsLog: its stored logs are those that a caller  *)
(* of TsLog sees.                                                          *)

Shown == {StoredRec(a) : a \in Stored}
Busy  == IF job \in {"append", "clean"} THEN job ELSE "no"
RecOf(x) == [time |-> x.time, log |-> CHOOSE l \in Logs : l \in x.data, st |-> x.st]

ShownAre == \A r : r \in Shown <=>
                \E s \in Sectors, n \in Slots : n < Count(s) /\ r = RecOf(slot[s][n])

LEMMA ShownHolds == IInv => ShownAre
<1> SUFFICES ASSUME IInv PROVE ShownAre
  OBVIOUS
<1>1. \A s \in Sectors, n \in Slots : <<s, n>> \in Stored <=> n < Count(s)
  <2> TAKE s \in Sectors, n \in Slots
  <2>1. hdr[s].store \in 0..3
    BY DEF IInv, Types, Header
  <2>2. hdr[s].store < USING => ~ (n < Count(s))
    BY <2>1, EmptyCounts, ConstantFacts
  <2>3. QED
    BY <2>1, <2>2 DEF Stored
<1>2. \A s \in Sectors, n \in Slots : StoredRec(<<s, n>>) = RecOf(slot[s][n])
  BY DEF StoredRec, RecOf
<1>3. \A a \in Stored : \E s \in Sectors, n \in Slots : a = <<s, n>>
  BY DEF Stored
<1>4. ASSUME NEW r
      PROVE  r \in Shown <=> \E s \in Sectors, n \in Slots : <<s, n>> \in Stored /\ r = StoredRec(<<s, n>>)
  <2>1. r \in Shown <=> \E a \in Stored : r = StoredRec(a)
    BY Zenon DEF Shown
  <2>2. QED
    BY <1>3, <2>1, Zenon
<1>5. QED
  <2> SUFFICES ASSUME NEW r
               PROVE  r \in Shown <=>
                         \E s \in Sectors, n \in Slots : n < Count(s) /\ r = RecOf(slot[s][n])
    BY DEF ShownAre
  <2>1. ASSUME NEW s \in Sectors, NEW n \in Slots
        PROVE  <<s, n>> \in Stored /\ r = StoredRec(<<s, n>>) <=> n < Count(s) /\ r = RecOf(slot[s][n])
    <3>1. StoredRec(<<s, n>>) = RecOf(slot[s][n])
      BY <1>2
    <3>2. <<s, n>> \in Stored <=> n < Count(s)
      BY <1>1
    <3>3. QED
      BY ONLY <3>1, <3>2, Zenon
  <2>2. ASSUME r \in Shown
        PROVE  \E s \in Sectors, n \in Slots : n < Count(s) /\ r = RecOf(slot[s][n])
    <3>1. PICK s \in Sectors, n \in Slots : <<s, n>> \in Stored /\ r = StoredRec(<<s, n>>)
      BY ONLY <1>4, <2>2, Zenon
    <3>2. QED
      BY ONLY <2>1, <3>1, s \in Sectors, n \in Slots, Zenon
  <2>3. ASSUME NEW s \in Sectors, NEW n \in Slots, n < Count(s), r = RecOf(slot[s][n])
        PROVE  r \in Shown
    <3>1. <<s, n>> \in Stored /\ r = StoredRec(<<s, n>>)
      BY ONLY <2>1, <2>3, s \in Sectors, n \in Slots, Zenon
    <3>2. QED
      BY ONLY <1>4, <3>1, s \in Sectors, n \in Slots, Zenon
  <2>4. QED
    BY ONLY <2>2, <2>3, Zenon

LEMMA ShownHoldsNext == IInv' => ShownAre'
BY ShownHolds, PTL

\* The steps of TsLog, told by what is shown.
LEMMA LogSteps ==
    ASSUME \/ Shown' = Shown /\ Busy' = Busy
           \/ Shown' = Shown /\ Busy = "no" /\ Busy' \in {"append", "clean"} /\ rollover' = rollover
           \/ Shown' = Shown /\ Busy = "append" /\ Busy' = "no" /\ rollover' = rollover,
           rollover' \in BOOLEAN
    PROVE  [Log!Next]_(Log!vars)
<1>1. CASE Shown' = Shown /\ Busy' = Busy
  <2>1. Log!SetRollover
    BY <1>1 DEF Log!SetRollover, Shown, Busy
  <2>2. QED
    BY <2>1 DEF Log!Next
<1>2. CASE Shown' = Shown /\ Busy = "no" /\ Busy' \in {"append", "clean"} /\ rollover' = rollover
  <2>1. Log!Begin
    BY <1>2 DEF Log!Begin, Shown, Busy
  <2>2. QED
    BY <2>1 DEF Log!Next
<1>3. CASE Shown' = Shown /\ Busy = "append" /\ Busy' = "no" /\ rollover' = rollover
  <2>1. Log!End
    BY <1>3 DEF Log!End, Shown, Busy
  <2>2. QED
    BY <2>1 DEF Log!Next
<1>4. QED
  BY <1>1, <1>2, <1>3

\* What is shown depends on the nodes alone.
LEMMA SameShown ==
    ASSUME IInv, IInv',
           \A s \in Sectors : Count(s)' = Count(s),
           \A s \in Sectors, n \in Slots : n < Count(s) => slot'[s][n] = slot[s][n]
    PROVE  Shown' = Shown
<1>1. ShownAre /\ ShownAre'
  BY ShownHolds, ShownHoldsNext
<1>2. ASSUME NEW r \in Shown' PROVE r \in Shown
  <2>1. PICK s \in Sectors, n \in Slots : n < Count(s)' /\ r = RecOf(slot'[s][n])
    BY <1>1, <1>2, Zenon DEF ShownAre
  <2>2. n < Count(s) /\ r = RecOf(slot[s][n])
    BY <2>1
  <2>3. QED
    BY <1>1, <2>2, Zenon DEF ShownAre
<1>3. ASSUME NEW r \in Shown PROVE r \in Shown'
  <2>1. PICK s \in Sectors, n \in Slots : n < Count(s) /\ r = RecOf(slot[s][n])
    BY <1>1, <1>3, Zenon DEF ShownAre
  <2>2. n < Count(s)' /\ r = RecOf(slot'[s][n])
    BY <2>1
  <2>3. QED
    BY <1>1, <2>2, Zenon DEF ShownAre
<1>4. QED
  BY <1>2, <1>3, Zenon

\* No two logs have the same time.
LEMMA TimesDiffer ==
    ASSUME IInv, TInv,
           NEW s \in Sectors, NEW n \in Slots, n < Count(s),
           NEW t \in Sectors, NEW m \in Slots, m < Count(t),
           slot[s][n].time = slot[t][m].time
    PROVE  s = t /\ n = m
<1>1. slot[s][n].time \in Int /\ slot[t][m].time \in Int
  BY ConstantFacts DEF TInv, Stamped, Times
<1>2. s = t
  <2>1. PICK h \in 0..NSec : AtHead(h)
    BY HeadExists
  <2>2. Across(h)
    BY <2>1 DEF TInv, Sorted
  <2>3. s # t => Older(h, s, t) \/ Older(h, t, s)
    BY ConstantFacts DEF Older
  <2>4. Older(h, s, t) => slot[s][n].time < slot[t][m].time
    BY <2>2 DEF Across
  <2>5. Older(h, t, s) => slot[t][m].time < slot[s][n].time
    BY <2>2 DEF Across
  <2>6. QED
    BY <1>1, <2>3, <2>4, <2>5
<1>3. n = m
  <2>1. n < m \/ m < n \/ n = m
    BY ConstantFacts
  <2>2. n < m => slot[s][n].time < slot[s][m].time
    BY <1>2 DEF TInv, Sorted, InSector
  <2>3. m < n => slot[s][m].time < slot[s][n].time
    BY <1>2 DEF TInv, Sorted, InSector
  <2>4. QED
    BY <1>1, <1>2, <2>1, <2>2, <2>3
<1>4. QED
  BY <1>2, <1>3

LEMMA CommitMaps ==
    ASSUME IInv, IInv', DInv, TInv, Commit
    PROVE  [Log!Next]_(Log!vars)
<1> DEFINE new == [time |-> req.time, log |-> req.log, st |-> WRITE]
<1>1. /\ cur.sec \in Sectors /\ cur.n \in Slots /\ cur.n = Count(cur.sec)
      /\ slot'[cur.sec][cur.n].time = req.time
      /\ slot'[cur.sec][cur.n].data = {req.log}
      /\ slot'[cur.sec][cur.n].st = WRITE
      /\ \A s \in Sectors, n \in Slots :
            ~ (s = cur.sec /\ n = cur.n) => slot'[s][n] = slot[s][n]
      /\ \A s \in Sectors : Count(s)' = IF s = cur.sec THEN cur.n + 1 ELSE Count(s)
  BY CommitNode
<1>2. pc = "commit" /\ job = "append" /\ job' = "none" /\ rollover' = rollover
  BY DEF Commit, IInv, Jobs, Placing
<1>3. req.time > lastTime /\ req.time \in Times /\ req.log \in Logs /\ lastTime \in Int
  BY <1>2, ConstantFacts DEF TInv, Asked, IInv, Types, FlashTime
<1>4. RecOf(slot'[cur.sec][cur.n]) = new
  <2>1. (CHOOSE l \in Logs : l \in {req.log}) = req.log
    BY <1>3
  <2>2. QED
    BY <1>1, <2>1 DEF RecOf
<1>5. \A s \in Sectors, n \in Slots :
         n < Count(s)' <=> n < Count(s) \/ (s = cur.sec /\ n = cur.n)
  <2> TAKE s \in Sectors, n \in Slots
  <2>1. Count(s) \in Nat /\ n \in Nat
    BY ConstantFacts DEF IInv, Flash, Packed
  <2>2. QED
    BY <1>1, <2>1
<1>6. \A s \in Sectors, n \in Slots : n < Count(s) => ~ (s = cur.sec /\ n = cur.n)
  BY <1>1, ConstantFacts
<1> HIDE DEF new
<1>7. Shown' = Shown \cup {new}
  <2>1. ShownAre /\ ShownAre'
    BY ShownHolds, ShownHoldsNext
  <2>2. ASSUME NEW r \in Shown' PROVE r \in Shown \cup {new}
    <3>1. PICK s \in Sectors, n \in Slots : n < Count(s)' /\ r = RecOf(slot'[s][n])
      BY <2>1, <2>2, Zenon DEF ShownAre
    <3>2. CASE s = cur.sec /\ n = cur.n
      BY <1>4, <3>1, <3>2
    <3>3. CASE ~ (s = cur.sec /\ n = cur.n)
      <4>1. n < Count(s) /\ r = RecOf(slot[s][n])
        BY <1>1, <1>5, <3>1, <3>3
      <4>2. QED
        BY <2>1, <4>1, Zenon DEF ShownAre
    <3>4. QED
      BY <3>2, <3>3
  <2>3. new \in Shown'
    <3>1. PICK s \in Sectors, n \in Slots : s = cur.sec /\ n = cur.n
      BY <1>1
    <3>2. n < Count(s)' /\ RecOf(slot'[s][n]) = new
      BY <1>4, <1>5, <3>1
    <3>3. QED
      BY <2>1, <3>2, Zenon DEF ShownAre
  <2>4. ASSUME NEW r \in Shown PROVE r \in Shown'
    <3>1. PICK s \in Sectors, n \in Slots : n < Count(s) /\ r = RecOf(slot[s][n])
      BY <2>1, <2>4, Zenon DEF ShownAre
    <3>2. n < Count(s)' /\ r = RecOf(slot'[s][n])
      BY <1>1, <1>5, <1>6, <3>1
    <3>3. QED
      BY <2>1, <3>2, Zenon DEF ShownAre
  <2>5. QED
    BY <2>2, <2>3, <2>4, Zenon
<1>8. \A q \in Shown : q.time < new.time
  <2> SUFFICES ASSUME NEW q \in Shown PROVE q.time < req.time
    BY DEF new
  <2>1. PICK s \in Sectors, n \in Slots : n < Count(s) /\ q = RecOf(slot[s][n])
    BY ShownHolds, Zenon DEF ShownAre
  <2>2. slot[s][n].time <= lastTime /\ slot[s][n].time \in Int
    BY <1>2, <2>1, ConstantFacts DEF TInv, Latest, Stamped, Times, Down
  <2>3. q.time = slot[s][n].time
    BY <2>1 DEF RecOf
  <2>4. QED
    BY <1>3, <2>2, <2>3, ConstantFacts DEF Times
<1>9. new \in Log!Record
  BY <1>3 DEF new, Log!Record
<1>10. Busy = "append" /\ Busy' = "no"
  BY <1>2 DEF Busy
<1>11. Log!Append
  BY <1>2, <1>7, <1>8, <1>9, <1>10 DEF Log!Append, Shown, Busy
<1>12. QED
  BY <1>11 DEF Log!Next

\* To make room for a log the sector that holds the oldest ones is erased.
LEMMA EraseMaps ==
    ASSUME IInv, IInv', SInv, TInv, Erase
    PROVE  [Log!Next]_(Log!vars)
<1>1. pc = "erase" /\ job' = job /\ rollover' = rollover
  BY DEF Erase, ram
<1>2. fmt \in Sectors /\ job \in {"append", "clean"}
  BY <1>1, FormatFacts DEF Formatting, SInv, NeverInit
<1>3. /\ \A t \in Sectors : t # fmt => slot'[t] = slot[t]
      /\ \A t \in Sectors : Count(t)' = IF t = fmt THEN 0 ELSE Count(t)
  BY EraseCounts
<1>4. ShownAre /\ ShownAre'
  BY ShownHolds, ShownHoldsNext
<1>5. \A s \in Sectors, n \in Slots : n < Count(s)' <=> s # fmt /\ n < Count(s)
  BY <1>3, ConstantFacts
<1>6. \A r : r \in Shown' <=>
         \E s \in Sectors, n \in Slots : s # fmt /\ n < Count(s) /\ r = RecOf(slot[s][n])
  <2>1. \A r : r \in Shown' <=>
           \E s \in Sectors, n \in Slots : n < Count(s)' /\ r = RecOf(slot'[s][n])
    BY <1>4, Zenon DEF ShownAre
  <2>2. ASSUME NEW s \in Sectors, NEW n \in Slots, NEW r
        PROVE  n < Count(s)' /\ r = RecOf(slot'[s][n]) <=>
                  s # fmt /\ n < Count(s) /\ r = RecOf(slot[s][n])
    <3>1. n < Count(s)' <=> s # fmt /\ n < Count(s)
      BY <1>5
    <3>2. s # fmt => slot'[s][n] = slot[s][n]
      BY <1>3
    <3>3. QED
      BY ONLY <3>1, <3>2, Zenon
  <2> SUFFICES ASSUME NEW r
               PROVE  r \in Shown' <=>
                         \E s \in Sectors, n \in Slots : s # fmt /\ n < Count(s) /\ r = RecOf(slot[s][n])
    OBVIOUS
  <2>3. ASSUME r \in Shown'
        PROVE  \E s \in Sectors, n \in Slots : s # fmt /\ n < Count(s) /\ r = RecOf(slot[s][n])
    <3>1. PICK s \in Sectors, n \in Slots : n < Count(s)' /\ r = RecOf(slot'[s][n])
      BY ONLY <2>1, <2>3, Zenon
    <3>2. QED
      BY ONLY <2>2, <3>1, s \in Sectors, n \in Slots, Zenon
  <2>4. ASSUME NEW s \in Sectors, NEW n \in Slots, s # fmt, n < Count(s), r = RecOf(slot[s][n])
        PROVE  r \in Shown'
    <3>1. n < Count(s)' /\ r = RecOf(slot'[s][n])
      BY ONLY <2>2, <2>4, s \in Sectors, n \in Slots, Zenon
    <3>2. QED
      BY ONLY <2>1, <3>1, s \in Sectors, n \in Slots, Zenon
  <2>5. QED
    BY ONLY <2>3, <2>4, Zenon
<1>7. CASE job = "clean"
  <2>1. Shown' \in SUBSET Shown
    BY <1>4, <1>6, Zenon DEF ShownAre
  <2>2. Busy = "clean" /\ Busy' = Busy
    BY <1>1, <1>7 DEF Busy
  <2>3. Log!Clean
    BY <1>1, <2>1, <2>2 DEF Log!Clean, Shown, Busy
  <2>4. QED
    BY <2>3 DEF Log!Next
<1>8. CASE job = "append"
  <2>1. rollover /\ hdr[fmt].store = FULL
    BY <1>1, <1>8 DEF SInv, Wrapped, Formatting
  <2>2. Count(fmt) > 0 /\ Count(fmt) \in Slots
    BY <1>2, <2>1 DEF SInv, Filled, IInv, Flash, Packed
  <2>3. Count(fmt) - 1 \in Slots /\ Count(fmt) - 1 < Count(fmt)
    BY <2>2, ConstantFacts
  <2> DEFINE last == slot[fmt][Count(fmt) - 1].time
  <2>4. last \in Times
    BY <1>2, <2>3 DEF TInv, Stamped
  <2>5. ASSUME NEW n \in Slots, n < Count(fmt) PROVE ~ (slot[fmt][n].time > last)
    <3>1. n = Count(fmt) - 1 \/ n < Count(fmt) - 1
      BY <2>2, <2>5, ConstantFacts
    <3>2. n < Count(fmt) - 1 => slot[fmt][n].time < last
      BY <1>2, <2>3 DEF TInv, Sorted, InSector
    <3>3. slot[fmt][n].time \in Int
      BY <1>2, <2>5, ConstantFacts DEF TInv, Stamped, Times
    <3>4. QED
      BY <2>4, <3>1, <3>2, <3>3, ConstantFacts DEF Times
  <2>6. ASSUME NEW s \in Sectors, NEW n \in Slots, n < Count(s), s # fmt
        PROVE  slot[s][n].time > last
    <3>1. PrevSec(fmt) \in 0..NSec /\ AtHead(PrevSec(fmt))
      BY <1>1, <1>2, <1>8, ConstantFacts DEF AtHead, PrevSec
    <3>2. Across(PrevSec(fmt))
      BY <3>1 DEF TInv, Sorted
    <3>3. Older(PrevSec(fmt), fmt, s)
      BY <1>2, <2>6, ConstantFacts DEF Older, PrevSec
    <3>4. last < slot[s][n].time
      BY <1>2, <2>3, <2>6, <3>2, <3>3 DEF Across
    <3>5. slot[s][n].time \in Int
      BY <2>6, ConstantFacts DEF TInv, Stamped, Times
    <3>6. QED
      BY <2>4, <3>4, <3>5, ConstantFacts DEF Times
  <2> HIDE DEF last
  <2>7. \A s \in Sectors, n \in Slots : RecOf(slot[s][n]).time = slot[s][n].time
    BY DEF RecOf
  <2>8. \A r : r \in Shown' <=> r \in Shown /\ r.time > last
    <3>1. ASSUME NEW r, r \in Shown' PROVE r \in Shown /\ r.time > last
      <4>1. PICK s \in Sectors, n \in Slots : s # fmt /\ n < Count(s) /\ r = RecOf(slot[s][n])
        BY <1>6, <3>1
      <4>2. QED
        BY <1>4, <2>6, <2>7, <4>1 DEF ShownAre
    <3>2. ASSUME NEW r, r \in Shown, r.time > last PROVE r \in Shown'
      <4>1. PICK s \in Sectors, n \in Slots : n < Count(s) /\ r = RecOf(slot[s][n])
        BY <1>4, <3>2 DEF ShownAre
      <4>2. s # fmt
        BY <2>5, <2>7, <3>2, <4>1
      <4>3. QED
        BY <1>6, <4>1, <4>2
    <3>3. QED
      BY <3>1, <3>2
  <2>9. Shown' = Log!Newer(last)
    <3>1. \A r : r \in Log!Newer(last) <=> r \in Shown /\ r.time > last
      BY DEF Log!Newer, Shown
    <3>2. Shown' = {r \in Shown : r.time > last}
      BY <2>8
    <3>3. Log!Newer(last) = {r \in Shown : r.time > last}
      BY DEF Log!Newer, Shown
    <3>4. QED
      BY <3>2, <3>3
  <2>10. Busy = "append" /\ Busy' = Busy
    BY <1>1, <1>8 DEF Busy
  <2>11. Log!Drop
    BY <1>1, <2>1, <2>4, <2>9, <2>10 DEF Log!Drop, Shown, Busy
  <2>12. QED
    BY <2>11 DEF Log!Next
<1>9. QED
  BY <1>2, <1>7, <1>8

LEMMA MagicMaps ==
    ASSUME IInv, IInv', SInv, WriteMagic
    PROVE  [Log!Next]_(Log!vars)
<1>1. pc = "magic" /\ slot' = slot /\ rollover' = rollover
  BY DEF WriteMagic
<1>2. fmt \in Sectors /\ job \in {"append", "clean"}
  BY <1>1, FormatFacts DEF Formatting, SInv, NeverInit
<1>3. \A s \in Sectors : Count(s)' = Count(s)
  BY <1>1, SlotsStay
<1>4. CASE job = "append" \/ fmt + 1 < NSec
  <2>1. job' = job
    BY <1>4 DEF WriteMagic
  <2>2. Shown' = Shown /\ Busy' = Busy /\ rollover' \in BOOLEAN
    BY <1>1, <1>3, <2>1, SameShown DEF Busy, IInv, Types
  <2>3. QED
    BY <2>2, LogSteps
<1>5. CASE job = "clean" /\ ~ (fmt + 1 < NSec)
  <2>1. job' = "none"
    BY <1>5 DEF WriteMagic
  <2>2. \A s \in Sectors : hdr[s].store = EMPTY
    <3>1. \A s \in Sectors : s = fmt \/ s \in 0..(fmt - 1)
      BY <1>2, <1>5, ConstantFacts
    <3>2. hdr[fmt].store = EMPTY /\ \A s \in 0..(fmt - 1) : hdr[s].store = EMPTY
      BY <1>1, <1>5 DEF IInv, FormatSteps, Formatting, Formatted
    <3>3. QED
      BY <3>1, <3>2
  <2>3. \A s \in Sectors, n \in Slots : ~ (n < Count(s)')
    BY <1>3, <2>2, EmptyHasNone
  <2>4. \A r : r \notin Shown'
    BY <2>3, ShownHoldsNext, Zenon DEF ShownAre
  <2>5. Shown' = {}
    BY <2>4, Zenon
  <2>6. Busy = "clean" /\ Busy' = "no"
    BY <1>5, <2>1 DEF Busy
  <2>7. Log!CleanEnd
    BY <1>1, <2>5, <2>6 DEF Log!CleanEnd, Shown, Busy
  <2>8. QED
    BY <2>7 DEF Log!Next
<1>6. QED
  BY <1>2, <1>4, <1>5

\* A status is set on the one log that has its time.
LEMMA StatusMaps ==
    ASSUME IInv, IInv', TInv,
           NEW s \in Sectors, NEW n \in Slots, NEW st \in Marks, TslSetStatus(s, n, st)
    PROVE  [Log!Next]_(Log!vars)
<1>1. job' = job /\ rollover' = rollover /\ slot' = [slot EXCEPT ![s][n].st = Program(@, st)]
  BY DEF TslSetStatus, ram
<1>2. /\ n < Count(s)
      /\ \A t \in Sectors, m \in Slots :
            ~ (t = s /\ m = n) => slot'[t][m] = slot[t][m]
  BY StatusNode
<1>3. \A t \in Sectors : Count(t)' = Count(t)
  BY StatusCounts
<1>4. slot \in [Sectors -> [Slots -> Slot]] /\ slot[s][n] \in Slot /\ st \in 3..5
  <2>1. slot \in [Sectors -> [Slots -> Slot]]
    BY DEF IInv, Types
  <2>2. st \in 3..5
    BY ConstantFacts
  <2>3. QED
    BY <2>1, <2>2
<1>5. slot'[s][n] = [slot[s][n] EXCEPT !.st = Program(slot[s][n].st, st)]
  BY <1>1, <1>4
<1>6. Busy' = Busy
  BY <1>1 DEF Busy
<1>7. CASE slot[s][n].st >= st
  <2>1. slot'[s][n] = slot[s][n]
    <3>1. Program(slot[s][n].st, st) = slot[s][n].st
      BY <1>7 DEF Program
    <3>2. QED
      BY <1>4, <1>5, <3>1 DEF Slot
  <2>2. Shown' = Shown
    BY <1>2, <1>3, <2>1, SameShown
  <2>3. rollover' \in BOOLEAN
    BY DEF IInv, Types
  <2>4. QED
    BY <1>6, <2>2, <2>3, LogSteps
<1>8. CASE ~ (slot[s][n].st >= st)
  <2> DEFINE r == RecOf(slot[s][n])
             new == [r EXCEPT !.st = st]
  <2>1. slot'[s][n] = [slot[s][n] EXCEPT !.st = st]
    BY <1>5, <1>8 DEF Program
  <2>2. RecOf(slot'[s][n]) = new
    <3>1. /\ slot'[s][n].time = slot[s][n].time /\ slot'[s][n].data = slot[s][n].data
          /\ slot'[s][n].st = st
      BY <1>4, <2>1 DEF Slot
    <3> DEFINE log == CHOOSE l \in Logs : l \in slot[s][n].data
    <3>2. log = CHOOSE l \in Logs : l \in slot'[s][n].data
      BY <3>1, Zenon
    <3>3. RecOf(slot'[s][n]) = [time |-> slot[s][n].time, log |-> log, st |-> st]
      BY <3>1, <3>2, Zenon DEF RecOf
    <3>4. r = [time |-> slot[s][n].time, log |-> log, st |-> slot[s][n].st]
      BY Zenon DEF RecOf
    <3> HIDE DEF r, log
    <3>5. QED
      BY <3>3, <3>4
  <2>3. st > r.st /\ st \in WRITE..5
    BY <1>4, <1>8 DEF RecOf, Slot
  <2>4. ShownAre /\ ShownAre'
    BY ShownHolds, ShownHoldsNext
  <2>5. r \in Shown
    BY <1>2, <2>4, Zenon DEF ShownAre
  <2>6. \A t \in Sectors, m \in Slots :
           m < Count(t) /\ RecOf(slot[t][m]) = r => t = s /\ m = n
    <3> SUFFICES ASSUME NEW t \in Sectors, NEW m \in Slots, m < Count(t), RecOf(slot[t][m]) = r
                 PROVE  t = s /\ m = n
      OBVIOUS
    <3>1. slot[t][m].time = slot[s][n].time
      BY DEF RecOf
    <3>2. QED
      BY <1>2, <3>1, TimesDiffer
  <2> HIDE DEF r, new
  <2>7. \A q : q \in Shown' <=> (q \in Shown /\ q # r) \/ q = new
    <3>1. ASSUME NEW q, q \in Shown' PROVE (q \in Shown /\ q # r) \/ q = new
      <4>1. PICK t \in Sectors, m \in Slots : m < Count(t)' /\ q = RecOf(slot'[t][m])
        BY <2>4, <3>1, Zenon DEF ShownAre
      <4>2. CASE t = s /\ m = n
        BY <2>2, <4>1, <4>2
      <4>3. CASE ~ (t = s /\ m = n)
        <5>1. m < Count(t) /\ q = RecOf(slot[t][m])
          BY <1>2, <1>3, <4>1, <4>3
        <5>2. q # r
          BY <2>6, <4>3, <5>1
        <5>3. q \in Shown
          BY <2>4, <5>1, Zenon DEF ShownAre
        <5>4. QED
          BY <5>2, <5>3
      <4>4. QED
        BY <4>2, <4>3
    <3>2. ASSUME NEW q, q \in Shown, q # r PROVE q \in Shown'
      <4>1. PICK t \in Sectors, m \in Slots : m < Count(t) /\ q = RecOf(slot[t][m])
        BY <2>4, <3>2, Zenon DEF ShownAre
      <4>2. ~ (t = s /\ m = n)
        BY <3>2, <4>1 DEF r
      <4>3. m < Count(t)' /\ q = RecOf(slot'[t][m])
        BY <1>2, <1>3, <4>1, <4>2
      <4>4. QED
        BY <2>4, <4>3, Zenon DEF ShownAre
    <3>3. new \in Shown'
      <4>1. n < Count(s)' /\ new = RecOf(slot'[s][n])
        BY <1>2, <1>3, <2>2
      <4>2. QED
        BY <2>4, <4>1, Zenon DEF ShownAre
    <3>4. QED
      BY <3>1, <3>2, <3>3
  <2>8. Shown' = (Shown \ {r}) \cup {new}
    BY <2>7, Zenon
  <2>9. Log!Mark
    BY <1>1, <1>6, <2>3, <2>5, <2>8 DEF Log!Mark, Shown, Busy, new
  <2>10. QED
    BY <2>9 DEF Log!Next
<1>9. QED
  BY <1>7, <1>8

\* A call begins or ends, or the database goes down or up.
LEMMA CallMaps ==
    ASSUME IInv, IInv', UNCHANGED slot,
           \/ Busy' = Busy
           \/ Busy = "no" /\ Busy' \in {"append", "clean"} /\ rollover' = rollover
           \/ Busy = "append" /\ Busy' = "no" /\ rollover' = rollover
    PROVE  [Log!Next]_(Log!vars)
<1>1. \A s \in Sectors : Count(s)' = Count(s)
  BY SlotsStay
<1>2. Shown' = Shown
  BY <1>1, SameShown
<1>3. rollover' \in BOOLEAN
  BY DEF IInv, Types
<1>4. QED
  BY <1>2, <1>3, LogSteps

LEMMA SlotMaps ==
    ASSUME IInv, IInv', IdxPrepare \/ IdxBody \/ WriteLog
    PROVE  [Log!Next]_(Log!vars)
<1>1. job' = job /\ pc \in Placing /\ cur.sec # Nowhere
  BY NodeFacts DEF IdxPrepare, IdxBody, WriteLog
<1>2. cur.sec \in Sectors /\ cur.n \in Slots /\ cur.n = Count(cur.sec)
  BY <1>1, Place
<1>3. PICK v \in Slot : slot' = [slot EXCEPT ![cur.sec][cur.n] = v]
  BY NodeFacts
<1>4. \A s \in Sectors, n \in Slots : n < Count(s) => slot'[s][n] = slot[s][n]
  <2> TAKE s \in Sectors, n \in Slots
  <2>1. n < Count(s) => ~ (s = cur.sec /\ n = cur.n)
    BY <1>2, ConstantFacts
  <2>2. slot \in [Sectors -> [Slots -> Slot]]
    BY DEF IInv, Types
  <2>3. QED
    BY <1>2, <1>3, <2>1, <2>2
<1>5. Shown' = Shown
  BY <1>4, NodeCounts, SameShown
<1>6. Busy' = Busy /\ rollover' \in BOOLEAN
  BY <1>1 DEF Busy, IInv, Types
<1>7. QED
  BY <1>5, <1>6, LogSteps

LEMMA NextMaps ==
    ASSUME IInv, IInv', SInv, DInv, TInv, KeepsOrder, [Next]_vars
    PROVE  [Log!Next]_(Log!vars)
<1>1. CASE UNCHANGED vars
  BY <1>1, CallMaps DEF vars, flash, Busy
<1>2. CASE Step
  <2>1. ASSUME \/ EndPrepare \/ EndBody \/ EndCommit \/ MarkFull \/ UseSector \/ StartTime
               \/ WriteEmpty \/ InitTsdb \/ InitAsserts
        PROVE  [Log!Next]_(Log!vars)
    <3>1. slot' = slot /\ job' = job
      BY <2>1 DEF EndPrepare, EndBody, EndCommit, MarkFull, UseSector, StartTime, WriteEmpty,
                  InitTsdb, InitAsserts, flash
    <3>2. QED
      BY <3>1, CallMaps DEF Busy
  <2>2. ASSUME MarkLastFull PROVE [Log!Next]_(Log!vars)
    <3>1. slot' = slot /\ job = "append" /\ job' = "none" /\ rollover' = rollover
      BY <2>2 DEF MarkLastFull, IInv, Jobs
    <3>2. QED
      BY <3>1, CallMaps DEF Busy
  <2>3. QED
    BY <1>2, <2>1, <2>2, SlotMaps, CommitMaps, NeverNowhere, EraseMaps, MagicMaps, NoFormats
       DEF Step
<1>3. CASE Call
  <2>1. ASSUME NEW l \in Logs, NEW t \in Times,
               Refuse(l, t) \/ RefuseFull(l, t) \/ BeginAppend(l, t)
        PROVE  [Log!Next]_(Log!vars)
    <3>1. /\ slot' = slot /\ rollover' = rollover /\ job = "none"
          /\ job' \in {"none", "append"}
      BY <2>1 DEF Refuse, RefuseFull, BeginAppend, flash, ram, IInv, Jobs
    <3>2. QED
      BY <3>1, CallMaps DEF Busy
  <2>2. ASSUME BeginClean PROVE [Log!Next]_(Log!vars)
    <3>1. slot' = slot /\ rollover' = rollover /\ job = "none" /\ job' = "clean"
      BY <2>2 DEF BeginClean, flash, ram, IInv, Jobs
    <3>2. QED
      BY <3>1, CallMaps DEF Busy
  <2>3. ASSUME Deinit \/ \E b \in Rollovers : SetRollover(b) PROVE [Log!Next]_(Log!vars)
    <3>1. slot' = slot /\ job' = job
      BY <2>3 DEF Deinit, SetRollover, flash
    <3>2. QED
      BY <3>1, CallMaps DEF Busy
  <2>4. QED
    BY <1>3, <2>1, <2>2, <2>3, StatusMaps DEF Call
<1>4. CASE PowerCut
  <2>1. slot' = slot /\ rollover' = rollover /\ job' = "none"
    BY <1>4 DEF PowerCut, flash
  <2>2. job \in {"none", "append"}
    BY <1>4, CutFacts DEF EndCuts, Ending, IInv, Jobs
  <2>3. QED
    BY <2>1, <2>2, CallMaps DEF Busy
<1>5. QED
  BY <1>1, <1>2, <1>3, <1>4 DEF Next

LEMMA InitMaps == Init => Log!Init
<1> SUFFICES ASSUME Init PROVE Log!Init
  OBVIOUS
<1>1. IInv /\ ShownAre
  BY InitHolds, ShownHolds
<1>2. job = "none" /\ rollover = TRUE /\ \A s \in Sectors : hdr[s].store = EMPTY
  BY DEF Init, FormattedHdr, ErasedHdr
<1>3. \A s \in Sectors, n \in Slots : ~ (n < Count(s))
  BY <1>1, <1>2, EmptyHasNone
<1>4. Shown = {}
  BY <1>1, <1>3, Zenon DEF ShownAre
<1>5. QED
  BY <1>2, <1>4 DEF Log!Init, Shown

\* The database implements the time-ordered log of TsLog: an append adds one log
\* newer than all others, room is made from the oldest end, statuses only rise,
\* and nothing else changes what is stored - no restart, and no cut between
\* calls or while the end of a sector is saved.
THEOREM TsdbImplementsLog == KeepsOrder => (Spec => TimeOrderedLog)
<1> SUFFICES ASSUME KeepsOrder PROVE Spec => TimeOrderedLog
  OBVIOUS
<1>1. IInv /\ IInv' /\ SInv /\ DInv /\ TInv /\ [Next]_vars => [Log!Next]_(Log!vars)
  BY NextMaps
<1>2. Spec => [](SInv /\ DInv /\ TInv)
  BY OrderInductive
<1>3. QED
  BY <1>1, <1>2, InitMaps, TsdbInductive, PTL DEF Spec, TimeOrderedLog, Log!Spec

\* What the log promises holds of the flash as well.  A stored log is the log of
\* one append: its cells hold that log alone.
THEOREM LogsStayWhole == KeepsOrder => (Spec => []LogsWhole)
<1> SUFFICES ASSUME KeepsOrder PROVE Spec => []LogsWhole
  OBVIOUS
<1>1. DInv => LogsWhole
  <2> SUFFICES ASSUME DInv, NEW a \in Stored PROVE Cardinality(slot[a[1]][a[2]].data) = 1
    BY DEF LogsWhole
  <2>1. a[1] \in Sectors /\ a[2] \in Slots /\ a[2] < Count(a[1])
    BY DEF Stored
  <2>2. PICK l \in Logs : slot[a[1]][a[2]].data = {l}
    BY <2>1 DEF DInv, Whole
  <2>3. QED
    BY <2>2, FS_Singleton
<1>2. QED
  BY <1>1, OrderInductive, PTL

\* An append stores a log only with a time above that of every stored log, also
\* after a restart has read the last time back from the flash.
THEOREM TimesAlwaysIncrease == KeepsOrder => (Spec => TimesIncrease)
<1> SUFFICES ASSUME KeepsOrder PROVE Spec => TimesIncrease
  OBVIOUS
<1> DEFINE Newest == pc = "commit" => \A a \in Stored : slot[a[1]][a[2]].time < req.time
<1>1. IInv /\ TInv => Newest
  <2> SUFFICES ASSUME IInv, TInv, pc = "commit", NEW a \in Stored
               PROVE  slot[a[1]][a[2]].time < req.time
    OBVIOUS
  <2>1. a[1] \in Sectors /\ a[2] \in Slots /\ a[2] < Count(a[1])
    BY DEF Stored
  <2>2. slot[a[1]][a[2]].time <= lastTime /\ slot[a[1]][a[2]].time \in Int
    BY <2>1, ConstantFacts DEF TInv, Latest, Stamped, Times, Down
  <2>3. req.time > lastTime /\ req.time \in Int /\ lastTime \in Int
    <3>1. job = "append"
      BY DEF IInv, Jobs, Placing
    <3>2. QED
      BY <3>1, ConstantFacts DEF TInv, Asked, Times, IInv, Types, FlashTime
  <2>4. QED
    BY <2>2, <2>3
<1>2. Newest => [pc = "commit" /\ pc' = "idle" =>
                    \A a \in Stored : slot[a[1]][a[2]].time < req.time]_vars
  OBVIOUS
<1> HIDE DEF Newest
<1>3. QED
  BY <1>1, <1>2, OrderInductive, TsdbInductive, PTL DEF TimesIncrease

\* With rollover off no sector that holds logs is formatted to make room.
THEOREM OffKeepsLogs == KeepsOrder => (Spec => NoRolloverKeepsLogs)
<1> SUFFICES ASSUME KeepsOrder PROVE Spec => NoRolloverKeepsLogs
  OBVIOUS
<1>1. SInv => [pc = "erase" /\ job = "append" /\ ~rollover =>
                  \A n \in Slots : <<fmt, n>> \notin Stored]_vars
  BY DEF SInv, Wrapped, Formatting
<1>2. QED
  BY <1>1, OrderInductive, PTL DEF NoRolloverKeepsLogs

\* An init never formats: what was stored before a restart is stored after it.
THEOREM InitsFormatNothing == KeepsOrder => (Spec => InitKeepsLogs)
<1> SUFFICES ASSUME KeepsOrder PROVE Spec => InitKeepsLogs
  OBVIOUS
<1>1. SInv => [pc = "erase" /\ job = "init" => \A n \in Slots : <<fmt, n>> \notin Stored]_vars
  BY DEF SInv, NeverInit
<1>2. QED
  BY <1>1, OrderInductive, PTL DEF InitKeepsLogs
=============================================================================
