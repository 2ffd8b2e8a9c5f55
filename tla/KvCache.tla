------------------------------ MODULE KvCache ------------------------------
(***************************************************************************)
(* The KV cache of fdb_kvdb.c: a table of node addresses, found by 16 bits *)
(* of the CRC32 of the name, evicted by activity.  Kvdb has a cache with   *)
(* an entry for every key; here are the entries that are too few, collide  *)
(* and are shared.  A call of the library is one step.                     *)
(***************************************************************************)
EXTENDS Naturals, FiniteSets

CONSTANTS
    Names,
    Crc,          \* 16 bits of a name's CRC32
    Prefixes,     \* pairs of different names, the first a prefix of the second
    Addrs,        \* where nodes may lie on flash
    NoName, NoAddr,
    TableSize,    \* FDB_KV_CACHE_TABLE_SIZE
    MaxActive     \* 0xFFFF

ASSUME KvCacheAssumption ==
    /\ Crc \in [Names -> Nat]
    /\ Prefixes \subseteq Names \X Names
    /\ NoName \notin Names /\ NoAddr \notin Addrs
    /\ TableSize \in Nat \ {0} /\ MaxActive \in Nat /\ MaxActive > TableSize

VARIABLES
    table,   \* kv_cache_table
    name,    \* flash: the name that can be read at an address
    live     \* flash: the address of a name's node of status FDB_KV_WRITE

vars == <<table, name, live>>

Slots == 0..(TableSize - 1)
Entry == [addr : Addrs \cup {NoAddr}, crc : Nat, active : 0..MaxActive]

First(S)  == CHOOSE i \in S : \A j \in S : i <= j
Used(i)   == table[i].addr # NoAddr
OfCrc(n)  == {i \in Slots : table[i].crc = Crc[n]}
Aged(i)   == IF Used(i) /\ table[i].active > 0 THEN [table[i] EXCEPT !.active = @ - 1] ELSE table[i]
Unused    == {i \in Slots : ~Used(i)}
\* min_activity starts at 0xFFFF, which no aged entry reaches.
LeastActive == {i \in Slots : \A j \in Slots : Aged(i).active <= Aged(j).active}
Fresh(n, a) == [addr |-> a, crc |-> Crc[n], active |-> TableSize]

\* Mutant: the search stops at the first unused entry.
Update_StopsAtUnused(n, a) ==
    IF Unused # {} THEN [table EXCEPT ![First(Unused)] = Fresh(n, a)]
    ELSE IF OfCrc(n) # {} THEN [table EXCEPT ![First(OfCrc(n))].addr = a]
    ELSE [i \in Slots |-> IF i = First(LeastActive) THEN Fresh(n, a) ELSE Aged(i)]

\* update_kv_cache with an address: an entry of that CRC is taken over, whatever
\* its name; the entries before it have aged.  Otherwise the first unused entry,
\* or the first of the least active ones, becomes the name's.
Update(n, a) ==
    LET i == First(OfCrc(n))
        new == IF Unused # {} THEN First(Unused) ELSE First(LeastActive)
    IN  IF OfCrc(n) # {}
        THEN [j \in Slots |-> IF j = i THEN [table[i] EXCEPT !.addr = a]
                              ELSE IF j < i THEN Aged(j) ELSE table[j]]
        ELSE [j \in Slots |-> IF j = new THEN Fresh(n, a) ELSE Aged(j)]

\* update_kv_cache with FDB_DATA_UNUSED; the CRC stays in the entry.
Forget(n) ==
    IF OfCrc(n) = {} THEN table
    ELSE [table EXCEPT ![First(OfCrc(n))] = [addr |-> NoAddr, crc |-> @.crc, active |-> 0]]

\* strncmp compares as many characters as the name that is asked for has.
NameMatches(n, a) == name[a] = n \/ <<n, name[a]>> \in Prefixes

\* get_kv_from_cache.
Hits(n) == {i \in OfCrc(n) : Used(i) /\ NameMatches(n, table[i].addr)}

\* A hit makes the entry more active, up to 0xFFFF.
Touched(i) ==
    [table EXCEPT ![i].active = IF @ >= MaxActive - TableSize THEN MaxActive ELSE @ + TableSize]

-----------------------------------------------------------------------------
(* The calls that use it.                                                  *)

\* find_kv: the cache, else a scan of the flash, which the cache learns.
Find(n) ==
    /\ table' = IF Hits(n) # {} THEN Touched(First(Hits(n)))
                ELSE IF live[n] # NoAddr THEN Update(n, live[n]) ELSE table
    /\ UNCHANGED <<name, live>>

\* create_kv_blob, or move_kv: a node of the name at an erased address.  The old
\* node keeps its name on flash.
Write(n, a) ==
    /\ name[a] = NoName
    /\ name' = [name EXCEPT ![a] = n]
    /\ live' = [live EXCEPT ![n] = a]
    /\ table' = Update(n, a)

\* del_kv.
Delete(n) ==
    /\ live[n] # NoAddr
    /\ live' = [live EXCEPT ![n] = NoAddr]
    /\ table' = Forget(n)
    /\ UNCHANGED name

\* format_sector, of a sector whose live nodes were moved.
Erase(a) ==
    /\ name[a] # NoName
    /\ \A n \in Names : live[n] # a
    /\ name' = [name EXCEPT ![a] = NoName]
    /\ UNCHANGED <<table, live>>

\* fdb_kvdb_init empties the addresses and leaves the rest as the application's
\* memory was.
Init ==
    /\ \E c \in {0} \cup {Crc[n] : n \in Names} :
           table = [i \in Slots |-> [addr |-> NoAddr, crc |-> c, active |-> 0]]
    /\ name = [a \in Addrs |-> NoName]
    /\ live = [n \in Names |-> NoAddr]

Next == \/ \E n \in Names : Find(n) \/ Delete(n)
        \/ \E n \in Names, a \in Addrs : Write(n, a)
        \/ \E a \in Addrs : Erase(a)
Spec == Init /\ [][Next]_vars

-----------------------------------------------------------------------------
(* Properties.                                                             *)

\* The table is of its type; the 16 bits of an activity do not wrap
\* (get_kv_from_cache, update_kv_cache).
TypeOK == /\ table \in [Slots -> Entry]
          /\ name \in [Addrs -> Names \cup {NoName}]
          /\ live \in [Names -> Addrs \cup {NoAddr}]

\* A hit leads to the live node of the name that was asked for, although names
\* share entries, entries are evicted, deleted and taken up again, and old nodes
\* keep their names until their sector is erased.
HitsLive == \A n \in Names : \A i \in Hits(n) : table[i].addr = live[n]
=============================================================================
