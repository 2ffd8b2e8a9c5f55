------------------------------ MODULE FalStore ------------------------------
(* What the flash abstraction layer promises the databases above it: each      *)
(* partition of the table is a storage of its own, which a write and an erase  *)
(* change at the addressed cells only and from which a read returns what is    *)
(* there.  A call outside of the partition is refused with -1; a device that   *)
(* has no storage answers 0 and does nothing.                                  *)
EXTENDS Integers, Sequences

CONSTANTS Addrs, Sizes,    \* what callers ask for
          Values,          \* what they write
          Erased           \* the value of an erased cell

VARIABLES tab,             \* the partition table
          areas,           \* the storage of each partition, in table order
          answer           \* of the last call: [ret, data]

storeVars == <<tab, areas, answer>>

Inside(p, addr, size) == addr + size <= Len(areas[p])

\* Only a new table may replace the storages behind it.
Retable == tab' # tab

Refuse(p, addr, size) ==
    /\ ~ Inside(p, addr, size)
    /\ answer' = [ret |-> -1, data |-> <<>>]
    /\ UNCHANGED <<tab, areas>>

NoStorage == answer' = [ret |-> 0, data |-> <<>>] /\ UNCHANGED <<tab, areas>>

\* fal_init, called again for each database, returns the number of partitions.
InitAgain == answer' = [ret |-> Len(areas), data |-> <<>>] /\ UNCHANGED <<tab, areas>>

Get(p, addr, size) ==
    /\ Inside(p, addr, size)
    /\ answer' = [ret |-> size, data |-> SubSeq(areas[p], addr + 1, addr + size)]
    /\ UNCHANGED <<tab, areas>>

Put(p, addr, size, v) ==
    /\ Inside(p, addr, size)
    /\ answer' = [ret |-> size, data |-> <<>>]
    /\ areas' = [areas EXCEPT ![p] =
                   [c \in DOMAIN @ |-> IF c \in (addr + 1)..(addr + size) THEN v ELSE @[c]]]
    /\ UNCHANGED tab

Next ==
    \/ Retable
    \/ NoStorage
    \/ InitAgain
    \/ \E p \in DOMAIN areas, addr \in Addrs, size \in Sizes :
          \/ Refuse(p, addr, size)
          \/ Get(p, addr, size)
          \/ \E v \in Values \cup {Erased} : Put(p, addr, size, v)

Init == areas = <<>> /\ answer = [ret |-> 0, data |-> <<>>]

Spec == Init /\ [][Next]_storeVars
=============================================================================
