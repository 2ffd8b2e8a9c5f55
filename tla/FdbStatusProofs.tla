-------------------------- MODULE FdbStatusProofs --------------------------
(***************************************************************************)
(* Proofs about the status tables, for every table size up to one byte of  *)
(* bits and for both write granularities.                                  *)
(***************************************************************************)
EXTENDS FdbStatus, TLAPS

\* Inductive invariant: the highest written status is programmed, and nothing
\* above it is.
IInv == /\ TypeOK
        /\ written # 0 => written \in table
        /\ \A c \in table : c <= written

\* _fdb_get_status returns the maximum: a status that is programmed (or 0) and
\* is not exceeded by any programmed cell is what a read returns.
LEMMA GetStatusIsMax ==
    ASSUME NEW t \in SUBSET Cells, NEW i \in Status,
           i # 0 => i \in t,
           \A c \in t : c <= i
    PROVE  GetStatus(t) = i
<1> DEFINE P(j) == (j # 0 => j \in t) /\ \A c \in t : c <= j
<1>1. P(i)
  OBVIOUS
<1>2. ASSUME NEW j \in Status, P(j)
      PROVE  j = i
  BY <1>1, <1>2, StatusNumAssumption DEF Status, Cells
<1>3. PICK j \in Status : j = GetStatus(t) /\ P(j)
  BY <1>1 DEF GetStatus
<1>4. QED
  BY <1>2, <1>3

\* The cells of a status write lie in the table, contain the status itself and
\* reach no higher, at either granularity.
LEMMA SetStatusCells ==
    ASSUME NEW g \in Grans, NEW i \in Status
    PROVE  /\ SetStatus(g, i) \subseteq Cells
           /\ i # 0 => i \in SetStatus(g, i)
           /\ \A c \in SetStatus(g, i) : c <= i
BY StatusNumAssumption DEF SetStatus, Grans, Status, Cells

\* The inductive invariant holds in every reachable state.
THEOREM Inductive == Spec => []IInv
<1>1. Init => IInv
  BY StatusNumAssumption DEF Init, IInv, TypeOK, Status
<1>2. IInv /\ [Next]_vars => IInv'
  <2> SUFFICES ASSUME IInv, [Next]_vars
               PROVE  IInv'
    OBVIOUS
  <2> USE DEF IInv, TypeOK
  <2>1. ASSUME NEW i \in Status, WriteStatus(i)
        PROVE  IInv'
    <3>1. written \in Nat /\ i \in Nat
      BY StatusNumAssumption DEF Status
    <3>2. SetStatus(gran, i) \subseteq Cells
      BY SetStatusCells
    <3>3. TypeOK'
      BY <2>1, <3>2 DEF WriteStatus, NorWrite, Higher
    <3>4. written' # 0 => written' \in table'
      BY <2>1, <3>1, SetStatusCells DEF WriteStatus, NorWrite, Higher
    <3>5. \A c \in table' : c <= written'
      BY <2>1, <3>1, <3>2, SetStatusCells, StatusNumAssumption
         DEF WriteStatus, NorWrite, Higher, Cells
    <3>6. QED
      BY <3>3, <3>4, <3>5
  <2>2. CASE Erase
    BY <2>2, StatusNumAssumption DEF Erase, Status
  <2>3. CASE UNCHANGED vars
    BY <2>3 DEF vars
  <2>4. QED
    BY <2>1, <2>2, <2>3 DEF Next
<1>3. QED
  BY <1>1, <1>2, PTL DEF Spec

\* What _fdb_read_status returns is always the highest status written since the
\* erase, whatever the order of the writes.
THEOREM ReadsHighest == Spec => []ReadsHighestWritten
<1>1. IInv => ReadsHighestWritten
  BY GetStatusIsMax DEF IInv, TypeOK, ReadsHighestWritten
<1>2. QED
  BY <1>1, Inductive, PTL

\* A status write adds cells and so takes the status read to the maximum of the
\* old one and the one written: this is why the other modules keep a status as
\* a number and model its write as a maximum.
THEOREM WriteIsMaximum ==
    ASSUME NEW g \in Grans, NEW t \in SUBSET Cells, NEW s \in Status,
           NEW i \in Status,
           s # 0 => s \in t,
           \A c \in t : c <= s
    PROVE  GetStatus(NorWrite(t, SetStatus(g, i))) = Higher(s, i)
<1>1. s \in Nat /\ i \in Nat
  BY StatusNumAssumption DEF Status
<1>2. NorWrite(t, SetStatus(g, i)) \in SUBSET Cells
  BY SetStatusCells DEF NorWrite
<1>3. Higher(s, i) \in Status
  BY DEF Higher
<1>4. Higher(s, i) # 0 => Higher(s, i) \in NorWrite(t, SetStatus(g, i))
  BY <1>1, SetStatusCells DEF Higher, NorWrite
<1>5. \A c \in NorWrite(t, SetStatus(g, i)) : c <= Higher(s, i)
  BY <1>1, <1>2, SetStatusCells, StatusNumAssumption DEF Higher, NorWrite, Cells
<1>6. QED
  BY <1>2, <1>3, <1>4, <1>5, GetStatusIsMax

\* Only an erase takes a status back.
THEOREM StatusNeverBackward == Spec => NeverBackward
<1> DEFINE Step == table' # {} => GetStatus(table') >= GetStatus(table)
<1>1. ASSUME IInv, IInv', [Next]_vars
      PROVE  [Step]_vars
  <2>1. GetStatus(table) = written /\ GetStatus(table') = written'
    BY <1>1, GetStatusIsMax DEF IInv, TypeOK
  <2>2. written \in Nat /\ \A i \in Status : i \in Nat
    BY <1>1, StatusNumAssumption DEF IInv, TypeOK, Status
  <2>3. ASSUME NEW i \in Status, WriteStatus(i)
        PROVE  Step
    BY <2>1, <2>2, <2>3 DEF WriteStatus, Higher
  <2>4. CASE Erase
    BY <2>4 DEF Erase
  <2>5. QED
    BY <1>1, <2>3, <2>4 DEF Next
<1>2. QED
  BY <1>1, Inductive, PTL DEF Spec, NeverBackward
=============================================================================
