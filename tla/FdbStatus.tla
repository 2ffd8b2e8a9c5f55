----------------------------- MODULE FdbStatus -----------------------------
(***************************************************************************)
(* The status tables of fdb_utils.c.  Every sector header, KV and TSL      *)
(* keeps its status in a small table of flash cells, because NOR flash can *)
(* only program a cell and never clear one without erasing the sector.  A  *)
(* table is modelled as the set of its programmed cells.                   *)
(*                                                                         *)
(* With FDB_WRITE_GRAN = 1 a cell is one bit and a write of status i       *)
(* programs bits 1..i; with a coarser granularity a cell is one write unit *)
(* and a write of status i programs unit i alone.                          *)
(***************************************************************************)
EXTENDS Naturals

CONSTANT StatusNum      \* status_num: how many statuses the table tells apart

\* A table of one byte at granularity 1: _fdb_set_status computes its mask
\* modulo 8, and every table of the program has 4 or 6 statuses.
ASSUME StatusNumAssumption == StatusNum \in 1..8

Status == 0..(StatusNum - 1)
Cells  == 1..(StatusNum - 1)
Grans  == {"bit", "unit"}

VARIABLES
    gran,     \* the write granularity the library is built with
    table,    \* the programmed cells of one status table on flash
    written   \* the highest status written since the last erase

vars == <<gran, table, written>>

Higher(a, b) == IF a >= b THEN a ELSE b

\* _fdb_set_status: the cells the RAM image of status i has programmed.
SetStatus(g, i) == IF g = "bit" THEN 1..i ELSE {c \in Cells : c = i}

\* Mutant: the table is scanned from its start instead of its end.
GetStatus_FromStart(t) ==
    CHOOSE i \in Status : /\ 1..i \subseteq t
                          /\ i + 1 \notin t

\* _fdb_get_status: the highest programmed cell, 0 when there is none.
GetStatus(t) == CHOOSE i \in Status : /\ i # 0 => i \in t
                                      /\ \A c \in t : c <= i

\* Mutant: the write replaces the cells instead of programming more of them.
NorWrite_Replace(t, cells) == cells

\* _fdb_flash_write on NOR: programming only ever adds programmed cells.
NorWrite(t, cells) == t \cup cells

-----------------------------------------------------------------------------
Init == /\ gran \in Grans
        /\ table = {}
        /\ written = 0

\* _fdb_write_status: status 0 is the erased table and writes nothing.
WriteStatus(i) == /\ table' = NorWrite(table, SetStatus(gran, i))
                  /\ written' = Higher(written, i)
                  /\ UNCHANGED gran

\* _fdb_flash_erase of the sector that holds the table.
Erase == /\ table' = {}
         /\ written' = 0
         /\ UNCHANGED gran

Next == \/ \E i \in Status : WriteStatus(i)
        \/ Erase

Spec == Init /\ [][Next]_vars

-----------------------------------------------------------------------------
TypeOK == /\ gran \in Grans
          /\ table \in SUBSET Cells
          /\ written \in Status

\* Whatever order statuses are written in, and at either granularity, a read
\* returns the highest one written since the erase: the encodings of
\* _fdb_set_status and _fdb_get_status agree, so a status may be modelled by
\* its number and a write by a maximum.
ReadsHighestWritten == GetStatus(table) = written

\* Only an erase takes a status back: a status write never lowers what
\* _fdb_read_status returns.
NeverBackward == [][table' # {} => GetStatus(table') >= GetStatus(table)]_vars
=============================================================================
