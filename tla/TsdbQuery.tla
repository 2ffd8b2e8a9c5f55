----------------------------- MODULE TsdbQuery -----------------------------
(***************************************************************************)
(* The readers of the time series database: fdb_tsl_iter,                  *)
(* fdb_tsl_iter_reverse and fdb_tsl_iter_by_time, as operators on the      *)
(* flash and the RAM of Tsdb that return the sequence of nodes handed to   *)
(* the callback.  A reader holds the lock while it reads, but takes the    *)
(* sector it starts from before it has the lock; rd is that sector.        *)
(***************************************************************************)
EXTENDS Tsdb, SequencesExt

CONSTANTS
    AsIndex,       \* what the bytes of a log read as when taken for an index
    MayRead        \* the readers that run beside other calls, of Forward and Backward

VARIABLE rd        \* a reader that waits for the lock: its kind and its start

Forward == "forward"
Backward == "reverse"
NoReader == [kind |-> "none", start |-> 0]
qvars == <<vars, rd>>

\* read_tsl.  In a sector filled to its last unit the slot behind the last
\* index is the first byte of a log.
Programmed(s) == MapThenSumSet(LAMBDA n : LenOf(slot[s][n].data), Slots)
InData(s, n) == n < 0 \/ n * IdxLen >= Cap - Programmed(s)
ReadTsl(s, n) ==
    IF InData(s, n) THEN AsIndex
    ELSE IF slot[s][n].st <= PRE_WRITE THEN [st |-> slot[s][n].st, time |-> 0]
    ELSE [st |-> slot[s][n].st, time |-> slot[s][n].time]

\* end_idx as a number in the sector; -1 when it lies in a sector before.
EndNumber(c) == IF c.endIdx[1] = c.sec THEN c.endIdx[2] ELSE -1

\* Mutant: the middle is not looked at again when one slot is left.
SearchStart_KeepsHigh(s, end, from, to) ==
    LET Done(a) == IF from > to /\ ReadTsl(s, a).time > from THEN a - 1 ELSE a
        f[r \in (0..(Cap + 1)) \X (-1..Cap)] ==
            LET m == r[1] + (r[2] - r[1] + 1) \div 2
                t == ReadTsl(s, m).time
                q == IF t < from THEN <<m + 1, r[2]>> ELSE <<r[1], m - 1>>
            IN  IF t = from THEN m ELSE IF q[1] >= q[2] THEN Done(q[1]) ELSE f[q]
    IN  f[<<0, end>>]

\* search_start_tsl_addr: a binary search whose middle is rounded up to a whole
\* index; backwards it goes one node back if it ended on a later one.
SearchStart(s, end, from, to) ==
    LET Done(a) == IF from > to /\ ReadTsl(s, a).time > from THEN a - 1 ELSE a
        f[r \in (0..(Cap + 1)) \X (-1..Cap)] ==
            LET m == r[1] + (r[2] - r[1] + 1) \div 2
                t == ReadTsl(s, m).time
                q == IF t < from THEN <<m + 1, r[2]>> ELSE <<r[1], m - 1>>
            IN  IF t = from THEN m ELSE IF q[1] > q[2] THEN Done(q[1]) ELSE f[q]
    IN  f[<<0, end>>]

\* get_next_tsl_addr and get_last_tsl_addr from slot a on: the first slot is
\* read whatever the end of the sector is.
SlotsUp(c, a) == [i \in 1..Max({1, EndNumber(c) - a + 1}) |-> a + i - 1]
SlotsDown(a)  == [i \in 1..Max({1, a + 1}) |-> a - i + 1]

\* The sectors in the order of get_next_sector_addr or get_last_sector_addr; an
\* address outside of the sectors shows no header.
SectorAt(kind, start, k) ==
    IF kind = Forward THEN (start + k) % NSec ELSE (start + NSec - k) % NSec

\* Mutant: traversed_len is compared with < and the last sector is missed.
Visits_OneLess == NSec - 1

\* get_next_sector_addr and get_last_sector_addr end once traversed_len is max_size.
Visits == NSec

\* Calls Visit on one sector after the other until a visit is done.  acc.c is
\* the struct the sectors are read into.
Scan(kind, start, Visit(_, _)) ==
    LET f[k \in 0..Visits] ==
            IF k = 0 THEN [c |-> ZeroInfo, out |-> <<>>, found |-> FALSE, done |-> FALSE]
            ELSE LET acc == f[k - 1]
                     s == SectorAt(kind, start, k - 1)
                     c == ReadSector(s, acc.c, FALSE)
                 IN  IF acc.done THEN acc
                     ELSE IF ~hdr[s].magic THEN [acc EXCEPT !.c = c]
                     ELSE Visit([acc EXCEPT !.c = IF c.store = USING THEN cur ELSE c], s)
    IN  IF start = Nowhere THEN <<>> ELSE f[Visits].out

Nodes(s, seq) == [i \in DOMAIN seq |-> <<s, seq[i]>>]
HasLogs(c) == c.store \in {USING, FULL}

\* fdb_tsl_iter.
Iter(start) ==
    LET Visit(acc, s) ==
            IF HasLogs(acc.c)
            THEN [acc EXCEPT !.out = @ \o Nodes(s, SlotsUp(acc.c, 0))]
            ELSE acc
    IN  Scan(Forward, start, Visit)

\* fdb_tsl_iter_reverse: an end in another sector is read there, once.
IterReverse(start) ==
    LET Visit(acc, s) ==
            IF ~HasLogs(acc.c) THEN [acc EXCEPT !.done = TRUE]
            ELSE [acc EXCEPT !.out = @ \o
                     IF EndNumber(acc.c) < 0 THEN <<acc.c.endIdx>>
                     ELSE Nodes(s, SlotsDown(EndNumber(acc.c)))]
    IN  Scan(Backward, start, Visit)

InRange(t, from, to) == IF from <= to THEN from <= t /\ t <= to ELSE to <= t /\ t <= from

\* The nodes handed to the callback up to the first one outside of the range,
\* and whether there was such a one; unused slots are passed over.
Matches(s, seq, from, to) ==
    LET used == SelectSeq(seq, LAMBDA n : ReadTsl(s, n).st # UNUSED)
        outside == {i \in DOMAIN used : ~InRange(ReadTsl(s, used[i]).time, from, to)}
        upto == IF outside = {} THEN Len(used) ELSE Min(outside) - 1
    IN  [nodes |-> Nodes(s, SubSeq(used, 1, upto)), done |-> outside # {}]

\* fdb_tsl_iter_by_time: the first sector that may hold the start of the range
\* is searched for it, and so is every sector behind it.
StartsIn(kind, c, first, from) ==
    IF kind = Forward
    THEN (first /\ from <= c.start) \/ from <= c.endTime
    ELSE (first /\ from >= c.endTime) \/ from >= c.start

IterByTime(from, to, start) ==
    LET kind == IF from <= to THEN Forward ELSE Backward
        Walk(c, a) == IF kind = Forward THEN SlotsUp(c, a) ELSE SlotsDown(a)
        Visit(acc, s) ==
            IF acc.c.store = EMPTY THEN [acc EXCEPT !.done = TRUE]
            ELSE IF HasLogs(acc.c) /\ (acc.found \/ StartsIn(kind, acc.c, s = start, from))
            THEN LET m == Matches(s, Walk(acc.c, SearchStart(s, EndNumber(acc.c), from, to)),
                                  from, to)
                 IN  [acc EXCEPT !.found = TRUE, !.done = m.done, !.out = @ \o m.nodes]
            ELSE acc
    IN  Scan(kind, start, Visit)

\* fdb_tsl_query_count.
QueryCount(from, to, st) ==
    LET nodes == IterByTime(from, to, IF from <= to THEN oldest ELSE cur.sec)
    IN  Cardinality({i \in DOMAIN nodes : ReadTsl(nodes[i][1], nodes[i][2]).st = st})

-----------------------------------------------------------------------------
(* Readers that run beside other calls.                                    *)

TakeStart(kind) ==
    /\ pc \notin {"off", "hung"}
    /\ rd = NoReader
    /\ rd' = [kind |-> kind, start |-> IF kind = Forward THEN oldest ELSE cur.sec]
    /\ UNCHANGED vars

\* The lock is free: the reader reads without a step of another call.
Read == /\ pc = "idle"
        /\ rd # NoReader
        /\ rd' = NoReader
        /\ UNCHANGED vars

QInit == Init /\ rd = NoReader

\* A database is not closed while it is read, and a power cut ends the reader.
QNext == \/ Step /\ UNCHANGED rd
         \/ Call /\ (pc' = "off" => rd = NoReader) /\ UNCHANGED rd
         \/ PowerCut /\ rd' = NoReader
         \/ \E kind \in MayRead : TakeStart(kind)
         \/ Read

\* The calls run on as in Tsdb; readers owe nothing.
QSpec == QInit /\ [][QNext]_qvars /\ WF_qvars(Step /\ UNCHANGED rd)

-----------------------------------------------------------------------------
TimeOf(a) == slot[a[1]][a[2]].time
InOrder(S) == SetToSortSeq(S, LAMBDA a, b : TimeOf(a) < TimeOf(b))
Between(from, to) == {a \in Stored : InRange(TimeOf(a), from, to)}

\* Between calls fdb_tsl_iter hands out every stored log, oldest first, and
\* fdb_tsl_iter_reverse the same logs the other way round: the sector order
\* kept in RAM, the ends of the sectors on flash and in RAM, and the node
\* counts agree.
IterRight ==
    pc = "idle" => LET up == InOrder(Stored)
                   IN  Iter(oldest) = up /\ IterReverse(cur.sec) = Reverse(up)

\* fdb_tsl_iter_by_time returns exactly the logs of the range in the order
\* asked for, whatever the range: empty, reversed, between two sectors, or
\* beyond the first or the last log; fdb_tsl_query_count counts all logs of a
\* status, from either end.
Everything == {<<0, MaxTime + 1>>, <<MaxTime + 1, 0>>}
QueryRight ==
    pc = "idle" =>
        /\ LET up == InOrder(Stored)
           IN  \A from, to \in 0..(MaxTime + 1) :
                  LET logs == SelectSeq(up, LAMBDA a : InRange(TimeOf(a), from, to))
                  IN  IF from <= to THEN IterByTime(from, to, oldest) = logs
                                    ELSE IterByTime(from, to, cur.sec) = Reverse(logs)
        /\ \A st \in {WRITE} \cup Marks, r \in Everything :
              QueryCount(r[1], r[2], st)
                 = Cardinality({a \in Stored : slot[a[1]][a[2]].st = st})

\* A reader that took its start before an append moved it still sees every
\* stored log once, and backwards it misses none but the newest.
IsInjectiveSeq(seq) == \A i, j \in DOMAIN seq : i # j => seq[i] # seq[j]
StaleIterComplete ==
    pc = "idle" =>
        /\ rd.kind = Forward =>
              /\ IsInjectiveSeq(Iter(rd.start))
              /\ Range(Iter(rd.start)) = Stored
        /\ rd.kind = Backward =>
              LET seen == Range(IterReverse(rd.start))
              IN  /\ IsInjectiveSeq(IterReverse(rd.start))
                  /\ seen \subseteq Stored
                  /\ \A a \in Stored \ seen, b \in seen : TimeOf(b) < TimeOf(a)

\* A reader of a range that took its start before an append moved it finds
\* every log of the range.
StaleQueryComplete ==
    pc = "idle" /\ rd.kind = Forward =>
        \A from, to \in 1..MaxTime :
            from <= to => Range(IterByTime(from, to, rd.start)) = Between(from, to)
=============================================================================
