-------------------------------- MODULE Tsdb --------------------------------
(***************************************************************************)
(* The time series database of fdb_tsdb.c on NOR flash, one action per     *)
(* flash program or erase, so that a power cut may fall between any two.   *)
(*                                                                         *)
(* Flash: a sector has a header and Cap units for its logs.  Log indexes   *)
(* grow from the top, IdxLen units each, the logs themselves from the      *)
(* bottom, so an index is known by its number.  The contents of a log are  *)
(* the set of logs programmed into its cells: one log, unless a power cut  *)
(* left cells programmed and they were used again.                         *)
(*                                                                         *)
(* RAM: cur_sec, last_time, oldest_addr and rollover of struct fdb_tsdb,   *)
(* and the arguments of the call being served.  pc says which flash write  *)
(* comes next.                                                             *)
(***************************************************************************)
EXTENDS Integers, FiniteSets, FiniteSetsExt

CONSTANTS
    Logs,          \* payloads
    Size,          \* blob->size of a log, in units
    MaxLen,        \* max_len
    MaxTime,       \* bound: timestamps are 1..MaxTime
    Marks,         \* statuses callers set with fdb_tsl_set_status
    Rollovers,     \* values callers set with FDB_TSDB_CTRL_SET_ROLLOVER
    Late,          \* options are set on a database that has logs, too
    NSec,          \* sectors of the database
    Cap,           \* sec_size - SECTOR_HDR_DATA_SIZE, in units
    IdxLen,        \* LOG_IDX_DATA_SIZE, in units
    MaxCuts,       \* bound on the power cuts of a behaviour
    CutAt,         \* the values of pc at which power may fail
    MaxRestarts    \* bound on the calls of fdb_tsdb_deinit

\* enum fdb_sector_store_status.
EMPTY == 1
USING == 2
FULL  == 3

\* enum fdb_tsl_status; USER_STATUS1, DELETED and USER_STATUS2 are 3 to 5.
UNUSED    == 0
PRE_WRITE == 1
WRITE     == 2

\* Any log fits an empty sector: max_len must be less than sec_size (line 938),
\* and a caller must leave room for the header and an index besides.
ASSUME TsdbAssumption ==
    /\ NSec \in Nat /\ NSec > 1               \* the assertion in _fdb_init_ex
    /\ Cap \in Nat /\ IdxLen \in Nat /\ IdxLen > 0
    /\ Logs # {} /\ Size \in [Logs -> Nat \ {0}]
    /\ MaxLen \in Nat /\ IdxLen + MaxLen <= Cap
    /\ MaxTime \in Nat /\ MaxCuts \in Nat /\ MaxRestarts \in Nat
    /\ Marks \subseteq (WRITE + 1)..5
    /\ Rollovers \subseteq BOOLEAN

Sectors == 0..(NSec - 1)
Slots   == 0..(Cap \div IdxLen)
Times   == 1..MaxTime
Nowhere == NSec                     \* an address outside of the sectors
Erased  == -1                       \* erased cells, read as a time: 0xFFFFFFFF

FlashTime == Erased..MaxTime
Copies    == {0, 1}
EndInfo   == [st : 0..5, time : FlashTime, idx : Slots]
Header    == [store : 0..3, magic : BOOLEAN, start : FlashTime, end : [Copies -> EndInfo]]
Slot      == [st : 0..5, time : FlashTime, data : SUBSET Logs]
NoEnd     == [st |-> UNUSED, time |-> Erased, idx |-> 0]
ErasedHdr == [store |-> 0, magic |-> FALSE, start |-> Erased, end |-> [i \in Copies |-> NoEnd]]
Blank     == [st |-> UNUSED, time |-> Erased, data |-> {}]

\* struct tsdb_sec_info.  The end of a sector is a time and an index, which
\* may be those of another sector when the struct is used again.
SecInfo == [sec : 0..NSec, store : 0..3, stat : [Copies -> 0..5], start : FlashTime,
            endTime : FlashTime, endIdx : Sectors \X Slots, n : Slots, used : 0..Cap]
ZeroInfo == [sec |-> 0, store |-> 0, stat |-> [i \in Copies |-> UNUSED], start |-> 0,
             endTime |-> 0, endIdx |-> <<0, 0>>, n |-> 0, used |-> 0]
NoLog == [log |-> CHOOSE l \in Logs : TRUE, time |-> 0]

VARIABLES
    hdr,       \* flash: sector headers
    slot,      \* flash: log indexes and logs, by sector and number
    pc,        \* the next step of the library
    job,       \* what the format or the write under way is for
    req,       \* the log being appended
    fmt,       \* the sector being formatted
    result,    \* what the last append returned
    cur,       \* cur_sec
    lastTime,  \* last_time
    oldest,    \* oldest_addr, as a sector number
    rollover,  \* rollover
    cuts,      \* power cuts so far
    restarts   \* deinitialisations so far

flash == <<hdr, slot>>
ram   == <<cur, lastTime, oldest, rollover>>
bounds == <<cuts, restarts>>
vars  == <<flash, pc, job, req, fmt, result, ram, bounds>>

PCs == {"off", "hung", "idle", "end_pre", "end_body", "end_write", "full", "erase",
        "empty", "magic", "using", "start", "idx_pre", "idx_body", "log", "commit"}

-----------------------------------------------------------------------------
(* Reading the flash.                                                      *)

\* _fdb_write_status on NOR flash.
Program(st, i) == IF st >= i THEN st ELSE i

\* _fdb_flash_write over cells that may be programmed already: on NOR flash the
\* outcome is the AND of both values, the largest number with no other bits than
\* those they share.
Bit(a, i) == (a \div 2^i) % 2 = 1
CommonBits(a, b) ==
    {c \in 0..MaxTime : \A i \in 0..MaxTime : Bit(c, i) => Bit(a, i) /\ Bit(b, i)}
And(a, b) == IF a = Erased THEN b ELSE Max({0} \cup CommonBits(a, b))

\* read_sector_info: the nodes are those before the first that is not written.
Count(s) == CHOOSE n \in Slots : /\ \A m \in 0..(n - 1) : slot[s][m].st >= WRITE
                                 /\ n = Cap \div IdxLen \/ slot[s][n].st < WRITE
LenOf(d) == IF d = {} THEN 0 ELSE Size[CHOOSE l \in d : TRUE]
Used(s)  == LET upTo[n \in Slots] == IF n = 0 THEN 0
                                     ELSE upTo[n - 1] + LenOf(slot[s][n - 1].data)
            IN  upTo[Count(s)]

\* read_sector_info takes the first copy of the end information that is
\* complete; with both copies begun and none complete it runs into FDB_ASSERT(0),
\* which only an init can meet (AssertsOnlyAtInit).
EndKnown(h) == \E i \in Copies : h.end[i].st = WRITE
EndOf(h)    == IF h.end[0].st = WRITE THEN h.end[0] ELSE h.end[1]
Asserts(h)  == h.magic /\ \A i \in Copies : h.end[i].st = PRE_WRITE

\* read_sector_info into a struct that was used before, with or without the
\* traversal of the nodes; a bad magic word leaves all but the address alone.
ReadSector(s, old, traversal) ==
    LET h == hdr[s]
        seen == traversal /\ h.store = USING /\ Count(s) > 0
        last == Count(s) - 1
    IN  IF ~h.magic THEN [old EXCEPT !.sec = s]
        ELSE [sec |-> s, store |-> h.store, start |-> h.start,
              stat |-> [i \in Copies |-> h.end[i].st],
              endTime |-> IF seen THEN slot[s][last].time
                          ELSE IF EndKnown(h) THEN EndOf(h).time ELSE old.endTime,
              endIdx |-> IF seen THEN <<s, last>>
                         ELSE IF EndKnown(h) THEN <<s, EndOf(h).idx>> ELSE old.endIdx,
              n    |-> IF seen THEN Count(s) ELSE 0,
              used |-> IF seen THEN Used(s) ELSE 0]

Remain(c) == Cap - c.n * IdxLen - c.used
NextSec(s) == IF s + 1 < NSec THEN s + 1 ELSE 0
PrevSec(s) == IF s > 0 THEN s - 1 ELSE NSec - 1

-----------------------------------------------------------------------------
(* fdb_tsl_append, fdb_tsl_append_with_ts: tsl_append, update_sec_status   *)
(* and write_tsl.                                                          *)

NeedsNewSector(l) == cur.store = USING /\ Remain(cur) < IdxLen + Size[l]
FreeCopies == {i \in Copies : cur.stat[i] = UNUSED}

\* Mutant: the time is not held against the last one.
AcceptsAt_AnyTime(l, t) == Size[l] <= MaxLen

\* tsl_append refuses logs that are too long or not newer than the last one.
AcceptsAt(l, t) == Size[l] <= MaxLen /\ t > lastTime

Refuse(l, t) ==
    /\ pc = "idle"
    /\ ~AcceptsAt(l, t)
    /\ result' = "rejected"
    /\ UNCHANGED <<flash, pc, job, req, fmt, ram, bounds>>

\* update_sec_status on a sector that is full already.
RefuseFull(l, t) ==
    /\ pc = "idle"
    /\ AcceptsAt(l, t)
    /\ cur.store = FULL
    /\ result' = "full"
    /\ UNCHANGED <<flash, pc, job, req, fmt, ram, bounds>>

BeginAppend(l, t) ==
    /\ pc = "idle"
    /\ AcceptsAt(l, t)
    /\ cur.store # FULL
    /\ pc' = IF NeedsNewSector(l) THEN IF FreeCopies # {} THEN "end_pre" ELSE "full"
             ELSE IF cur.store = EMPTY THEN "using"
             ELSE "idx_pre"
    /\ job' = "append"
    /\ req' = [log |-> l, time |-> t]
    /\ result' = "none"
    /\ UNCHANGED <<flash, fmt, ram, bounds>>

\* update_sec_status writes the end of a sector that has no room for the log:
\* status, body and status of the first copy that is unused.
EndPrepare ==
    /\ pc = "end_pre"
    /\ hdr' = [hdr EXCEPT ![cur.sec].end[Min(FreeCopies)].st = Program(@, PRE_WRITE)]
    /\ pc' = "end_body"
    /\ UNCHANGED <<slot, job, req, fmt, result, ram, bounds>>

\* Mutant: the number of nodes is saved as the index of the last one.
EndBody_CountAsIndex ==
    /\ pc = "end_body"
    /\ hdr' = [hdr EXCEPT ![cur.sec].end[Min(FreeCopies)] =
                   [st |-> @.st, time |-> And(@.time, lastTime), idx |-> cur.n]]
    /\ pc' = "end_write"
    /\ UNCHANGED <<slot, job, req, fmt, result, ram, bounds>>

EndBody ==
    /\ pc = "end_body"
    /\ hdr' = [hdr EXCEPT ![cur.sec].end[Min(FreeCopies)] =
                   [st |-> @.st, time |-> And(@.time, lastTime), idx |-> cur.n - 1]]
    /\ pc' = "end_write"
    /\ UNCHANGED <<slot, job, req, fmt, result, ram, bounds>>

EndCommit ==
    /\ pc = "end_write"
    /\ hdr' = [hdr EXCEPT ![cur.sec].end[Min(FreeCopies)].st = Program(@, WRITE)]
    /\ pc' = "full"
    /\ UNCHANGED <<slot, job, req, fmt, result, ram, bounds>>

HasNext == cur.sec + 1 < NSec \/ rollover
Full == [cur EXCEPT !.store = FULL]

\* Mutant: the sector is full in RAM only.
FullHdr_RamOnly == hdr

FullHdr == [hdr EXCEPT ![cur.sec].store = Program(@, FULL)]

\* The sector is full and there is no other to go to.
MarkLastFull ==
    /\ pc = "full"
    /\ ~HasNext
    /\ hdr' = FullHdr
    /\ cur' = Full
    /\ pc' = "idle"
    /\ job' = "none"
    /\ req' = NoLog
    /\ result' = "full"
    /\ UNCHANGED <<slot, fmt, lastTime, oldest, rollover, bounds>>

\* The sector is full: the next one becomes current.  Unless it is empty it
\* holds the oldest logs and is formatted first.
MarkFull ==
    /\ pc = "full"
    /\ HasNext
    /\ hdr' = FullHdr
    /\ LET s == NextSec(cur.sec)
           c == ReadSector(s, Full, FALSE)
       IN  /\ cur' = c
           /\ IF c.store = EMPTY
              THEN pc' = "using" /\ UNCHANGED <<fmt, oldest>>
              ELSE pc' = "erase" /\ fmt' = s /\ oldest' = NextSec(s)
    /\ UNCHANGED <<slot, job, req, result, lastTime, rollover, bounds>>

UseSector ==
    /\ pc = "using"
    /\ hdr' = [hdr EXCEPT ![cur.sec].store = Program(@, USING)]
    /\ cur' = [cur EXCEPT !.store = USING, !.start = req.time]
    /\ pc' = "start"
    /\ UNCHANGED <<slot, job, req, fmt, result, lastTime, oldest, rollover, bounds>>

StartTime ==
    /\ pc = "start"
    /\ hdr' = [hdr EXCEPT ![cur.sec].start = And(@, req.time)]
    /\ pc' = "idx_pre"
    /\ UNCHANGED <<slot, job, req, fmt, result, ram, bounds>>

\* write_tsl: status, index, log, status.
IdxPrepare ==
    /\ pc = "idx_pre"
    /\ cur.sec # Nowhere
    /\ slot' = [slot EXCEPT ![cur.sec][cur.n].st = Program(@, PRE_WRITE)]
    /\ pc' = "idx_body"
    /\ UNCHANGED <<hdr, job, req, fmt, result, ram, bounds>>

IdxBody ==
    /\ pc = "idx_body"
    /\ slot' = [slot EXCEPT ![cur.sec][cur.n].time = And(@, req.time)]
    /\ pc' = "log"
    /\ UNCHANGED <<hdr, job, req, fmt, result, ram, bounds>>

WriteLog ==
    /\ pc = "log"
    /\ slot' = [slot EXCEPT ![cur.sec][cur.n].data = @ \cup {req.log}]
    /\ pc' = "commit"
    /\ UNCHANGED <<hdr, job, req, fmt, result, ram, bounds>>

\* Mutants: the room the log took, or its index, is not taken off.
CurAfterCommit_KeepsRoom ==
    [cur EXCEPT !.endTime = req.time, !.endIdx = <<cur.sec, cur.n>>, !.n = @ + 1]
CurAfterCommit_KeepsIndex ==
    [cur EXCEPT !.endTime = req.time, !.endIdx = <<cur.sec, cur.n>>,
                !.used = @ + Size[req.log]]

CurAfterCommit ==
    [cur EXCEPT !.endTime = req.time, !.endIdx = <<cur.sec, cur.n>>,
                !.n = @ + 1, !.used = @ + Size[req.log]]

Commit ==
    /\ pc = "commit"
    /\ slot' = [slot EXCEPT ![cur.sec][cur.n].st = Program(@, WRITE)]
    /\ cur' = CurAfterCommit
    /\ lastTime' = req.time
    /\ pc' = "idle"
    /\ job' = "none"
    /\ req' = NoLog
    /\ result' = "ok"
    /\ UNCHANGED <<hdr, fmt, oldest, rollover, bounds>>

\* write_tsl after an init that found no sector to go on with: the fields of
\* cur_sec are zero, so the index goes over the header of sector 0 and clears
\* bits of its magic word, and the address of the log is out of range.
WriteNowhere ==
    /\ pc = "idx_pre"
    /\ cur.sec = Nowhere
    /\ hdr' = [hdr EXCEPT ![0].magic = FALSE]
    /\ pc' = "idle"
    /\ job' = "none"
    /\ req' = NoLog
    /\ result' = "write_error"
    /\ UNCHANGED <<slot, fmt, ram, bounds>>

-----------------------------------------------------------------------------
(* format_sector, for an append, for fdb_tsl_clean and for the boot.       *)

BeginClean ==
    /\ pc = "idle"
    /\ pc' = "erase"
    /\ job' = "clean"
    /\ fmt' = 0
    /\ UNCHANGED <<flash, req, result, ram, bounds>>

Erase ==
    /\ pc = "erase"
    /\ hdr' = [hdr EXCEPT ![fmt] = ErasedHdr]
    /\ slot' = [slot EXCEPT ![fmt] = [n \in Slots |-> Blank]]
    /\ pc' = "empty"
    /\ UNCHANGED <<job, req, fmt, result, ram, bounds>>

WriteEmpty ==
    /\ pc = "empty"
    /\ hdr' = [hdr EXCEPT ![fmt].store = Program(@, EMPTY)]
    /\ pc' = "magic"
    /\ UNCHANGED <<slot, job, req, fmt, result, ram, bounds>>

FormattedHdr == [ErasedHdr EXCEPT !.store = EMPTY, !.magic = TRUE]
Fresh(s, old) == [old EXCEPT !.sec = s, !.store = EMPTY, !.start = Erased, !.n = 0,
                             !.used = 0, !.stat = [i \in Copies |-> UNUSED]]

\* Mutant: the iteration over the sectors stays where it is.
NextToFormat_Same == fmt

NextToFormat == fmt + 1

\* The last sector of tsl_format_all ends the call and resets the RAM state.
WriteMagic ==
    /\ pc = "magic"
    /\ hdr' = [hdr EXCEPT ![fmt].magic = TRUE]
    /\ IF job = "append"
       THEN /\ pc' = "using"
            /\ cur' = Fresh(fmt, cur)
            /\ UNCHANGED <<job, fmt, lastTime, oldest>>
       ELSE IF fmt + 1 < NSec
       THEN /\ pc' = "erase"
            /\ fmt' = NextToFormat
            /\ UNCHANGED <<job, cur, lastTime, oldest>>
       ELSE /\ pc' = "idle"
            /\ job' = "none"
            /\ fmt' = 0
            /\ cur' = Fresh(0, cur)
            /\ lastTime' = 0
            /\ oldest' = 0
    /\ UNCHANGED <<slot, req, result, rollover, bounds>>

-----------------------------------------------------------------------------
(* fdb_tsdb_init, fdb_tsdb_deinit and power cuts.                          *)

InUse   == {s \in Sectors : hdr[s].store = USING}
Empties == {s \in Sectors : hdr[s].store = EMPTY}

\* check_sec_hdr_cb: a header without magic word, or a sector in use behind
\* one that was chosen already, ends the scan and has everything formatted.
Suspect(s) == \/ ~hdr[s].magic
              \/ /\ s \in InUse
                 /\ \E t \in 0..(s - 1) : t \in InUse \cup Empties
CheckFails == \E s \in Sectors : Suspect(s)
\* Mutant: the ends of the sectors are not looked at.
InitHangs_Never == FALSE

InitHangs == \E s \in Sectors : /\ Asserts(hdr[s])
                                /\ \A t \in 0..(s - 1) : ~Suspect(t)

\* The sector to go on with: the one in use or else the first empty one.
Current == IF InUse \cup Empties = {} THEN Nowhere ELSE Min(InUse \cup Empties)

\* Mutant: the address behind FAILED_ADDR is not taken modulo 2^32.
OldestAtInit_NoWrap ==
    LET latest == IF Empties # {} THEN Max(Empties) ELSE Current
    IN  IF latest = NSec - 1 THEN 0 ELSE latest + 1

\* The oldest sector follows the last empty one, or else the current one.  The
\* address behind FAILED_ADDR wraps to one that is no sector's.
OldestAtInit ==
    LET latest == IF Empties # {} THEN Max(Empties) ELSE Current
    IN  IF latest = Nowhere THEN Nowhere ELSE NextSec(latest)

\* sector_iterator reads all sectors into one struct of the stack, so a sector
\* without an end of its own has the one of a sector before it, or what the
\* stack held.
EndSeen(s) == EndKnown(hdr[s]) \/ (hdr[s].store = USING /\ Count(s) > 0)
Iterated(s, stack) ==
    LET before == {t \in 0..(s - 1) : EndSeen(t)}
    IN  IF before = {} THEN stack ELSE ReadSector(Max(before), stack, TRUE)

LastTimeAtInit(c, o, stack) ==
    IF c.store = USING THEN c.endTime
    ELSE IF c.store = EMPTY /\ o # c.sec
    THEN ReadSector(PrevSec(c.sec), stack, FALSE).endTime
    ELSE lastTime

InitTsdb ==
    /\ pc = "off"
    /\ ~InitHangs
    /\ ~CheckFails
    /\ \E junk \in FlashTime :
          LET stack == [ZeroInfo EXCEPT !.endTime = junk]
              s == Current
              c == IF s = Nowhere THEN [cur EXCEPT !.sec = Nowhere]
                   ELSE ReadSector(s, Iterated(s, stack), TRUE)
          IN  /\ cur' = c
              /\ lastTime' = LastTimeAtInit(c, OldestAtInit, stack)
    /\ oldest' = OldestAtInit
    /\ rollover' = TRUE
    /\ pc' = "idle"
    /\ UNCHANGED <<flash, job, req, fmt, result, bounds>>

InitFormats ==
    /\ pc = "off"
    /\ ~InitHangs
    /\ CheckFails
    /\ rollover' = TRUE
    /\ pc' = "erase"
    /\ job' = "init"
    /\ fmt' = 0
    /\ UNCHANGED <<flash, req, result, cur, lastTime, oldest, bounds>>

InitAsserts ==
    /\ pc = "off"
    /\ InitHangs
    /\ rollover' = TRUE
    /\ pc' = "hung"
    /\ UNCHANGED <<flash, job, req, fmt, result, cur, lastTime, oldest, bounds>>

\* fdb_tsdb_deinit leaves struct fdb_tsdb as it is.
Deinit ==
    /\ pc = "idle"
    /\ restarts < MaxRestarts
    /\ restarts' = restarts + 1
    /\ pc' = "off"
    /\ result' = "none"
    /\ UNCHANGED <<flash, job, req, fmt, ram, cuts>>

PowerCut ==
    /\ pc \in CutAt
    /\ cuts < MaxCuts
    /\ cuts' = cuts + 1
    /\ pc' = "off"
    /\ job' = "none"
    /\ req' = NoLog
    /\ fmt' = 0
    /\ result' = "none"
    /\ cur' = ZeroInfo
    /\ lastTime' = 0
    /\ oldest' = 0
    /\ UNCHANGED <<flash, rollover, restarts>>     \* the init sets rollover

-----------------------------------------------------------------------------
(* Options and user statuses.                                              *)

\* The nodes an iteration hands out.
Stored == {a \in Sectors \X Slots : /\ hdr[a[1]].store >= USING
                                     /\ a[2] < Count(a[1])}

\* fdb_tsdb_control with FDB_TSDB_CTRL_SET_ROLLOVER.
SetRollover(b) ==
    /\ pc = "idle"
    /\ Late \/ Stored = {}
    /\ rollover' = b
    /\ UNCHANGED <<flash, pc, job, req, fmt, result, cur, lastTime, oldest, bounds>>

\* fdb_tsl_set_status takes no lock: it may come between any two steps of
\* another thread's call.
TslSetStatus(s, n, st) ==
    /\ pc \notin {"off", "hung"}
    /\ <<s, n>> \in Stored
    /\ slot' = [slot EXCEPT ![s][n].st = Program(@, st)]
    /\ UNCHANGED <<hdr, pc, job, req, fmt, result, ram, bounds>>

-----------------------------------------------------------------------------
Init ==
    /\ hdr = [s \in Sectors |-> FormattedHdr]
    /\ slot = [s \in Sectors |-> [n \in Slots |-> Blank]]
    /\ pc = "off"
    /\ job = "none"
    /\ req = NoLog
    /\ fmt = 0
    /\ result = "none"
    /\ cur = ZeroInfo
    /\ lastTime = 0
    /\ oldest = 0
    /\ rollover = TRUE
    /\ cuts = 0
    /\ restarts = 0

Step == \/ EndPrepare \/ EndBody \/ EndCommit \/ MarkLastFull \/ MarkFull \/ UseSector
        \/ StartTime \/ IdxPrepare \/ IdxBody \/ WriteLog \/ Commit \/ WriteNowhere
        \/ Erase \/ WriteEmpty \/ WriteMagic
        \/ InitTsdb \/ InitFormats \/ InitAsserts

Call == \/ \E l \in Logs, t \in Times : \/ Refuse(l, t)
                                        \/ RefuseFull(l, t)
                                        \/ BeginAppend(l, t)
        \/ BeginClean
        \/ Deinit
        \/ \E b \in Rollovers : SetRollover(b)
        \/ \E s \in Sectors, n \in Slots, st \in Marks : TslSetStatus(s, n, st)

Next == Step \/ Call \/ PowerCut

\* The library runs on until the call returns; callers and cuts owe nothing.
Fairness == WF_vars(Step)

Spec == Init /\ [][Next]_vars /\ Fairness

-----------------------------------------------------------------------------
TypeOK ==
    /\ hdr \in [Sectors -> Header]
    /\ slot \in [Sectors -> [Slots -> Slot]]
    /\ pc \in PCs
    /\ job \in {"none", "append", "clean", "init"}
    /\ req \in [log : Logs, time : 0..MaxTime]
    /\ fmt \in Sectors
    /\ result \in {"none", "ok", "rejected", "full", "write_error"}
    /\ cur \in SecInfo
    /\ lastTime \in FlashTime
    /\ oldest \in 0..NSec
    /\ rollover \in BOOLEAN
    /\ cuts \in 0..MaxCuts
    /\ restarts \in 0..MaxRestarts

StoredRec(a) == [time |-> slot[a[1]][a[2]].time,
                 log |-> CHOOSE l \in Logs : l \in slot[a[1]][a[2]].data,
                 st |-> slot[a[1]][a[2]].st]

\* The logs on flash are a time-ordered log that drops its oldest entries to
\* make room: the database implements TsLog.
Log == INSTANCE TsLog WITH
          Statuses <- WRITE..5,
          Cuts <- MaxCuts > 0,
          logs <- {StoredRec(a) : a \in Stored},
          busy <- IF job \in {"append", "clean"} THEN job ELSE "no",
          roll <- rollover
TimeOrderedLog == Log!Spec

\* Whatever power cuts came before, the database goes on with at most one sector
\* in use.
OneInUse == Cardinality(InUse) <= 1

\* Once the init is over no sector that is read has both copies of its end
\* information begun and none complete.
AssertsOnlyAtInit ==
    pc \in {"idle", "full", "erase"} => \A s \in Sectors : ~Asserts(hdr[s])

\* What cur_sec says of the current sector is what the flash says, so the next
\* node goes behind the last one and the room left is known.
CurrentKnown ==
    pc = "idle" /\ cur.sec # Nowhere =>
        /\ cur.store = hdr[cur.sec].store
        /\ cur.store = USING => cur.n = Count(cur.sec) /\ cur.used = Used(cur.sec)
        /\ \A i \in Copies : cur.store # FULL => cur.stat[i] = hdr[cur.sec].end[i].st

\* A stored log is never touched again, but for its user status, which only
\* rises, until its whole sector is erased.
StoredLogsStay ==
    [][\A s \in Sectors, n \in Slots :
          /\ <<s, n>> \in Stored
          /\ slot'[s] # [m \in Slots |-> Blank]
          => /\ slot'[s][n].time = slot[s][n].time
             /\ slot'[s][n].data = slot[s][n].data
             /\ slot'[s][n].st >= slot[s][n].st]_vars

\* A log that was stored is only given up for an append or a clean: an init
\* formats no sector that holds one.
InitKeepsLogs == [][pc = "erase" /\ job = "init" => \A n \in Slots : <<fmt, n>> \notin Stored]_vars

\* A stored log is the log of one append: its cells hold that log alone.
LogsWhole == \A a \in Stored : Cardinality(slot[a[1]][a[2]].data) = 1

\* A log is stored only with a time above that of every stored log.
TimesIncrease ==
    [][pc = "commit" /\ pc' = "idle" =>
          \A a \in Stored : slot[a[1]][a[2]].time < req.time]_vars

\* With rollover off no sector that holds logs is formatted to make room.
NoRolloverKeepsLogs ==
    [][pc = "erase" /\ job = "append" /\ ~rollover =>
          \A n \in Slots : <<fmt, n>> \notin Stored]_vars

\* With rollover on, the newest data takes the place of the oldest: the current
\* sector is never one that refuses every log.
RolloverAccepts == pc = "idle" /\ rollover => cur.store # FULL

\* Every call and every init returns.
CallsReturn == (pc # "idle") ~> (pc = "idle")
=============================================================================
