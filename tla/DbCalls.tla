------------------------------ MODULE DbCalls ------------------------------
(***************************************************************************)
(* One database object (struct fdb_db) shared by threads: how it is opened *)
(* and closed (fdb.c, fdb_kvdb_init, fdb_tsdb_init), the options set on it *)
(* (fdb_kvdb_control, fdb_tsdb_control), and the frame every call puts     *)
(* around its work: the check of init_ok, the user's lock, the body, the   *)
(* unlock.  What a body does is the business of Kvdb and Tsdb; here it is  *)
(* the interval during which a thread reads or writes the flash.           *)
(*                                                                         *)
(* A thread has a stack of frames: _fdb_kv_load calls fdb_kv_set_default,  *)
(* and the callback of an iteration may call the library again.            *)
(***************************************************************************)
EXTENDS Naturals, FiniteSets, Sequences, SequencesExt

CONSTANTS
    Threads,
    Main,            \* the thread that opens, closes and configures
    Types,           \* the databases there may be, of KV and TS
    Calls,           \* the calls the threads make, of those in Api
    CallbackCalls,   \* the calls they make from a callback
    Early,           \* the calls they also make before the database is open
    Again,           \* the types that are also opened when they are open
    NotFormat,       \* the types FDB_xSDB_CTRL_SET_NOT_FORMAT is used on
    Parts,           \* the partitions FAL may know, NoPart not among them
    NoPart, NoThread,
    Blk,             \* block size of the device under a partition
    PartLen,         \* length of a partition
    SecSizes         \* what the application sets as the sector size

\* enum fdb_db_type
KV == "kv"
TS == "ts"

\* What the library's calls on a database do first: refuse when it is not open,
\* or go on; take the lock; work on the flash, with callbacks.
Does(type, what) == [type    |-> type,              refuses |-> "refuses" \in what,
                     locks   |-> "locks" \in what,  writes  |-> "writes" \in what,
                     calls   |-> "calls" \in what]
Api ==
    [ kv_set         |-> Does(KV, {"refuses", "locks", "writes"}),
      kv_get         |-> Does(KV, {"refuses", "locks"}),
      kv_set_default |-> Does(KV, {"locks", "writes"}),
      kv_iterate     |-> Does(KV, {"writes"}),
      tsl_append     |-> Does(TS, {"refuses", "locks", "writes"}),
      tsl_iter       |-> Does(TS, {"locks", "calls"}),
      tsl_count      |-> Does(TS, {"refuses", "locks"}),
      tsl_set_status |-> Does(TS, {"writes"}),
      tsl_clean      |-> Does(TS, {"locks", "writes"}) ]

ASSUME DbCallsAssumption ==
    /\ Main \in Threads /\ NoThread \notin Threads
    /\ Types \subseteq {KV, TS} /\ Again \subseteq Types /\ NotFormat \subseteq Types
    /\ Calls \cup CallbackCalls \cup Early \subseteq DOMAIN Api
    /\ NoPart \notin Parts
    /\ Blk \in [Parts -> Nat \ {0}] /\ PartLen \in [Parts -> Nat]
    /\ SecSizes \subseteq Nat

VARIABLES
    db,       \* struct fdb_db: type, not_formatable, init_ok, sec_size, max_size, part
    holder,   \* the thread that has the user's lock, which is not recursive
    stack,    \* the calls of each thread, innermost last: [api, path, pc]
    bad       \* sectors of the partition without a header: none, some or all

vars == <<db, holder, stack, bad>>

Idle(t) == stack[t] = <<>>
Top(t)  == Last(stack[t])
At(t, pc) == ~Idle(t) /\ Top(t).pc = pc
Goto(t, pc) == stack' = [stack EXCEPT ![t] = Append(Front(@), [Top(t) EXCEPT !.pc = pc])]
Return(t) == stack' = [stack EXCEPT ![t] = Front(@)]
Enter(t, api) == stack' = [stack EXCEPT ![t] = Append(@, [api |-> api, path |-> NoPart, pc |-> "enter"])]

-----------------------------------------------------------------------------
(* The frame of a call.                                                    *)

CallApi(t, api) ==
    /\ Idle(t)
    /\ Api[api].type = db.type
    /\ db.init_ok \/ api \in Early
    /\ Enter(t, api)
    /\ UNCHANGED <<db, holder, bad>>

\* Mutant: only calls that write take the lock.
Check_LocksWriters(t) ==
    /\ At(t, "enter")
    /\ IF ~db.init_ok /\ Api[Top(t).api].refuses THEN Return(t)
       ELSE Goto(t, IF Api[Top(t).api].locks /\ Api[Top(t).api].writes THEN "lock" ELSE "body")
    /\ UNCHANGED <<db, holder, bad>>

\* "isn't initialize OK": most calls return, the iterations only say so.
Check(t) ==
    /\ At(t, "enter")
    /\ IF ~db.init_ok /\ Api[Top(t).api].refuses THEN Return(t)
       ELSE Goto(t, IF Api[Top(t).api].locks THEN "lock" ELSE "body")
    /\ UNCHANGED <<db, holder, bad>>

\* db_lock.
TakeLock(t) ==
    /\ At(t, "lock") \/ At(t, "relock")
    /\ holder = NoThread
    /\ holder' = t
    /\ Goto(t, IF Top(t).pc = "relock" THEN "update"
               ELSE IF Top(t).api = "init" THEN "settings" ELSE "body")
    /\ UNCHANGED <<db, bad>>

\* The callback of an iteration calls the library, once.
Callback(t, api) ==
    /\ At(t, "body")
    /\ Api[Top(t).api].calls
    /\ stack' = [stack EXCEPT ![t] = Append(Append(Front(@), [Top(t) EXCEPT !.pc = "back"]),
                                            [api |-> api, path |-> NoPart, pc |-> "enter"])]
    /\ UNCHANGED <<db, holder, bad>>

Body(t) ==
    /\ At(t, "body") \/ At(t, "back")
    /\ IF Api[Top(t).api].locks THEN Goto(t, "unlock") ELSE Return(t)
    /\ bad' = IF Top(t).api \in {"kv_set_default", "tsl_clean"} THEN "none" ELSE bad
    /\ UNCHANGED <<db, holder>>

\* db_unlock at the end of a call.
Unlock(t) ==
    /\ At(t, "unlock")
    /\ Top(t).api # "init"
    /\ holder' = NoThread
    /\ Return(t)
    /\ UNCHANGED <<db, bad>>

-----------------------------------------------------------------------------
(* fdb_kvdb_init and fdb_tsdb_init.                                        *)

Open(t, path) ==
    /\ Idle(t)
    /\ IF db.init_ok THEN db.type \in Again ELSE t = Main
    /\ stack' = [stack EXCEPT ![t] = <<[api |-> "init", path |-> path, pc |-> "geometry"]>>]
    /\ UNCHANGED <<db, holder, bad>>

PowerOfTwo(n) == \E i \in 0..n : n = 2^i

\* Mutant: sec_size is not held against the block size.
Aligned_Never(sec, p) == TRUE

Aligned(sec, p) == sec % Blk[p] = 0

\* _fdb_init_ex: nothing on an open database; otherwise the partition, the
\* sector size, which stays for later, and the checks on both.
Geometry(t) ==
    LET p   == Top(t).path
        sec == IF db.sec_size = 0 THEN Blk[p] ELSE db.sec_size
    IN  /\ At(t, "geometry")
        /\ IF db.init_ok THEN Goto(t, "lock") /\ UNCHANGED db
           ELSE IF p = NoPart
           THEN Goto(t, "failed") /\ db' = [db EXCEPT !.part = NoPart]
           ELSE IF ~Aligned(sec, p)
           THEN Goto(t, "failed") /\ db' = [db EXCEPT !.part = p]
           ELSE /\ db' = [db EXCEPT !.part = p, !.sec_size = sec, !.max_size = PartLen[p]]
                /\ Goto(t, IF ~PowerOfTwo(sec) THEN "hung"
                           ELSE IF PartLen[p] % sec # 0 \/ PartLen[p] < 2 * sec THEN "failed"
                           ELSE "lock")
        /\ UNCHANGED <<holder, bad>>

\* fdb_tsdb_init with the lock: the headers are checked, and formatted unless
\* that is not allowed, in which case it leaves by goto _exit.
TsdbCheck(t) ==
    /\ db.type = TS
    /\ At(t, "settings")
    /\ IF bad # "none" /\ db.not_formatable
       THEN Goto(t, "failed") /\ UNCHANGED <<holder, bad>>
       ELSE holder' = NoThread /\ bad' = "none" /\ Goto(t, "done")
    /\ UNCHANGED db

\* Mutant: the lock is kept while the database is loaded.
KvdbSettings_KeepsLock(t) ==
    /\ db.type = KV
    /\ At(t, "settings")
    /\ Goto(t, "load")
    /\ UNCHANGED <<db, holder, bad>>

\* fdb_kvdb_init gives the lock back before it loads the database, for
\* fdb_kv_set_default takes it.
KvdbSettings(t) ==
    /\ db.type = KV
    /\ At(t, "settings")
    /\ holder' = NoThread
    /\ Goto(t, "load")
    /\ UNCHANGED <<db, bad>>

\* Mutant: the headers are formatted before not_formatable is looked at.
KvdbLoad_FormatsFirst(t) ==
    /\ At(t, "load")
    /\ bad' = "none"
    /\ IF bad = "all"
       THEN stack' = [stack EXCEPT ![t] = Append(Append(Front(@), [Top(t) EXCEPT !.pc = "relock"]),
                                        [api |-> "kv_set_default", path |-> NoPart, pc |-> "enter"])]
       ELSE Goto(t, "relock")
    /\ UNCHANGED <<db, holder>>

\* _fdb_kv_load.
KvdbLoad(t) ==
    /\ At(t, "load")
    /\ bad' = IF db.not_formatable THEN bad ELSE "none"
    /\ IF bad = "all" /\ ~db.not_formatable
       THEN stack' = [stack EXCEPT ![t] = Append(Append(Front(@), [Top(t) EXCEPT !.pc = "relock"]),
                                        [api |-> "kv_set_default", path |-> NoPart, pc |-> "enter"])]
       ELSE Goto(t, IF bad # "none" /\ db.not_formatable THEN "relock_failed" ELSE "relock")
    /\ UNCHANGED <<db, holder>>

\* The load failed; the lock is taken and given back all the same.
KvdbLoadFailed(t) ==
    /\ At(t, "relock_failed")
    /\ holder = NoThread
    /\ Goto(t, "failed")
    /\ UNCHANGED <<db, holder, bad>>

\* kv_auto_update is not compiled in.
KvdbUpdate(t) ==
    /\ At(t, "update")
    /\ holder' = NoThread
    /\ Goto(t, "done")
    /\ UNCHANGED <<db, bad>>

\* _fdb_init_finish.
Finish(t) ==
    /\ At(t, "done") \/ At(t, "failed")
    /\ db' = [db EXCEPT !.init_ok = @ \/ Top(t).pc = "done"]
    /\ Return(t)
    /\ UNCHANGED <<holder, bad>>

-----------------------------------------------------------------------------
(* fdb_kvdb_deinit, fdb_tsdb_deinit and the options.  Neither takes the    *)
(* lock: the application is to call them while nothing else runs.          *)

Quiet == \A t \in Threads : Idle(t)

Close ==
    /\ Quiet
    /\ db.init_ok
    /\ db' = [db EXCEPT !.init_ok = FALSE]
    /\ UNCHANGED <<holder, stack, bad>>

\* FDB_xSDB_CTRL_SET_SEC_SIZE; the assertion stops a later change.
SetSecSize(n) ==
    /\ Quiet
    /\ ~db.init_ok
    /\ db' = [db EXCEPT !.sec_size = n]
    /\ UNCHANGED <<holder, stack, bad>>

\* FDB_KVDB_CTRL_SET_NOT_FORMAT, FDB_TSDB_CTRL_SET_NOT_FORMAT.
SetNotFormat(b) ==
    /\ Quiet
    /\ ~db.init_ok /\ db.type \in NotFormat
    /\ db' = [db EXCEPT !.not_formatable = b]
    /\ UNCHANGED <<holder, stack, bad>>

-----------------------------------------------------------------------------
Init ==
    /\ db \in [type : Types, not_formatable : {FALSE}, init_ok : {FALSE},
               sec_size : {0}, max_size : {0}, part : {NoPart}]
    /\ holder = NoThread
    /\ stack = [t \in Threads |-> <<>>]
    /\ bad \in {"none", "some", "all"}

OpenStep(t) == \/ Geometry(t) \/ TsdbCheck(t) \/ KvdbSettings(t) \/ KvdbLoad(t)
               \/ KvdbLoadFailed(t) \/ KvdbUpdate(t) \/ Finish(t)
Step(t) == Check(t) \/ TakeLock(t) \/ Body(t) \/ Unlock(t) \/ OpenStep(t)

Next == \/ \E t \in Threads : \/ Step(t)
                              \/ \E api \in Calls : CallApi(t, api)
                              \/ \E api \in CallbackCalls : Callback(t, api)
                              \/ \E p \in Parts \cup {NoPart} : Open(t, p)
        \/ Close
        \/ \E n \in SecSizes : SetSecSize(n)
        \/ \E b \in BOOLEAN : SetNotFormat(b)

\* Threads run, and a mutex that is released again and again is not withheld
\* from one of those who wait for it for ever.
Spec == Init /\ [][Next]_vars
             /\ \A t \in Threads : WF_vars(Step(t)) /\ SF_vars(TakeLock(t)) /\ SF_vars(KvdbLoadFailed(t))

-----------------------------------------------------------------------------
(* Properties.                                                             *)

Working(t) == \E f \in Range(stack[t]) : f.pc \in {"body", "back", "settings", "load", "update"}
Writing(t) == \E f \in Range(stack[t]) : \/ f.pc \in {"body", "back"} /\ Api[f.api].writes
                                         \/ f.pc \in {"settings", "load"}

\* "It's a multiple of block size", "It's a multiple of section size": an open
\* database, and one that any thread works on, has a geometry its code can divide
\* by, of its own partition, however many attempts with other sizes and
\* partitions failed before (_fdb_init_ex keeps what it found of each).
GeometryOk ==
    db.init_ok \/ (\E t \in Threads : Working(t)) =>
        /\ db.part # NoPart
        /\ PowerOfTwo(db.sec_size) /\ db.sec_size % Blk[db.part] = 0
        /\ db.max_size = PartLen[db.part]
        /\ db.max_size % db.sec_size = 0 /\ db.max_size \div db.sec_size >= 2

\* A call that works on the flash has a sector size to divide by and a partition
\* to read: "isn't initialize OK" keeps every other call away.
UsesHaveGeometry == \A t \in Threads : Working(t) => db.sec_size > 0 /\ db.part # NoPart

\* "lock the database operate": while one thread writes the flash of a database,
\* no other thread works on it, although calls nest in callbacks and in the load.
Exclusive == \A t, u \in Threads : t # u /\ Writing(t) => ~Working(u)

\* "unlock the TSDB", "unlock the KVDB": no call and no attempt to open the
\* database returns with the lock, whichever way it leaves.
LockGivenBack == holder # NoThread => ~Idle(holder)

\* In "NOT format mode" opening the database formats nothing; only a call that is
\* made to does.
NotFormatKept ==
    [][db.not_formatable /\ bad' # bad =>
          \E t \in Threads : At(t, "body") /\ Top(t).api \in {"kv_set_default", "tsl_clean"}]_vars

\* Every call returns, the nested ones too: nobody waits for a lock it has, and
\* nobody has a lock and waits.  The assertion on the sector size is for good.
CallsReturn == \A t \in Threads : ~Idle(t) ~> Idle(t) \/ At(t, "hung")
=============================================================================
