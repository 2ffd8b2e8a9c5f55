-------------------------------- MODULE Kvdb --------------------------------
(***************************************************************************)
(* The key-value database of fdb_kvdb.c on NOR flash, one action per flash *)
(* program or erase, so that a power cut may fall between any two of them. *)
(*                                                                         *)
(* Flash: every sector has a header with a store and a dirty status, and   *)
(* KV nodes laid one after the other in its Cap units of data area.  A     *)
(* node that was never written is Blank.  Statuses are the numbers of the  *)
(* enums of fdb_def.h; writing one takes the maximum (FdbStatusProofs,     *)
(* WriteIsMaximum).                                                        *)
(*                                                                         *)
(* RAM: the fields of struct fdb_kvdb that matter, the arguments of the    *)
(* call being served, and the locals of gc_collect_by_free_size, move_kv   *)
(* and _fdb_kv_load.  pc says which flash write comes next.                *)
(***************************************************************************)
EXTENDS Naturals, FiniteSets, FiniteSetsExt

CONSTANTS
    Keys, Values,
    NoValue,       \* a key that has no value
    NoOp,          \* no request is being served
    NSec,          \* SECTOR_NUM
    Cap,           \* data area of a sector: sec_size - SECTOR_HDR_DATA_SIZE
    HdrLen,        \* KV_HDR_DATA_SIZE
    Threshold,     \* FDB_SEC_REMAIN_THRESHOLD
    Size,          \* length of the node that holds a value, header included
    MaxCuts        \* bound on the power cuts of a behaviour

ASSUME KvdbAssumption ==
    /\ NSec \in Nat /\ NSec > 1               \* the assertion in fdb_kvdb_init
    /\ Cap \in Nat /\ HdrLen \in Nat /\ HdrLen > 0
    /\ Threshold \in Nat /\ Threshold >= HdrLen
    /\ Size \in [Values -> Nat]
    /\ \A v \in Values : Size[v] > HdrLen /\ Size[v] + Threshold < Cap
    /\ NoValue \notin Values
    /\ MaxCuts \in Nat

Sectors == 0..(NSec - 1)
Offsets == 0..(Cap - 1)
Addrs   == Sectors \X Offsets
NoAddr  == <<NSec, 0>>                        \* FAILED_ADDR

\* enum fdb_sector_store_status and enum fdb_sector_dirty_status.
EMPTY == 1
USING == 2
FULL  == 3
CLEAN == 1
DIRTY == 2
GC    == 3
Header      == [store : 0..3, dirty : 0..3]
Unformatted == [store |-> 0, dirty |-> 0]
Formatted   == [store |-> EMPTY, dirty |-> CLEAN]

\* enum fdb_kv_status.
PRE_WRITE  == 1
WRITE      == 2
PRE_DELETE == 3
DELETED    == 4
ERR_HDR    == 5

\* crc: good once name and value are written.
Node  == [key : Keys, val : Values, st : 1..5, crc : {"good", "bad"}]
Blank == [st |-> 0]

Ops == [kind : {"set"}, key : Keys, val : Values]
       \cup [kind : {"del"}, key : Keys]
       \cup [kind : {"reset"}]

ASSUME NoOpAssumption == NoOp \notin Ops

VARIABLES
    hdr,       \* flash: sector headers
    node,      \* flash: KV nodes by address <<sector, offset>>
    pc,        \* the next step of the library
    op,        \* the request being served
    result,    \* what the last request returned
    tgt,       \* cur_sector.empty_kv: where the new node goes
    old,       \* cur_kv: the node the request replaces or deletes
    tried,     \* already_gc of new_kv
    oldest,    \* oldest_addr, as a sector number
    gcReq,     \* gc_request
    inRec,     \* in_recovery_check
    lastDel,   \* last_is_complete_del
    cache,     \* kv_cache_table
    gc,        \* locals of gc_collect_by_free_size and do_gc
    mv,        \* locals of move_kv
    at,        \* cursor of the recovery's kv_iterator: <<rank, offset>>
    fmt,       \* sectors formatted by the boot check or by set_default
    zeroed,    \* struct fdb_kvdb has its first content: all zeros
    cuts       \* power cuts so far

flash == <<hdr, node>>
request == <<op, result, tgt, old, tried>>
vars == <<hdr, node, pc, op, result, tgt, old, tried, oldest, gcReq, inRec,
          lastDel, cache, gc, mv, at, fmt, zeroed, cuts>>

PCs == {"off", "boot_hdr", "boot_gc", "boot_kv", "boot_check", "erase_all",
        "format_all", "idle", "alloc", "predirty", "using", "header", "body",
        "commit", "delete", "deldirty", "missing", "end", "gc_scan", "gc_node",
        "gc_format", "mv_alloc", "mv_header", "mv_body", "mv_commit",
        "mv_delete", "mv_dirty"}

GcLocals == [ret : PCs, all : BOOLEAN, from : Sectors, next : 0..NSec,
             sec : Sectors, off : 0..Cap]
MvLocals == [ret : PCs, src : Addrs \cup {NoAddr}, dst : Addrs \cup {NoAddr},
             st : 0..5]
GcIdle == [ret |-> "idle", all |-> FALSE, from |-> 0, next |-> 0, sec |-> 0, off |-> 0]
MvIdle == [ret |-> "idle", src |-> NoAddr, dst |-> NoAddr, st |-> 0]

-----------------------------------------------------------------------------
(* Reading the flash.                                                      *)

\* _fdb_write_status on NOR flash.
Program(st, i) == IF st >= i THEN st ELSE i

\* Position of sector s in an iteration that starts at sector o and wraps at
\* the top of the database (get_next_sector_addr).
Rank(o, s) == IF s >= o THEN s - o ELSE (s + NSec) - o
FirstFrom(o, S) == CHOOSE s \in S : \A t \in S : Rank(o, s) <= Rank(o, t)

\* kv_iterator: sectors from the oldest on, nodes by rising address.
Before(a, b) == \/ Rank(oldest, a[1]) < Rank(oldest, b[1])
                \/ a[1] = b[1] /\ a[2] <= b[2]
FirstNode(A) == CHOOSE a \in A : \A b \in A : Before(a, b)
LastNode(A)  == CHOOSE a \in A : \A b \in A : Before(b, a)

Written(a) == node[a].st # 0
Readable(a, st) == node[a].st = st /\ node[a].crc = "good"

\* Mutant: only nodes that are live count.
UsedEnd_LiveOnly(s) ==
    IF hdr[s].store = EMPTY THEN 0
    ELSE Max({HdrLen} \cup {o + Size[node[<<s, o>>].val] :
                               o \in {p \in Offsets : node[<<s, p>>].st = WRITE}})

\* read_sector_info: the end of the last node.  A sector that is in use but has
\* no node lost power before its first header was written: the first traversal
\* reads a bad length there and gives up one header (read_kv, FDB_KV_ERR_HDR).
UsedEnd(s) ==
    IF hdr[s].store = EMPTY THEN 0
    ELSE Max({HdrLen} \cup {o + Size[node[<<s, o>>].val] :
                               o \in {p \in Offsets : Written(<<s, p>>)}})
Remain(s) == Cap - UsedEnd(s)

Empties == {s \in Sectors : hdr[s].store = EMPTY}

\* Mutant: alloc_kv_cb without FDB_SEC_REMAIN_THRESHOLD.
Fits_NoThreshold(s, len) ==
    /\ Remain(s) >= len
    /\ \/ hdr[s].dirty = CLEAN
       \/ hdr[s].dirty = DIRTY /\ ~gcReq

\* alloc_kv_cb: a dirty sector is used only while no collection is requested.
Fits(s, len) ==
    /\ Remain(s) > len + Threshold
    /\ \/ hdr[s].dirty = CLEAN
       \/ hdr[s].dirty = DIRTY /\ ~gcReq

Candidates(store, len) == {s \in Sectors : hdr[s].store = store /\ Fits(s, len)}

\* Mutant: the last empty sector is given away.
Alloc_UsesReserve(len) ==
    LET inUse == Candidates(USING, len)
        fresh == Candidates(EMPTY, len)
        s == FirstFrom(oldest, IF inUse # {} THEN inUse ELSE fresh)
    IN  IF inUse \cup fresh = {} THEN NoAddr ELSE <<s, UsedEnd(s)>>

\* Mutant: the reserve is kept from the collection too.
Alloc_NoReserveForGc(len) ==
    LET inUse == Candidates(USING, len)
        fresh == IF Cardinality(Empties) > 1 THEN Candidates(EMPTY, len) ELSE {}
        s == FirstFrom(oldest, IF inUse # {} THEN inUse ELSE fresh)
    IN  IF inUse \cup fresh = {} THEN NoAddr ELSE <<s, UsedEnd(s)>>

\* alloc_kv: a sector in use first; an empty one only if it is not the last, or
\* when a collection is under way.
Alloc(len) ==
    LET inUse == Candidates(USING, len)
        fresh == IF Cardinality(Empties) > 1 \/ gcReq
                 THEN Candidates(EMPTY, len) ELSE {}
        s == FirstFrom(oldest, IF inUse # {} THEN inUse ELSE fresh)
    IN  IF inUse \cup fresh = {} THEN NoAddr ELSE <<s, UsedEnd(s)>>

\* alloc_kv asks for a collection when only the reserved empty sector is left.
GcReqAfterAlloc(len) ==
    gcReq \/ (Candidates(USING, len) = {} /\ Cardinality(Empties) = 1)

\* find_kv_no_cache, find_kv: a cached address is trusted when a node of that
\* name is there, whatever its status.
Live(k) == {a \in Addrs : Readable(a, WRITE) /\ node[a].key = k}
Scan(k) == IF Live(k) = {} THEN NoAddr ELSE FirstNode(Live(k))
CacheHit(k) == /\ cache[k] # NoAddr
               /\ Written(cache[k])
               /\ node[cache[k]].key = k
Find(k) == IF CacheHit(k) THEN cache[k] ELSE Scan(k)
CacheAfterFind(k) == [cache EXCEPT ![k] = IF Find(k) = NoAddr THEN @ ELSE Find(k)]

\* check_oldest_addr_cb: the last sector in use that follows an empty one.
OldestOnFlash ==
    LET starts == {s \in Sectors \ {0} : /\ hdr[s - 1].store = EMPTY
                                         /\ hdr[s].store \in {USING, FULL}}
    IN  IF starts = {} THEN 0 ELSE Max(starts)

\* The scan in fdb_kvdb_init reads sectors through sector_cache_table, which is
\* set up only after it.  In an object that is all zeros every entry answers for
\* address 0 (read_sector_info), as a sector of no status whose successor lies
\* zero sectors further on (get_next_sector_addr: combined is 0): the scan visits
\* sector 0 alone and keeps the default.  In an object that was in use before,
\* the entries agree with the headers.
OldestFound == IF zeroed THEN 0 ELSE OldestOnFlash

-----------------------------------------------------------------------------
(* Pieces shared by several handlers.                                      *)

SetStatus(a, st) == node' = [node EXCEPT ![a].st = Program(@, st)]
SetDirty(s, d)   == hdr' = [hdr EXCEPT ![s].dirty = Program(@, d)]

\* update_sec_status before a node of length len is written in sector s.
StoreAfter(s, len) ==
    IF hdr[s].store = EMPTY THEN USING
    ELSE IF Remain(s) - len < Threshold THEN FULL
    ELSE hdr[s].store

\* Entry of gc_collect_by_free_size: nothing to do with two empty sectors.
StartGc(ret, all) ==
    IF Cardinality(Empties) <= 1
    THEN /\ pc' = "gc_scan"
         /\ gc' = [ret |-> ret, all |-> all, from |-> oldest, next |-> 0, sec |-> 0,
                   off |-> 0]
         /\ gcReq' = TRUE
    ELSE /\ pc' = ret
         /\ gc' = GcIdle
         /\ gcReq' = FALSE

\* Mutant: gc_collect_by_free_size without its last line.
EndGc_KeepsRequest == /\ pc' = gc.ret
                      /\ gc' = GcIdle
                      /\ UNCHANGED gcReq

EndGc == /\ pc' = gc.ret
         /\ gc' = GcIdle
         /\ gcReq' = FALSE

Finish(r) == /\ pc' = "idle"
             /\ op' = NoOp
             /\ result' = r
             /\ tgt' = NoAddr
             /\ old' = NoAddr
             /\ tried' = FALSE

\* Mutant: the cache entry of a deleted key stays.
CacheAfterDelete_Never(k) == cache

\* The last_is_complete_del flag of del_kv decides whether the cache entry goes.
CacheAfterDelete(k) == IF lastDel THEN cache ELSE [cache EXCEPT ![k] = NoAddr]

-----------------------------------------------------------------------------
(* fdb_kv_set_blob: new_kv_ex, del_kv(.., FALSE), create_kv_blob,          *)
(* del_kv(.., TRUE).                                                       *)

BeginSet(k, v) ==
    /\ pc = "idle"
    /\ pc' = "alloc"
    /\ op' = [kind |-> "set", key |-> k, val |-> v]
    /\ result' = "none"
    /\ UNCHANGED <<flash, tgt, old, tried, oldest, gcReq, inRec, lastDel,
                   cache, gc, mv, at, fmt, zeroed, cuts>>

NeedsGc == GcReqAfterAlloc(Size[op.val]) /\ ~tried

\* new_kv found room; find_kv found the old node, if any, and marked it.
SetStart ==
    LET a == Alloc(Size[op.val])
        f == Find(op.key)
    IN  /\ pc = "alloc"
        /\ a # NoAddr
        /\ tgt' = a
        /\ old' = f
        /\ cache' = CacheAfterFind(op.key)
        /\ IF f = NoAddr
           THEN pc' = "using" /\ UNCHANGED <<node, lastDel>>
           ELSE /\ SetStatus(f, PRE_DELETE)
                /\ lastDel' = TRUE
                /\ pc' = IF hdr[f[1]].dirty = CLEAN THEN "predirty" ELSE "using"
        /\ UNCHANGED <<hdr, op, result, tried, oldest, gcReq, inRec, gc, mv,
                       at, fmt, zeroed, cuts>>

\* new_kv found no room and collects once.
SetCollect ==
    /\ pc = "alloc"
    /\ Alloc(Size[op.val]) = NoAddr
    /\ NeedsGc
    /\ tried' = TRUE
    /\ StartGc("alloc", FALSE)
    /\ UNCHANGED <<flash, op, result, tgt, old, oldest, inRec, lastDel, cache,
                   mv, at, fmt, zeroed, cuts>>

\* Mutant: new_kv gives up without resetting gc_request.
SetFull_KeepsRequest ==
    /\ pc = "alloc"
    /\ Alloc(Size[op.val]) = NoAddr
    /\ ~NeedsGc
    /\ gcReq' = GcReqAfterAlloc(Size[op.val])
    /\ Finish("full")
    /\ UNCHANGED <<flash, oldest, inRec, lastDel, cache, gc, mv, at, fmt,
                   zeroed, cuts>>

\* new_kv found no room, and collecting did not help or was not asked for.
SetFull ==
    /\ pc = "alloc"
    /\ Alloc(Size[op.val]) = NoAddr
    /\ ~NeedsGc
    /\ gcReq' = FALSE
    /\ Finish("full")
    /\ UNCHANGED <<flash, oldest, inRec, lastDel, cache, gc, mv, at, fmt,
                   zeroed, cuts>>

SetPreDirty ==
    /\ pc = "predirty"
    /\ SetDirty(old[1], DIRTY)
    /\ pc' = "using"
    /\ UNCHANGED <<node, request, oldest, gcReq, inRec, lastDel, cache, gc, mv,
                   at, fmt, zeroed, cuts>>

\* update_sec_status.
SetUsing ==
    /\ pc = "using"
    /\ hdr' = [hdr EXCEPT ![tgt[1]].store = StoreAfter(tgt[1], Size[op.val])]
    /\ pc' = "header"
    /\ UNCHANGED <<node, request, oldest, gcReq, inRec, lastDel, cache, gc, mv,
                   at, fmt, zeroed, cuts>>

\* write_kv_hdr.
SetHeader ==
    /\ pc = "header"
    /\ node' = [node EXCEPT ![tgt] = [key |-> op.key, val |-> op.val,
                                      st |-> PRE_WRITE, crc |-> "bad"]]
    /\ pc' = "body"
    /\ UNCHANGED <<hdr, request, oldest, gcReq, inRec, lastDel, cache, gc, mv,
                   at, fmt, zeroed, cuts>>

\* Name and value; the cache learns the address before the value is written.
SetBody ==
    /\ pc = "body"
    /\ node' = [node EXCEPT ![tgt].crc = "good"]
    /\ cache' = [cache EXCEPT ![op.key] = tgt]
    /\ pc' = "commit"
    /\ UNCHANGED <<hdr, request, oldest, gcReq, inRec, lastDel, gc, mv, at,
                   fmt, zeroed, cuts>>

SetCommit ==
    /\ pc = "commit"
    /\ SetStatus(tgt, WRITE)
    /\ gcReq' = (gcReq \/ hdr[tgt[1]].store = FULL)
    /\ pc' = IF old = NoAddr THEN "end" ELSE "delete"
    /\ UNCHANGED <<hdr, request, oldest, inRec, lastDel, cache, gc, mv, at,
                   fmt, zeroed, cuts>>

-----------------------------------------------------------------------------
(* fdb_kv_del, and del_kv(.., TRUE) at the end of a set.                   *)

BeginDel(k) ==
    /\ pc = "idle"
    /\ op' = [kind |-> "del", key |-> k]
    /\ result' = "none"
    /\ old' = Find(k)
    /\ cache' = CacheAfterFind(k)
    /\ pc' = IF Find(k) = NoAddr THEN "missing" ELSE "delete"
    /\ UNCHANGED <<flash, tgt, tried, oldest, gcReq, inRec, lastDel, gc, mv,
                   at, fmt, zeroed, cuts>>

DelMissing ==
    /\ pc = "missing"
    /\ Finish("missing")
    /\ UNCHANGED <<flash, oldest, gcReq, inRec, lastDel, cache, gc, mv, at,
                   fmt, zeroed, cuts>>

Delete ==
    /\ pc = "delete"
    /\ SetStatus(old, DELETED)
    /\ cache' = CacheAfterDelete(op.key)
    /\ lastDel' = FALSE
    /\ pc' = IF hdr[old[1]].dirty = CLEAN THEN "deldirty" ELSE "end"
    /\ UNCHANGED <<hdr, request, oldest, gcReq, inRec, gc, mv, at, fmt, zeroed,
                   cuts>>

DelDirty ==
    /\ pc = "deldirty"
    /\ SetDirty(old[1], DIRTY)
    /\ pc' = "end"
    /\ UNCHANGED <<node, request, oldest, gcReq, inRec, lastDel, cache, gc, mv,
                   at, fmt, zeroed, cuts>>

\* A set collects at its end when it was asked to meanwhile.
End ==
    /\ pc = "end"
    /\ IF gcReq /\ op.kind = "set"
       THEN StartGc("end", FALSE) /\ UNCHANGED request
       ELSE Finish("ok") /\ UNCHANGED <<gcReq, gc>>
    /\ UNCHANGED <<flash, oldest, inRec, lastDel, cache, mv, at, fmt, zeroed,
                   cuts>>

-----------------------------------------------------------------------------
(* fdb_kv_get: only find_kv changes anything, and only the cache.          *)

Get(k) ==
    /\ pc = "idle"
    /\ cache' = CacheAfterFind(k)
    /\ UNCHANGED <<flash, pc, request, oldest, gcReq, inRec, lastDel, gc, mv,
                   at, fmt, zeroed, cuts>>

-----------------------------------------------------------------------------
(* fdb_kv_set_default, with no default KVs: erase and format every sector. *)

BeginReset ==
    /\ pc = "idle"
    /\ pc' = "erase_all"
    /\ op' = [kind |-> "reset"]
    /\ result' = "none"
    /\ cache' = [k \in Keys |-> NoAddr]
    /\ fmt' = 0
    /\ UNCHANGED <<flash, tgt, old, tried, oldest, gcReq, inRec, lastDel, gc,
                   mv, at, zeroed, cuts>>

Erase(s) == /\ hdr' = [hdr EXCEPT ![s] = Unformatted]
            /\ node' = [a \in Addrs |-> IF a[1] = s THEN Blank ELSE node[a]]

EraseAll ==
    /\ pc = "erase_all"
    /\ Erase(fmt)
    /\ pc' = "format_all"
    /\ UNCHANGED <<request, oldest, gcReq, inRec, lastDel, cache, gc, mv, at,
                   fmt, zeroed, cuts>>

FormatAll ==
    /\ pc = "format_all"
    /\ hdr' = [hdr EXCEPT ![fmt] = Formatted]
    /\ IF fmt + 1 < NSec
       THEN pc' = "erase_all" /\ fmt' = fmt + 1 /\ UNCHANGED oldest
       ELSE /\ pc' = IF inRec THEN "boot_gc" ELSE "end"
            /\ fmt' = 0
            /\ oldest' = 0
    /\ UNCHANGED <<node, request, gcReq, inRec, lastDel, cache, gc, mv, at,
                   zeroed, cuts>>

-----------------------------------------------------------------------------
(* gc_collect_by_free_size and do_gc.                                      *)

\* Sectors the iteration has yet to visit that do_gc will collect.
ToCollect == {s \in Sectors : /\ Rank(gc.from, s) >= gc.next
                              /\ hdr[s].store # 0
                              /\ hdr[s].dirty \in {DIRTY, GC}}

\* do_gc marks the sector on flash before it moves anything.
GcPick ==
    LET s == FirstFrom(gc.from, ToCollect)
    IN  /\ pc = "gc_scan"
        /\ ToCollect # {}
        /\ SetDirty(s, GC)
        /\ gc' = [ret |-> gc.ret, all |-> gc.all, from |-> gc.from,
                  next |-> Rank(gc.from, s) + 1, sec |-> s, off |-> 0]
        /\ pc' = "gc_node"
        /\ UNCHANGED <<node, request, oldest, gcReq, inRec, lastDel, cache, mv,
                       at, fmt, zeroed, cuts>>

GcDone ==
    /\ pc = "gc_scan"
    /\ ToCollect = {}
    /\ EndGc
    /\ UNCHANGED <<flash, request, oldest, inRec, lastDel, cache, mv, at, fmt,
                   zeroed, cuts>>

\* Mutant: the first node of the sector is skipped.
ToMove_SkipFirst == {o \in Offsets : /\ o > gc.off
                                     /\ \/ Readable(<<gc.sec, o>>, WRITE)
                                        \/ Readable(<<gc.sec, o>>, PRE_DELETE)}

\* Mutant: nodes that wait to be deleted are not moved.
ToMove_LiveOnly == {o \in Offsets : o >= gc.off /\ Readable(<<gc.sec, o>>, WRITE)}

\* The nodes of the sector that do_gc has yet to move.
ToMove == {o \in Offsets : /\ o >= gc.off
                           /\ \/ Readable(<<gc.sec, o>>, WRITE)
                              \/ Readable(<<gc.sec, o>>, PRE_DELETE)}

\* move_kv marks a live node before it copies it.
GcMove ==
    LET src == <<gc.sec, Min(ToMove)>>
    IN  /\ pc = "gc_node"
        /\ ToMove # {}
        /\ mv' = [ret |-> "gc_node", src |-> src, dst |-> NoAddr, st |-> node[src].st]
        /\ SetStatus(src, PRE_DELETE)
        /\ lastDel' = (lastDel \/ node[src].st = WRITE)
        /\ gc' = [gc EXCEPT !.off = src[2] + 1]
        /\ pc' = "mv_alloc"
        /\ UNCHANGED <<hdr, request, oldest, gcReq, inRec, cache, at, fmt,
                       zeroed, cuts>>

\* The sector is erased even when a move failed.
GcErase ==
    /\ pc = "gc_node"
    /\ ToMove = {}
    /\ Erase(gc.sec)
    /\ pc' = "gc_format"
    /\ UNCHANGED <<request, oldest, gcReq, inRec, lastDel, cache, gc, mv, at,
                   fmt, zeroed, cuts>>

\* Mutant: the collected sector itself stays the oldest.
SectorAfter_Same(s) == s

\* Mutant: no wrap at the end of the database.
SectorAfter_NoWrap(s) == s + 1

\* get_next_sector_addr.
SectorAfter(s) == IF s + 1 < NSec THEN s + 1 ELSE 0

\* The sector after the collected one becomes the oldest.  A collection for one
\* node stops here; one for the whole database never frees as much as it asks.
GcFormat ==
    /\ pc = "gc_format"
    /\ hdr' = [hdr EXCEPT ![gc.sec] = Formatted]
    /\ oldest' = SectorAfter(gc.sec)
    /\ IF gc.all THEN pc' = "gc_scan" /\ UNCHANGED <<gc, gcReq>> ELSE EndGc
    /\ UNCHANGED <<node, request, inRec, lastDel, cache, mv, at, fmt, zeroed,
                   cuts>>

-----------------------------------------------------------------------------
(* move_kv.                                                                *)

Moved    == node[mv.src]
MoveRoom == Alloc(Size[Moved.val])

\* Mutant: recovery copies every old value.
Superseded_Never == FALSE

\* Recovery does not copy an old value whose successor is already written.
Superseded == /\ inRec
              /\ mv.st = PRE_DELETE
              /\ Scan(Moved.key) # NoAddr

\* FDB_SAVED_FULL: do_gc goes on with the next node, the recovery's iteration
\* is cut short.
MoveFails ==
    /\ pc = "mv_alloc"
    /\ MoveRoom = NoAddr
    /\ gcReq' = GcReqAfterAlloc(Size[Moved.val])
    /\ pc' = IF mv.ret = "boot_kv" THEN "boot_check" ELSE mv.ret
    /\ mv' = MvIdle
    /\ UNCHANGED <<flash, request, oldest, inRec, lastDel, cache, gc, at, fmt,
                   zeroed, cuts>>

MoveSkip ==
    /\ pc = "mv_alloc"
    /\ MoveRoom # NoAddr
    /\ Superseded
    /\ pc' = "mv_delete"
    /\ UNCHANGED <<flash, request, oldest, gcReq, inRec, lastDel, cache, gc,
                   mv, at, fmt, zeroed, cuts>>

MoveStart ==
    /\ pc = "mv_alloc"
    /\ MoveRoom # NoAddr
    /\ ~Superseded
    /\ mv' = [mv EXCEPT !.dst = MoveRoom]
    /\ hdr' = [hdr EXCEPT ![MoveRoom[1]].store =
                              StoreAfter(MoveRoom[1], Size[Moved.val])]
    /\ pc' = "mv_header"
    /\ UNCHANGED <<node, request, oldest, gcReq, inRec, lastDel, cache, gc, at,
                   fmt, zeroed, cuts>>

MoveHeader ==
    /\ pc = "mv_header"
    /\ node' = [node EXCEPT ![mv.dst] = [key |-> Moved.key, val |-> Moved.val,
                                         st |-> PRE_WRITE, crc |-> "bad"]]
    /\ pc' = "mv_body"
    /\ UNCHANGED <<hdr, request, oldest, gcReq, inRec, lastDel, cache, gc, mv,
                   at, fmt, zeroed, cuts>>

\* Mutant: name and value are not copied.
MoveBody_HeaderOnly ==
    /\ pc = "mv_body"
    /\ pc' = "mv_commit"
    /\ UNCHANGED <<flash, request, oldest, gcReq, inRec, lastDel, cache, gc,
                   mv, at, fmt, zeroed, cuts>>

MoveBody ==
    /\ pc = "mv_body"
    /\ node' = [node EXCEPT ![mv.dst].crc = "good"]
    /\ pc' = "mv_commit"
    /\ UNCHANGED <<hdr, request, oldest, gcReq, inRec, lastDel, cache, gc, mv,
                   at, fmt, zeroed, cuts>>

MoveCommit ==
    /\ pc = "mv_commit"
    /\ SetStatus(mv.dst, WRITE)
    /\ cache' = [cache EXCEPT ![Moved.key] = mv.dst]
    /\ pc' = "mv_delete"
    /\ UNCHANGED <<hdr, request, oldest, gcReq, inRec, lastDel, gc, mv, at,
                   fmt, zeroed, cuts>>

MoveDelete ==
    /\ pc = "mv_delete"
    /\ SetStatus(mv.src, DELETED)
    /\ cache' = CacheAfterDelete(Moved.key)
    /\ lastDel' = FALSE
    /\ IF hdr[mv.src[1]].dirty = CLEAN
       THEN pc' = "mv_dirty" /\ UNCHANGED mv
       ELSE pc' = mv.ret /\ mv' = MvIdle
    /\ UNCHANGED <<hdr, request, oldest, gcReq, inRec, gc, at, fmt, zeroed,
                   cuts>>

MoveDirty ==
    /\ pc = "mv_dirty"
    /\ SetDirty(mv.src[1], DIRTY)
    /\ pc' = mv.ret
    /\ mv' = MvIdle
    /\ UNCHANGED <<node, request, oldest, gcReq, inRec, lastDel, cache, gc, at,
                   fmt, zeroed, cuts>>

-----------------------------------------------------------------------------
(* fdb_kvdb_init and _fdb_kv_load.                                         *)

BootScan ==
    /\ pc = "off"
    /\ pc' = "boot_hdr"
    /\ oldest' = OldestFound
    /\ zeroed' = FALSE
    /\ gcReq' = FALSE
    /\ inRec' = TRUE
    /\ cache' = [k \in Keys |-> NoAddr]
    /\ UNCHANGED <<flash, request, lastDel, gc, mv, at, fmt, cuts>>

Bad == {s \in Sectors : hdr[s].store = 0}

\* check_sec_hdr_cb: a sector without a header is formatted.
BootFormat ==
    /\ pc = "boot_hdr"
    /\ Bad # {}
    /\ hdr' = [hdr EXCEPT ![FirstFrom(oldest, Bad)] = Formatted]
    /\ fmt' = fmt + 1
    /\ UNCHANGED <<node, pc, request, oldest, gcReq, inRec, lastDel, cache, gc,
                   mv, at, zeroed, cuts>>

BootHeadersOk ==
    /\ pc = "boot_hdr"
    /\ Bad = {}
    /\ pc' = IF fmt = NSec THEN "erase_all" ELSE "boot_gc"
    /\ fmt' = 0
    /\ UNCHANGED <<flash, request, oldest, gcReq, inRec, lastDel, cache, gc,
                   mv, at, zeroed, cuts>>

\* Mutant: the GC status is not recognised.
Interrupted_Never == \E s \in Sectors : hdr[s].dirty > GC

Interrupted == \E s \in Sectors : hdr[s].dirty = GC

\* check_and_recovery_gc_cb: a collection that was cut short is done again, for
\* the whole database.
BootGc ==
    /\ pc = "boot_gc"
    /\ IF Interrupted
       THEN StartGc("boot_kv", TRUE)
       ELSE pc' = "boot_kv" /\ UNCHANGED <<gc, gcReq>>
    /\ at' = <<0, 0>>
    /\ UNCHANGED <<flash, request, oldest, inRec, lastDel, cache, mv, fmt,
                   zeroed, cuts>>

Ahead(a) == \/ Rank(oldest, a[1]) > at[1]
            \/ Rank(oldest, a[1]) = at[1] /\ a[2] >= at[2]

\* check_and_recovery_kv_cb acts on these; live nodes only enter the cache.
Unfinished == {a \in Addrs : /\ Ahead(a)
                             /\ \/ node[a].st = PRE_WRITE
                                \/ Readable(a, PRE_DELETE)}

\* Mutant: nodes enter the cache whatever their status.
CacheLoaded_AnyStatus(before) ==
    LET seen(k) == {a \in before : Written(a) /\ node[a].key = k}
    IN  [k \in Keys |-> IF seen(k) = {} THEN cache[k] ELSE LastNode(seen(k))]

CacheLoaded(before) ==
    [k \in Keys |-> IF Live(k) \cap before = {} THEN cache[k]
                    ELSE LastNode(Live(k) \cap before)]

\* The old value of a set or of a move that was cut short.
BootPreDelete ==
    LET a == FirstNode(Unfinished)
    IN  /\ pc = "boot_kv"
        /\ Unfinished # {}
        /\ node[a].st = PRE_DELETE
        /\ cache' = CacheLoaded({b \in Addrs : Ahead(b) /\ Before(b, a)})
        /\ mv' = [ret |-> "boot_kv", src |-> a, dst |-> NoAddr, st |-> PRE_DELETE]
        /\ at' = <<Rank(oldest, a[1]), a[2] + 1>>
        /\ pc' = "mv_alloc"
        /\ UNCHANGED <<flash, request, oldest, gcReq, inRec, lastDel, gc, fmt,
                       zeroed, cuts>>

\* Mutant: an unfinished node is marked as deleted.
BootPreWrite_Deleted ==
    LET a == FirstNode(Unfinished)
    IN  /\ pc = "boot_kv"
        /\ Unfinished # {}
        /\ node[a].st = PRE_WRITE
        /\ cache' = CacheLoaded({b \in Addrs : Ahead(b) /\ Before(b, a)})
        /\ SetStatus(a, DELETED)
        /\ pc' = "boot_check"
        /\ UNCHANGED <<hdr, request, oldest, gcReq, inRec, lastDel, gc, mv, at,
                       fmt, zeroed, cuts>>

\* A node that was not finished is given up, and the iteration ends there.
BootPreWrite ==
    LET a == FirstNode(Unfinished)
    IN  /\ pc = "boot_kv"
        /\ Unfinished # {}
        /\ node[a].st = PRE_WRITE
        /\ cache' = CacheLoaded({b \in Addrs : Ahead(b) /\ Before(b, a)})
        /\ SetStatus(a, ERR_HDR)
        /\ pc' = "boot_check"
        /\ UNCHANGED <<hdr, request, oldest, gcReq, inRec, lastDel, gc, mv, at,
                       fmt, zeroed, cuts>>

BootKvDone ==
    /\ pc = "boot_kv"
    /\ Unfinished = {}
    /\ cache' = CacheLoaded({b \in Addrs : Ahead(b)})
    /\ pc' = "boot_check"
    /\ UNCHANGED <<flash, request, oldest, gcReq, inRec, lastDel, gc, mv, at,
                   fmt, zeroed, cuts>>

\* goto __retry while a collection is requested.
BootCheck ==
    /\ pc = "boot_check"
    /\ at' = <<0, 0>>
    /\ IF gcReq
       THEN StartGc("boot_kv", TRUE) /\ UNCHANGED inRec
       ELSE pc' = "idle" /\ inRec' = FALSE /\ UNCHANGED <<gc, gcReq>>
    /\ UNCHANGED <<flash, request, oldest, lastDel, cache, mv, fmt, zeroed,
                   cuts>>

-----------------------------------------------------------------------------
(* Losing power, and closing the database.                                 *)

LoseRam ==
    /\ pc' = "off"
    /\ op' = NoOp /\ result' = "none" /\ tgt' = NoAddr /\ old' = NoAddr
    /\ tried' = FALSE
    /\ oldest' = 0 /\ gcReq' = FALSE /\ inRec' = FALSE
    /\ cache' = [k \in Keys |-> NoAddr]
    /\ gc' = GcIdle /\ mv' = MvIdle /\ at' = <<0, 0>> /\ fmt' = 0
    /\ UNCHANGED flash

PowerCut == /\ pc \notin {"off", "idle"}
            /\ cuts < MaxCuts
            /\ cuts' = cuts + 1
            /\ lastDel' = FALSE
            /\ zeroed' = TRUE
            /\ LoseRam

\* fdb_kvdb_deinit, which leaves the caller's object as it is, or power lost while
\* nothing is under way.
Stop == /\ pc = "idle"
        /\ \/ zeroed' = FALSE /\ UNCHANGED lastDel
           \/ zeroed' = TRUE /\ lastDel' = FALSE
        /\ LoseRam
        /\ UNCHANGED cuts

-----------------------------------------------------------------------------
\* A device that was never used.
Init ==
    /\ hdr = [s \in Sectors |-> Unformatted]
    /\ node = [a \in Addrs |-> Blank]
    /\ pc = "off"
    /\ op = NoOp /\ result = "none" /\ tgt = NoAddr /\ old = NoAddr /\ tried = FALSE
    /\ oldest = 0 /\ gcReq = FALSE /\ inRec = FALSE /\ lastDel = FALSE
    /\ cache = [k \in Keys |-> NoAddr]
    /\ gc = GcIdle /\ mv = MvIdle /\ at = <<0, 0>> /\ fmt = 0
    /\ zeroed = TRUE /\ cuts = 0

Caller == \/ \E k \in Keys, v \in Values : BeginSet(k, v)
          \/ \E k \in Keys : BeginDel(k)
          \/ \E k \in Keys : Get(k)
          \/ BeginReset

Serve == \/ SetStart \/ SetCollect \/ SetFull \/ SetPreDirty \/ SetUsing
         \/ SetHeader \/ SetBody \/ SetCommit
         \/ DelMissing \/ Delete \/ DelDirty \/ End
         \/ EraseAll \/ FormatAll

Collect == \/ GcPick \/ GcDone \/ GcMove \/ GcErase \/ GcFormat
           \/ MoveFails \/ MoveSkip \/ MoveStart \/ MoveHeader \/ MoveBody
           \/ MoveCommit \/ MoveDelete \/ MoveDirty

Boot == \/ BootFormat \/ BootHeadersOk \/ BootGc \/ BootPreDelete
        \/ BootPreWrite \/ BootKvDone \/ BootCheck

Next == Caller \/ Serve \/ Collect \/ BootScan \/ Boot \/ PowerCut \/ Stop

\* Whoever calls the library runs it to its end as long as there is power;
\* nobody has to call it or to switch it on.
Spec == Init /\ [][Next]_vars /\ WF_vars(Serve \/ Collect \/ Boot)

\* Power is lost only while sector 0 is the oldest on flash, where the default
\* that the next boot's scan keeps is right.
InOrderSpec == Init /\ [][Next /\ (zeroed' /\ ~zeroed => OldestOnFlash = 0)]_vars
                    /\ WF_vars(Serve \/ Collect \/ Boot)

-----------------------------------------------------------------------------
(* Properties.                                                             *)

TypeFlash ==
    /\ hdr \in [Sectors -> Header]
    /\ node \in [Addrs -> Node \cup {Blank}]

TypeRequest ==
    /\ pc \in PCs
    /\ op \in Ops \cup {NoOp}
    /\ result \in {"none", "ok", "full", "missing"}
    /\ tgt \in Addrs \cup {NoAddr}
    /\ old \in Addrs \cup {NoAddr}
    /\ tried \in BOOLEAN

TypeRam ==
    /\ oldest \in Sectors
    /\ gcReq \in BOOLEAN
    /\ inRec \in BOOLEAN
    /\ lastDel \in BOOLEAN
    /\ cache \in [Keys -> Addrs \cup {NoAddr}]
    /\ zeroed \in BOOLEAN

TypeLocals ==
    /\ gc \in GcLocals
    /\ mv \in MvLocals
    /\ at \in (0..NSec) \X (0..Cap)
    /\ fmt \in 0..NSec
    /\ cuts \in 0..MaxCuts

\* The state is of its type: addresses lie inside the database, cursors inside
\* their sector, and no sector number runs past the last.
TypeOK == TypeFlash /\ TypeRequest /\ TypeRam /\ TypeLocals

\* What the flash promises to give back for a key: the live node, or else the
\* one that was about to be replaced or moved when the power failed.
Outgoing(k) == {a \in Addrs : Readable(a, PRE_DELETE) /\ node[a].key = k}
Content ==
    [k \in Keys |->
        IF Live(k) # {} THEN node[FirstNode(Live(k))].val
        ELSE IF Outgoing(k) # {} THEN node[FirstNode(Outgoing(k))].val
        ELSE NoValue]

\* The request has reached the write that decides it.
Done == /\ op # NoOp
        /\ \/ pc \in {"deldirty", "end"}
           \/ pc = "delete" /\ op.kind = "set"
           \/ gc.ret = "end"

Abstract == INSTANCE KvStore WITH kv <- Content, done <- Done

\* The database implements the atomic store: whatever write the power fails at,
\* and however collection and recovery move nodes about, the content changes
\* only by the request being served, and all at once; "full" means that nothing
\* was changed (set_kv, del_kv, do_gc, _fdb_kv_load).
AtomicStore == Abstract!Spec

\* When no call is under way fdb_kv_get returns exactly the content: find_kv
\* trusts no stale cache entry, and the boot leaves no key that only a node
\* prepared for deletion still holds.
ReadsSeeContent ==
    pc = "idle" =>
        \A k \in Keys :
            IF Content[k] = NoValue THEN Find(k) = NoAddr
            ELSE Find(k) # NoAddr /\ Readable(Find(k), WRITE)
                                  /\ node[Find(k)].val = Content[k]

\* do_gc erases a sector whether or not move_kv could copy its nodes, so every
\* move must find room: the collected sector's live nodes fit what alloc_kv
\* offers, the reserved empty sector included.
MovesFindRoom == pc = "mv_alloc" => MoveRoom # NoAddr

\* "there is at least one empty sector for GC" (fdb_kvdb_init): when no call is
\* under way, the reserve that a collection copies into is there, although
\* collections spend it and power cuts interrupt them.
ReserveKept == pc = "idle" => Empties # {}

\* A node is only ever programmed over erased cells of its own sector: NOR flash
\* would otherwise keep the AND of both.  This relates the address alloc_kv
\* returned to the flash as it is when write_kv_hdr and move_kv use it.
Span(a, len) == a[2]..(a[2] + len - 1)
TargetErased ==
    \A t \in {<<"header", tgt>>, <<"mv_header", mv.dst>>} :
        pc = t[1] =>
            LET len == IF pc = "header" THEN Size[op.val] ELSE Size[Moved.val]
            IN  /\ t[2][2] + len <= Cap
                /\ \A o \in Offsets :
                       Written(<<t[2][1], o>>) =>
                           Span(t[2], len) \cap
                           Span(<<t[2][1], o>>, Size[node[<<t[2][1], o>>].val]) = {}

\* alloc_kv leaves FDB_SEC_REMAIN_THRESHOLD free in every sector, so
\* update_sec_status never writes FDB_SECTOR_STORE_FULL and the collection that
\* create_kv_blob requests for a full sector never runs.
NeverFull == \A s \in Sectors : hdr[s].store # FULL

\* Without power cuts every status is programmed over a lower one, and once: NOR
\* cells only go one way, and memory that is overwritten (fal_flash_mem_blk.c, a
\* file) or that takes no second program behaves alike as long as this holds.
StatusRises(a, st) == node[a].st < st
WritesRise ==
    /\ pc = "alloc" /\ Alloc(Size[op.val]) # NoAddr /\ Find(op.key) # NoAddr =>
           StatusRises(Find(op.key), PRE_DELETE)
    /\ pc = "commit" => StatusRises(tgt, WRITE)
    /\ pc = "delete" => StatusRises(old, DELETED)
    /\ pc = "mv_commit" => StatusRises(mv.dst, WRITE)
    /\ pc = "mv_delete" => StatusRises(mv.src, DELETED)
    /\ pc = "gc_scan" => \A s \in ToCollect : hdr[s].dirty < GC

\* gc_request does not outlive the call that raised it: alloc_kv would otherwise
\* spend the reserved sector on an ordinary write.
RequestOver == pc = "idle" => ~gcReq

\* Between calls an update has left one live node per key: recovery told the
\* two nodes of an interrupted update apart (move_kv, in_recovery_check).
OneLive == pc = "idle" => \A k \in Keys : Cardinality(Live(k)) <= 1

\* What the power stopped is settled before any call is served: a collection is
\* finished (check_and_recovery_gc_cb), and a node half written is given up
\* (check_and_recovery_kv_cb), so no scan meets it as a node in progress.
GcOver == \A s \in Sectors : hdr[s].dirty # GC
NoneHalfWritten == \A a \in Addrs : node[a].st # PRE_WRITE
RecoveryOver == pc = "idle" => GcOver /\ NoneHalfWritten

\* A node whose CRC fails stays PRE_WRITE or becomes ERR_HDR: read_sector_info
\* takes a sector that has a bad node of any other status to have no room, so
\* no deletion, move or recovery may ever mark one.
TornNodesInert ==
    \A a \in Addrs : Written(a) /\ node[a].crc = "bad" => node[a].st \in {PRE_WRITE, ERR_HDR}

\* Until a call is cut short, the oldest sector that a boot would find on flash
\* (check_oldest_addr_cb) is the one the database has (do_gc, fdb_kv_set_default):
\* the order of the sectors survives a restart, as far as the scan sees the
\* headers.
OldestRecovered == pc = "idle" /\ cuts = 0 => OldestOnFlash = oldest

\* Every call returns and every boot comes up (_fdb_kv_load, goto __retry), as
\* long as the power stays.
CallsReturn == pc \notin {"off", "idle"} ~> pc \in {"off", "idle"}

\* A call, a collection or a recovery changes the content of no key but the one
\* the call is about: do_gc and check_and_recovery_kv_cb move every other node
\* to new space.
OnlyOwnKeyChanges ==
    [][\A k \in Keys :
          Content'[k] # Content[k] =>
             op # NoOp /\ (op.kind = "reset" \/ op.key = k)]_vars

\* Between calls a cached address that find_kv would trust is that of a live
\* node: del_kv deletes a key "in flash and cache".
CacheLive == pc = "idle" => \A k \in Keys : CacheHit(k) => Readable(cache[k], WRITE)
=============================================================================
