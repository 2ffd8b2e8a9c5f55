----------------------------- MODULE KvReaders -----------------------------
(***************************************************************************)
(* Reading the key-value database piece by piece: the iterator             *)
(* (fdb_kv_iterator_init, fdb_kv_iterate), the object that fdb_kv_get_obj  *)
(* returns and fdb_blob_read follows, and the integrity check              *)
(* (fdb_kvdb_check).  The iterator and the blob take no lock, so between   *)
(* two of their calls, and with Shared even between two flash writes of    *)
(* another thread's call, Kvdb goes on.                                    *)
(*                                                                         *)
(* A call of fdb_kv_iterate is one step.  Reading is not harmless: where   *)
(* read_kv expects a node and finds erased cells it programs               *)
(* FDB_KV_ERR_HDR there, and the header that is written next keeps it.     *)
(***************************************************************************)
EXTENDS Kvdb

CONSTANT Shared   \* another thread than the writer's reads

ASSUME ReadersAssumption == Shared \in BOOLEAN

VARIABLES
    rd,        \* the reader's struct fdb_kv_iterator or struct fdb_kv
    spoiled    \* erased addresses where a reader programmed FDB_KV_ERR_HDR

allvars == <<vars, rd, spoiled>>

\* The iterator.  at: the rank of sector_addr, counted from start, and the offset
\* of the next header.  For the properties: seen holds the keys returned, twice
\* says that one came back, must the keys that were stored all along, quiet that
\* the flash did not change.
Iterator(start, must) == [kind |-> "iter", start |-> start, at |-> <<0, 0>>, seen |-> {},
                          twice |-> FALSE, must |-> must, quiet |-> TRUE]

\* The object.  own: no call was about the key since; erased: its sector was
\* erased since.
Object(a, k) == [kind |-> "obj", addr |-> a, key |-> k, val |-> node[a].val,
                 own |-> TRUE, erased |-> FALSE]
NoReader == [kind |-> "none"]

LiveKeys == {k \in Keys : Live(k) # {}}
Busy     == pc \notin {"off", "idle"}
MayRead  == pc # "off" /\ ~inRec /\ (Busy => Shared)

-----------------------------------------------------------------------------
(* fdb_kv_iterator_init and fdb_kv_iterate.                                *)

IterInit ==
    /\ MayRead
    /\ rd' = Iterator(oldest, IF ~Busy THEN LiveKeys
                              ELSE IF op.kind = "reset" THEN {} ELSE LiveKeys \ {op.key})
    /\ UNCHANGED <<vars, spoiled>>

HoldsNodes(s) == hdr[s].store \in {USING, FULL}
Place(a)      == <<Rank(rd.start, a[1]), a[2]>>
NotBehind(p, q) == p[1] > q[1] \/ (p[1] = q[1] /\ p[2] >= q[2])

\* Mutant: the address is not set back when the iterator enters a sector.
ToVisit_KeepsOffset == {a \in Addrs : /\ HoldsNodes(a[1])
                                      /\ Place(a)[1] >= rd.at[1] /\ Place(a)[2] >= rd.at[2]
                                      /\ Readable(a, WRITE)}

\* The valid nodes that the iterator has yet to come to.
ToVisit == {a \in Addrs : /\ HoldsNodes(a[1])
                          /\ NotBehind(Place(a), rd.at)
                          /\ Readable(a, WRITE)}
NextToVisit == CHOOSE a \in ToVisit : \A b \in ToVisit : NotBehind(Place(b), Place(a))

\* Sectors in use that are entered on the way to place p and whose first header
\* is not written yet: its length reads as all ones.
Unwritten(p) == {s \in Sectors : /\ HoldsNodes(s)
                                 /\ ~Written(<<s, 0>>)
                                 /\ NotBehind(<<Rank(rd.start, s), 0>>, rd.at)
                                 /\ NotBehind(p, <<Rank(rd.start, s), 0>>)}

IterNext ==
    /\ MayRead
    /\ rd.kind = "iter"
    /\ ToVisit # {}
    /\ LET a == NextToVisit
           k == node[a].key
       IN  /\ rd' = [rd EXCEPT !.at = <<Place(a)[1], a[2] + Size[node[a].val]>>,
                               !.seen = @ \cup {k},
                               !.twice = @ \/ k \in rd.seen]
           /\ spoiled' = spoiled \cup {<<s, 0>> : s \in Unwritten(Place(a))}
    /\ UNCHANGED vars

IterEnd ==
    /\ MayRead
    /\ rd.kind = "iter"
    /\ ToVisit = {}
    /\ rd' = [rd EXCEPT !.kind = "done", !.at = <<NSec, 0>>]
    /\ spoiled' = spoiled \cup {<<s, 0>> : s \in Unwritten(<<NSec, 0>>)}
    /\ UNCHANGED vars

-----------------------------------------------------------------------------
(* fdb_kv_get_obj, which waits for the lock; fdb_kv_to_blob copies the     *)
(* address and fdb_blob_read reads what is there, at any later time.       *)

GetObj(k) ==
    /\ pc = "idle"
    /\ cache' = CacheAfterFind(k)
    /\ LET a == Find(k)
       IN  rd' = IF a = NoAddr THEN NoReader ELSE Object(a, k)
    /\ UNCHANGED <<flash, pc, request, oldest, gcReq, inRec, lastDel, gc, mv, at,
                   fmt, zeroed, cuts, spoiled>>

\* Cells that were erased, or that a later node was laid over, hold no value.
BlobRead ==
    LET inside == {o \in Offsets : /\ o > rd.addr[2]
                                   /\ o < rd.addr[2] + Size[rd.val]}
    IN  IF Written(rd.addr) /\ \A o \in inside : ~Written(<<rd.addr[1], o>>)
        THEN node[rd.addr].val ELSE NoValue

-----------------------------------------------------------------------------
(* The library under these readers.                                        *)

\* A header over an address that a reader spoiled keeps FDB_KV_ERR_HDR.
Over(a, key, val) ==
    node' = [node EXCEPT ![a] = [key |-> key, val |-> val, st |-> Program(ERR_HDR, PRE_WRITE),
                                 crc |-> "bad"]]

SetHeaderSpoiled ==
    /\ pc = "header"
    /\ tgt \in spoiled
    /\ Over(tgt, op.key, op.val)
    /\ pc' = "body"
    /\ UNCHANGED <<hdr, request, oldest, gcReq, inRec, lastDel, cache, gc, mv, at,
                   fmt, zeroed, cuts>>

MoveHeaderSpoiled ==
    /\ pc = "mv_header"
    /\ mv.dst \in spoiled
    /\ Over(mv.dst, Moved.key, Moved.val)
    /\ pc' = "mv_body"
    /\ UNCHANGED <<hdr, request, oldest, gcReq, inRec, lastDel, cache, gc, mv, at,
                   fmt, zeroed, cuts>>

\* The keys whose values the present call does not change.
Untouched(K) == IF pc # "idle" \/ op' = NoOp THEN K
                ELSE IF op'.kind = "reset" THEN {} ELSE K \ {op'.key}

\* What a step of the library means to the reader; a
\* reader dies with the power, and one that is done says nothing later.
Follow ==
    rd' = CASE pc' = "off" \/ rd.kind \in {"none", "done"} -> NoReader
            [] pc' # "off" /\ rd.kind = "iter" ->
                 [rd EXCEPT !.must = Untouched(@), !.quiet = @ /\ UNCHANGED flash]
            [] pc' # "off" /\ rd.kind = "obj" ->
                 [rd EXCEPT !.own = @ /\ Untouched({rd.key}) # {},
                            !.erased = @ \/ hdr'[rd.addr[1]].store = 0]

Library ==
    /\ \/ Next /\ ~(pc = "header" /\ tgt \in spoiled)
               /\ ~(pc = "mv_header" /\ mv.dst \in spoiled)
       \/ SetHeaderSpoiled
       \/ MoveHeaderSpoiled
    /\ Follow
    /\ spoiled' = {a \in spoiled : hdr'[a[1]].store # 0}

RInit == Init /\ rd = NoReader /\ spoiled = {}
RNext == Library \/ IterInit \/ IterNext \/ IterEnd \/ \E k \in Keys : GetObj(k)
RSpec == RInit /\ [][RNext]_allvars

-----------------------------------------------------------------------------
(* fdb_kvdb_check: every node of every sector in use reads well.           *)

CheckOk == \A s \in Sectors : HoldsNodes(s) =>
              /\ Written(<<s, 0>>)
              /\ \A o \in Offsets : Written(<<s, o>>) => node[<<s, o>>].crc = "good"

-----------------------------------------------------------------------------
(* Properties.                                                             *)

\* An iteration during which nothing was written returns every stored key, none
\* that is not stored, and each of them once, although updates leave old nodes
\* behind and the oldest sector lies anywhere (fdb_kv_iterate).
QuietIteration ==
    rd.kind = "done" /\ rd.quiet => rd.seen = LiveKeys /\ ~rd.twice

\* An object that fdb_kv_get_obj returned reads back its value until its sector
\* is erased: no later write lands on its cells, also when the key is set again,
\* deleted or moved.
ObjStable == rd.kind = "obj" /\ ~rd.erased => BlobRead = rd.val

\* Without power cuts the integrity check finds nothing: every call leaves whole
\* nodes only and no sector that is in use without a node (fdb_kvdb_check).
CheckPasses == cuts = 0 /\ pc = "idle" => CheckOk

\* "Finally we have iterated all the KVs": a key that was stored during the whole
\* iteration, and that no call was about, is returned.
IteratesAll == rd.kind = "done" => rd.must \subseteq rd.seen

\* A set that returns success has stored its value, readers or not.
SetStores == pc = "end" /\ op.kind = "set" => \E a \in Live(op.key) : node[a].val = op.val

\* An object reads back its value as long as no call is about its key.
ObjKeepsValue == rd.kind = "obj" /\ rd.own => BlobRead = rd.val
=============================================================================
