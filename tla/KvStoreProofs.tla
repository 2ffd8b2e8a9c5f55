--------------------------- MODULE KvStoreProofs ---------------------------
(***************************************************************************)
(* Until power fails, the KVDB is the atomic store of KvStore: calls,      *)
(* collections and restarts change the content by the requests alone, and  *)
(* each at one instant.  On the way: no collection loses a node for lack   *)
(* of room, a key has one live node, and find_kv returns it.               *)
(*                                                                         *)
(* With power cuts none of this holds for all values of the constants, so  *)
(* the invariant speaks of the time before the first one.  The step that   *)
(* cuts the power is still covered: it leaves the content as it is.        *)
(* Where the scan of a boot sees the headers, or power is only lost while  *)
(* its default is right, a boot finds the oldest sector again.             *)
(*                                                                         *)
(* At the end, what readers see (KvReaders): a blob reads back its value   *)
(* until its sector is erased, power cuts or not; until power fails        *)
(* fdb_kvdb_check finds nothing wrong, and an iteration during which       *)
(* nothing is written returns every stored key once.                       *)
(***************************************************************************)
EXTENDS KvdbProofs, KvReaders

-----------------------------------------------------------------------------
(* What each kind of flash write does to a node, and to the others.        *)

LEMMA StatusEffect ==
    ASSUME TypeOK, NEW a \in Addrs, Written(a), NEW i \in 1..5, SetStatus(a, i)
    PROVE  /\ \A b \in Addrs : b # a => node'[b] = node[b]
           /\ node'[a].st = Program(node[a].st, i)
           /\ node'[a].key = node[a].key /\ node'[a].val = node[a].val
           /\ node'[a].crc = node[a].crc
<1>1. node[a] \in Node
  BY WrittenNode
<1>2. node' = [node EXCEPT ![a].st = Program(@, i)]
  BY DEF SetStatus
<1>3. QED
  BY <1>1, <1>2 DEF TypeOK, TypeFlash, Node

LEMMA BodyEffect ==
    ASSUME TypeOK, NEW a \in Addrs, Written(a),
           node' = [node EXCEPT ![a].crc = "good"]
    PROVE  /\ \A b \in Addrs : b # a => node'[b] = node[b]
           /\ node'[a].st = node[a].st
           /\ node'[a].key = node[a].key /\ node'[a].val = node[a].val
           /\ node'[a].crc = "good"
<1>1. node[a] \in Node
  BY WrittenNode
<1>2. QED
  BY <1>1 DEF TypeOK, TypeFlash, Node

LEMMA HeaderEffect ==
    ASSUME TypeOK, NEW a \in Addrs, NEW k \in Keys, NEW v \in Values,
           node' = [node EXCEPT ![a] = [key |-> k, val |-> v, st |-> PRE_WRITE,
                                        crc |-> "bad"]]
    PROVE  /\ \A b \in Addrs : b # a => node'[b] = node[b]
           /\ node'[a].st = PRE_WRITE
           /\ node'[a].key = k /\ node'[a].val = v
           /\ node'[a].crc = "bad"
BY DEF TypeOK, TypeFlash

LEMMA EraseEffect ==
    ASSUME TypeOK, NEW s, Erase(s)
    PROVE  \A b \in Addrs : node'[b] = IF b[1] = s THEN Blank ELSE node[b]
BY DEF Erase, TypeOK, TypeFlash

\* find_kv only trusts an address that is not beyond the database.
LEMMA PairOf == \A a \in Addrs : a[1] \in Sectors /\ a[2] \in Offsets /\ a = <<a[1], a[2]>>
BY DEF Addrs

-----------------------------------------------------------------------------
(* The layout of the sectors, whenever power fails.                        *)

\* Nodes lie one behind the other and before the threshold, and what was just
\* formatted is clean.
Clean == \A s \in Sectors : hdr[s].store = EMPTY => hdr[s].dirty = CLEAN
Laid ==
    \A s \in Sectors, o \in Offsets :
       Written(<<s, o>>) =>
          /\ o + Size[node[<<s, o>>].val] + Threshold < Cap
          /\ \A p \in Offsets : Written(<<s, p>>) /\ o < p =>
                                   o + Size[node[<<s, o>>].val] <= p

LEMMA LaidSame ==
    ASSUME Laid, SameNodes
    PROVE  Laid'
<1>1. \A s \in Sectors, o \in Offsets :
         /\ Written(<<s, o>>)' <=> Written(<<s, o>>)
         /\ Written(<<s, o>>) => node'[<<s, o>>].val = node[<<s, o>>].val
  BY AddrPair DEF SameNodes
<1>2. SUFFICES ASSUME NEW s \in Sectors, NEW o \in Offsets, Written(<<s, o>>)'
               PROVE  /\ o + Size[node'[<<s, o>>].val] + Threshold < Cap
                      /\ \A p \in Offsets : Written(<<s, p>>)' /\ o < p =>
                                               o + Size[node'[<<s, o>>].val] <= p
  BY DEF Laid
<1>3. QED
  BY <1>1, <1>2 DEF Laid

\* The address of a new node is behind all others.
LEMMA LaidHeader ==
    ASSUME IInv, Laid, NEW a, NEW n \in Node, Beyond(a, Size[n.val]),
           node' = [node EXCEPT ![a] = n]
    PROVE  Laid'
<1>1. a \in Addrs /\ a[1] \in Sectors /\ a[2] \in Offsets /\ a = <<a[1], a[2]>>
  BY PairOf DEF Beyond
<1>2. /\ \A b \in Addrs : b # a => node'[b] = node[b]
      /\ node'[a] = n
  BY <1>1 DEF IInv, TypeOK, TypeFlash
<1>3. Size[n.val] \in Nat
  BY KvdbAssumption DEF Node
<1>4. ASSUME NEW s \in Sectors, NEW o \in Offsets, Written(<<s, o>>)'
      PROVE  /\ o + Size[node'[<<s, o>>].val] + Threshold < Cap
             /\ \A p \in Offsets : Written(<<s, p>>)' /\ o < p =>
                                   o + Size[node'[<<s, o>>].val] <= p
  <2>1. CASE <<s, o>> = a
    <3>1. s = a[1] /\ o = a[2]
      BY <2>1
    <3>2. \A p \in Offsets : o < p => ~Written(<<s, p>>)'
      <4> SUFFICES ASSUME NEW p \in Offsets, o < p, Written(<<s, p>>)' PROVE FALSE
        OBVIOUS
      <4>1. <<s, p>> # a /\ <<s, p>> \in Addrs
        BY <3>1, <1>1, AddrPair, KvdbAssumption DEF Offsets
      <4>2. Written(<<s, p>>)
        BY <1>2, <4>1 DEF Written
      <4>3. p + Size[node[<<s, p>>].val] <= o
        BY <3>1, <4>2 DEF Beyond
      <4>4. Size[node[<<s, p>>].val] \in Nat
        BY <4>1, <4>2, WrittenNode DEF IInv
      <4>5. QED
        BY <4>3, <4>4, KvdbAssumption DEF Offsets
    <3>3. QED
      BY <1>2, <2>1, <3>1, <3>2 DEF Beyond
  <2>2. CASE <<s, o>> # a
    <3>1. <<s, o>> \in Addrs /\ node'[<<s, o>>] = node[<<s, o>>]
      BY <1>2, <2>2, AddrPair
    <3>2. Written(<<s, o>>)
      BY <1>4, <3>1 DEF Written
    <3>3. ASSUME NEW p \in Offsets, Written(<<s, p>>)', o < p
          PROVE  o + Size[node[<<s, o>>].val] <= p
      <4>1. CASE <<s, p>> = a
        BY <3>2, <4>1 DEF Beyond
      <4>2. CASE <<s, p>> # a
        BY <1>2, <3>2, <3>3, <4>2, AddrPair DEF Laid, Written
      <4>3. QED
        BY <4>1, <4>2
    <3>4. QED
      BY <3>1, <3>2, <3>3 DEF Laid
  <2>3. QED
    BY <2>1, <2>2
<1>5. QED
  BY <1>4 DEF Laid

LEMMA LaidErase ==
    ASSUME TypeOK, Laid, NEW s, Erase(s)
    PROVE  Laid'
<1>1. \A t \in Sectors, o \in Offsets :
         Written(<<t, o>>)' => Written(<<t, o>>) /\ node'[<<t, o>>] = node[<<t, o>>]
  BY EraseEffect, AddrPair DEF Written, Blank
<1>2. QED
  BY <1>1 DEF Laid

-----------------------------------------------------------------------------
(* Steps that write no node, or only a status.                             *)

\* The calls, the boots and the steps that only read the flash.
LEMMA FlashKeptBy ==
    ASSUME \/ Caller \/ SetCollect \/ SetFull \/ DelMissing \/ End
           \/ GcDone \/ MoveFails \/ MoveSkip
           \/ BootScan \/ BootHeadersOk \/ BootGc \/ BootPreDelete
           \/ BootKvDone \/ BootCheck \/ PowerCut \/ Stop \/ UNCHANGED vars
    PROVE  hdr' = hdr /\ node' = node
BY DEF Caller, BeginSet, BeginDel, Get, BeginReset, SetCollect, SetFull, DelMissing, End,
   GcDone, MoveFails, MoveSkip, BootScan, BootHeadersOk, BootGc, BootPreDelete, BootKvDone,
   BootCheck, PowerCut, Stop, LoseRam, flash, vars

\* The steps that write a header only.
LEMMA NodesKeptBy ==
    ASSUME \/ SetPreDirty \/ SetUsing \/ DelDirty \/ FormatAll
           \/ GcPick \/ GcFormat \/ MoveStart \/ MoveDirty \/ BootFormat
    PROVE  node' = node
BY DEF SetPreDirty, SetUsing, DelDirty, FormatAll, GcPick, GcFormat, MoveStart, MoveDirty,
   BootFormat

\* The steps that write one node only.
LEMMA HeadersKeptBy ==
    ASSUME \/ SetStart \/ SetHeader \/ SetBody \/ SetCommit \/ Delete
           \/ GcMove \/ MoveHeader \/ MoveBody \/ MoveCommit \/ MoveDelete \/ BootPreWrite
    PROVE  hdr' = hdr
BY DEF SetStart, SetHeader, SetBody, SetCommit, Delete, GcMove, MoveHeader, MoveBody,
   MoveCommit, MoveDelete, BootPreWrite

\* A status that is written leaves every node its length.
LEMMA SameNodesBy ==
    ASSUME IInv,
           \/ SetStart \/ SetBody \/ SetCommit \/ Delete \/ GcMove \/ MoveBody
           \/ MoveCommit \/ MoveDelete \/ BootPreWrite
    PROVE  SameNodes
<1>1. ASSUME NEW a \in Addrs, Written(a), NEW i \in 1..5, SetStatus(a, i)
      PROVE  SameNodes
  BY <1>1, SetStatusStep DEF SameNodes, IInv
<1>2. ASSUME NEW a \in Addrs, Written(a), node' = [node EXCEPT ![a].crc = "good"]
      PROVE  SameNodes
  BY <1>2, BodyStep DEF SameNodes, IInv
<1>3. PRE_DELETE \in 1..5 /\ WRITE \in 1..5 /\ DELETED \in 1..5 /\ ERR_HDR \in 1..5
  BY DEF PRE_DELETE, WRITE, DELETED, ERR_HDR
<1>4. CASE SetStart
  <2>1. CASE old' = NoAddr
    BY <1>4, <2>1, SetStartResult DEF SameNodes, Written
  <2>2. CASE old' # NoAddr
    <3>1. old' \in Addrs /\ Written(old') /\ SetStatus(old', PRE_DELETE)
      BY <1>4, <2>2, SetStartResult
    <3>2. PICK f \in Addrs : f = old'
      BY <3>1
    <3>3. QED
      BY <1>1, <1>3, <3>1, <3>2
  <2>3. QED
    BY <2>1, <2>2
<1>5. CASE SetBody
  BY <1>2, <1>5 DEF SetBody, IInv, Targets
<1>6. CASE SetCommit
  BY <1>1, <1>3, <1>6 DEF SetCommit, IInv, Targets
<1>7. CASE Delete
  BY <1>1, <1>3, <1>7 DEF Delete, IInv, Targets, TypeOK, TypeRequest
<1>8. CASE GcMove
  BY <1>1, <1>3, <1>8, ToMoveFirst DEF GcMove, IInv, TypeOK, TypeLocals, GcLocals
<1>9. CASE MoveBody
  BY <1>2, <1>9 DEF MoveBody, IInv, Targets
<1>10. CASE MoveCommit
  BY <1>1, <1>3, <1>10 DEF MoveCommit, IInv, Targets
<1>11. CASE MoveDelete
  BY <1>1, <1>3, <1>11 DEF MoveDelete, IInv, Targets, MvPCs
<1>12. CASE BootPreWrite
  BY <1>1, <1>3, <1>12, UnfinishedFirst DEF BootPreWrite
<1>13. QED
  BY <1>4, <1>5, <1>6, <1>7, <1>8, <1>9, <1>10, <1>11, <1>12

\* The sectors that a step may format or erase.
LEMMA WholeSector ==
    ASSUME IInv
    PROVE  /\ EraseAll \/ FormatAll => fmt \in Sectors
           /\ gc.sec \in Sectors
           /\ BootFormat => FirstFrom(oldest, Bad) \in Bad
<1>1. EraseAll \/ FormatAll => fmt \in Sectors
  BY KvdbAssumption DEF EraseAll, FormatAll, IInv, Formatting, TypeOK, TypeLocals, Sectors
<1>2. BootFormat => FirstFrom(oldest, Bad) \in Bad
  BY FirstFromIn DEF BootFormat, Bad, IInv, TypeOK, TypeRam
<1>3. QED
  BY <1>1, <1>2 DEF IInv, TypeOK, TypeLocals, GcLocals

\* The sector that do_gc picks.
LEMMA PickedSector ==
    ASSUME IInv, GcPick
    PROVE  /\ gc'.sec \in Sectors /\ hdr[gc'.sec].store # 0
           /\ hdr[gc'.sec].dirty \in {DIRTY, GC}
           /\ SetDirty(gc'.sec, GC)
           /\ gc'.off = 0 /\ gc'.ret = gc.ret /\ gc'.all = gc.all
<1>1. FirstFrom(gc.from, ToCollect) \in ToCollect
  BY FirstFromIn DEF GcPick, ToCollect, TypeLocals, GcLocals, IInv, TypeOK
<1>2. QED
  BY <1>1 DEF GcPick, ToCollect

-----------------------------------------------------------------------------
(* The layout stays, wherever power is lost.                               *)

LEMMA LaidNext ==
    ASSUME IInv, Laid, [Next]_vars
    PROVE  Laid'
<1>1. ASSUME node' = node PROVE Laid'
  BY <1>1, LaidSame DEF SameNodes, Written
<1>2. CASE SetHeader
  <2> DEFINE n == [key |-> op.key, val |-> op.val, st |-> PRE_WRITE, crc |-> "bad"]
  <2>1. op.key \in Keys /\ op.val \in Values /\ Beyond(tgt, Size[op.val])
    BY <1>2, SetRequest DEF SetHeader, SetPCs, IInv, Targets
  <2>2. n \in Node /\ n.val = op.val /\ node' = [node EXCEPT ![tgt] = n]
    BY <1>2, <2>1 DEF SetHeader, Node, PRE_WRITE
  <2>3. QED
    BY <2>1, <2>2, LaidHeader
<1>3. CASE MoveHeader
  <2> DEFINE n == [key |-> Moved.key, val |-> Moved.val, st |-> PRE_WRITE, crc |-> "bad"]
  <2>1. Moved.key \in Keys /\ Moved.val \in Values /\ Beyond(mv.dst, Size[Moved.val])
    BY <1>3, MoveRequest DEF MoveHeader, MvPCs, IInv, Targets
  <2>2. n \in Node /\ n.val = Moved.val /\ node' = [node EXCEPT ![mv.dst] = n]
    BY <1>3, <2>1 DEF MoveHeader, Node, PRE_WRITE
  <2>3. QED
    BY <2>1, <2>2, LaidHeader
<1>4. CASE EraseAll \/ GcErase
  BY <1>4, LaidErase DEF EraseAll, GcErase, IInv
<1>5. QED
  BY <1>1, <1>2, <1>3, <1>4, FlashKeptBy, NodesKeptBy, SameNodesBy, LaidSame
     DEF Next, Serve, Collect, Boot

LEMMA CleanNext ==
    ASSUME IInv, Clean, [Next]_vars
    PROVE  Clean'
<1>1. ASSUME hdr' = hdr PROVE Clean'
  BY <1>1 DEF Clean
<1>2. ASSUME NEW s \in Sectors, NEW d \in 1..3, hdr[s].store # EMPTY, SetDirty(s, d)
      PROVE  Clean'
  BY <1>2, SetDirtyStep DEF Clean, IInv
<1>3. ASSUME NEW s, hdr' = [hdr EXCEPT ![s].store = USING]
      PROVE  Clean'
  BY <1>3, StoreStep DEF Clean, IInv, USING, EMPTY
<1>4. ASSUME NEW s \in Sectors, hdr' = [hdr EXCEPT ![s] = Formatted]
      PROVE  Clean'
  BY <1>4, FormatStep DEF Clean, IInv, Formatted
<1>5. ASSUME NEW s \in Sectors, Erase(s)
      PROVE  Clean'
  BY <1>5, EraseStep DEF Clean, IInv, Unformatted, EMPTY
<1>6. ASSUME NEW a \in Addrs, Written(a)
      PROVE  a[1] \in Sectors /\ hdr[a[1]].store # EMPTY
  BY <1>6, PairOf DEF IInv, Headers
<1>7. DIRTY \in 1..3 /\ GC \in 1..3
  BY DEF DIRTY, GC
<1>8. CASE SetPreDirty \/ DelDirty
  <2>1. old \in Addrs /\ Written(old) /\ SetDirty(old[1], DIRTY)
    BY <1>8 DEF SetPreDirty, DelDirty, IInv, Targets, TypeOK, TypeRequest
  <2>2. QED
    BY <1>2, <1>6, <1>7, <2>1
<1>9. CASE MoveDirty
  <2>1. mv.src \in Addrs /\ Written(mv.src) /\ SetDirty(mv.src[1], DIRTY)
    BY <1>9 DEF MoveDirty, IInv, Targets, MvPCs
  <2>2. QED
    BY <1>2, <1>6, <1>7, <2>1
<1>10. CASE SetUsing
  BY <1>3, <1>10, SetUsingResult
<1>11. CASE MoveStart
  BY <1>3, <1>11, MoveStartResult
<1>12. CASE FormatAll
  BY <1>4, <1>12, WholeSector DEF FormatAll
<1>13. CASE GcFormat
  BY <1>4, <1>13, WholeSector DEF GcFormat
<1>14. CASE BootFormat
  BY <1>4, <1>14, WholeSector DEF BootFormat, Bad
<1>15. CASE EraseAll
  BY <1>5, <1>15, WholeSector DEF EraseAll
<1>16. CASE GcErase
  BY <1>5, <1>16, WholeSector DEF GcErase
<1>17. CASE GcPick
  <2>1. PICK s \in Sectors : s = gc'.sec
    BY <1>17, PickedSector
  <2>2. SetDirty(s, GC) /\ hdr[s].dirty \in {DIRTY, GC}
    BY <1>17, <2>1, PickedSector
  <2>3. hdr[s].store # EMPTY
    BY <2>2 DEF Clean, DIRTY, GC, CLEAN
  <2>4. QED
    BY <1>2, <1>7, <2>2, <2>3
<1>18. QED
  BY <1>1, <1>8, <1>9, <1>10, <1>11, <1>12, <1>13, <1>14, <1>15, <1>16, <1>17,
     FlashKeptBy, HeadersKeptBy DEF Next, Serve, Collect, Boot

-----------------------------------------------------------------------------
(* Before the first power cut.                                             *)

BootPCs == {"boot_hdr", "boot_gc", "boot_kv", "boot_check"}
WipePCs == {"erase_all", "format_all"}

\* A set has prepared the node that it replaces.
Replacing == /\ old # NoAddr
             /\ pc \in SetPCs \ {"alloc"} \/ (pc = "delete" /\ op.kind = "set")

\* A request is served but while the database is closed, booted or waits for one;
\* no boot collects or moves, and no call raises gc_request for another.
Phases ==
    /\ op = NoOp <=> pc \in {"off", "idle"} \/ inRec
    /\ inRec <=> pc \in BootPCs \/ (pc \in WipePCs /\ op = NoOp)
    /\ pc \in WipePCs /\ ~inRec => op.kind = "reset"
    /\ pc \in {"delete", "deldirty"} => op.kind \in {"set", "del"}
    /\ pc = "missing" => op.kind = "del"
    /\ gcReq <=> InGc
    /\ gc.ret \in {"idle", "alloc"}
    /\ mv.ret \in {"idle", "gc_node"}
    /\ pc # "mv_dirty"
    /\ lastDel <=> Replacing \/ pc \in MvPCs

\* Which nodes are neither live nor deleted.
Statuses ==
    \A a \in Addrs :
       /\ node[a].st = PRE_WRITE => \/ pc \in {"body", "commit"} /\ a = tgt
                                    \/ pc \in {"mv_body", "mv_commit"} /\ a = mv.dst
       /\ node[a].st = PRE_DELETE => \/ Replacing /\ a = old
                                     \/ pc \in MvPCs /\ a = mv.src
       /\ node[a].st # ERR_HDR

\* A node that holds the value of its key.
Holds(a) == node[a].st \in {WRITE, PRE_DELETE}
NoHolder(k) == \A a \in Addrs : Holds(a) => node[a].key # k

\* The nodes that a request works on ...
RequestNodes ==
    /\ Replacing => node[old].st = PRE_DELETE /\ node[old].key = op.key
    /\ (pc \in SetPCs \ {"alloc"} /\ old = NoAddr) \/ pc = "missing" => NoHolder(op.key)
    /\ pc \in {"body", "commit"} \/ (pc = "delete" /\ op.kind = "set") =>
          /\ tgt \in Addrs
          /\ node[tgt].key = op.key /\ node[tgt].val = op.val
          /\ node[tgt].st = IF pc = "delete" THEN WRITE ELSE PRE_WRITE
    /\ pc = "delete" /\ op.kind = "del" => node[old].st = WRITE /\ node[old].key = op.key

\* ... and those of the move under way.
MoveNodes ==
    /\ pc \in MvPCs => /\ node[mv.src].st = PRE_DELETE
                       /\ mv.src[1] = gc.sec /\ mv.src[2] + 1 = gc.off
    /\ pc \in MvPCs \ {"mv_alloc"} => mv.dst \in Addrs /\ mv.dst[1] # gc.sec
    /\ pc \in {"mv_body", "mv_commit", "mv_delete"} =>
          /\ node[mv.dst].key = node[mv.src].key /\ node[mv.dst].val = node[mv.src].val
          /\ node[mv.dst].st = IF pc = "mv_delete" THEN WRITE ELSE PRE_WRITE

\* A key has one node that holds its value, but for the two of a replacement or
\* of a move of which neither is deleted yet.
Pair(a, b) == \/ pc = "delete" /\ op.kind = "set" /\ {a, b} = {old, tgt}
              \/ pc = "mv_delete" /\ {a, b} = {mv.src, mv.dst}
OneHolder ==
    \A a, b \in Addrs : Holds(a) /\ Holds(b) /\ node[a].key = node[b].key =>
                           a = b \/ Pair(a, b)

\* Only the sector being collected is marked, and of it nothing is left behind
\* the collection.
Collected ==
    /\ \A s \in Sectors : hdr[s].dirty = GC => /\ s = gc.sec
                                               /\ pc = "gc_node" \/ pc \in MvPCs
    /\ pc = "gc_node" \/ pc \in MvPCs =>
          \A o \in Offsets : Holds(<<gc.sec, o>>) /\ o < gc.off =>
                                pc \in MvPCs /\ <<gc.sec, o>> = mv.src

\* Some sector that a collection may use ends before the nodes yet to be moved.
EndsBy(s, e) ==
    \/ hdr[s].store = EMPTY
    \/ /\ hdr[s].store = USING /\ HdrLen <= e
       /\ \A o \in Offsets : Written(<<s, o>>) => o + Size[node[<<s, o>>].val] <= e
Front == IF pc = "mv_alloc" THEN mv.src[2] ELSE gc.off
RoomIn(s) ==
    /\ s # gc.sec /\ hdr[s].dirty = CLEAN
    /\ \A o \in Offsets : Written(<<gc.sec, o>>) /\ Front <= o =>
          /\ EndsBy(s, o)
          /\ pc = "mv_header" /\ mv.dst[1] = s => mv.dst[2] + Size[Moved.val] <= o
RoomLeft == pc = "gc_node" \/ pc \in MvPCs => \E s \in Sectors : RoomIn(s)

\* find_kv is misled by no entry.
Cached ==
    /\ \A k \in Keys : CacheHit(k) =>
          \/ node[cache[k]].st = WRITE
          \/ pc \in SetPCs \ {"alloc"} /\ k = op.key
          \/ pc \in MvPCs \ {"mv_delete"} /\ k = node[mv.src].key
    /\ pc = "commit" \/ (pc = "delete" /\ op.kind = "set") => cache[op.key] = tgt
    /\ pc = "mv_delete" => cache[node[mv.src].key] = mv.dst

\* How far the sectors have been formatted by a boot, or erased by a reset.
Erased ==
    /\ pc = "boot_hdr" => fmt <= Cardinality(Empties)
    /\ pc \in WipePCs =>
          \A a \in Addrs : Written(a) =>
             ~inRec /\ (IF pc = "erase_all" THEN fmt <= a[1] ELSE fmt < a[1])

Uncut == /\ Phases /\ Statuses /\ RequestNodes /\ MoveNodes /\ OneHolder /\ Collected
         /\ RoomLeft /\ Cached /\ Erased

\* What holds whenever power fails, and what is cited of it.
KInv == IInv /\ TInv /\ RInv /\ Clean /\ Laid

\* A node that holds a value is whole.
LEMMA HolderWhole ==
    ASSUME KInv, NEW a \in Addrs, Holds(a)
    PROVE  /\ Written(a) /\ node[a] \in Node /\ node[a].crc = "good"
           /\ node[a].key \in Keys /\ node[a].val \in Values
           /\ Size[node[a].val] \in Nat
<1>1. Written(a)
  BY DEF Holds, Written, WRITE, PRE_DELETE
<1>2. node[a] \in Node /\ node[a].key \in Keys /\ node[a].val \in Values
      /\ Size[node[a].val] \in Nat
  BY <1>1, WrittenNode DEF KInv, IInv
<1>3. node[a].crc # "bad"
  BY <1>1 DEF KInv, TInv, TornNodesInert, Holds, WRITE, PRE_DELETE, PRE_WRITE, ERR_HDR
<1>4. QED
  BY <1>1, <1>2, <1>3 DEF Node

\* A move serves a collection, and no collection a boot.
LEMMA MoveInGc ==
    ASSUME IInv, Phases
    PROVE  /\ pc \in MvPCs <=> mv.ret = "gc_node"
           /\ InGc <=> gc.ret = "alloc"
           /\ InGc <=> pc \in GcPCs \cup MvPCs
           /\ pc \in GcPCs => mv.ret = "idle"
           /\ InGc => op \in SetOps
BY DEF IInv, Control, Phases, InGc, GcPCs, MvPCs

\* While a collection reads or moves, its sector is marked.
LEMMA MarkedSector ==
    ASSUME KInv, Phases, pc = "gc_node" \/ pc \in MvPCs
    PROVE  hdr[gc.sec].dirty = GC
BY MoveInGc DEF KInv, RInv, Marked

\* The end of the last node of a sector that ends by e.
LEMMA EndsByEnd ==
    ASSUME IInv, NEW s \in Sectors, NEW e \in Nat, EndsBy(s, e)
    PROVE  UsedEnd(s) \in Nat /\ UsedEnd(s) <= e
<1>1. CASE hdr[s].store = EMPTY
  BY <1>1 DEF UsedEnd
<1>2. CASE hdr[s].store # EMPTY
  <2>1. /\ UsedEnd(s) \in Nat
        /\ \/ UsedEnd(s) = HdrLen
           \/ \E o \in Offsets : Written(<<s, o>>) /\
                                  UsedEnd(s) = o + Size[node[<<s, o>>].val]
    BY <1>2, UsedEndBounds DEF IInv
  <2>2. QED
    BY <1>2, <2>1 DEF EndsBy
<1>3. QED
  BY <1>1, <1>2

\* Room for every move: a clean sector that ends before the nodes yet to be moved
\* can take the next of them.
LEMMA RoomFound ==
    ASSUME KInv, Phases, MoveNodes, RoomLeft
    PROVE  MovesFindRoom
<1> SUFFICES ASSUME pc = "mv_alloc" PROVE MoveRoom # NoAddr
  BY DEF MovesFindRoom
<1> DEFINE o == mv.src[2]
           len == Size[Moved.val]
<1>1. /\ mv.src \in Addrs /\ Written(mv.src) /\ len \in Nat
      /\ o \in Offsets /\ mv.src = <<gc.sec, o>> /\ gc.sec \in Sectors
  <2>1. mv.src \in Addrs /\ Written(mv.src) /\ len \in Nat
    BY MoveRequest DEF MvPCs, KInv
  <2>2. mv.src[1] = gc.sec
    BY DEF MoveNodes, MvPCs
  <2>3. QED
    BY <2>1, <2>2, PairOf
<1>2. PICK s \in Sectors : RoomIn(s)
  BY DEF RoomLeft, MvPCs
<1>3. hdr[s].dirty = CLEAN /\ EndsBy(s, o)
  <2>1. Front = o
    BY DEF Front
  <2>2. Written(<<gc.sec, o>>) /\ o <= o
    BY <1>1, KvdbAssumption DEF Offsets
  <2>3. QED
    BY <1>1, <1>2, <2>1, <2>2 DEF RoomIn
<1>4. o + len + Threshold < Cap
  <2>1. len = Size[node[<<gc.sec, o>>].val]
    BY <1>1 DEF Moved
  <2>2. QED
    BY <1>1, <2>1 DEF KInv, Laid
<1>5. Fits(s, len)
  <2>1. o \in Nat
    BY <1>1, KvdbAssumption DEF Offsets
  <2>2. UsedEnd(s) \in Nat /\ UsedEnd(s) <= o
    BY <1>3, <2>1, EndsByEnd DEF KInv
  <2>3. Remain(s) > len + Threshold
    BY <1>1, <1>4, <2>1, <2>2, KvdbAssumption DEF Remain
  <2>4. QED
    BY <1>3, <2>3 DEF Fits
<1>6. gcReq
  BY MoveInGc DEF KInv, Phases, MvPCs
<1>7. hdr[s].store \in {EMPTY, USING}
  BY <1>3 DEF EndsBy
<1>8. s \in Candidates(USING, len) \cup Candidates(EMPTY, len)
  BY <1>5, <1>7 DEF Candidates
<1> DEFINE r == FirstFrom(oldest, IF Candidates(USING, len) # {} THEN Candidates(USING, len)
                                  ELSE Candidates(EMPTY, len))
<1>9. MoveRoom = <<r, UsedEnd(r)>> /\ r \in Sectors
  <2>1. MoveRoom = <<r, UsedEnd(r)>>
    BY <1>6, <1>8 DEF MoveRoom, Alloc
  <2>2. r \in Sectors
    BY <1>8, FirstFromIn DEF Candidates, KInv, IInv, TypeOK, TypeRam
  <2>3. QED
    BY <2>1, <2>2
<1>10. QED
  <2> HIDE DEF r
  <2>1. QED
    BY <1>9, KvdbAssumption DEF NoAddr, Sectors

\* A move does not go to a sector that is marked.
LEMMA AllocUnmarked ==
    ASSUME IInv, NEW len, Alloc(len) # NoAddr
    PROVE  hdr[Alloc(len)[1]].dirty # GC
<1> DEFINE inUse == Candidates(USING, len)
           fresh == IF Cardinality(Empties) > 1 \/ gcReq
                    THEN Candidates(EMPTY, len) ELSE {}
           S == IF inUse # {} THEN inUse ELSE fresh
           s == FirstFrom(oldest, S)
<1>1. S # {} /\ Alloc(len) = <<s, UsedEnd(s)>>
  BY DEF Alloc
<1>2. S \in SUBSET Sectors /\ oldest \in Sectors
  BY DEF Candidates, IInv, TypeOK, TypeRam
<1>3. s \in S
  BY <1>1, <1>2, FirstFromIn
<1>4. Fits(s, len)
  BY <1>3 DEF Candidates
<1>5. hdr[s].dirty # GC
  BY <1>4 DEF Fits, CLEAN, DIRTY, GC
<1>6. Alloc(len)[1] = s
  BY <1>1
<1> HIDE DEF s
<1>7. QED
  BY <1>5, <1>6

\* Nothing is left half done, so no boot has anything to recover, and no move
\* fails or is given up.
LEMMA NeverTaken ==
    ASSUME KInv, Uncut
    PROVE  /\ ~MoveFails /\ ~MoveSkip /\ ~MoveDirty /\ ~BootPreDelete /\ ~BootPreWrite
           /\ pc \in {"boot_gc", "boot_kv"} => ~Interrupted /\ Unfinished = {}
<1>1. ~MoveFails
  BY RoomFound DEF MoveFails, MovesFindRoom, Uncut
<1>2. ~MoveSkip
  BY MoveInGc DEF MoveSkip, Superseded, Uncut, Phases, BootPCs, WipePCs, MvPCs, KInv
<1>3. ~MoveDirty
  BY DEF MoveDirty, Uncut, Phases
<1>4. pc \in {"boot_gc", "boot_kv"} => ~Interrupted /\ Unfinished = {}
  BY
     DEF Interrupted, Unfinished, Readable, Uncut, Collected, Statuses, Replacing, MvPCs,
         SetPCs
<1>5. ~BootPreDelete /\ ~BootPreWrite
  BY <1>4 DEF BootPreDelete, BootPreWrite
<1>6. QED
  BY <1>1, <1>2, <1>3, <1>4, <1>5

\* What is left of Next.
QuietSteps ==
    \/ \E k \in Keys, v \in Values : BeginSet(k, v)
    \/ \E k \in Keys : BeginDel(k)
    \/ \E k \in Keys : Get(k)
    \/ BeginReset \/ SetCollect \/ SetFull \/ SetPreDirty \/ SetUsing \/ DelMissing
    \/ DelDirty \/ End \/ FormatAll \/ GcPick \/ GcDone \/ GcFormat \/ MoveStart
    \/ BootScan \/ BootFormat \/ BootHeadersOk \/ BootGc \/ BootKvDone \/ BootCheck \/ Stop
NodeSteps ==
    \/ SetStart \/ SetHeader \/ SetBody \/ SetCommit \/ Delete \/ EraseAll
    \/ GcMove \/ GcErase \/ MoveHeader \/ MoveBody \/ MoveCommit \/ MoveDelete

LEMMA UncutSteps ==
    ASSUME KInv, Uncut, [Next]_vars, cuts' = 0
    PROVE  QuietSteps \/ NodeSteps \/ UNCHANGED vars
<1>1. ~PowerCut
  BY DEF PowerCut, KInv, IInv, TypeOK, TypeLocals
<1>2. QED
  BY <1>1, NeverTaken DEF Next, Caller, Serve, Collect, Boot, QuietSteps, NodeSteps

\* The phases stay.
LEMMA PhasesNext ==
    ASSUME KInv, Uncut, [Next]_vars, cuts' = 0
    PROVE  Phases'
<1> USE DEF Phases, Replacing, SetPCs, GcPCs, MvPCs, BootPCs, WipePCs
<1>0. KInv /\ Phases /\ IInv /\ Control /\ op \in Ops \cup {NoOp} /\ NoOp \notin Ops
      /\ gcReq \in BOOLEAN /\ inRec \in BOOLEAN /\ lastDel \in BOOLEAN
      /\ (InGc <=> pc \in GcPCs \/ mv.ret = "gc_node")
      /\ (InGc <=> pc \in GcPCs \cup MvPCs)
      /\ (InGc' <=> pc' \in GcPCs \/ mv'.ret = "gc_node")
  BY NoOpAssumption, MoveInGc DEF Uncut, KInv, IInv, TypeOK, TypeRequest, TypeRam, InGc
<1>1. CASE \E k \in Keys, v \in Values : BeginSet(k, v)
  <2>1. PICK k \in Keys, v \in Values : BeginSet(k, v)
    BY <1>1
  <2>2. op' \in Ops /\ op' # NoOp
    BY <1>0, <2>1 DEF BeginSet, Ops
  <2>3. QED
    BY <1>0, <2>1, <2>2 DEF BeginSet, Control
<1>2. CASE \E k \in Keys : BeginDel(k)
  <2>1. PICK k \in Keys : BeginDel(k)
    BY <1>2
  <2>2. op' \in Ops /\ op' # NoOp /\ op'.kind = "del"
    BY <1>0, <2>1 DEF BeginDel, Ops
  <2>3. QED
    BY <1>0, <2>1, <2>2 DEF BeginDel, Control
<1>3. CASE \E k \in Keys : Get(k)
  BY <1>3, <1>0 DEF Get, request, Control
<1>4. CASE BeginReset
  <2>1. op' \in Ops /\ op' # NoOp /\ op'.kind = "reset"
    BY <1>0, <1>4 DEF BeginReset, Ops
  <2>2. QED
    BY <1>0, <1>4, <2>1 DEF BeginReset, Control
<1>5. CASE SetCollect
  BY <1>5, <1>0 DEF SetCollect, StartGc, GcIdle, request, Control
<1>6. CASE SetFull
  BY <1>6, <1>0 DEF SetFull, Finish, request, Control
<1>7. CASE SetPreDirty
  BY <1>7, <1>0 DEF SetPreDirty, request, Control
<1>8. CASE SetUsing
  BY <1>8, <1>0 DEF SetUsing, request, Control
<1>9. CASE DelMissing
  BY <1>9, <1>0 DEF DelMissing, Finish, request, Control
<1>10. CASE DelDirty
  BY <1>10, <1>0 DEF DelDirty, request, Control
<1>11. CASE End
  BY <1>11, <1>0 DEF End, StartGc, Finish, request, Control
<1>12. CASE FormatAll
  BY <1>12, <1>0 DEF FormatAll, request, Control
<1>13. CASE GcPick
  BY <1>13, <1>0 DEF GcPick, request, Control
<1>14. CASE GcDone
  BY <1>14, <1>0 DEF GcDone, EndGc, GcIdle, request, Control
<1>15. CASE GcFormat
  <2>1. CASE gc.all
    BY <1>15, <1>0, <2>1 DEF GcFormat, request, Control
  <2>2. CASE ~gc.all
    BY <1>15, <1>0, <2>2 DEF GcFormat, EndGc, GcIdle, request, Control
  <2>3. QED
    BY <2>1, <2>2
<1>16. CASE MoveStart
  BY <1>16, <1>0 DEF MoveStart, request, Control
<1>17. CASE BootScan
  BY <1>17, <1>0 DEF BootScan, request, Control
<1>18. CASE BootFormat
  BY <1>18, <1>0 DEF BootFormat, request, Control
<1>19. CASE BootHeadersOk
  BY <1>19, <1>0 DEF BootHeadersOk, request, Control
<1>20. CASE BootGc
  BY <1>20, <1>0, NeverTaken DEF BootGc, request, Control
<1>21. CASE BootKvDone
  BY <1>21, <1>0 DEF BootKvDone, request, Control
<1>22. CASE BootCheck
  BY <1>22, <1>0 DEF BootCheck, StartGc, request, Control
<1>23. CASE Stop
  <2>1. /\ pc' = "off" /\ op' = NoOp /\ gcReq' = FALSE /\ inRec' = FALSE
        /\ gc'.ret = "idle" /\ mv'.ret = "idle"
    BY <1>23 DEF Stop, LoseRam, GcIdle, MvIdle
  <2>2. lastDel' = FALSE
    <3>1. ~lastDel
      BY <1>23, <1>0 DEF Stop
    <3>2. QED
      BY <1>0, <1>23, <3>1 DEF Stop
  <2>3. QED
    BY <1>0, <2>1, <2>2
<1>24. CASE SetStart
  BY <1>24, <1>0 DEF SetStart, request, Control
<1>25. CASE SetHeader
  BY <1>25, <1>0 DEF SetHeader, request, Control
<1>26. CASE SetBody
  BY <1>26, <1>0 DEF SetBody, request, Control
<1>27. CASE SetCommit
  <2>1. hdr[tgt[1]].store # FULL
    BY <1>27, PairOf DEF SetCommit, Targets, KInv, IInv, Headers
  <2>2. QED
    BY <1>27, <1>0, <2>1 DEF SetCommit, request, Control, SetOps
<1>28. CASE Delete
  BY <1>28, <1>0 DEF Delete, request, Control
<1>29. CASE EraseAll
  BY <1>29, <1>0 DEF EraseAll, request, Control
<1>30. CASE GcMove
  <2>1. node[<<gc.sec, Min(ToMove)>>].st = WRITE
    <3>1. Min(ToMove) \in ToMove
      <4>1. ToMove \in SUBSET Nat /\ ToMove # {}
        BY <1>30, KvdbAssumption DEF GcMove, ToMove, Offsets
      <4>2. QED
        BY <4>1, MinOfNaturals
    <3>2. <<gc.sec, Min(ToMove)>> \in Addrs
      BY <1>30, <1>0, ToMoveFirst DEF GcMove, KInv, IInv, TypeOK, TypeLocals, GcLocals
    <3>3. node[<<gc.sec, Min(ToMove)>>].st # PRE_DELETE
      BY <1>30, <3>2 DEF GcMove, Uncut, Statuses
    <3>4. QED
      BY <3>1, <3>3 DEF ToMove, Readable
  <2>2. gc'.ret = gc.ret /\ mv'.ret = "gc_node" /\ lastDel' = TRUE /\ pc' = "mv_alloc"
    BY <1>30, <2>1 DEF GcMove, KInv, IInv, TypeOK, TypeLocals, GcLocals
  <2>3. pc = "gc_node" /\ op' = op /\ gcReq' = gcReq /\ inRec' = inRec
    BY <1>30 DEF GcMove, request
  <2>4. QED
    BY <1>0, <2>2, <2>3
<1>31. CASE GcErase
  BY <1>31, <1>0 DEF GcErase, request, Control
<1>32. CASE MoveHeader
  BY <1>32, <1>0 DEF MoveHeader, request, Control
<1>33. CASE MoveBody
  BY <1>33, <1>0 DEF MoveBody, request, Control
<1>34. CASE MoveCommit
  BY <1>34, <1>0 DEF MoveCommit, request, Control
<1>35. CASE MoveDelete
  <2>1. hdr[mv.src[1]].dirty # CLEAN
    BY <1>35, <1>0, MarkedSector DEF MoveDelete, Uncut, MoveNodes, GC, CLEAN
  <2>2. QED
    BY <1>35, <1>0, <2>1 DEF MoveDelete, MvIdle, request, Control
<1>36. CASE UNCHANGED vars
  BY <1>36, <1>0 DEF vars
<1>37. QED
  BY <1>1, <1>2, <1>3, <1>4, <1>5, <1>6, <1>7, <1>8, <1>9, <1>10, <1>11, <1>12, <1>13,
     <1>14, <1>15, <1>16, <1>17, <1>18, <1>19, <1>20, <1>21, <1>22, <1>23, <1>24, <1>25,
     <1>26, <1>27, <1>28, <1>29, <1>30, <1>31, <1>32, <1>33, <1>34, <1>35, <1>36, UncutSteps
     DEF QuietSteps, NodeSteps

-----------------------------------------------------------------------------
(* Steps that write no node.                                               *)

\* Where no node is being worked on.
Rest == {"off", "idle", "alloc", "deldirty", "end", "gc_scan", "gc_format"} \cup BootPCs
        \cup WipePCs

\* What find_kv returns between calls is a live node of that name.
LEMMA FindLive ==
    ASSUME KInv, Uncut, pc \in {"idle", "alloc"}, NEW k \in Keys
    PROVE  IF Live(k) = {} THEN Find(k) = NoAddr ELSE Find(k) \in Live(k)
<1>1. Live(k) \in SUBSET Addrs
  BY DEF Live
<1>2. CASE CacheHit(k)
  <2>1. cache[k] \in Addrs /\ node[cache[k]].st = WRITE /\ node[cache[k]].key = k
    BY <1>2 DEF CacheHit, Uncut, Cached, SetPCs, MvPCs, KInv, IInv, TypeOK, TypeRam
  <2>2. node[cache[k]].crc = "good"
    BY <2>1, HolderWhole DEF Holds
  <2>3. cache[k] \in Live(k)
    BY <2>1, <2>2 DEF Live, Readable
  <2>4. QED
    BY <1>2, <2>3 DEF Find
<1>3. CASE ~CacheHit(k)
  <2>1. Live(k) # {} => FirstNode(Live(k)) \in Live(k)
    BY <1>1, FirstNodeIn DEF KInv, IInv, TypeOK, TypeRam
  <2>2. QED
    BY <1>3, <2>1 DEF Find, Scan
<1>4. QED
  BY <1>2, <1>3

\* Where there is nothing live at rest there is no holder.
LEMMA LiveHolder ==
    ASSUME KInv, Uncut, pc \in {"idle", "alloc"}, NEW k
    PROVE  /\ \A a \in Live(k) : a \in Addrs /\ node[a].st = WRITE /\ node[a].key = k
           /\ Live(k) = {} => NoHolder(k)
<1>1. \A a \in Live(k) : a \in Addrs /\ node[a].st = WRITE /\ node[a].key = k
  BY DEF Live, Readable
<1>2. ASSUME NEW a \in Addrs, Holds(a), node[a].key = k
      PROVE  a \in Live(k)
  <2>1. node[a].st # PRE_DELETE
    BY DEF Uncut, Statuses, Replacing, SetPCs, MvPCs
  <2>2. QED
    BY <1>2, <2>1, HolderWhole DEF Holds, Live, Readable
<1>3. QED
  BY <1>1, <1>2 DEF NoHolder

\* The cache learns live nodes only.
Learns == \A k \in Keys : cache'[k] \in {NoAddr, cache[k]} \/ cache'[k] \in Live(k)

LEMMA FindLearns ==
    ASSUME KInv, Uncut, pc \in {"idle", "alloc"}, NEW f \in Keys, cache' = CacheAfterFind(f)
    PROVE  Learns
<1>1. \A k \in Keys : k # f => cache'[k] = cache[k]
  BY DEF CacheAfterFind, KInv, IInv, TypeOK, TypeRam
<1>2. cache'[f] = IF Find(f) = NoAddr THEN cache[f] ELSE Find(f)
  BY DEF CacheAfterFind, KInv, IInv, TypeOK, TypeRam
<1>3. QED
  BY <1>1, <1>2, FindLive DEF Learns

LEMMA LoadLearns ==
    ASSUME KInv, NEW before, cache' = CacheLoaded(before)
    PROVE  Learns
<1> SUFFICES ASSUME NEW k \in Keys, Live(k) \cap before # {}
             PROVE  LastNode(Live(k) \cap before) \in Live(k)
  BY DEF CacheLoaded, Learns
<1>1. Live(k) \cap before \in SUBSET Addrs
  BY DEF Live
<1>2. QED
  BY <1>1, LastNodeIn DEF KInv, IInv, TypeOK, TypeRam

\* The kinds of steps that write no node.
AtRest  == pc \in Rest \cup {"missing"} /\ pc' \in Rest /\ Learns
SetGoes == /\ pc \in {"predirty", "using"} /\ pc' \in {"using", "header"}
           /\ UNCHANGED <<request, cache, mv>>
Begins  == \E k \in Keys : BeginDel(k)

LEMMA QuietKinds ==
    ASSUME KInv, Uncut, QuietSteps
    PROVE  /\ node' = node
           /\ AtRest \/ SetGoes \/ MoveStart \/ GcPick \/ Begins
<1> USE DEF Rest, BootPCs, WipePCs
<1>0. gc.ret \in {"idle", "alloc"} /\ (pc \in GcPCs => gc.ret = "alloc")
      /\ (cache' = cache => Learns) /\ (cache' = [k \in Keys |-> NoAddr] => Learns)
  BY DEF Uncut, Phases, KInv, IInv, Control, Learns
<1>1. CASE \E k \in Keys : Get(k)
  <2>1. PICK k \in Keys : Get(k)
    BY <1>1
  <2>2. pc = "idle" /\ pc' = "idle" /\ node' = node /\ cache' = CacheAfterFind(k)
    BY <2>1 DEF Get, flash
  <2>3. QED
    BY <2>2, FindLearns DEF AtRest
<1>2. CASE BootKvDone
  <2>1. pc = "boot_kv" /\ pc' = "boot_check" /\ node' = node
        /\ cache' = CacheLoaded({b \in Addrs : Ahead(b)})
    BY <1>2 DEF BootKvDone, flash
  <2>2. QED
    BY <2>1, LoadLearns DEF AtRest
<1>3. CASE GcDone \/ GcFormat
  BY <1>3, <1>0 DEF GcDone, GcFormat, EndGc, GcPCs, flash, AtRest
<1>4. CASE SetPreDirty \/ SetUsing
  BY <1>4 DEF SetPreDirty, SetUsing, SetGoes
<1>5. CASE \/ \E k \in Keys, v \in Values : BeginSet(k, v)
           \/ BeginReset \/ DelMissing \/ DelDirty
  BY <1>5, <1>0 DEF BeginSet, BeginReset, DelMissing, DelDirty, Finish, flash, AtRest
<1>6. CASE SetCollect \/ SetFull \/ End
  BY <1>6, <1>0 DEF SetCollect, SetFull, End, StartGc, Finish, flash, AtRest
<1>7. CASE FormatAll \/ BootScan \/ BootFormat \/ BootHeadersOk \/ Stop
  BY <1>7, <1>0
     DEF FormatAll, BootScan, BootFormat, BootHeadersOk, Stop, LoseRam, flash, AtRest
<1>8. CASE BootGc \/ BootCheck
  BY <1>8, <1>0 DEF BootGc, BootCheck, StartGc, flash, AtRest
<1>9. CASE Begins \/ GcPick \/ MoveStart
  BY <1>9 DEF Begins, BeginDel, GcPick, MoveStart, flash
<1>10. QED
  BY <1>1, <1>2, <1>3, <1>4, <1>5, <1>6, <1>7, <1>8, <1>9 DEF QuietSteps, Begins

\* At rest every node is live or deleted.
LEMMA NodesAtRest ==
    ASSUME Uncut, pc \in Rest \cup {"missing", "gc_node"}
    PROVE  /\ \A a \in Addrs : node[a].st \notin {PRE_WRITE, PRE_DELETE, ERR_HDR}
           /\ \A a, b \in Addrs : Holds(a) /\ Holds(b) /\ node[a].key = node[b].key => a = b
           /\ \A k \in Keys : CacheHit(k) => node[cache[k]].st = WRITE
BY DEF Uncut, Statuses, Replacing, OneHolder, Pair, Cached, Rest, SetPCs, MvPCs, BootPCs,
   WipePCs

\* A step that leaves the nodes alone and the cache without new dead entries.
LEMMA CacheStays ==
    ASSUME Uncut, pc \in Rest \cup {"missing"}, node' = node, Learns, NEW k \in Keys,
           CacheHit(k)'
    PROVE  node'[cache'[k]].st = WRITE
<1>1. CASE cache'[k] = cache[k]
  <2>1. CacheHit(k)
    BY <1>1 DEF CacheHit, Written
  <2>2. QED
    BY <1>1, <2>1, NodesAtRest
<1>2. CASE cache'[k] = NoAddr
  BY <1>2 DEF CacheHit
<1>3. CASE cache'[k] \in Live(k)
  BY <1>3 DEF Live, Readable
<1>4. QED
  BY <1>1, <1>2, <1>3 DEF Learns

LEMMA AtRestStep ==
    ASSUME KInv, Uncut, node' = node, AtRest
    PROVE  Statuses' /\ RequestNodes' /\ MoveNodes' /\ OneHolder' /\ Cached'
<1>1. pc' \notin (SetPCs \ {"alloc"}) \cup MvPCs \cup {"missing", "delete", "gc_node"}
  BY DEF AtRest, Rest, SetPCs, MvPCs, BootPCs, WipePCs
<1>2. pc \in Rest \cup {"missing"} /\ Learns
  BY DEF AtRest
<1>3. Statuses'
  BY <1>2, NodesAtRest DEF Statuses
<1>4. RequestNodes' /\ MoveNodes'
  BY <1>1 DEF RequestNodes, MoveNodes, Replacing, SetPCs, MvPCs
<1>5. OneHolder'
  BY <1>2, NodesAtRest DEF OneHolder, Holds
<1>6. Cached'
  BY <1>1, <1>2, CacheStays DEF Cached, SetPCs, MvPCs
<1>7. QED
  BY <1>3, <1>4, <1>5, <1>6

LEMMA SetGoesStep ==
    ASSUME KInv, Uncut, node' = node, SetGoes
    PROVE  Statuses' /\ RequestNodes' /\ MoveNodes' /\ OneHolder' /\ Cached'
<1>1. /\ pc \in {"predirty", "using"} /\ pc' \in {"using", "header"}
      /\ old' = old /\ op' = op /\ tgt' = tgt /\ cache' = cache
  BY DEF SetGoes, request
<1>2. Replacing <=> old # NoAddr
  BY <1>1 DEF Replacing, SetPCs
<1>3. Replacing' <=> old # NoAddr
  BY <1>1 DEF Replacing, SetPCs
<1>4. Statuses'
  BY <1>1, <1>2, <1>3 DEF Uncut, Statuses, MvPCs
<1>5. RequestNodes'
  BY <1>1, <1>2, <1>3 DEF Uncut, RequestNodes, SetPCs, NoHolder, Holds
<1>6. MoveNodes'
  BY <1>1 DEF MoveNodes, MvPCs
<1>7. OneHolder'
  BY <1>1 DEF Uncut, OneHolder, Pair, Holds
<1>8. Cached'
  BY <1>1 DEF Uncut, Cached, CacheHit, Written, SetPCs, MvPCs
<1>9. QED
  BY <1>4, <1>5, <1>6, <1>7, <1>8

LEMMA GcPickStep ==
    ASSUME KInv, Uncut, GcPick
    PROVE  Statuses' /\ RequestNodes' /\ MoveNodes' /\ OneHolder' /\ Cached'
<1>1. pc \in Rest /\ pc' = "gc_node" /\ node' = node /\ cache' = cache
  BY DEF GcPick, Rest
<1>2. Learns
  BY <1>1 DEF Learns
<1>3. Statuses' /\ OneHolder'
  BY <1>1, NodesAtRest DEF Statuses, OneHolder, Holds
<1>4. RequestNodes' /\ MoveNodes'
  BY <1>1 DEF RequestNodes, MoveNodes, Replacing, SetPCs, MvPCs
<1>5. Cached'
  BY <1>1, <1>2, CacheStays DEF Cached, SetPCs, MvPCs
<1>6. QED
  BY <1>3, <1>4, <1>5

LEMMA BeginDelStep ==
    ASSUME KInv, Uncut, NEW k \in Keys, BeginDel(k)
    PROVE  Statuses' /\ RequestNodes' /\ MoveNodes' /\ OneHolder' /\ Cached'
<1>1. /\ pc = "idle" /\ pc \in Rest /\ node' = node /\ cache' = CacheAfterFind(k)
      /\ pc' = IF old' = NoAddr THEN "missing" ELSE "delete"
      /\ old' = Find(k) /\ op'.kind = "del" /\ op'.key = k
  BY DEF BeginDel, Rest, flash
<1>2. Learns
  BY <1>1, FindLearns
<1>3. Statuses' /\ OneHolder'
  BY <1>1, NodesAtRest DEF Statuses, OneHolder, Holds
<1>4. MoveNodes'
  BY <1>1 DEF MoveNodes, MvPCs
<1>5. RequestNodes'
  <2>1. CASE old' = NoAddr
    <3>1. Live(k) = {}
      <4>1. NoAddr \notin Addrs
        BY KvdbAssumption DEF NoAddr, Addrs, Sectors
      <4>2. QED
        BY <1>1, <2>1, <4>1, FindLive DEF Live
    <3>2. NoHolder(k)
      BY <1>1, <3>1, LiveHolder
    <3>3. NoHolder(k)'
      BY <1>1, <3>2 DEF NoHolder, Holds
    <3>4. NoHolder(op.key)'
      BY <1>1, <3>3 DEF NoHolder, Holds
    <3>5. QED
      BY <1>1, <2>1, <3>4 DEF RequestNodes, Replacing, SetPCs
  <2>2. CASE old' # NoAddr
    <3>1. old' \in Live(k)
      BY <1>1, <2>2, FindLive
    <3>2. node'[old'].st = WRITE /\ node'[old'].key = k
      BY <1>1, <3>1, LiveHolder
    <3>3. QED
      BY <1>1, <2>2, <3>2 DEF RequestNodes, Replacing, SetPCs
  <2>3. QED
    BY <2>1, <2>2
<1>6. Cached'
  BY <1>1, <1>2, CacheStays DEF Cached
<1>7. QED
  BY <1>3, <1>4, <1>5, <1>6

LEMMA MoveStartStep ==
    ASSUME KInv, Uncut, MoveStart
    PROVE  Statuses' /\ RequestNodes' /\ MoveNodes' /\ OneHolder' /\ Cached'
<1>1. /\ pc = "mv_alloc" /\ pc' = "mv_header" /\ node' = node /\ cache' = cache
      /\ mv'.src = mv.src /\ mv'.dst = MoveRoom /\ gc' = gc
  <2>1. mv \in MvLocals
    BY DEF KInv, IInv, TypeOK, TypeLocals
  <2>2. QED
    BY <2>1 DEF MoveStart, MvLocals
<1>2. Statuses'
  BY <1>1 DEF Uncut, Statuses, MvPCs, Replacing, SetPCs
<1>3. RequestNodes'
  BY <1>1 DEF RequestNodes, Replacing, SetPCs
<1>4. MoveNodes'
  <2>1. MoveRoom \in Addrs
    BY MoveStartResult DEF KInv, Beyond
  <2>2. MoveRoom[1] # gc.sec
    BY <1>1, AllocUnmarked, MarkedSector DEF MoveStart, MoveRoom, KInv, Uncut, MvPCs
  <2>3. QED
    BY <1>1, <2>1, <2>2 DEF Uncut, MoveNodes, MvPCs
<1>5. OneHolder'
  BY <1>1 DEF Uncut, OneHolder, Pair, Holds
<1>6. Cached'
  BY <1>1 DEF Uncut, Cached, CacheHit, Written, SetPCs, MvPCs
<1>7. QED
  BY <1>2, <1>3, <1>4, <1>5, <1>6

LEMMA QuietNodes ==
    ASSUME KInv, Uncut, QuietSteps
    PROVE  Statuses' /\ RequestNodes' /\ MoveNodes' /\ OneHolder' /\ Cached'
BY QuietKinds, AtRestStep, SetGoesStep, GcPickStep, BeginDelStep, MoveStartStep DEF Begins

-----------------------------------------------------------------------------
(* Steps of a call that write a node.                                      *)

Nodes == Statuses /\ RequestNodes /\ MoveNodes /\ OneHolder /\ Cached

\* What a step that works on no move leaves of MoveNodes.
LEMMA NoMove ==
    ASSUME pc' \notin MvPCs
    PROVE  MoveNodes'
BY DEF MoveNodes, MvPCs

LEMMA NoRequest ==
    ASSUME pc' \notin SetPCs \ {"alloc"}, pc' \notin {"missing", "delete"}
    PROVE  RequestNodes'
BY DEF RequestNodes, Replacing, SetPCs

\* What find_kv returned to the set is the live node of its key, now marked.
LEMMA SetStartEffect ==
    ASSUME KInv, Uncut, SetStart, old' # NoAddr
    PROVE  \E f \in Addrs : /\ f = old' /\ Written(f)
                            /\ node[f].st = WRITE /\ node[f].key = op.key
                            /\ \A b \in Addrs : b # f => node'[b] = node[b]
                            /\ node'[f].st = PRE_DELETE /\ node'[f].key = op.key
                            /\ node'[f].val = node[f].val
<1>1. pc = "alloc" /\ op.key \in Keys /\ old' = Find(op.key)
  BY SetRequest DEF SetStart, SetPCs, KInv
<1>2. old' \in Live(op.key)
  BY <1>1, FindLive
<1>3. PICK f \in Addrs : f = old' /\ node[f].st = WRITE /\ node[f].key = op.key
  BY <1>1, <1>2, LiveHolder
<1>4. Written(f) /\ SetStatus(f, PRE_DELETE)
  BY <1>3, SetStartResult DEF KInv
<1>5. PRE_DELETE \in 1..5 /\ Program(WRITE, PRE_DELETE) = PRE_DELETE
  BY DEF PRE_DELETE, WRITE, Program
<1>6. /\ \A b \in Addrs : b # f => node'[b] = node[b]
      /\ node'[f].st = PRE_DELETE /\ node'[f].key = op.key /\ node'[f].val = node[f].val
  BY <1>3, <1>4, <1>5, StatusEffect DEF KInv, IInv
<1>7. QED
  BY <1>3, <1>4, <1>6

\* find_kv, and the mark on the old node.
LEMMA SetStartStep ==
    ASSUME KInv, Uncut, SetStart
    PROVE  Nodes'
<1>1. /\ pc = "alloc" /\ pc' \in {"predirty", "using"} /\ pc \in Rest
      /\ op' = op /\ op.key \in Keys /\ old' = Find(op.key)
      /\ cache' = CacheAfterFind(op.key)
  BY SetRequest DEF SetStart, Rest, SetPCs, KInv
<1>2. MoveNodes'
  BY <1>1, NoMove DEF MvPCs
<1>3. \A k \in Keys : k # op.key => cache'[k] = cache[k]
  BY <1>1 DEF CacheAfterFind, KInv, IInv, TypeOK, TypeRam
<1>4. CASE old' = NoAddr
  <2>1. node' = node
    BY <1>4, SetStartResult DEF KInv
  <2>2. NoHolder(op.key)
    <3>1. NoAddr \notin Addrs
      BY KvdbAssumption DEF NoAddr, Addrs, Sectors
    <3>2. Live(op.key) = {}
      BY <1>1, <1>4, <3>1, FindLive DEF Live
    <3>3. QED
      BY <1>1, <3>2, LiveHolder
  <2>3. Statuses' /\ OneHolder'
    BY <1>1, <2>1, NodesAtRest DEF Statuses, OneHolder, Holds
  <2>4. RequestNodes'
    BY <1>1, <1>4, <2>1, <2>2 DEF RequestNodes, Replacing, NoHolder, Holds, SetPCs
  <2>5. Learns
    BY <1>1, FindLearns
  <2>6. Cached'
    BY <1>1, <2>1, <2>5, CacheStays DEF Cached
  <2>7. QED
    BY <1>2, <2>3, <2>4, <2>6 DEF Nodes
<1>5. CASE old' # NoAddr
  <2>1. PICK f \in Addrs : /\ f = old' /\ Written(f)
                           /\ node[f].st = WRITE /\ node[f].key = op.key
                           /\ \A b \in Addrs : b # f => node'[b] = node[b]
                           /\ node'[f].st = PRE_DELETE /\ node'[f].key = op.key
                           /\ node'[f].val = node[f].val
    BY <1>5, SetStartEffect
  <2>2. Replacing'
    BY <1>1, <1>5 DEF Replacing, SetPCs
  <2>3. Statuses'
    BY <1>1, <2>1, <2>2, NodesAtRest DEF Statuses, PRE_WRITE, PRE_DELETE, ERR_HDR
  <2>4. RequestNodes'
    BY <1>1, <1>5, <2>1, <2>2 DEF RequestNodes, SetPCs
  <2>5. OneHolder'
    BY <1>1, <2>1, NodesAtRest DEF OneHolder, Holds
  <2>6. Cached'
    <3>1. ASSUME NEW k \in Keys, CacheHit(k)', k # op.key
          PROVE  node'[cache'[k]].st = WRITE
      <4>1. cache'[k] = cache[k] /\ cache[k] \in Addrs
        BY <1>3, <3>1 DEF CacheHit, KInv, IInv, TypeOK, TypeRam
      <4>2. cache[k] # f
        BY <2>1, <3>1, <4>1 DEF CacheHit
      <4>3. CacheHit(k) /\ node'[cache[k]] = node[cache[k]]
        BY <2>1, <3>1, <4>1, <4>2 DEF CacheHit, Written
      <4>4. QED
        BY <1>1, <4>1, <4>3, NodesAtRest
    <3>2. QED
      BY <1>1, <3>1 DEF Cached, SetPCs
  <2>7. QED
    BY <1>2, <2>3, <2>4, <2>5, <2>6 DEF Nodes
<1>6. QED
  BY <1>4, <1>5

\* The header of the new node.
LEMMA SetHeaderStep ==
    ASSUME KInv, Uncut, SetHeader
    PROVE  Nodes'
<1>1. /\ pc = "header" /\ pc' = "body" /\ op' = op /\ old' = old /\ tgt' = tgt
      /\ cache' = cache
  BY DEF SetHeader, request
<1>2. op.key \in Keys /\ op.val \in Values /\ tgt \in Addrs /\ ~Written(tgt)
  BY <1>1, SetRequest, BeyondBlank DEF SetPCs, KInv, IInv, Targets
<1>3. /\ \A b \in Addrs : b # tgt => node'[b] = node[b]
      /\ node'[tgt].st = PRE_WRITE /\ node'[tgt].key = op.key /\ node'[tgt].val = op.val
  BY <1>2 DEF SetHeader, KInv, IInv, TypeOK, TypeFlash
<1>4. (Replacing <=> old # NoAddr) /\ (Replacing' <=> old # NoAddr)
  BY <1>1 DEF Replacing, SetPCs
<1>5. old # NoAddr => old \in Addrs /\ old # tgt
  BY <1>1, <1>2 DEF KInv, IInv, Targets, TypeOK, TypeRequest, SetPCs
<1>6. MoveNodes'
  BY <1>1, NoMove DEF MvPCs
<1>7. Statuses'
  BY <1>1, <1>2, <1>3, <1>4 DEF Uncut, Statuses, MvPCs, PRE_WRITE, PRE_DELETE, ERR_HDR
<1>8. RequestNodes'
  <2>1. old = NoAddr => NoHolder(op.key)'
    BY <1>1, <1>2, <1>3
       DEF Uncut, RequestNodes, NoHolder, Holds, SetPCs, PRE_WRITE, WRITE, PRE_DELETE
  <2>2. QED
    BY <1>1, <1>2, <1>3, <1>4, <1>5, <2>1 DEF Uncut, RequestNodes, NoHolder, Holds, SetPCs
<1>9. OneHolder'
  BY <1>1, <1>2, <1>3 DEF Uncut, OneHolder, Pair, Holds, PRE_WRITE, WRITE, PRE_DELETE
<1>10. Cached'
  <2>1. ASSUME NEW k \in Keys, CacheHit(k)', k # op.key
        PROVE  node'[cache'[k]].st = WRITE
    <3>1. cache[k] \in Addrs /\ cache[k] # tgt
      BY <1>1, <1>3, <2>1 DEF CacheHit, KInv, IInv, TypeOK, TypeRam
    <3>2. CacheHit(k) /\ node'[cache[k]] = node[cache[k]]
      BY <1>1, <1>3, <2>1, <3>1 DEF CacheHit, Written
    <3>3. QED
      BY <1>1, <2>1, <3>2 DEF Uncut, Cached, MvPCs
  <2>2. QED
    BY <1>1, <2>1 DEF Cached, SetPCs
<1>11. QED
  BY <1>6, <1>7, <1>8, <1>9, <1>10 DEF Nodes

\* A body leaves the status, the key and the value of every node.
LEMMA BodySame ==
    ASSUME KInv, NEW a \in Addrs, Written(a), node' = [node EXCEPT ![a].crc = "good"]
    PROVE  \A b \in Addrs : /\ node'[b].st = node[b].st
                            /\ Written(b) => /\ node'[b].key = node[b].key
                                             /\ node'[b].val = node[b].val
BY BodyEffect DEF KInv, IInv

\* Name and value of the new node, and its address in the cache.
LEMMA SetBodyStep ==
    ASSUME KInv, Uncut, SetBody
    PROVE  Nodes'
<1>1. /\ pc = "body" /\ pc' = "commit" /\ op' = op /\ old' = old /\ tgt' = tgt
      /\ cache' = [cache EXCEPT ![op.key] = tgt] /\ op.key \in Keys
      /\ tgt \in Addrs /\ Written(tgt)
  BY SetRequest DEF SetBody, request, SetPCs, KInv, IInv, Targets
<1>2. \A b \in Addrs : /\ node'[b].st = node[b].st
                       /\ Written(b) => node'[b].key = node[b].key /\ node'[b].val = node[b].val
  BY <1>1, BodySame DEF SetBody
<1>3. (Replacing <=> old # NoAddr) /\ (Replacing' <=> old # NoAddr)
  BY <1>1 DEF Replacing, SetPCs
<1>4. \A b \in Addrs : (Holds(b)' <=> Holds(b)) /\ (Holds(b) => Written(b))
  BY <1>2 DEF Holds, Written, WRITE, PRE_DELETE
<1>5. MoveNodes'
  BY <1>1, NoMove DEF MvPCs
<1>6. Statuses'
  BY <1>1, <1>2, <1>3 DEF Uncut, Statuses, MvPCs
<1>7. RequestNodes'
  <2>1. old = NoAddr => NoHolder(op.key)'
    BY <1>1, <1>2, <1>4 DEF Uncut, RequestNodes, NoHolder, SetPCs
  <2>2. old # NoAddr => old \in Addrs /\ Written(old)
    BY <1>1 DEF KInv, IInv, Targets, TypeOK, TypeRequest, SetPCs
  <2>3. QED
    BY <1>1, <1>2, <1>3, <2>1, <2>2 DEF Uncut, RequestNodes, NoHolder, Holds, SetPCs
<1>8. OneHolder'
  BY <1>1, <1>2, <1>4 DEF Uncut, OneHolder, Pair
<1>9. Cached'
  <2>1. cache'[op.key] = tgt /\ \A k \in Keys : k # op.key => cache'[k] = cache[k]
    BY <1>1 DEF KInv, IInv, TypeOK, TypeRam
  <2>2. ASSUME NEW k \in Keys, CacheHit(k)', k # op.key
        PROVE  node'[cache'[k]].st = WRITE
    <3>1. cache'[k] = cache[k] /\ cache[k] \in Addrs
      BY <2>1, <2>2 DEF CacheHit, KInv, IInv, TypeOK, TypeRam
    <3>2. CacheHit(k)
      BY <1>2, <2>2, <3>1 DEF CacheHit, Written
    <3>3. node[cache[k]].st = WRITE
      BY <1>1, <2>2, <3>2 DEF Uncut, Cached, MvPCs
    <3>4. QED
      BY <1>2, <3>1, <3>3
  <2>3. QED
    BY <1>1, <2>1, <2>2 DEF Cached, SetPCs
<1>10. QED
  BY <1>5, <1>6, <1>7, <1>8, <1>9 DEF Nodes

\* The new node becomes live.
LEMMA CommitEffect ==
    ASSUME KInv, Uncut, SetCommit
    PROVE  /\ pc = "commit" /\ pc' = IF old = NoAddr THEN "end" ELSE "delete"
           /\ op' = op /\ old' = old /\ tgt' = tgt /\ cache' = cache
           /\ op.key \in Keys /\ op.val \in Values /\ op.kind = "set"
           /\ tgt \in Addrs /\ Written(tgt) /\ node[tgt].st = PRE_WRITE
           /\ node[tgt].key = op.key /\ node[tgt].val = op.val
           /\ cache[op.key] = tgt
           /\ \A b \in Addrs : b # tgt => node'[b] = node[b]
           /\ node'[tgt].st = WRITE /\ node'[tgt].key = op.key /\ node'[tgt].val = op.val
<1>1. /\ pc = "commit" /\ pc' = IF old = NoAddr THEN "end" ELSE "delete"
      /\ op' = op /\ old' = old /\ tgt' = tgt /\ cache' = cache
      /\ op.key \in Keys /\ op.val \in Values /\ op.kind = "set"
      /\ tgt \in Addrs /\ Written(tgt) /\ node[tgt].st = PRE_WRITE
      /\ node[tgt].key = op.key /\ node[tgt].val = op.val
      /\ cache[op.key] = tgt
  BY SetRequest
     DEF SetCommit, request, SetPCs, KInv, IInv, Targets, Uncut, RequestNodes, Cached
<1>2. WRITE \in 1..5 /\ Program(PRE_WRITE, WRITE) = WRITE
  BY DEF WRITE, PRE_WRITE, Program
<1>3. QED
  BY <1>1, <1>2, StatusEffect DEF SetCommit, KInv, IInv

LEMMA SetCommitStep ==
    ASSUME KInv, Uncut, SetCommit
    PROVE  Nodes'
<1>1. /\ pc = "commit" /\ pc' = IF old = NoAddr THEN "end" ELSE "delete"
      /\ op' = op /\ old' = old /\ tgt' = tgt /\ cache' = cache
      /\ op.key \in Keys /\ op.kind = "set"
      /\ tgt \in Addrs /\ Written(tgt) /\ node[tgt].st = PRE_WRITE
      /\ node[tgt].key = op.key /\ node[tgt].val = op.val
      /\ cache[op.key] = tgt
  BY CommitEffect
<1>2. /\ \A b \in Addrs : b # tgt => node'[b] = node[b]
      /\ node'[tgt].st = WRITE /\ node'[tgt].key = op.key /\ node'[tgt].val = op.val
  BY CommitEffect
<1>3. (Replacing <=> old # NoAddr) /\ (Replacing' <=> old # NoAddr)
  BY <1>1 DEF Replacing, SetPCs
<1>4. old # NoAddr => /\ old \in Addrs /\ old # tgt
                      /\ node[old].st = PRE_DELETE /\ node[old].key = op.key
  BY <1>1, <1>3 DEF Uncut, RequestNodes, KInv, IInv, TypeOK, TypeRequest, PRE_WRITE, PRE_DELETE
<1>5. MoveNodes'
  BY <1>1, NoMove DEF MvPCs
<1>6. Statuses'
  BY <1>1, <1>2, <1>3 DEF Uncut, Statuses, MvPCs, WRITE, PRE_WRITE, PRE_DELETE, ERR_HDR
<1>7. RequestNodes'
  BY <1>1, <1>2, <1>3, <1>4 DEF RequestNodes, SetPCs
<1>8. OneHolder'
  <2>1. \A b \in Addrs : b # tgt /\ Holds(b) /\ node[b].key = op.key => b = old /\ old # NoAddr
    BY <1>1, <1>4 DEF Uncut, RequestNodes, NoHolder, OneHolder, Pair, Holds, SetPCs
  <2>2. SUFFICES ASSUME NEW a \in Addrs, NEW b \in Addrs, Holds(a)', Holds(b)',
                        node'[a].key = node'[b].key, a # b
                 PROVE  Pair(a, b)'
    BY DEF OneHolder
  <2>3. CASE a = tgt
    <3>1. b = old /\ old # NoAddr
      BY <1>2, <2>1, <2>2, <2>3 DEF Holds
    <3>2. QED
      BY <1>1, <2>3, <3>1 DEF Pair
  <2>4. CASE b = tgt
    <3>1. a = old /\ old # NoAddr
      BY <1>2, <2>1, <2>2, <2>4 DEF Holds
    <3>2. QED
      BY <1>1, <2>4, <3>1 DEF Pair
  <2>5. CASE a # tgt /\ b # tgt
    BY <1>1, <1>2, <2>2, <2>5 DEF Uncut, OneHolder, Holds, Pair
  <2>6. QED
    BY <2>3, <2>4, <2>5
<1>9. Cached'
  <2>1. ASSUME NEW k \in Keys, CacheHit(k)'
        PROVE  node'[cache'[k]].st = WRITE
    <3>1. CASE cache[k] = tgt
      BY <1>1, <1>2, <3>1
    <3>2. CASE cache[k] # tgt
      <4>1. cache[k] \in Addrs
        BY <1>1, <2>1 DEF CacheHit, KInv, IInv, TypeOK, TypeRam
      <4>2. CacheHit(k) /\ node'[cache[k]] = node[cache[k]] /\ k # op.key
        BY <1>1, <1>2, <2>1, <3>2, <4>1 DEF CacheHit, Written
      <4>3. QED
        BY <1>1, <4>2 DEF Uncut, Cached, MvPCs
    <3>3. QED
      BY <3>1, <3>2
  <2>2. QED
    BY <1>1, <2>1 DEF Cached
<1>10. QED
  BY <1>5, <1>6, <1>7, <1>8, <1>9 DEF Nodes

\* The old node is deleted.
LEMMA DeleteEffect ==
    ASSUME KInv, Uncut, Delete
    PROVE  /\ pc = "delete" /\ pc' \in {"deldirty", "end"}
           /\ op' = op /\ old' = old /\ tgt' = tgt /\ cache' = CacheAfterDelete(op.key)
           /\ old # NoAddr /\ old \in Addrs /\ Written(old)
           /\ op.kind \in {"set", "del"}
           /\ op.kind = "set" <=> lastDel
           /\ node[old].key = op.key
           /\ node[old].st = IF op.kind = "set" THEN PRE_DELETE ELSE WRITE
           /\ \A b \in Addrs : b # old => node'[b] = node[b]
           /\ node'[old].st = DELETED /\ node'[old].key = op.key
<1>1. /\ pc = "delete" /\ pc' \in {"deldirty", "end"}
      /\ op' = op /\ old' = old /\ tgt' = tgt /\ cache' = CacheAfterDelete(op.key)
      /\ old # NoAddr /\ old \in Addrs /\ Written(old)
      /\ op.kind \in {"set", "del"}
  BY DEF Delete, request, KInv, IInv, Targets, TypeOK, TypeRequest, Uncut, Phases
<1>2. (op.kind = "set" <=> Replacing) /\ (op.kind = "set" <=> lastDel)
  BY <1>1 DEF Replacing, SetPCs, MvPCs, Uncut, Phases
<1>3. /\ node[old].key = op.key
      /\ node[old].st = IF op.kind = "set" THEN PRE_DELETE ELSE WRITE
  BY <1>1, <1>2 DEF Uncut, RequestNodes
<1>4. DELETED \in 1..5 /\ Program(PRE_DELETE, DELETED) = DELETED
      /\ Program(WRITE, DELETED) = DELETED
  BY DEF WRITE, PRE_DELETE, DELETED, Program
<1>5. /\ \A b \in Addrs : b # old => node'[b] = node[b]
      /\ node'[old].st = DELETED /\ node'[old].key = op.key
  BY <1>1, <1>3, <1>4, StatusEffect DEF Delete, KInv, IInv
<1>6. QED
  BY <1>1, <1>2, <1>3, <1>5

LEMMA DeleteStep ==
    ASSUME KInv, Uncut, Delete
    PROVE  Nodes'
<1>1. /\ pc = "delete" /\ pc' \in {"deldirty", "end"}
      /\ op' = op /\ old' = old /\ tgt' = tgt /\ cache' = CacheAfterDelete(op.key)
      /\ old # NoAddr /\ old \in Addrs /\ Written(old)
      /\ op.kind \in {"set", "del"}
  BY DeleteEffect
<1>2. op.kind = "set" <=> lastDel
  BY DeleteEffect
<1>3. /\ node[old].key = op.key
      /\ node[old].st = IF op.kind = "set" THEN PRE_DELETE ELSE WRITE
  BY DeleteEffect
<1>4. /\ \A b \in Addrs : b # old => node'[b] = node[b]
      /\ node'[old].st = DELETED /\ node'[old].key = op.key
  BY DeleteEffect
<1>5. MoveNodes' /\ RequestNodes'
  BY <1>1, NoMove, NoRequest DEF MvPCs, SetPCs
<1>6. Statuses'
  BY <1>1, <1>4 DEF Uncut, Statuses, Replacing, MvPCs, DELETED, PRE_WRITE, PRE_DELETE, ERR_HDR
<1>7. OneHolder'
  <2>1. SUFFICES ASSUME NEW a \in Addrs, NEW b \in Addrs, Holds(a)', Holds(b)',
                        node'[a].key = node'[b].key
                 PROVE  a = b
    BY DEF OneHolder
  <2>2. a # old /\ b # old /\ node'[a] = node[a] /\ node'[b] = node[b]
    BY <1>4, <2>1 DEF Holds, WRITE, PRE_DELETE, DELETED
  <2>3. a = b \/ {a, b} = {old, tgt}
    BY <1>1, <2>1, <2>2 DEF Uncut, OneHolder, Holds, Pair
  <2>4. QED
    BY <2>2, <2>3
<1>8. Cached'
  <2>1. ASSUME NEW k \in Keys, CacheHit(k)'
        PROVE  node'[cache'[k]].st = WRITE
    <3>1. cache'[k] = cache[k] /\ (op.kind = "del" => k # op.key)
      BY <1>1, <1>2, <2>1 DEF CacheAfterDelete, CacheHit, KInv, IInv, TypeOK, TypeRam
    <3>2. cache[k] \in Addrs
      BY <2>1, <3>1 DEF CacheHit, KInv, IInv, TypeOK, TypeRam
    <3>3. CacheHit(k)
      <4>1. cache[k] # NoAddr /\ node'[cache[k]].key = k /\ Written(cache[k])'
        BY <2>1, <3>1 DEF CacheHit, Written
      <4>2. CASE cache[k] = old
        BY <1>1, <1>3, <1>4, <4>1, <4>2 DEF CacheHit
      <4>3. CASE cache[k] # old
        BY <1>4, <3>1, <3>2, <4>1, <4>3 DEF CacheHit, Written
      <4>4. QED
        BY <4>2, <4>3
    <3>4. node[cache[k]].st = WRITE
      BY <1>1, <3>3 DEF Uncut, Cached, SetPCs, MvPCs
    <3>5. cache[k] # old
      BY <1>1, <1>3, <3>1, <3>3, <3>4 DEF CacheHit, WRITE, PRE_DELETE
    <3>6. QED
      BY <1>4, <3>1, <3>2, <3>4, <3>5
  <2>2. QED
    BY <1>1, <2>1 DEF Cached
<1>9. QED
  BY <1>5, <1>6, <1>7, <1>8 DEF Nodes

\* A sector is erased.
LEMMA EraseNodes ==
    ASSUME KInv, Uncut, NEW s, Erase(s), pc \in Rest \cup {"gc_node"},
           pc' \in WipePCs \cup {"gc_format"},
           cache' = cache
    PROVE  Nodes'
<1>1. \A a \in Addrs : /\ Written(a)' => Written(a) /\ node'[a] = node[a]
                       /\ node'[a].st \in {0, node[a].st}
  BY EraseEffect DEF Written, Blank, KInv, IInv
<1>2. MoveNodes' /\ RequestNodes'
  BY NoMove, NoRequest DEF MvPCs, SetPCs, WipePCs
<1>3. Statuses'
  BY <1>1, NodesAtRest DEF Statuses, PRE_WRITE, PRE_DELETE, ERR_HDR
<1>4. OneHolder'
  <2>1. \A a \in Addrs : Holds(a)' => Holds(a) /\ node'[a] = node[a]
    BY <1>1 DEF Holds, Written, WRITE, PRE_DELETE
  <2>2. QED
    BY <2>1, NodesAtRest DEF OneHolder
<1>5. Cached'
  <2>1. ASSUME NEW k \in Keys, CacheHit(k)'
        PROVE  node'[cache'[k]].st = WRITE
    <3>1. cache[k] \in Addrs /\ Written(cache[k])'
      BY <2>1 DEF CacheHit, Written, KInv, IInv, TypeOK, TypeRam
    <3>2. CacheHit(k) /\ node'[cache[k]] = node[cache[k]]
      BY <1>1, <2>1, <3>1 DEF CacheHit
    <3>3. QED
      BY <3>2, NodesAtRest
  <2>2. QED
    BY <2>1 DEF Cached, WipePCs
<1>6. QED
  BY <1>2, <1>3, <1>4, <1>5 DEF Nodes

-----------------------------------------------------------------------------
(* Steps of a collection that write a node.                                *)

\* The next node to be moved is live.
LEMMA NextToMove ==
    ASSUME KInv, Uncut, pc = "gc_node", ToMove # {}
    PROVE  /\ Min(ToMove) \in ToMove /\ Min(ToMove) \in Offsets /\ gc.sec \in Sectors
           /\ <<gc.sec, Min(ToMove)>> \in Addrs /\ Written(<<gc.sec, Min(ToMove)>>)
           /\ node[<<gc.sec, Min(ToMove)>>].st = WRITE
           /\ \A o \in ToMove : Min(ToMove) <= o
<1>1. ToMove \in SUBSET Nat /\ ToMove # {}
  BY KvdbAssumption DEF ToMove, Offsets
<1>2. Min(ToMove) \in ToMove /\ \A o \in ToMove : Min(ToMove) <= o
  BY <1>1, MinOfNaturals
<1>3. gc.sec \in Sectors
  BY DEF KInv, IInv, TypeOK, TypeLocals, GcLocals
<1>4. <<gc.sec, Min(ToMove)>> \in Addrs /\ Written(<<gc.sec, Min(ToMove)>>)
  BY <1>3, ToMoveFirst DEF KInv
<1>5. node[<<gc.sec, Min(ToMove)>>].st # PRE_DELETE
  BY <1>4, NodesAtRest
<1>6. QED
  BY <1>2, <1>3, <1>4, <1>5 DEF ToMove, Readable

\* do_gc marks the node that it is to move.
LEMMA GcMoveEffect ==
    ASSUME KInv, Uncut, GcMove
    PROVE  /\ pc = "gc_node" /\ pc' = "mv_alloc" /\ cache' = cache
           /\ mv'.src = <<gc.sec, Min(ToMove)>> /\ mv'.src \in Addrs /\ Min(ToMove) \in ToMove
           /\ mv'.src[1] = gc.sec /\ mv'.src[2] = Min(ToMove)
           /\ gc'.sec = gc.sec /\ gc'.off = Min(ToMove) + 1
           /\ node[mv'.src].st = WRITE /\ Written(mv'.src)
           /\ \A b \in Addrs : b # mv'.src => node'[b] = node[b]
           /\ node'[mv'.src].st = PRE_DELETE /\ node'[mv'.src].key = node[mv'.src].key
           /\ node'[mv'.src].val = node[mv'.src].val
<1>1. pc = "gc_node" /\ ToMove # {}
  BY DEF GcMove
<1>2. PICK a \in Addrs : a = <<gc.sec, Min(ToMove)>>
  BY <1>1, NextToMove
<1>3. Written(a) /\ node[a].st = WRITE /\ SetStatus(a, PRE_DELETE)
  BY <1>1, <1>2, NextToMove DEF GcMove
<1>4. PRE_DELETE \in 1..5 /\ Program(WRITE, PRE_DELETE) = PRE_DELETE
  BY DEF PRE_DELETE, WRITE, Program
<1>5. /\ \A b \in Addrs : b # a => node'[b] = node[b]
      /\ node'[a].st = PRE_DELETE /\ node'[a].key = node[a].key /\ node'[a].val = node[a].val
  BY <1>3, <1>4, StatusEffect DEF KInv, IInv
<1>6. mv'.src = a /\ a[1] = gc.sec /\ a[2] = Min(ToMove)
  BY <1>2 DEF GcMove
<1>7. gc'.sec = gc.sec /\ gc'.off = Min(ToMove) + 1 /\ pc' = "mv_alloc" /\ cache' = cache
  BY <1>2, <1>6 DEF GcMove, KInv, IInv, TypeOK, TypeLocals, GcLocals
<1>8. QED
  BY <1>1, <1>2, <1>3, <1>5, <1>6, <1>7, NextToMove

LEMMA GcMoveStep ==
    ASSUME KInv, Uncut, GcMove
    PROVE  Nodes'
<1>1. PICK f \in Addrs : /\ f = mv'.src /\ Written(f) /\ node[f].st = WRITE
                         /\ \A b \in Addrs : b # f => node'[b] = node[b]
                         /\ node'[f].st = PRE_DELETE /\ node'[f].key = node[f].key
  BY GcMoveEffect
<1>2. pc = "gc_node" /\ pc' = "mv_alloc" /\ cache' = cache
  BY GcMoveEffect
<1>3. Statuses'
  BY <1>1, <1>2, NodesAtRest DEF Statuses, MvPCs, PRE_WRITE, PRE_DELETE, ERR_HDR
<1>4. RequestNodes'
  BY <1>2, NoRequest DEF SetPCs
<1>5. MoveNodes'
  <2>1. /\ node'[mv'.src].st = PRE_DELETE
        /\ mv'.src[1] = gc'.sec /\ mv'.src[2] + 1 = gc'.off
    BY GcMoveEffect
  <2>2. QED
    BY <1>2, <2>1 DEF MoveNodes, MvPCs
<1>6. OneHolder'
  BY <1>1, <1>2, NodesAtRest DEF OneHolder, Holds
<1>7. Cached'
  <2>1. ASSUME NEW k \in Keys, CacheHit(k)', k # node[f].key
        PROVE  node'[cache'[k]].st = WRITE
    <3>1. cache[k] \in Addrs /\ cache[k] # f
      BY <1>1, <1>2, <2>1 DEF CacheHit, KInv, IInv, TypeOK, TypeRam
    <3>2. CacheHit(k) /\ node'[cache[k]] = node[cache[k]]
      BY <1>1, <1>2, <2>1, <3>1 DEF CacheHit, Written
    <3>3. QED
      BY <1>2, <3>2, NodesAtRest
  <2>2. node'[mv'.src].key = node[f].key
    BY <1>1
  <2>3. QED
    BY <1>2, <2>1, <2>2 DEF Cached, MvPCs
<1>8. QED
  BY <1>3, <1>4, <1>5, <1>6, <1>7 DEF Nodes

\* The header of the copy.
LEMMA MoveHeaderStep ==
    ASSUME KInv, Uncut, MoveHeader
    PROVE  Nodes'
<1>1. /\ pc = "mv_header" /\ pc' = "mv_body" /\ mv' = mv /\ gc' = gc /\ cache' = cache
      /\ Moved = node[mv.src] /\ Moved.key \in Keys /\ Moved.val \in Values
      /\ mv.src \in Addrs /\ Written(mv.src) /\ mv.dst \in Addrs /\ ~Written(mv.dst)
      /\ mv.dst[1] # gc.sec /\ node[mv.src].st = PRE_DELETE
      /\ mv.src[1] = gc.sec /\ mv.src[2] + 1 = gc.off
  BY MoveRequest, BeyondBlank
     DEF MoveHeader, Moved, MvPCs, KInv, IInv, Targets, Uncut, MoveNodes
<1>2. /\ \A b \in Addrs : b # mv.dst => node'[b] = node[b]
      /\ node'[mv.dst].st = PRE_WRITE /\ node'[mv.dst].key = node[mv.src].key
      /\ node'[mv.dst].val = node[mv.src].val
  BY <1>1 DEF MoveHeader, KInv, IInv, TypeOK, TypeFlash
<1>3. node'[mv.src] = node[mv.src]
  BY <1>1, <1>2
<1>4. Statuses'
  BY <1>1, <1>2 DEF Uncut, Statuses, MvPCs, Replacing, SetPCs, PRE_WRITE, PRE_DELETE, ERR_HDR
<1>5. RequestNodes'
  BY <1>1, NoRequest DEF SetPCs
<1>6. MoveNodes'
  BY <1>1, <1>2, <1>3 DEF MoveNodes
<1>7. OneHolder'
  BY <1>1, <1>2 DEF Uncut, OneHolder, Pair, Holds, PRE_WRITE, WRITE, PRE_DELETE
<1>8. Cached'
  <2>1. ASSUME NEW k \in Keys, CacheHit(k)', k # node[mv.src].key
        PROVE  node'[cache'[k]].st = WRITE
    <3>1. cache[k] \in Addrs /\ cache[k] # mv.dst
      BY <1>1, <1>2, <2>1 DEF CacheHit, KInv, IInv, TypeOK, TypeRam
    <3>2. CacheHit(k) /\ node'[cache[k]] = node[cache[k]]
      BY <1>1, <1>2, <2>1, <3>1 DEF CacheHit, Written
    <3>3. QED
      BY <1>1, <2>1, <3>2 DEF Uncut, Cached, SetPCs
  <2>2. QED
    BY <1>1, <1>3, <2>1 DEF Cached, MvPCs
<1>9. QED
  BY <1>4, <1>5, <1>6, <1>7, <1>8 DEF Nodes

\* Name and value of the copy.
LEMMA MoveBodyStep ==
    ASSUME KInv, Uncut, MoveBody
    PROVE  Nodes'
<1>1. /\ pc = "mv_body" /\ pc' = "mv_commit" /\ mv' = mv /\ gc' = gc /\ cache' = cache
      /\ mv.src \in Addrs /\ Written(mv.src) /\ mv.dst \in Addrs /\ Written(mv.dst)
  BY DEF MoveBody, MvPCs, KInv, IInv, Targets
<1>2. \A b \in Addrs : /\ node'[b].st = node[b].st
                       /\ Written(b) => node'[b].key = node[b].key /\ node'[b].val = node[b].val
  BY <1>1, BodySame DEF MoveBody
<1>3. \A b \in Addrs : (Holds(b)' <=> Holds(b)) /\ (Holds(b) => Written(b))
  BY <1>2 DEF Holds, Written, WRITE, PRE_DELETE
<1>4. Statuses'
  BY <1>1, <1>2 DEF Uncut, Statuses, MvPCs, Replacing, SetPCs
<1>5. RequestNodes'
  BY <1>1, NoRequest DEF SetPCs
<1>6. MoveNodes'
  BY <1>1, <1>2 DEF Uncut, MoveNodes, MvPCs
<1>7. OneHolder'
  BY <1>1, <1>2, <1>3 DEF Uncut, OneHolder, Pair
<1>8. Cached'
  <2>1. ASSUME NEW k \in Keys, CacheHit(k)', k # node[mv.src].key
        PROVE  node'[cache'[k]].st = WRITE
    <3>1. cache[k] \in Addrs
      BY <1>1, <2>1 DEF CacheHit, KInv, IInv, TypeOK, TypeRam
    <3>2. CacheHit(k)
      BY <1>1, <1>2, <2>1, <3>1 DEF CacheHit, Written
    <3>3. QED
      BY <1>1, <1>2, <2>1, <3>1, <3>2 DEF Uncut, Cached, SetPCs
  <2>2. node'[mv'.src].key = node[mv.src].key
    BY <1>1, <1>2
  <2>3. QED
    BY <1>1, <2>1, <2>2 DEF Cached, MvPCs
<1>9. QED
  BY <1>4, <1>5, <1>6, <1>7, <1>8 DEF Nodes

\* The copy becomes live.
LEMMA MoveCommitEffect ==
    ASSUME KInv, Uncut, MoveCommit
    PROVE  \E s \in Addrs, d \in Addrs :
              /\ s = mv.src /\ d = mv.dst /\ s # d /\ Written(s) /\ Written(d)
              /\ node[s].st = PRE_DELETE /\ node[d].st = PRE_WRITE
              /\ node[s].key \in Keys /\ node[d].key = node[s].key /\ node[d].val = node[s].val
              /\ \A b \in Addrs : b # d => node'[b] = node[b]
              /\ node'[d].st = WRITE /\ node'[d].key = node[s].key /\ node'[d].val = node[s].val
<1>1. PICK s \in Addrs, d \in Addrs :
         /\ s = mv.src /\ d = mv.dst /\ s # d /\ Written(s) /\ Written(d)
         /\ node[s].st = PRE_DELETE /\ node[d].st = PRE_WRITE
         /\ node[s].key \in Keys /\ node[d].key = node[s].key /\ node[d].val = node[s].val
         /\ SetStatus(d, WRITE)
  BY MoveRequest
     DEF MoveCommit, Moved, MvPCs, KInv, IInv, Targets, Uncut, MoveNodes, PRE_WRITE,
         PRE_DELETE
<1>2. WRITE \in 1..5 /\ Program(PRE_WRITE, WRITE) = WRITE
  BY DEF WRITE, PRE_WRITE, Program
<1>3. /\ \A b \in Addrs : b # d => node'[b] = node[b]
      /\ node'[d].st = WRITE /\ node'[d].key = node[s].key /\ node'[d].val = node[s].val
  BY <1>1, <1>2, StatusEffect DEF KInv, IInv
<1>4. QED
  BY <1>1, <1>3

LEMMA MoveCommitStep ==
    ASSUME KInv, Uncut, MoveCommit
    PROVE  Nodes'
<1>0. PICK s \in Addrs, d \in Addrs :
         /\ s = mv.src /\ d = mv.dst /\ s # d
         /\ node[s].st = PRE_DELETE /\ node[d].st = PRE_WRITE
         /\ node[s].key \in Keys /\ node[d].key = node[s].key /\ node[d].val = node[s].val
         /\ \A b \in Addrs : b # d => node'[b] = node[b]
         /\ node'[d].st = WRITE /\ node'[d].key = node[s].key /\ node'[d].val = node[s].val
  BY MoveCommitEffect
<1>1. /\ pc = "mv_commit" /\ pc' = "mv_delete" /\ mv' = mv /\ gc' = gc
      /\ cache' = [cache EXCEPT ![node[s].key] = d]
      /\ s = mv.src /\ d = mv.dst /\ s # d /\ s = mv'.src /\ d = mv'.dst
      /\ node[s].st = PRE_DELETE /\ node[d].st = PRE_WRITE /\ node[s].key \in Keys
      /\ node[d].key = node[s].key /\ node[d].val = node[s].val
  BY <1>0 DEF MoveCommit, Moved
<1>2. /\ \A b \in Addrs : b # d => node'[b] = node[b]
      /\ node'[d].st = WRITE /\ node'[d].key = node[s].key /\ node'[d].val = node[s].val
  BY <1>0
<1>3. node'[s] = node[s]
  BY <1>1, <1>2
<1>4. Statuses'
  BY <1>1, <1>2
     DEF Uncut, Statuses, MvPCs, Replacing, SetPCs, WRITE, PRE_WRITE, PRE_DELETE, ERR_HDR
<1>5. RequestNodes'
  BY <1>1, NoRequest DEF SetPCs
<1>6. MoveNodes'
  BY <1>1, <1>2, <1>3 DEF Uncut, MoveNodes, MvPCs
<1>7. OneHolder'
  <2>1. \A b \in Addrs : b # d /\ Holds(b) /\ node[b].key = node[s].key => b = s
    BY <1>1 DEF Uncut, OneHolder, Pair, Holds
  <2>2. SUFFICES ASSUME NEW a \in Addrs, NEW b \in Addrs, Holds(a)', Holds(b)',
                        node'[a].key = node'[b].key, a # b
                 PROVE  Pair(a, b)'
    BY DEF OneHolder
  <2>3. CASE a = d
    <3>1. b = s
      BY <1>2, <2>1, <2>2, <2>3 DEF Holds
    <3>2. QED
      BY <1>1, <2>3, <3>1 DEF Pair
  <2>4. CASE b = d
    <3>1. a = s
      BY <1>2, <2>1, <2>2, <2>4 DEF Holds
    <3>2. QED
      BY <1>1, <2>4, <3>1 DEF Pair
  <2>5. CASE a # d /\ b # d
    BY <1>1, <1>2, <2>2, <2>5 DEF Uncut, OneHolder, Holds, Pair
  <2>6. QED
    BY <2>3, <2>4, <2>5
<1>8. Cached'
  <2>1. cache'[node[s].key] = d /\ \A k \in Keys : k # node[s].key => cache'[k] = cache[k]
    BY <1>1 DEF KInv, IInv, TypeOK, TypeRam
  <2>2. ASSUME NEW k \in Keys, CacheHit(k)', k # node[s].key
        PROVE  node'[cache'[k]].st = WRITE
    <3>1. cache'[k] = cache[k] /\ cache[k] \in Addrs /\ cache[k] # d
      BY <1>2, <2>1, <2>2 DEF CacheHit, KInv, IInv, TypeOK, TypeRam
    <3>2. CacheHit(k) /\ node'[cache[k]] = node[cache[k]]
      BY <1>2, <2>2, <3>1 DEF CacheHit, Written
    <3>3. QED
      BY <1>1, <2>2, <3>1, <3>2 DEF Uncut, Cached, SetPCs
  <2>3. \A k \in Keys : CacheHit(k)' => node'[cache'[k]].st = WRITE
    BY <1>2, <2>1, <2>2
  <2>4. QED
    BY <1>1, <1>3, <2>1, <2>3 DEF Cached
<1>9. QED
  BY <1>4, <1>5, <1>6, <1>7, <1>8 DEF Nodes

\* The node that was moved is deleted; the sector is marked already.
LEMMA MoveDeleteEffect ==
    ASSUME KInv, Uncut, MoveDelete
    PROVE  /\ pc = "mv_delete" /\ pc' = "gc_node" /\ cache' = cache /\ mv' = MvIdle
           /\ mv.src \in Addrs /\ Written(mv.src)
           /\ node[mv.src].st = PRE_DELETE
           /\ \A b \in Addrs : b # mv.src => node'[b] = node[b]
           /\ node'[mv.src].st = DELETED /\ node'[mv.src].key = node[mv.src].key
<1>1. /\ pc = "mv_delete" /\ mv.src \in Addrs /\ Written(mv.src)
      /\ node[mv.src].st = PRE_DELETE /\ mv.ret = "gc_node" /\ lastDel
      /\ hdr[mv.src[1]].dirty = GC
  BY MoveInGc, MarkedSector
     DEF MoveDelete, KInv, IInv, Targets, Uncut, MoveNodes, Phases, MvPCs
<1>2. pc' = "gc_node" /\ mv' = MvIdle /\ cache' = cache
  BY <1>1 DEF MoveDelete, CacheAfterDelete, GC, CLEAN
<1>3. DELETED \in 1..5 /\ Program(PRE_DELETE, DELETED) = DELETED
  BY DEF PRE_DELETE, DELETED, Program
<1>4. /\ \A b \in Addrs : b # mv.src => node'[b] = node[b]
      /\ node'[mv.src].st = DELETED /\ node'[mv.src].key = node[mv.src].key
  BY <1>1, <1>3, StatusEffect DEF MoveDelete, KInv, IInv
<1>5. QED
  BY <1>1, <1>2, <1>4

LEMMA MoveDeleteStep ==
    ASSUME KInv, Uncut, MoveDelete
    PROVE  Nodes'
<1>1. PICK s \in Addrs : /\ s = mv.src /\ Written(s) /\ node[s].st = PRE_DELETE
                         /\ \A b \in Addrs : b # s => node'[b] = node[b]
                         /\ node'[s].st = DELETED /\ node'[s].key = node[s].key
  BY MoveDeleteEffect
<1>2. pc = "mv_delete" /\ pc' = "gc_node" /\ cache' = cache
  BY MoveDeleteEffect
<1>3. MoveNodes' /\ RequestNodes'
  BY <1>2, NoMove, NoRequest DEF MvPCs, SetPCs
<1>4. Statuses'
  BY <1>1, <1>2 DEF Uncut, Statuses, Replacing, SetPCs, DELETED, PRE_WRITE, PRE_DELETE, ERR_HDR
<1>5. OneHolder'
  <2>1. SUFFICES ASSUME NEW a \in Addrs, NEW b \in Addrs, Holds(a)', Holds(b)',
                        node'[a].key = node'[b].key
                 PROVE  a = b
    BY DEF OneHolder
  <2>2. a # s /\ b # s /\ node'[a] = node[a] /\ node'[b] = node[b]
    BY <1>1, <2>1 DEF Holds, WRITE, PRE_DELETE, DELETED
  <2>3. a = b \/ {a, b} = {mv.src, mv.dst}
    BY <1>2, <2>1, <2>2 DEF Uncut, OneHolder, Holds, Pair
  <2>4. QED
    BY <1>1, <2>2, <2>3
<1>6. Cached'
  <2>1. ASSUME NEW k \in Keys, CacheHit(k)'
        PROVE  node'[cache'[k]].st = WRITE
    <3>1. cache[k] \in Addrs /\ cache'[k] = cache[k]
      BY <1>2, <2>1 DEF CacheHit, KInv, IInv, TypeOK, TypeRam
    <3>2. CacheHit(k)
      <4>1. cache[k] # NoAddr /\ node'[cache[k]].key = k /\ Written(cache[k])'
        BY <2>1, <3>1 DEF CacheHit, Written
      <4>2. CASE cache[k] = s
        BY <1>1, <4>1, <4>2 DEF CacheHit
      <4>3. CASE cache[k] # s
        BY <1>1, <3>1, <4>1, <4>3 DEF CacheHit, Written
      <4>4. QED
        BY <4>2, <4>3
    <3>3. node[cache[k]].st = WRITE
      BY <1>2, <3>2 DEF Uncut, Cached, SetPCs, MvPCs
    <3>4. cache[k] # s
      BY <1>1, <3>3 DEF WRITE, PRE_DELETE
    <3>5. QED
      BY <1>1, <3>1, <3>3, <3>4
  <2>2. QED
    BY <1>2, <2>1 DEF Cached
<1>7. QED
  BY <1>3, <1>4, <1>5, <1>6 DEF Nodes

\* Every step keeps what is said of the nodes.
LEMMA NodesNext ==
    ASSUME KInv, Uncut, [Next]_vars, cuts' = 0
    PROVE  Nodes'
<1>1. CASE EraseAll
  BY <1>1, EraseNodes DEF EraseAll, Rest, WipePCs
<1>2. CASE GcErase
  BY <1>2, EraseNodes DEF GcErase, WipePCs
<1>3. CASE UNCHANGED vars
  BY <1>3 DEF vars, Uncut, Nodes, Statuses, RequestNodes, MoveNodes, OneHolder, Cached, Holds,
     NoHolder, Pair, Replacing, CacheHit, Written
<1>4. CASE QuietSteps
  BY <1>4, QuietNodes DEF Nodes
<1>5. QED
  BY <1>1, <1>2, <1>3, <1>4, UncutSteps, SetStartStep, SetHeaderStep, SetBodyStep,
     SetCommitStep,
     DeleteStep, GcMoveStep, MoveHeaderStep, MoveBodyStep, MoveCommitStep, MoveDeleteStep
     DEF NodeSteps

-----------------------------------------------------------------------------
(* The sector being collected.                                             *)

Moving == pc = "gc_node" \/ pc \in MvPCs
MoveSteps == GcMove \/ MoveStart \/ MoveHeader \/ MoveBody \/ MoveCommit \/ MoveDelete

\* A collection of a sector goes from move to move, and ends with an erase.
LEMMA MovingSteps ==
    ASSUME KInv, Uncut, [Next]_vars, cuts' = 0
    PROVE  /\ Moving => MoveSteps \/ GcErase \/ UNCHANGED vars
           /\ Moving' => GcPick \/ MoveSteps \/ UNCHANGED vars
<1> USE DEF Moving, MoveSteps, MvPCs
<1>1. CASE QuietSteps
  <2>1. AtRest \/ SetGoes \/ MoveStart \/ GcPick \/ Begins
    BY <1>1, QuietKinds
  <2>2. AtRest => pc # "gc_node" /\ pc \notin MvPCs /\ pc' # "gc_node" /\ pc' \notin MvPCs
    BY DEF AtRest, Rest, BootPCs, WipePCs
  <2>3. SetGoes \/ Begins \/ GcPick => pc # "gc_node" /\ pc \notin MvPCs
    BY DEF SetGoes, Begins, BeginDel, GcPick
  <2>4. SetGoes \/ Begins => pc' # "gc_node" /\ pc' \notin MvPCs
    BY DEF SetGoes, Begins, BeginDel
  <2>5. QED
    BY <2>1, <2>2, <2>3, <2>4
<1>2. CASE NodeSteps
  <2>1. SetStart \/ SetHeader \/ SetBody \/ SetCommit \/ Delete \/ EraseAll =>
            /\ pc # "gc_node" /\ pc \notin MvPCs
            /\ pc' # "gc_node" /\ pc' \notin MvPCs
    BY DEF SetStart, SetHeader, SetBody, SetCommit, Delete, EraseAll
  <2>2. GcErase => pc' # "gc_node" /\ pc' \notin MvPCs
    BY DEF GcErase
  <2>3. QED
    BY <1>2, <2>1, <2>2 DEF NodeSteps
<1>3. QED
  BY <1>1, <1>2, UncutSteps

\* Only do_gc marks a sector.
LEMMA NoNewMark ==
    ASSUME KInv, Uncut, [Next]_vars, cuts' = 0, ~GcPick, NEW t \in Sectors, hdr'[t].dirty = GC
    PROVE  hdr[t].dirty = GC
<1>1. hdr[t] \in Header
  BY DEF KInv, IInv, TypeOK, TypeFlash
<1>2. CASE hdr' = hdr
  BY <1>2
<1>3. ASSUME NEW s, SetDirty(s, DIRTY) PROVE hdr[t].dirty = GC
  <2>1. hdr'[t].dirty \in {hdr[t].dirty, Program(hdr[t].dirty, DIRTY)}
    BY <1>1, <1>3 DEF SetDirty, Header, KInv, IInv, TypeOK, TypeFlash
  <2>2. QED
    BY <1>1, <2>1 DEF Program, DIRTY, GC, Header
<1>4. ASSUME NEW s, hdr' = [hdr EXCEPT ![s].store = USING] PROVE hdr[t].dirty = GC
  BY <1>1, <1>4 DEF Header, KInv, IInv, TypeOK, TypeFlash
<1>5. ASSUME NEW s \in Sectors, hdr' = [hdr EXCEPT ![s] = Formatted] PROVE hdr[t].dirty = GC
  BY <1>5, FormatStep DEF KInv, IInv, Formatted, CLEAN, GC
<1>6. ASSUME NEW s \in Sectors, Erase(s) PROVE hdr[t].dirty = GC
  BY <1>6, EraseStep DEF KInv, IInv, Unformatted, GC
<1>7. SetPreDirty \/ DelDirty => SetDirty(old[1], DIRTY)
  BY DEF SetPreDirty, DelDirty
<1>8. SetUsing \/ MoveStart => \E s : hdr' = [hdr EXCEPT ![s].store = USING]
  BY SetUsingResult, MoveStartResult DEF KInv
<1>9. FormatAll \/ GcFormat \/ BootFormat =>
         \E s \in Sectors : hdr' = [hdr EXCEPT ![s] = Formatted]
  BY WholeSector DEF FormatAll, GcFormat, BootFormat, KInv, Bad
<1>10. EraseAll \/ GcErase => \E s \in Sectors : Erase(s)
  BY WholeSector DEF EraseAll, GcErase, KInv
<1>11. QED
  BY <1>2, <1>3, <1>4, <1>5, <1>6, <1>7, <1>8, <1>9, <1>10, UncutSteps, FlashKeptBy,
     HeadersKeptBy
     DEF QuietSteps, NodeSteps, Caller

\* What a move does to the sector being collected.
LEMMA MoveLeaves ==
    ASSUME KInv, Uncut, MoveSteps
    PROVE  /\ gc'.sec = gc.sec /\ gc.sec \in Sectors
           /\ \A s \in Sectors : hdr'[s].dirty = GC => hdr[s].dirty = GC
           /\ \A o \in Offsets : /\ Holds(<<gc.sec, o>>)' => Holds(<<gc.sec, o>>)
                                 /\ Written(<<gc.sec, o>>)' <=> Written(<<gc.sec, o>>)
                                 /\ Written(<<gc.sec, o>>) =>
                                       node'[<<gc.sec, o>>].val = node[<<gc.sec, o>>].val
           /\ GcMove \/ gc'.off = gc.off
           /\ GcMove \/ MoveDelete \/ mv'.src = mv.src
           /\ Moving /\ Moving'
<1>1. gc.sec \in Sectors
  BY DEF KInv, IInv, TypeOK, TypeLocals, GcLocals
<1>2. CASE GcMove
  <2>1. PICK f \in Addrs : /\ f = mv'.src /\ Written(f) /\ node[f].st = WRITE
                           /\ \A b \in Addrs : b # f => node'[b] = node[b]
                           /\ node'[f].st = PRE_DELETE /\ node'[f].val = node[f].val
                           /\ pc = "gc_node" /\ pc' = "mv_alloc" /\ gc'.sec = gc.sec
    BY <1>2, GcMoveEffect
  <2>2. hdr' = hdr
    BY <1>2 DEF GcMove
  <2>3. QED
    BY <1>1, <1>2, <2>1, <2>2, AddrPair DEF Holds, Written, WRITE, PRE_DELETE, Moving, MvPCs
<1>3. CASE MoveDelete
  <2>1. PICK s \in Addrs : /\ s = mv.src /\ Written(s)
                           /\ \A b \in Addrs : b # s => node'[b] = node[b]
                           /\ node'[s].st = DELETED
                           /\ pc = "mv_delete" /\ pc' = "gc_node"
    BY <1>3, MoveDeleteEffect
  <2>2. hdr' = hdr /\ gc' = gc
    BY <1>3 DEF MoveDelete
  <2>3. SameNodes
    BY <1>3, SameNodesBy DEF KInv
  <2>4. QED
    BY <1>1, <1>3, <2>1, <2>2, <2>3, AddrPair
       DEF SameNodes, Holds, WRITE, PRE_DELETE, DELETED, Moving, MvPCs
<1>4. CASE MoveStart
  <2>1. /\ node' = node /\ gc' = gc /\ mv'.src = mv.src
        /\ pc = "mv_alloc" /\ pc' = "mv_header"
    BY <1>4 DEF MoveStart, KInv, IInv, TypeOK, TypeLocals, MvLocals
  <2>2. \A s \in Sectors : hdr[s] \in Header
    BY DEF KInv, IInv, TypeOK, TypeFlash
  <2>3. \A s \in Sectors : hdr'[s].dirty = hdr[s].dirty
    BY <1>4, <2>2, MoveStartResult DEF Header, KInv, IInv, TypeOK, TypeFlash
  <2>4. QED
    BY <1>1, <1>4, <2>1, <2>3 DEF Holds, Written, Moving, MvPCs
<1>5. CASE MoveHeader \/ MoveBody \/ MoveCommit
  <2>1. /\ hdr' = hdr /\ gc' = gc /\ mv' = mv
        /\ pc \in {"mv_header", "mv_body", "mv_commit"}
        /\ pc' \in {"mv_body", "mv_commit", "mv_delete"}
    BY <1>5 DEF MoveHeader, MoveBody, MoveCommit
  <2>2. mv.dst \in Addrs /\ mv.dst[1] # gc.sec
    BY <2>1 DEF Uncut, MoveNodes, MvPCs
  <2>3. \A b \in Addrs : b # mv.dst => node'[b] = node[b]
    BY <1>5 DEF MoveHeader, MoveBody, MoveCommit, SetStatus, KInv, IInv, TypeOK, TypeFlash
  <2>4. \A o \in Offsets : node'[<<gc.sec, o>>] = node[<<gc.sec, o>>]
    BY <1>1, <2>2, <2>3, AddrPair
  <2>5. QED
    BY <1>1, <2>1, <2>4 DEF Holds, Written, Moving, MvPCs
<1>6. QED
  BY <1>2, <1>3, <1>4, <1>5 DEF MoveSteps

LEMMA CollectedNext ==
    ASSUME KInv, Uncut, [Next]_vars, cuts' = 0
    PROVE  Collected'
<1>1. CASE GcPick
  <2>1. pc' = "gc_node" /\ gc'.off = 0 /\ SetDirty(gc'.sec, GC) /\ gc'.sec \in Sectors
    BY <1>1, PickedSector DEF GcPick, KInv
  <2>2. \A t \in Sectors : t # gc'.sec => hdr'[t] = hdr[t]
    BY <2>1, SetDirtyStep DEF GC, KInv, IInv
  <2>3. \A t \in Sectors : hdr[t].dirty # GC
    BY <1>1 DEF GcPick, Uncut, Collected, MvPCs
  <2>4. QED
    BY <2>1, <2>2, <2>3, KvdbAssumption DEF Collected, Offsets
<1>2. CASE MoveSteps
  <2>1. \A s \in Sectors : hdr'[s].dirty = GC => s = gc'.sec
    BY <1>2, MoveLeaves DEF Uncut, Collected
  <2>2. ASSUME NEW o \in Offsets, Holds(<<gc.sec, o>>)', o < gc'.off
        PROVE  pc' \in MvPCs /\ <<gc'.sec, o>> = mv'.src
    <3>0. gc'.sec = gc.sec /\ Holds(<<gc.sec, o>>) /\ Holds(<<gc.sec, o>>)'
          /\ <<gc.sec, o>> \in Addrs /\ Moving'
      BY <1>2, <2>2, MoveLeaves, AddrPair DEF Holds
    <3>1. CASE GcMove
      <4>1. /\ gc'.off = Min(ToMove) + 1 /\ pc = "gc_node" /\ pc' = "mv_alloc"
            /\ mv'.src = <<gc.sec, Min(ToMove)>> /\ ToMove # {}
        BY <3>1, GcMoveEffect DEF GcMove
      <4>2. ~ (o < gc.off)
        BY <3>0, <4>1 DEF Uncut, Collected, MvPCs
      <4>3. o \in ToMove
        BY <3>0, <4>2, HolderWhole, KvdbAssumption
           DEF ToMove, Readable, Holds, Offsets, KInv, IInv, TypeOK, TypeLocals, GcLocals
      <4>4. Min(ToMove) <= o /\ Min(ToMove) \in Offsets
        BY <4>1, <4>3, NextToMove
      <4>5. o = Min(ToMove)
        BY <2>2, <4>1, <4>4, KvdbAssumption DEF Offsets
      <4>6. QED
        BY <3>0, <4>1, <4>5 DEF MvPCs
    <3>2. CASE MoveDelete
      <4>1. gc'.off = gc.off /\ pc = "mv_delete"
        BY <3>2 DEF MoveDelete
      <4>2. <<gc.sec, o>> = mv.src
        BY <2>2, <3>0, <4>1 DEF Uncut, Collected, MvPCs
      <4>3. ~Holds(<<gc.sec, o>>)'
        BY <3>0, <3>2, <4>2, MoveDeleteEffect DEF Holds, WRITE, PRE_DELETE, DELETED
      <4>4. QED
        BY <3>0, <4>3
    <3>3. CASE MoveStart \/ MoveHeader \/ MoveBody \/ MoveCommit
      <4>1. gc' = gc /\ pc \in MvPCs /\ pc' \in MvPCs
        BY <3>3 DEF MoveStart, MoveHeader, MoveBody, MoveCommit, MvPCs
      <4>2. mv'.src = mv.src
        BY <3>3
           DEF MoveStart, MoveHeader, MoveBody, MoveCommit, KInv, IInv, TypeOK,
               TypeLocals, MvLocals
      <4>3. QED
        BY <2>2, <3>0, <4>1, <4>2 DEF Uncut, Collected
    <3>4. QED
      BY <1>2, <3>1, <3>2, <3>3 DEF MoveSteps
  <2>3. QED
    BY <1>2, <2>1, <2>2, MoveLeaves DEF Collected, Moving
<1>3. CASE UNCHANGED vars
  BY <1>3 DEF vars, Uncut, Collected, Holds
<1>4. CASE ~GcPick /\ ~MoveSteps /\ ~UNCHANGED vars
  <2>1. ~Moving'
    BY <1>4, MovingSteps
  <2>2. \A s \in Sectors : hdr'[s].dirty # GC
    <3>1. CASE GcErase
      <4>1. hdr'[gc.sec] = Unformatted /\ gc.sec \in Sectors
            /\ \A t \in Sectors : t # gc.sec => hdr'[t] = hdr[t]
        BY <3>1, EraseStep, WholeSector DEF GcErase, KInv, IInv
      <4>2. QED
        BY <4>1 DEF Uncut, Collected, Unformatted, GC
    <3>2. CASE ~GcErase
      <4>1. ~Moving
        BY <1>4, <3>2, MovingSteps
      <4>2. \A s \in Sectors : hdr[s].dirty # GC
        BY <4>1 DEF Uncut, Collected, Moving
      <4>3. QED
        BY <1>4, <4>2, NoNewMark
    <3>3. QED
      BY <3>1, <3>2
  <2>3. QED
    BY <2>1, <2>2 DEF Collected, Moving
<1>5. QED
  BY <1>1, <1>2, <1>3, <1>4

-----------------------------------------------------------------------------
(* Room for the nodes yet to be moved.                                     *)

\* alloc_kv gives out the end of a sector.
LEMMA AllocEnd ==
    ASSUME NEW len, Alloc(len) # NoAddr
    PROVE  Alloc(len)[2] = UsedEnd(Alloc(len)[1])
<1> DEFINE inUse == Candidates(USING, len)
           fresh == IF Cardinality(Empties) > 1 \/ gcReq
                    THEN Candidates(EMPTY, len) ELSE {}
           s == FirstFrom(oldest, IF inUse # {} THEN inUse ELSE fresh)
<1>1. Alloc(len) = <<s, UsedEnd(s)>>
  BY DEF Alloc
<1> HIDE DEF s
<1>2. QED
  BY <1>1

\* A step that writes a status or a body leaves every sector its end.
LEMMA EndsByKept ==
    ASSUME SameNodes, NEW s \in Sectors, hdr'[s] = hdr[s], NEW e, EndsBy(s, e)
    PROVE  EndsBy(s, e)'
BY AddrPair DEF SameNodes, EndsBy

\* Where the next move looks for nodes.
LEMMA FrontAt ==
    ASSUME KInv, Uncut
    PROVE  /\ gc.off \in Nat /\ gc.sec \in Sectors
           /\ pc = "mv_alloc" => mv.src = <<gc.sec, mv.src[2]>> /\ mv.src[2] \in Offsets
                                 /\ mv.src[2] + 1 = gc.off /\ Front = mv.src[2]
           /\ pc # "mv_alloc" => Front = gc.off
<1>1. gc.off \in Nat /\ gc.sec \in Sectors
  BY KvdbAssumption DEF KInv, IInv, TypeOK, TypeLocals, GcLocals
<1>2. pc = "mv_alloc" => mv.src \in Addrs /\ mv.src[1] = gc.sec /\ mv.src[2] + 1 = gc.off
  BY DEF Uncut, MoveNodes, MvPCs, KInv, IInv, Targets
<1>3. QED
  BY <1>1, <1>2, PairOf DEF Front

\* The pick: the reserved sector can take every node.
LEMMA RoomPicked ==
    ASSUME KInv, Uncut, GcPick
    PROVE  RoomLeft'
<1>1. pc = "gc_scan" /\ pc' = "gc_node" /\ node' = node /\ SetDirty(gc'.sec, GC)
      /\ hdr[gc'.sec].dirty \in {DIRTY, GC}
  BY PickedSector DEF GcPick, KInv
<1>2. \A t \in Sectors : hdr[t].dirty # GC
  BY <1>1 DEF Uncut, Collected, MvPCs
<1>3. PICK t \in Empties : TRUE
  BY <1>1, <1>2 DEF KInv, RInv, Reserve, Collecting
<1>4. t \in Sectors /\ hdr[t].store = EMPTY /\ hdr[t].dirty = CLEAN
  BY <1>3 DEF Empties, KInv, Clean
<1>5. t # gc'.sec
  BY <1>1, <1>4 DEF CLEAN, DIRTY, GC
<1>6. hdr'[t] = hdr[t]
  BY <1>1, <1>4, <1>5, SetDirtyStep DEF GC, KInv, IInv
<1>7. RoomIn(t)'
  BY <1>1, <1>4, <1>5, <1>6 DEF RoomIn, EndsBy
<1>8. QED
  BY <1>4, <1>7 DEF RoomLeft

\* The start of a move: the copy ends before the node behind the one that is moved.
LEMMA RoomStarted ==
    ASSUME KInv, Uncut, MoveStart
    PROVE  RoomLeft'
<1> DEFINE e == mv.src[2]
           len == Size[Moved.val]
           r == MoveRoom[1]
<1>1. /\ pc = "mv_alloc" /\ pc' = "mv_header" /\ node' = node /\ gc' = gc
      /\ mv'.dst = MoveRoom /\ mv'.src = mv.src /\ MoveRoom # NoAddr
  BY DEF MoveStart, KInv, IInv, TypeOK, TypeLocals, MvLocals
<1>2. PICK s \in Sectors : RoomIn(s)
  BY <1>1 DEF Uncut, RoomLeft, MvPCs
<1>3. gc.off = e + 1 /\ e \in Nat /\ e \in Offsets /\ mv.src = <<gc.sec, e>> /\ Front = e
      /\ gc.sec \in Sectors
  BY <1>1, FrontAt, KvdbAssumption DEF Offsets
<1>4. len \in Nat /\ len > HdrLen /\ Written(mv.src) /\ Moved' = Moved
  BY <1>1, MoveRequest DEF MvPCs, KInv, Moved
<1>5. EndsBy(s, e) /\ s # gc.sec /\ hdr[s].dirty = CLEAN
  BY <1>2, <1>3, <1>4 DEF RoomIn
<1>6. hdr' = [hdr EXCEPT ![r].store = USING]
  BY MoveStartResult DEF KInv
<1>7. MoveRoom[2] = UsedEnd(r)
  BY <1>1, AllocEnd DEF MoveRoom
<1>8. hdr'[s].dirty = CLEAN /\ (s # r => hdr'[s] = hdr[s]) /\ (s = r => hdr'[s].store = USING)
  <2>1. hdr[s] \in Header
    BY DEF KInv, IInv, TypeOK, TypeFlash
  <2>2. hdr'[s].dirty = hdr[s].dirty
    BY <1>6, <2>1 DEF Header, KInv, IInv, TypeOK, TypeFlash
  <2>3. QED
    BY <1>5, <1>6, <2>2, StoreStep DEF KInv, IInv
<1>9. ASSUME NEW o \in Offsets, Written(<<gc.sec, o>>), gc.off <= o
      PROVE  EndsBy(s, o)' /\ (r = s => MoveRoom[2] + len <= o)
  <2>1. o \in Nat /\ e < o /\ e + len <= o
    <3>1. o \in Nat /\ e < o
      BY <1>3, <1>9, KvdbAssumption DEF Offsets
    <3>2. len = Size[node[<<gc.sec, e>>].val]
      BY <1>3 DEF Moved
    <3>3. QED
      BY <1>3, <1>4, <1>9, <3>1, <3>2 DEF KInv, Laid
  <2>2. EndsBy(s, o)
    BY <1>2, <1>3, <1>9, <2>1 DEF RoomIn
  <2>3. CASE s # r
    BY <1>1, <1>8, <2>2, <2>3 DEF EndsBy, Written
  <2>4. CASE s = r
    <3>1. UsedEnd(s) \in Nat /\ UsedEnd(s) <= e
      BY <1>3, <1>5, EndsByEnd DEF KInv
    <3>2. MoveRoom[2] + len <= o
      BY <1>3, <1>4, <1>7, <2>1, <2>4, <3>1
    <3>3. HdrLen <= o
      BY <1>3, <1>4, <2>1, KvdbAssumption
    <3>4. \A p \in Offsets : Written(<<s, p>>) => p + Size[node[<<s, p>>].val] <= o
      BY <2>2 DEF EndsBy, KInv, IInv, Headers
    <3>5. EndsBy(s, o)'
      BY <1>1, <1>8, <2>4, <3>3, <3>4 DEF EndsBy, Written
    <3>6. QED
      BY <3>2, <3>5
  <2>5. QED
    BY <2>3, <2>4
<1>10. Front' = gc.off /\ gc'.sec = gc.sec
  BY <1>1 DEF Front
<1>11. RoomIn(s)'
  BY <1>1, <1>4, <1>5, <1>8, <1>9, <1>10 DEF RoomIn, Written
<1>12. QED
  BY <1>11 DEF RoomLeft

\* The copy's header.
LEMMA RoomHeader ==
    ASSUME KInv, Uncut, MoveHeader
    PROVE  RoomLeft'
<1>1. /\ pc = "mv_header" /\ pc' = "mv_body" /\ hdr' = hdr /\ gc' = gc /\ mv' = mv
  BY DEF MoveHeader
<1>2. mv.dst \in Addrs /\ mv.dst[1] # gc.sec /\ Moved.key \in Keys /\ Moved.val \in Values
  BY <1>1, MoveRequest DEF Uncut, MoveNodes, MvPCs, KInv
<1>3. /\ \A b \in Addrs : b # mv.dst => node'[b] = node[b]
      /\ node'[mv.dst].val = Moved.val
  BY <1>2 DEF MoveHeader, KInv, IInv, TypeOK, TypeFlash
<1>4. PICK s \in Sectors : RoomIn(s)
  BY <1>1 DEF Uncut, RoomLeft, MvPCs
<1>5. gc.sec \in Sectors /\ Front = gc.off /\ Front' = gc.off
  BY <1>1, FrontAt DEF Front
<1>6. ASSUME NEW o \in Offsets, Written(<<gc.sec, o>>)', gc.off <= o
      PROVE  EndsBy(s, o)'
  <2>1. Written(<<gc.sec, o>>)
    <3>1. <<gc.sec, o>> \in Addrs /\ <<gc.sec, o>> # mv.dst
      BY <1>2, <1>5, AddrPair
    <3>2. QED
      BY <1>1, <1>3, <1>6, <3>1 DEF Written
  <2>2. EndsBy(s, o) /\ (mv.dst[1] = s => mv.dst[2] + Size[Moved.val] <= o)
    <3>1. Front <= o
      BY <1>5, <1>6
    <3>2. QED
      BY <1>1, <1>4, <2>1, <3>1 DEF RoomIn
  <2>3. ASSUME hdr[s].store = USING, HdrLen <= o, NEW p \in Offsets, Written(<<s, p>>)',
               \A q \in Offsets : Written(<<s, q>>) => q + Size[node[<<s, q>>].val] <= o
        PROVE  p + Size[node'[<<s, p>>].val] <= o
    <3>1. <<s, p>> \in Addrs
      BY AddrPair
    <3>2. CASE <<s, p>> = mv.dst
      <4>1. mv.dst[1] = s /\ mv.dst[2] = p /\ node'[<<s, p>>].val = Moved.val
        BY <1>3, <3>2
      <4>2. QED
        BY <2>2, <4>1
    <3>3. CASE <<s, p>> # mv.dst
      BY <1>3, <2>3, <3>1, <3>3 DEF Written
    <3>4. QED
      BY <3>2, <3>3
  <2>4. QED
    BY <1>1, <2>2, <2>3 DEF EndsBy
<1>7. RoomIn(s)'
  BY <1>1, <1>4, <1>5, <1>6 DEF RoomIn
<1>8. QED
  BY <1>7 DEF RoomLeft

\* The steps that write a status or a body.
LEMMA RoomStays ==
    ASSUME KInv, Uncut, GcMove \/ MoveBody \/ MoveCommit \/ MoveDelete
    PROVE  RoomLeft'
<1>1. hdr' = hdr /\ gc'.sec = gc.sec /\ SameNodes /\ gc.sec \in Sectors
  BY HeadersKeptBy, SameNodesBy, MoveLeaves DEF MoveSteps, KInv
<1>2. pc = "gc_node" \/ pc \in MvPCs
  BY DEF GcMove, MoveBody, MoveCommit, MoveDelete, MvPCs
<1>3. PICK s \in Sectors : RoomIn(s)
  BY <1>2 DEF Uncut, RoomLeft
<1>4. Front \in Nat /\ Front' \in Nat /\ Front <= Front' /\ pc' # "mv_header"
  <2>1. CASE GcMove
    <3>1. pc = "gc_node" /\ pc' = "mv_alloc" /\ mv'.src[2] = Min(ToMove) /\ Min(ToMove) \in ToMove
      BY <2>1, GcMoveEffect
    <3>2. Min(ToMove) \in Nat /\ gc.off <= Min(ToMove)
      <4> DEFINE m == Min(ToMove)
      <4>1. m \in Offsets /\ m >= gc.off
        BY <3>1 DEF ToMove
      <4> HIDE DEF m
      <4>2. m \in Nat /\ gc.off <= m
        BY <4>1, FrontAt, KvdbAssumption DEF Offsets
      <4>3. QED
        BY <4>2 DEF m
    <3>3. QED
      BY <3>1, <3>2, FrontAt DEF Front
  <2>2. CASE MoveBody \/ MoveCommit \/ MoveDelete
    <3>1. /\ gc' = gc /\ pc \in {"mv_body", "mv_commit", "mv_delete"}
          /\ pc' \in {"mv_commit", "mv_delete", "gc_node"}
      BY <2>2, MoveDeleteEffect DEF MoveBody, MoveCommit, MoveDelete
    <3>2. QED
      BY <3>1, FrontAt DEF Front
  <2>3. QED
    BY <2>1, <2>2
<1>5. ASSUME NEW o \in Offsets, Written(<<gc.sec, o>>)', Front' <= o
      PROVE  EndsBy(s, o)'
  <2>1. Front <= o /\ o \in Nat
    BY <1>4, <1>5, KvdbAssumption DEF Offsets
  <2>2. Written(<<gc.sec, o>>)
    BY <1>1, <1>5, AddrPair DEF SameNodes
  <2>3. EndsBy(s, o)
    BY <1>3, <2>1, <2>2 DEF RoomIn
  <2>4. QED
    BY <1>1, <2>3, EndsByKept
<1>6. RoomIn(s)'
  BY <1>1, <1>3, <1>4, <1>5 DEF RoomIn
<1>7. QED
  BY <1>6 DEF RoomLeft

LEMMA RoomLeftNext ==
    ASSUME KInv, Uncut, [Next]_vars, cuts' = 0
    PROVE  RoomLeft'
<1>1. CASE ~Moving'
  BY <1>1 DEF RoomLeft, Moving
<1>2. CASE UNCHANGED vars
  BY <1>2 DEF vars, Uncut, RoomLeft, RoomIn, EndsBy, Front, Moved, Written
<1>3. QED
  BY <1>1, <1>2, MovingSteps, RoomPicked, RoomStarted, RoomHeader, RoomStays DEF MoveSteps

-----------------------------------------------------------------------------
(* The sectors that are erased and formatted as a whole.                   *)

\* Which steps lead there.
LEMMA WipeSteps ==
    ASSUME KInv, Uncut, [Next]_vars, cuts' = 0
    PROVE  /\ pc' = "boot_hdr" => BootScan \/ BootFormat \/ UNCHANGED vars
           /\ pc' \in WipePCs =>
                 BeginReset \/ BootHeadersOk \/ EraseAll \/ FormatAll \/ UNCHANGED vars
<1> USE DEF WipePCs
<1>1. gc.ret \in {"idle", "alloc"} /\ (pc \in GcPCs => gc.ret = "alloc")
  BY MoveInGc DEF Uncut, Phases, KInv, GcPCs
<1>2. CASE NodeSteps
  <2>1. pc' # "boot_hdr" /\ (pc' \in WipePCs => EraseAll)
    BY <1>2, MoveDeleteEffect DEF NodeSteps, SetStart, SetHeader, SetBody, SetCommit, Delete,
       EraseAll, GcMove, GcErase, MoveHeader, MoveBody, MoveCommit
  <2>2. QED
    BY <2>1
<1>3. CASE \/ \E k \in Keys, v \in Values : BeginSet(k, v)
           \/ \E k \in Keys : BeginDel(k)
           \/ \E k \in Keys : Get(k)
           \/ SetCollect \/ SetFull \/ SetPreDirty \/ SetUsing \/ DelMissing
           \/ DelDirty \/ End \/ GcPick \/ GcDone \/ GcFormat \/ MoveStart
           \/ BootGc \/ BootKvDone \/ BootCheck \/ Stop
  <2>1. pc' # "boot_hdr" /\ pc' \notin WipePCs
    BY <1>1, <1>3 DEF BeginSet, BeginDel, Get, SetCollect, SetFull, SetPreDirty, SetUsing,
       DelMissing, DelDirty, End, GcPick, GcDone, GcFormat, MoveStart, BootGc, BootKvDone,
       BootCheck, Stop, StartGc, EndGc, Finish, LoseRam, GcPCs
  <2>2. QED
    BY <2>1
<1>4. CASE BeginReset \/ FormatAll \/ BootScan \/ BootFormat \/ BootHeadersOk
  BY <1>4 DEF BeginReset, FormatAll, BootScan, BootFormat, BootHeadersOk
<1>5. QED
  BY <1>2, <1>3, <1>4, UncutSteps DEF QuietSteps

\* A sector that the boot formats joins the empty ones.
LEMMA FormatCounts ==
    ASSUME TypeOK, NEW s \in Sectors, hdr[s].store # EMPTY,
           hdr' = [hdr EXCEPT ![s] = Formatted]
    PROVE  Cardinality(Empties') = Cardinality(Empties) + 1
<1>1. /\ hdr'[s] = Formatted
      /\ \A t \in Sectors : t # s => hdr'[t] = hdr[t]
  BY FormatStep
<1>2. Empties' = Empties \cup {s} /\ s \notin Empties
  BY <1>1 DEF Empties, Formatted
<1>3. QED
  BY <1>2, EmptiesFinite, FS_AddElement

\* When every sector was formatted by the boot, none has a node.
LEMMA AllFormatted ==
    ASSUME IInv, NSec <= Cardinality(Empties)
    PROVE  \A a \in Addrs : ~Written(a)
<1>1. Empties \in SUBSET Sectors
  BY DEF Empties
<1>2. Cardinality(Empties) \in Nat
  BY EmptiesFinite, FS_CardinalityType
<1>3. Cardinality(Empties) <= NSec /\ (NSec = Cardinality(Empties) => Sectors = Empties)
  BY <1>1, SectorsFinite, FS_Subset
<1>4. Sectors = Empties
  BY <1>2, <1>3, KvdbAssumption
<1>5. \A s \in Sectors : hdr[s].store = EMPTY
  BY <1>4 DEF Empties
<1>6. QED
  BY <1>5, PairOf DEF IInv, Headers

LEMMA ErasedNext ==
    ASSUME KInv, Uncut, [Next]_vars, cuts' = 0
    PROVE  Erased'
<1>1. pc' = "boot_hdr" => fmt' <= Cardinality(Empties)'
  <2>1. CASE BootScan
    <3>1. fmt' = 0 /\ Empties' = Empties
      BY <2>1, SetsKept DEF BootScan, KInv, IInv, Formatting, flash
    <3>2. Cardinality(Empties) \in Nat
      BY EmptiesFinite, FS_CardinalityType
    <3>3. QED
      BY <3>1, <3>2
  <2>2. CASE BootFormat
    <3>1. PICK s \in Sectors : /\ hdr[s].store # EMPTY
                               /\ hdr' = [hdr EXCEPT ![s] = Formatted]
      <4>1. /\ FirstFrom(oldest, Bad) \in Bad
            /\ hdr' = [hdr EXCEPT ![FirstFrom(oldest, Bad)] = Formatted]
        BY <2>2, WholeSector DEF BootFormat, KInv
      <4>2. \A s \in Bad : s \in Sectors /\ hdr[s].store # EMPTY
        BY DEF Bad, EMPTY
      <4>3. QED
        BY <4>1, <4>2
    <3>2. Cardinality(Empties') = Cardinality(Empties) + 1
      BY <3>1, FormatCounts DEF KInv, IInv
    <3>3. pc = "boot_hdr" /\ fmt' = fmt + 1 /\ fmt <= Cardinality(Empties)
      BY <2>2 DEF BootFormat, Uncut, Erased
    <3>4. Cardinality(Empties) \in Nat /\ fmt \in Nat
      BY EmptiesFinite, FS_CardinalityType, KvdbAssumption DEF KInv, IInv, TypeOK, TypeLocals
    <3>5. QED
      BY <3>2, <3>3, <3>4
  <2>3. CASE UNCHANGED vars
    <3>1. hdr' = hdr /\ fmt' = fmt /\ pc' = pc
      BY <2>3 DEF vars
    <3>2. Empties' = Empties
      BY <3>1, SetsKept
    <3>3. QED
      BY <3>1, <3>2 DEF Uncut, Erased
  <2>4. QED
    BY <2>1, <2>2, <2>3, WipeSteps
<1>2. ASSUME pc' \in WipePCs, NEW a \in Addrs, Written(a)'
      PROVE  ~inRec' /\ (IF pc' = "erase_all" THEN fmt' <= a[1] ELSE fmt' < a[1])
  <2>0. a[1] \in Nat /\ a[1] >= 0 /\ fmt \in Nat
    BY PairOf, KvdbAssumption DEF Sectors, KInv, IInv, TypeOK, TypeLocals
  <2>1. CASE BeginReset
    BY <2>0, <2>1 DEF BeginReset, Uncut, Phases, BootPCs, WipePCs
  <2>2. CASE BootHeadersOk
    <3>1. pc = "boot_hdr" /\ fmt = NSec /\ node' = node
      BY <1>2, <2>2 DEF BootHeadersOk, flash, WipePCs
    <3>2. \A b \in Addrs : ~Written(b)
      BY <3>1, AllFormatted DEF Uncut, Erased, KInv
    <3>3. QED
      BY <1>2, <3>1, <3>2 DEF Written
  <2>3. CASE EraseAll
    <3>1. /\ pc = "erase_all" /\ pc' = "format_all" /\ inRec' = inRec /\ fmt' = fmt /\ Erase(fmt)
      BY <2>3 DEF EraseAll
    <3>2. a[1] # fmt /\ Written(a)
      BY <1>2, <3>1, EraseEffect DEF Written, Blank, KInv, IInv
    <3>3. QED
      BY <2>0, <3>1, <3>2 DEF Uncut, Erased, WipePCs
  <2>4. CASE FormatAll
    <3>1. /\ pc = "format_all" /\ pc' = "erase_all" /\ inRec' = inRec /\ fmt' = fmt + 1
          /\ node' = node
      BY <1>2, <2>4 DEF FormatAll, WipePCs
    <3>2. Written(a)
      BY <1>2, <3>1 DEF Written
    <3>3. QED
      BY <2>0, <3>1, <3>2 DEF Uncut, Erased, WipePCs
  <2>5. CASE UNCHANGED vars
    BY <1>2, <2>5 DEF vars, Uncut, Erased, Written
  <2>6. QED
    BY <1>2, <2>1, <2>2, <2>3, <2>4, <2>5, WipeSteps
<1>3. QED
  BY <1>1, <1>2 DEF Erased

-----------------------------------------------------------------------------
(* The invariant.                                                          *)

LEMMA UncutNext ==
    ASSUME KInv, Uncut, [Next]_vars, cuts' = 0
    PROVE  Uncut'
BY PhasesNext, NodesNext, CollectedNext, RoomLeftNext, ErasedNext DEF Uncut, Nodes

\* Only a power cut counts as one.
LEMMA CutsSame ==
    ASSUME [Next]_vars
    PROVE  PowerCut \/ cuts' = cuts
<1>1. Caller \/ BootScan \/ Stop \/ UNCHANGED vars => cuts' = cuts
  BY DEF Caller, BeginSet, BeginDel, Get, BeginReset, BootScan, Stop, vars
<1>2. Serve => cuts' = cuts
  BY DEF Serve, SetStart, SetCollect, SetFull, SetPreDirty, SetUsing, SetHeader, SetBody,
     SetCommit, DelMissing, Delete, DelDirty, End, EraseAll, FormatAll
<1>3. Collect => cuts' = cuts
  BY DEF Collect, GcPick, GcDone, GcMove, GcErase, GcFormat, MoveFails, MoveSkip, MoveStart,
     MoveHeader, MoveBody, MoveCommit, MoveDelete, MoveDirty
<1>4. Boot => cuts' = cuts
  BY DEF Boot, BootFormat, BootHeadersOk, BootGc, BootPreDelete, BootPreWrite, BootKvDone,
     BootCheck
<1>5. QED
  BY <1>1, <1>2, <1>3, <1>4 DEF Next

\* No step takes one back.
LEMMA CutsGrow ==
    ASSUME IInv, [Next]_vars, cuts' = 0
    PROVE  cuts = 0
<1>1. PowerCut => cuts' # 0
  BY KvdbAssumption DEF PowerCut, IInv, TypeOK, TypeLocals
<1>2. QED
  BY <1>1, CutsSame

UInv == KInv /\ (cuts = 0 => Uncut)

LEMMA InitUncut == Init => Clean /\ Laid /\ Uncut
<1> SUFFICES ASSUME Init PROVE Clean /\ Laid /\ Uncut
  OBVIOUS
<1> USE DEF SetPCs, GcPCs, MvPCs, BootPCs, WipePCs
<1>1. Clean
  BY DEF Init, Clean, Unformatted, EMPTY
<1>2. \A a \in Addrs : node[a].st = 0
  BY DEF Init, Blank
<1>3. Laid
  BY <1>2, AddrPair DEF Laid, Written
<1>4. Phases
  BY DEF Init, Phases, InGc, GcIdle, MvIdle, Replacing
<1>5. Statuses
  BY <1>2 DEF Statuses, PRE_WRITE, PRE_DELETE, ERR_HDR
<1>6. RequestNodes /\ MoveNodes
  BY DEF Init, RequestNodes, MoveNodes, Replacing
<1>7. OneHolder
  BY <1>2 DEF OneHolder, Holds, WRITE, PRE_DELETE
<1>8. Collected
  BY DEF Init, Collected, Unformatted, GC
<1>9. RoomLeft
  BY DEF Init, RoomLeft
<1>10. Cached
  BY DEF Init, Cached, CacheHit
<1>11. Erased
  BY DEF Init, Erased
<1>12. QED
  BY <1>1, <1>3, <1>4, <1>5, <1>6, <1>7, <1>8, <1>9, <1>10, <1>11 DEF Uncut

\* The inductive invariant holds in every reachable state.
LEMMA UncutInductive == Spec => []UInv
<1>1. Init => Clean /\ Laid /\ (cuts = 0 => Uncut)
  BY InitUncut
<1>2. /\ IInv /\ TInv /\ RInv /\ Clean /\ Laid /\ (cuts = 0 => Uncut)
      /\ [Next]_vars
      => Clean' /\ Laid' /\ (cuts = 0 => Uncut)'
  <2> SUFFICES ASSUME IInv, TInv, RInv, Clean, Laid, cuts = 0 => Uncut, [Next]_vars
               PROVE  Clean' /\ Laid' /\ (cuts' = 0 => Uncut')
    OBVIOUS
  <2>1. cuts' = 0 => Uncut'
    BY CutsGrow, UncutNext DEF KInv
  <2>2. QED
    BY <2>1, CleanNext, LaidNext
<1>3. IInv /\ TInv /\ RInv /\ Clean /\ Laid /\ (cuts = 0 => Uncut) => UInv
  BY DEF UInv, KInv
<1>4. QED
  BY <1>1, <1>2, <1>3, Inductive, TornInductive, ReserveInductive, PTL DEF Spec

-----------------------------------------------------------------------------
(* What it shows.                                                          *)

\* Until power fails every move finds room, so do_gc erases no sector with a node
\* that it could not copy.
THEOREM MovesFindRoomUntilCut == Spec => [](cuts = 0 => MovesFindRoom)
<1>1. UInv => (cuts = 0 => MovesFindRoom)
  BY RoomFound DEF UInv, Uncut
<1>2. QED
  BY <1>1, UncutInductive, PTL

\* Until power fails a key has one live node between calls.
THEOREM OneLiveUntilCut == Spec => [](cuts = 0 => OneLive)
<1>1. ASSUME UInv, cuts = 0
      PROVE  OneLive
  <2> SUFFICES ASSUME pc = "idle", NEW k \in Keys
               PROVE  Cardinality(Live(k)) <= 1
    BY DEF OneLive
  <2>1. KInv /\ Uncut
    BY <1>1 DEF UInv
  <2>2. \A a, b \in Live(k) : a = b
    BY <2>1, NodesAtRest, LiveHolder DEF Holds, Rest
  <2>3. Live(k) = {} \/ \E a \in Live(k) : Live(k) = {a}
    BY <2>2
  <2>4. CASE Live(k) = {}
    BY <2>4, FS_EmptySet
  <2>5. ASSUME NEW a \in Live(k), Live(k) = {a}
        PROVE  Cardinality(Live(k)) <= 1
    <3>1. Cardinality({a}) = 1
      BY FS_Singleton
    <3>2. QED
      BY <2>5, <3>1
  <2>6. QED
    BY <2>3, <2>4, <2>5
<1>2. QED
  BY <1>1, UncutInductive, PTL

\* Until power fails every collection and every write of a node has run to its end
\* before the next call is served: no sector stays marked, no node half written.
THEOREM RecoveryOverUntilCut == Spec => [](cuts = 0 => RecoveryOver)
<1>1. UInv => (cuts = 0 => RecoveryOver)
  BY NodesAtRest DEF UInv, RecoveryOver, GcOver, NoneHalfWritten, Uncut, Collected, MvPCs, Rest
<1>2. QED
  BY <1>1, UncutInductive, PTL

\* Until power fails every status is programmed over a lower one: the node that
\* find_kv returns is live, no handler marks a node or a sector twice.
THEOREM WritesRiseUntilCut == Spec => [](cuts = 0 => WritesRise)
<1>1. ASSUME UInv, cuts = 0
      PROVE  WritesRise
  <2>1. KInv /\ IInv /\ Uncut
    BY <1>1 DEF UInv, KInv
  <2>2. ASSUME pc = "alloc", Find(op.key) # NoAddr
        PROVE  StatusRises(Find(op.key), PRE_DELETE)
    <3>1. op.key \in Keys
      BY <2>1, <2>2, SetRequest DEF SetPCs
    <3>2. Find(op.key) \in Live(op.key)
      BY <2>1, <2>2, <3>1, FindLive
    <3>3. node[Find(op.key)].st = WRITE
      BY <3>2 DEF Live, Readable
    <3>4. QED
      BY <3>3 DEF StatusRises, WRITE, PRE_DELETE
  <2>3. pc = "commit" => StatusRises(tgt, WRITE)
    BY <2>1 DEF Uncut, RequestNodes, StatusRises, PRE_WRITE, WRITE
  <2>4. pc = "delete" => StatusRises(old, DELETED)
    BY <2>1 DEF IInv, Targets, Uncut, Phases, RequestNodes, Replacing, StatusRises,
                PRE_DELETE, WRITE, DELETED
  <2>5. pc = "mv_commit" => StatusRises(mv.dst, WRITE)
    BY <2>1 DEF Uncut, MoveNodes, StatusRises, PRE_WRITE, WRITE
  <2>6. pc = "mv_delete" => StatusRises(mv.src, DELETED)
    BY <2>1 DEF Uncut, MoveNodes, MvPCs, StatusRises, PRE_DELETE, DELETED
  <2>7. ASSUME pc = "gc_scan", NEW s \in ToCollect
        PROVE  hdr[s].dirty < GC
    <3>1. s \in Sectors /\ hdr[s].dirty \in {DIRTY, GC}
      BY <2>7 DEF ToCollect
    <3>2. hdr[s].dirty # GC
      BY <2>1, <2>7, <3>1 DEF Uncut, Collected, MvPCs
    <3>3. QED
      BY <3>1, <3>2 DEF DIRTY, GC
  <2>8. QED
    BY <2>2, <2>3, <2>4, <2>5, <2>6, <2>7 DEF WritesRise
<1>2. QED
  BY <1>1, UncutInductive, PTL

\* Until power fails fdb_kv_get returns the content of every key.
THEOREM ReadsSeeContentUntilCut == Spec => [](cuts = 0 => ReadsSeeContent)
<1>1. ASSUME UInv, cuts = 0
      PROVE  ReadsSeeContent
  <2> SUFFICES ASSUME pc = "idle", NEW k \in Keys
               PROVE  IF Content[k] = NoValue THEN Find(k) = NoAddr
                      ELSE Find(k) # NoAddr /\ Readable(Find(k), WRITE)
                                            /\ node[Find(k)].val = Content[k]
    BY DEF ReadsSeeContent
  <2>1. KInv /\ Uncut
    BY <1>1 DEF UInv
  <2>2. CASE Live(k) = {}
    <3>1. NoHolder(k) /\ Find(k) = NoAddr
      BY <2>1, <2>2, LiveHolder, FindLive
    <3>2. Outgoing(k) = {}
      BY <3>1 DEF Outgoing, NoHolder, Readable, Holds
    <3>3. Content[k] = NoValue
      BY <2>2, <3>2 DEF Content
    <3>4. QED
      BY <3>1, <3>3
  <2>3. CASE Live(k) # {}
    <3>1. PICK a \in Live(k) : Live(k) = {a}
      BY <2>1, <2>3, NodesAtRest, LiveHolder DEF Holds, Rest
    <3>2. Find(k) = a
      BY <2>1, <3>1, FindLive
    <3>3. FirstNode(Live(k)) = a
      BY <2>1, <3>1, FirstNodeIn DEF Live, KInv, IInv, TypeOK, TypeRam
    <3>4. Content[k] = node[a].val
      BY <3>1, <3>3 DEF Content
    <3>5. a \in Addrs /\ Readable(a, WRITE) /\ node[a].val \in Values
      <4>1. a \in Addrs /\ Readable(a, WRITE)
        BY <3>1 DEF Live
      <4>2. QED
        BY <2>1, <4>1, HolderWhole DEF Holds, Readable
    <3>6. a # NoAddr
      BY <3>5, KvdbAssumption DEF NoAddr, Addrs, Sectors
    <3>7. QED
      BY <3>2, <3>4, <3>5, <3>6, KvdbAssumption
  <2>4. QED
    BY <2>2, <2>3
<1>2. QED
  BY <1>1, UncutInductive, PTL

-----------------------------------------------------------------------------
(* What the flash holds for a key.                                         *)

HoldsFor(a, k) == Holds(a) /\ node[a].key = k

\* The node that decides: the live one, or else the one about to go.
Stands(a, k) ==
    /\ HoldsFor(a, k)
    /\ node[a].st = PRE_DELETE => \A b \in Addrs : HoldsFor(b, k) => node[b].st = PRE_DELETE

\* Of a key at most one node is live, and at most one about to go.
Single ==
    \A a, b \in Addrs :
       Holds(a) /\ Holds(b) /\ node[a].key = node[b].key /\ node[a].st = node[b].st => a = b

LEMMA SingleHolds == KInv /\ Uncut => Single
<1> SUFFICES ASSUME KInv, Uncut, NEW a \in Addrs, NEW b \in Addrs, Holds(a), Holds(b),
                    node[a].key = node[b].key, node[a].st = node[b].st
             PROVE  a = b
  BY DEF Single
<1>1. CASE Pair(a, b)
  <2>1. CASE pc = "delete" /\ op.kind = "set" /\ {a, b} = {old, tgt}
    <3>1. old # NoAddr
      BY <2>1 DEF KInv, IInv, Targets
    <3>2. node[old].st = PRE_DELETE /\ node[tgt].st = WRITE
      BY <2>1, <3>1 DEF Uncut, RequestNodes, Replacing
    <3>3. QED
      BY <2>1, <3>2 DEF PRE_DELETE, WRITE
  <2>2. CASE pc = "mv_delete" /\ {a, b} = {mv.src, mv.dst}
    <3>1. node[mv.src].st = PRE_DELETE /\ node[mv.dst].st = WRITE
      BY <2>2 DEF Uncut, MoveNodes, MvPCs
    <3>2. QED
      BY <2>2, <3>1 DEF PRE_DELETE, WRITE
  <2>3. QED
    BY <1>1, <2>1, <2>2 DEF Pair
<1>2. QED
  BY <1>1 DEF Uncut, OneHolder

\* The content of the store in terms of the nodes that stand.
Whole == IInv /\ TInv /\ Single
LEMMA ContentOf ==
    Whole => \A k \in Keys : /\ NoHolder(k) => Content[k] = NoValue
                             /\ \A a \in Addrs : Stands(a, k) => Content[k] = node[a].val
<1> SUFFICES ASSUME Whole, NEW k \in Keys
             PROVE  /\ NoHolder(k) => Content[k] = NoValue
                    /\ \A a \in Addrs : Stands(a, k) => Content[k] = node[a].val
  OBVIOUS
<1>1. ASSUME NEW a \in Addrs, Holds(a) PROVE node[a].crc = "good"
  <2>1. Written(a) /\ node[a] \in Node
    BY <1>1, WrittenNode DEF Holds, Written, WRITE, PRE_DELETE, Whole, IInv
  <2>2. node[a].crc # "bad"
    BY <1>1, <2>1 DEF Whole, TInv, TornNodesInert, Holds, WRITE, PRE_DELETE, PRE_WRITE, ERR_HDR
  <2>3. QED
    BY <2>1, <2>2 DEF Node
<1>2. \A a \in Addrs : /\ a \in Live(k) <=> HoldsFor(a, k) /\ node[a].st = WRITE
                       /\ a \in Outgoing(k) <=> HoldsFor(a, k) /\ node[a].st = PRE_DELETE
  BY <1>1 DEF Live, Outgoing, Readable, HoldsFor, Holds
<1>3. Live(k) \in SUBSET Addrs /\ Outgoing(k) \in SUBSET Addrs
  BY DEF Live, Outgoing
<1>4. \A a, b \in Live(k) : a = b
  BY <1>2, <1>3 DEF Whole, Single, HoldsFor
<1>5. \A a, b \in Outgoing(k) : a = b
  BY <1>2, <1>3 DEF Whole, Single, HoldsFor
<1>6. ASSUME NoHolder(k)
      PROVE  Content[k] = NoValue
  <2>1. Live(k) = {} /\ Outgoing(k) = {}
    BY <1>2, <1>3, <1>6 DEF NoHolder, HoldsFor
  <2>2. QED
    BY <2>1 DEF Content
<1>7. ASSUME NEW a \in Addrs, Stands(a, k)
      PROVE  Content[k] = node[a].val
  <2>0. oldest \in Sectors
    BY DEF Whole, IInv, TypeOK, TypeRam
  <2>1. CASE node[a].st = WRITE
    <3>1. a \in Live(k)
      BY <1>2, <1>7, <2>1 DEF Stands
    <3>2. FirstNode(Live(k)) = a
      BY <1>3, <1>4, <2>0, <3>1, FirstNodeIn
    <3>3. QED
      BY <3>1, <3>2 DEF Content
  <2>2. CASE node[a].st # WRITE
    <3>1. node[a].st = PRE_DELETE /\ a \in Outgoing(k)
      BY <1>2, <1>7, <2>2 DEF Stands, HoldsFor, Holds
    <3>2. Live(k) = {}
      BY <1>2, <1>3, <1>7, <3>1 DEF Stands, WRITE, PRE_DELETE
    <3>3. FirstNode(Outgoing(k)) = a
      BY <1>3, <1>5, <2>0, <3>1, FirstNodeIn
    <3>4. QED
      BY <3>1, <3>2, <3>3 DEF Content
  <2>3. QED
    BY <2>1, <2>2
<1>8. QED
  BY <1>6, <1>7

\* The same of the state after a step.
LEMMA SingleNext == KInv' /\ Uncut' => Single'
BY SingleHolds, PTL

LEMMA ContentNext ==
    Whole' => (\A k \in Keys : /\ NoHolder(k) => Content[k] = NoValue
                               /\ \A a \in Addrs : Stands(a, k) => Content[k] = node[a].val)'
BY ContentOf, PTL

\* Every key has such a node, or none that holds a value.
LEMMA StandsOr ==
    ASSUME NEW k
    PROVE  NoHolder(k) \/ \E a \in Addrs : Stands(a, k)
<1>1. ASSUME NEW a \in Addrs, HoldsFor(a, k)
      PROVE  \E b \in Addrs : Stands(b, k)
  <2>1. CASE \E b \in Addrs : HoldsFor(b, k) /\ node[b].st = WRITE
    BY <2>1 DEF Stands, WRITE, PRE_DELETE
  <2>2. CASE ~ \E b \in Addrs : HoldsFor(b, k) /\ node[b].st = WRITE
    BY <1>1, <2>2 DEF Stands, HoldsFor, Holds
  <2>3. QED
    BY <2>1, <2>2
<1>2. QED
  BY <1>1 DEF NoHolder, HoldsFor

-----------------------------------------------------------------------------
(* What a step does to the content.                                        *)

\* The content of a key stays with the node that stands for it ...
LEMMA ContentMoves ==
    ASSUME Whole, Whole', NEW k \in Keys, NEW a \in Addrs, NEW b \in Addrs,
           Stands(a, k), Stands(b, k)', node'[b].val = node[a].val
    PROVE  Content'[k] = Content[k]
BY ContentOf, ContentNext

\* ... and when no node of it is touched.
LEMMA ContentUntouched ==
    ASSUME Whole, Whole', NEW k \in Keys,
           \A b \in Addrs : /\ HoldsFor(b, k)' <=> HoldsFor(b, k)
                            /\ HoldsFor(b, k) => /\ node'[b].st = node[b].st
                                                 /\ node'[b].val = node[b].val
    PROVE  Content'[k] = Content[k]
<1>1. CASE NoHolder(k)
  <2>1. NoHolder(k)'
    BY <1>1 DEF NoHolder, HoldsFor
  <2>2. QED
    BY <1>1, <2>1, ContentOf, ContentNext
<1>2. ASSUME NEW a \in Addrs, Stands(a, k)
      PROVE  Content'[k] = Content[k]
  <2>1. Stands(a, k)' /\ node'[a].val = node[a].val
    BY <1>2 DEF Stands
  <2>2. QED
    BY <1>2, <2>1, ContentMoves
<1>3. QED
  BY <1>1, <1>2, StandsOr

\* A write to one node touches its key only.
LEMMA ContentElsewhere ==
    ASSUME Whole, Whole', NEW a \in Addrs, \A b \in Addrs : b # a => node'[b] = node[b],
           NEW k \in Keys, ~HoldsFor(a, k), ~HoldsFor(a, k)'
    PROVE  Content'[k] = Content[k]
<1>1. \A b \in Addrs : /\ HoldsFor(b, k)' <=> HoldsFor(b, k)
                       /\ HoldsFor(b, k) => /\ node'[b].st = node[b].st
                                            /\ node'[b].val = node[b].val
  BY DEF HoldsFor, Holds
<1>2. QED
  BY <1>1, ContentUntouched

\* A function is its values.
LEMMA ContentType ==
    /\ Content = [k \in Keys |-> Content[k]]
    /\ Content' = [k \in Keys |-> Content'[k]]
BY DEF Content

LEMMA ContentSame ==
    ASSUME \A k \in Keys : Content'[k] = Content[k]
    PROVE  Content' = Content
BY ContentType, Zenon

\* Where each key has at most one node that holds a value, that node stands.
LEMMA OnlyStands ==
    ASSUME \A a, b \in Addrs : Holds(a) /\ Holds(b) /\ node[a].key = node[b].key => a = b,
           NEW a \in Addrs, NEW k, HoldsFor(a, k)
    PROVE  Stands(a, k)
BY DEF Stands, HoldsFor

\* A live node stands.
LEMMA LiveStands ==
    ASSUME NEW a \in Addrs, NEW k, HoldsFor(a, k), node[a].st = WRITE
    PROVE  Stands(a, k)
BY DEF Stands, WRITE, PRE_DELETE

LEMMA LiveStandsNext ==
    ASSUME NEW a \in Addrs, NEW k, HoldsFor(a, k)', node'[a].st = WRITE
    PROVE  Stands(a, k)'
BY DEF Stands, WRITE, PRE_DELETE

\* No node is written, or none but in what no call reads.
LEMMA ContentQuiet ==
    ASSUME Whole, Whole', node' = node
    PROVE  Content' = Content
<1>1. ASSUME NEW k \in Keys PROVE Content'[k] = Content[k]
  <2>1. \A b \in Addrs : /\ HoldsFor(b, k)' <=> HoldsFor(b, k)
                         /\ HoldsFor(b, k) => /\ node'[b].st = node[b].st
                                              /\ node'[b].val = node[b].val
    BY DEF HoldsFor, Holds
  <2>2. QED
    BY <2>1, ContentUntouched
<1>2. QED
  BY <1>1, ContentSame

\* The header of a node that does not hold a value yet.
LEMMA ContentHeader ==
    ASSUME Whole, Whole', NEW a \in Addrs, ~Written(a), node'[a].st = PRE_WRITE,
           \A b \in Addrs : b # a => node'[b] = node[b]
    PROVE  Content' = Content
<1>1. ~Holds(a) /\ ~Holds(a)'
  BY DEF Holds, Written, PRE_WRITE, WRITE, PRE_DELETE
<1>2. \A k \in Keys : Content'[k] = Content[k]
  BY <1>1, ContentElsewhere DEF HoldsFor
<1>3. QED
  BY <1>2, ContentSame

\* Name and value of such a node.
LEMMA ContentBody ==
    ASSUME KInv, Whole, Whole', NEW a \in Addrs, Written(a),
           node' = [node EXCEPT ![a].crc = "good"]
    PROVE  Content' = Content
<1>1. \A b \in Addrs : /\ node'[b].st = node[b].st
                       /\ Written(b) => node'[b].key = node[b].key /\ node'[b].val = node[b].val
  BY BodySame
<1>2. ASSUME NEW k \in Keys PROVE Content'[k] = Content[k]
  <2>1. \A b \in Addrs : /\ HoldsFor(b, k)' <=> HoldsFor(b, k)
                         /\ HoldsFor(b, k) => /\ node'[b].st = node[b].st
                                              /\ node'[b].val = node[b].val
    BY <1>1 DEF HoldsFor, Holds, Written, WRITE, PRE_DELETE
  <2>2. QED
    BY <2>1, ContentUntouched
<1>3. QED
  BY <1>2, ContentSame

\* A live node is marked, and is the only one of its key.
LEMMA ContentMark ==
    ASSUME Whole, Whole', NEW f \in Addrs, node[f].st = WRITE, node'[f].st = PRE_DELETE,
           node'[f].key = node[f].key, node'[f].val = node[f].val,
           \A b \in Addrs : b # f => node'[b] = node[b],
           \A a, b \in Addrs : Holds(a) /\ Holds(b) /\ node[a].key = node[b].key => a = b
    PROVE  Content' = Content
<1>1. ASSUME NEW k \in Keys, node[f].key # k PROVE Content'[k] = Content[k]
  BY <1>1, ContentElsewhere DEF HoldsFor
<1>2. ASSUME NEW k \in Keys, node[f].key = k PROVE Content'[k] = Content[k]
  <2>1. Stands(f, k)
    BY <1>2, LiveStands DEF HoldsFor, Holds
  <2>2. Stands(f, k)'
    BY <1>2 DEF Stands, HoldsFor, Holds
  <2>3. QED
    BY <2>1, <2>2, ContentMoves
<1>3. QED
  BY <1>1, <1>2, ContentSame

\* A node is deleted of which a live one has the key.
LEMMA ContentDrop ==
    ASSUME Whole, Whole', NEW s \in Addrs, NEW d \in Addrs, s # d,
           node[d].st = WRITE, node[d].key = node[s].key,
           node'[s].st = DELETED, \A b \in Addrs : b # s => node'[b] = node[b],
           node'[s].key = node[s].key
    PROVE  Content' = Content
<1>1. ASSUME NEW k \in Keys, node[s].key # k PROVE Content'[k] = Content[k]
  BY <1>1, ContentElsewhere DEF HoldsFor
<1>2. ASSUME NEW k \in Keys, node[s].key = k PROVE Content'[k] = Content[k]
  <2>1. Stands(d, k)
    BY <1>2, LiveStands DEF HoldsFor, Holds
  <2>2. Stands(d, k)'
    BY <1>2, LiveStandsNext DEF HoldsFor, Holds
  <2>3. QED
    BY <2>1, <2>2, ContentMoves
<1>3. QED
  BY <1>1, <1>2, ContentSame

\* A copy becomes live beside its original.
LEMMA ContentCopy ==
    ASSUME Whole, Whole', NEW s \in Addrs, NEW d \in Addrs, s # d,
           node[s].st = PRE_DELETE, node[d].st = PRE_WRITE,
           node'[d].st = WRITE, node'[d].key = node[s].key, node'[d].val = node[s].val,
           node[d].key = node[s].key,
           \A b \in Addrs : b # d => node'[b] = node[b],
           \A a, b \in Addrs : Holds(a) /\ Holds(b) /\ node[a].key = node[b].key => a = b
    PROVE  Content' = Content
<1>1. ASSUME NEW k \in Keys, node[s].key # k PROVE Content'[k] = Content[k]
  BY <1>1, ContentElsewhere DEF HoldsFor
<1>2. ASSUME NEW k \in Keys, node[s].key = k PROVE Content'[k] = Content[k]
  <2>1. Stands(s, k)
    BY <1>2, OnlyStands DEF HoldsFor, Holds
  <2>2. Stands(d, k)'
    BY <1>2, LiveStandsNext DEF HoldsFor, Holds
  <2>3. QED
    BY <2>1, <2>2, ContentMoves
<1>3. QED
  BY <1>1, <1>2, ContentSame

-----------------------------------------------------------------------------
(* The steps that leave the content.                                       *)

LEMMA SetStartContent ==
    ASSUME KInv, Uncut, Whole, Whole', SetStart
    PROVE  Content' = Content
<1>1. CASE old' = NoAddr
  BY <1>1, SetStartResult, ContentQuiet DEF KInv
<1>2. CASE old' # NoAddr
  <2>1. PICK f \in Addrs : /\ f = old' /\ Written(f)
                           /\ node[f].st = WRITE /\ node[f].key = op.key
                           /\ \A b \in Addrs : b # f => node'[b] = node[b]
                           /\ node'[f].st = PRE_DELETE /\ node'[f].key = op.key
                           /\ node'[f].val = node[f].val
    BY <1>2, SetStartEffect
  <2>2. pc \in Rest
    BY DEF SetStart, Rest
  <2>3. \A a, b \in Addrs : Holds(a) /\ Holds(b) /\ node[a].key = node[b].key => a = b
    BY <2>2, NodesAtRest
  <2>4. QED
    BY <2>1, <2>3, ContentMark
<1>3. QED
  BY <1>1, <1>2

LEMMA GcMoveContent ==
    ASSUME KInv, Uncut, Whole, Whole', GcMove
    PROVE  Content' = Content
<1>1. PICK f \in Addrs : /\ f = mv'.src /\ node[f].st = WRITE
                         /\ \A b \in Addrs : b # f => node'[b] = node[b]
                         /\ node'[f].st = PRE_DELETE /\ node'[f].key = node[f].key
                         /\ node'[f].val = node[f].val
  BY GcMoveEffect
<1>2. \A a, b \in Addrs : Holds(a) /\ Holds(b) /\ node[a].key = node[b].key => a = b
  BY NodesAtRest DEF GcMove
<1>3. QED
  BY <1>1, <1>2, ContentMark

LEMMA HeadersContent ==
    ASSUME KInv, Uncut, Whole, Whole', SetHeader \/ MoveHeader
    PROVE  Content' = Content
<1>1. CASE SetHeader
  <2>1. PICK a \in Addrs, k \in Keys, v \in Values :
           /\ ~Written(a)
           /\ node' = [node EXCEPT ![a] = [key |-> k, val |-> v, st |-> PRE_WRITE, crc |-> "bad"]]
    BY <1>1, SetRequest, BeyondBlank DEF SetHeader, SetPCs, KInv, IInv, Targets
  <2>2. QED
    BY <2>1, HeaderEffect, ContentHeader DEF KInv, IInv
<1>2. CASE MoveHeader
  <2>1. PICK a \in Addrs, k \in Keys, v \in Values :
           /\ ~Written(a)
           /\ node' = [node EXCEPT ![a] = [key |-> k, val |-> v, st |-> PRE_WRITE, crc |-> "bad"]]
    BY <1>2, MoveRequest, BeyondBlank DEF MoveHeader, MvPCs, KInv, IInv, Targets
  <2>2. QED
    BY <2>1, HeaderEffect, ContentHeader DEF KInv, IInv
<1>3. QED
  BY <1>1, <1>2

LEMMA BodiesContent ==
    ASSUME KInv, Uncut, Whole, Whole', SetBody \/ MoveBody
    PROVE  Content' = Content
<1>1. PICK a \in Addrs : Written(a) /\ node' = [node EXCEPT ![a].crc = "good"]
  BY DEF SetBody, MoveBody, KInv, IInv, Targets
<1>2. QED
  BY <1>1, ContentBody

LEMMA MovesContent ==
    ASSUME KInv, Uncut, Whole, Whole', MoveCommit \/ MoveDelete
    PROVE  Content' = Content
<1>1. CASE MoveCommit
  <2>1. PICK s \in Addrs, d \in Addrs :
              /\ s = mv.src /\ d = mv.dst /\ s # d /\ Written(s) /\ Written(d)
              /\ node[s].st = PRE_DELETE /\ node[d].st = PRE_WRITE
              /\ node[s].key \in Keys /\ node[d].key = node[s].key /\ node[d].val = node[s].val
              /\ \A b \in Addrs : b # d => node'[b] = node[b]
              /\ node'[d].st = WRITE /\ node'[d].key = node[s].key /\ node'[d].val = node[s].val
    BY <1>1, MoveCommitEffect
  <2>2. \A a, b \in Addrs : Holds(a) /\ Holds(b) /\ node[a].key = node[b].key => a = b
    BY <1>1 DEF MoveCommit, Uncut, OneHolder, Pair
  <2>3. QED
    BY <2>1, <2>2, ContentCopy
<1>2. CASE MoveDelete
  <2>1. PICK s \in Addrs : /\ s = mv.src
                           /\ node[s].st = PRE_DELETE
                           /\ \A b \in Addrs : b # s => node'[b] = node[b]
                           /\ node'[s].st = DELETED /\ node'[s].key = node[s].key
                           /\ pc = "mv_delete"
    BY <1>2, MoveDeleteEffect
  <2>2. PICK d \in Addrs : node[d].st = WRITE /\ node[d].key = node[s].key
    BY <2>1 DEF Uncut, MoveNodes, MvPCs
  <2>3. s # d
    BY <2>1, <2>2 DEF WRITE, PRE_DELETE
  <2>4. QED
    BY <2>1, <2>2, <2>3, ContentDrop
<1>3. QED
  BY <1>1, <1>2

\* A collection erases no node that holds a value.
LEMMA GcEraseContent ==
    ASSUME KInv, Uncut, Whole, Whole', GcErase
    PROVE  Content' = Content
<1>1. \A a \in Addrs : node'[a] = IF a[1] = gc.sec THEN Blank ELSE node[a]
  BY EraseEffect DEF GcErase, KInv, IInv
<1>2. ASSUME NEW a \in Addrs, a[1] = gc.sec PROVE ~Holds(a) /\ ~Holds(a)'
  <2>1. PICK o \in Offsets : a = <<gc.sec, o>>
    BY <1>2, PairOf
  <2>2. pc = "gc_node" /\ ToMove = {}
    BY DEF GcErase
  <2>3. ~Holds(a)
    <3>1. SUFFICES ASSUME Holds(a) PROVE FALSE
      OBVIOUS
    <3>2. ~ (o < gc.off)
      BY <2>1, <2>2, <3>1 DEF Uncut, Collected, MvPCs
    <3>3. Readable(a, WRITE) \/ Readable(a, PRE_DELETE)
      BY <3>1, HolderWhole DEF Readable, Holds
    <3>4. o >= gc.off
      BY <3>2, KvdbAssumption DEF Offsets, KInv, IInv, TypeOK, TypeLocals, GcLocals
    <3>5. QED
      BY <2>1, <2>2, <3>3, <3>4 DEF ToMove
  <2>4. ~Holds(a)'
    BY <1>1, <1>2 DEF Holds, Blank, WRITE, PRE_DELETE
  <2>5. QED
    BY <2>3, <2>4
<1>3. ASSUME NEW k \in Keys PROVE Content'[k] = Content[k]
  <2>1. \A b \in Addrs : /\ HoldsFor(b, k)' <=> HoldsFor(b, k)
                         /\ HoldsFor(b, k) => /\ node'[b].st = node[b].st
                                              /\ node'[b].val = node[b].val
    BY <1>1, <1>2 DEF HoldsFor, Holds
  <2>2. QED
    BY <2>1, ContentUntouched
<1>4. QED
  BY <1>3, ContentSame

-----------------------------------------------------------------------------
(* The refinement: every step is one of the atomic store, or a stutter.    *)

LateSteps == {"delete", "deldirty", "end"}

\* When a request is done.
LEMMA DoneAt ==
    /\ Phases => (Done <=> /\ op # NoOp
                           /\ pc \in {"deldirty", "end"} \/ (pc = "delete" /\ op.kind = "set"))
    /\ Phases' => (Done' <=> /\ op' # NoOp
                             /\ \/ pc' \in {"deldirty", "end"}
                                \/ pc' = "delete" /\ op'.kind = "set")
BY DEF Phases, Done

LEMMA DoneKept == ~Done /\ ~Done' => Done' = Done
BY Zenon DEF Done

\* The steps that serve no request, or only work towards its deciding write.
WorkSteps ==
    \/ \E k \in Keys : Get(k)
    \/ SetStart \/ SetCollect \/ SetPreDirty \/ SetUsing \/ SetHeader \/ SetBody
    \/ GcPick \/ GcDone \/ GcMove \/ GcErase \/ GcFormat
    \/ MoveStart \/ MoveHeader \/ MoveBody \/ MoveCommit \/ MoveDelete
    \/ BootScan \/ BootFormat \/ BootHeadersOk \/ BootGc \/ BootKvDone \/ BootCheck

LEMMA WorkRequest ==
    ASSUME KInv, Uncut, WorkSteps
    PROVE  op' = op /\ result' = result /\ pc \notin LateSteps /\ pc' \notin LateSteps
<1> USE DEF LateSteps
<1>1. gc.ret \in {"idle", "alloc"}
  BY DEF Uncut, Phases
<1>2. CASE \/ \E k \in Keys : Get(k)
           \/ SetStart \/ SetCollect \/ SetPreDirty \/ SetUsing \/ SetHeader \/ SetBody
  BY <1>2 DEF Get, SetStart, SetCollect, StartGc, SetPreDirty, SetUsing, SetHeader, SetBody,
     request
<1>3. CASE GcPick \/ GcDone \/ GcMove \/ GcErase \/ GcFormat
  BY <1>1, <1>3 DEF GcPick, GcDone, EndGc, GcMove, GcErase, GcFormat, request
<1>4. CASE MoveStart \/ MoveHeader \/ MoveBody \/ MoveCommit
  BY <1>4 DEF MoveStart, MoveHeader, MoveBody, MoveCommit, request
<1>5. CASE MoveDelete
  BY <1>5, MoveDeleteEffect DEF MoveDelete, request
<1>6. CASE BootScan \/ BootFormat \/ BootHeadersOk \/ BootGc \/ BootKvDone \/ BootCheck
  BY <1>6
     DEF BootScan, BootFormat, BootHeadersOk, BootGc, BootKvDone, BootCheck, StartGc,
         request
<1>7. QED
  BY <1>2, <1>3, <1>4, <1>5, <1>6 DEF WorkSteps

LEMMA WorkContent ==
    ASSUME KInv, Uncut, Whole, Whole', WorkSteps
    PROVE  Content' = Content
<1>1. CASE \/ \E k \in Keys : Get(k)
           \/ SetCollect \/ GcDone \/ BootScan \/ BootHeadersOk \/ BootGc \/ BootKvDone \/ BootCheck
  BY <1>1, FlashKeptBy, ContentQuiet DEF Caller
<1>2. CASE SetPreDirty \/ SetUsing \/ GcPick \/ GcFormat \/ MoveStart \/ BootFormat
  BY <1>2, NodesKeptBy, ContentQuiet
<1>3. QED
  BY <1>1, <1>2, SetStartContent, GcMoveContent, HeadersContent, BodiesContent, MovesContent,
     GcEraseContent DEF WorkSteps

\* The steps that begin, decide or end a request, or erase and format for one.
RequestSteps ==
    \/ \E k \in Keys, v \in Values : BeginSet(k, v)
    \/ \E k \in Keys : BeginDel(k)
    \/ BeginReset \/ SetFull \/ SetCommit \/ DelMissing \/ Delete \/ DelDirty \/ End
    \/ EraseAll \/ FormatAll

LEMMA AllSteps ==
    ASSUME KInv, Uncut, [Next]_vars
    PROVE  WorkSteps \/ RequestSteps \/ Stop \/ PowerCut \/ UNCHANGED vars
<1>1. CASE cuts' = 0
  BY <1>1, UncutSteps DEF WorkSteps, RequestSteps, QuietSteps, NodeSteps
<1>2. CASE cuts' # 0
  BY <1>2, NeverTaken DEF Next, Caller, Serve, Collect, Boot, WorkSteps, RequestSteps
<1>3. QED
  BY <1>1, <1>2

-----------------------------------------------------------------------------

LEMMA BeginsRequest ==
    ASSUME KInv, Uncut, Uncut', Whole, Whole',
           \/ \E k \in Keys, v \in Values : BeginSet(k, v)
           \/ \E k \in Keys : BeginDel(k)
           \/ BeginReset
    PROVE  Abstract!Request
<1>1. Content' = Content
  BY FlashKeptBy, ContentQuiet DEF Caller
<1>2. /\ pc = "idle" /\ op' \in Ops /\ result' = "none" /\ gc' = gc
      /\ pc' \in {"alloc", "missing", "delete", "erase_all"} /\ (pc' = "delete" => op'.kind = "del")
  BY DEF BeginSet, BeginDel, BeginReset, Ops
<1>3. op = NoOp
  BY <1>2 DEF Uncut, Phases
<1>4. ~Done /\ ~Done'
  BY <1>2, <1>3, DoneAt DEF Uncut
<1>5. QED
  BY <1>1, <1>2, <1>3, <1>4, DoneKept DEF Abstract!Request, Abstract!Ops, Ops

\* The new node becomes live: the set takes effect.
LEMMA CommitApplies ==
    ASSUME KInv, Uncut, Uncut', Whole, Whole', SetCommit
    PROVE  Abstract!Apply
<1>1. PICK t \in Addrs : t = tgt
  BY CommitEffect
<1>2. /\ op.key \in Keys /\ op.val \in Values /\ op.kind = "set" /\ op' = op /\ result' = result
      /\ node[t].st = PRE_WRITE /\ node[t].key = op.key
      /\ \A b \in Addrs : b # t => node'[b] = node[b]
      /\ node'[t].st = WRITE /\ node'[t].key = op.key /\ node'[t].val = op.val
      /\ pc = "commit" /\ pc' \in {"end", "delete"}
  BY <1>1, CommitEffect DEF SetCommit, request
<1>3. op # NoOp
  BY <1>2 DEF Uncut, Phases, BootPCs, WipePCs
<1>4. ~Done /\ Done'
  BY <1>2, <1>3, DoneAt DEF Uncut
<1>5. \A k \in Keys : Content'[k] = IF k = op.key THEN op.val ELSE Content[k]
  <2>1. ASSUME NEW k \in Keys, k # op.key PROVE Content'[k] = Content[k]
    BY <1>2, <2>1, ContentElsewhere DEF HoldsFor
  <2>2. Content'[op.key] = op.val
    <3>1. Stands(t, op.key)'
      <4>1. PICK k \in Keys : k = op.key
        BY <1>2
      <4>2. Stands(t, k)'
        BY <1>2, <4>1, LiveStandsNext DEF HoldsFor, Holds
      <4>3. k = op'.key
        BY <1>2, <4>1
      <4>4. QED
        BY <4>2, <4>3 DEF Stands, HoldsFor
    <3>2. QED
      BY <1>2, <3>1, ContentNext DEF Stands, HoldsFor
  <2>3. QED
    BY <2>1, <2>2
<1>6. Content' = [Content EXCEPT ![op.key] = op.val]
  BY <1>5, ContentType, Zenon
<1>7. QED
  BY <1>2, <1>3, <1>4, <1>6 DEF Abstract!Apply

\* The only node of the key is deleted: the delete takes effect; and the node
\* that a set replaced.
LEMMA DeleteApplies ==
    ASSUME KInv, Uncut, Uncut', Whole, Whole', Delete
    PROVE  Abstract!Apply \/ UNCHANGED Abstract!vars
<1>1. PICK d \in Addrs : d = old
  BY DeleteEffect
<1>2. /\ pc = "delete" /\ pc' \in {"deldirty", "end"} /\ op' = op /\ result' = result
      /\ op.kind \in {"set", "del"} /\ node[d].key = op.key /\ Written(d)
      /\ node[d].st = IF op.kind = "set" THEN PRE_DELETE ELSE WRITE
      /\ \A b \in Addrs : b # d => node'[b] = node[b]
      /\ node'[d].st = DELETED /\ node'[d].key = op.key
      /\ old # NoAddr
  BY <1>1, DeleteEffect DEF Delete, request
<1>3. op # NoOp
  BY <1>2 DEF Uncut, Phases, BootPCs, WipePCs
<1>4. CASE op.kind = "set"
  <2>1. Done /\ Done'
    BY <1>2, <1>3, <1>4, DoneAt DEF Uncut
  <2>2. tgt \in Addrs /\ node[tgt].st = WRITE /\ node[tgt].key = op.key
    BY <1>2, <1>4 DEF Uncut, RequestNodes
  <2>3. Content' = Content
    BY <1>2, <1>4, <2>2, ContentDrop DEF WRITE, PRE_DELETE
  <2>4. QED
    BY <1>2, <2>1, <2>3 DEF Abstract!vars
<1>5. CASE op.kind = "del"
  <2>1. ~Done /\ Done'
    BY <1>2, <1>3, <1>5, DoneAt DEF Uncut
  <2>2. op.key \in Keys /\ node[d].val \in Values
    BY <1>2, WrittenNode DEF KInv, IInv
  <2>3. PICK k \in Keys : k = op.key
    BY <2>2
  <2>4. HoldsFor(d, k)
    BY <1>2, <1>5, <2>3 DEF HoldsFor, Holds
  <2>5. Content[k] # NoValue
    <3>1. Stands(d, k)
      BY <1>2, <1>5, <2>4, LiveStands
    <3>2. QED
      BY <2>2, <3>1, ContentOf, KvdbAssumption
  <2>6. Content'[k] = NoValue
    <3>1. \A b \in Addrs : HoldsFor(b, k) => b = d
      BY <1>2, <1>5, <2>4 DEF Uncut, OneHolder, Pair, HoldsFor
    <3>2. NoHolder(k)'
      BY <1>2, <3>1 DEF NoHolder, HoldsFor, Holds, DELETED, WRITE, PRE_DELETE
    <3>3. QED
      BY <3>2, ContentNext
  <2>7. ASSUME NEW j \in Keys, j # k PROVE Content'[j] = Content[j]
    BY <1>2, <2>3, <2>7, ContentElsewhere DEF HoldsFor
  <2>8. \A j \in Keys : Content'[j] = IF j = op.key THEN NoValue ELSE Content[j]
    BY <2>3, <2>6, <2>7
  <2>9. Content' = [Content EXCEPT ![op.key] = NoValue]
    BY <2>8, ContentType, Zenon
  <2>10. QED
    BY <1>2, <1>3, <1>5, <2>1, <2>3, <2>5, <2>9 DEF Abstract!Apply
<1>6. QED
  BY <1>2, <1>4, <1>5

LEMMA ReturnsHold ==
    ASSUME KInv, Uncut, Uncut', Whole, Whole', SetFull \/ DelMissing \/ End
    PROVE  Abstract!Return
<1>1. Content' = Content
  BY FlashKeptBy, ContentQuiet
<1>2. CASE SetFull
  <2>1. pc = "alloc" /\ op' = NoOp /\ result' = "full" /\ op.kind = "set"
    BY <1>2, SetRequest DEF SetFull, Finish, SetPCs, KInv
  <2>2. op # NoOp
    BY <2>1 DEF Uncut, Phases, BootPCs, WipePCs
  <2>3. ~Done /\ ~Done'
    BY <2>1, DoneAt DEF Uncut
  <2>4. QED
    BY <1>1, <2>1, <2>2, <2>3 DEF Abstract!Return
<1>3. CASE DelMissing
  <2>1. pc = "missing" /\ op' = NoOp /\ result' = "missing"
    BY <1>3 DEF DelMissing, Finish
  <2>2. op # NoOp /\ op.kind = "del"
    BY <2>1 DEF Uncut, Phases, BootPCs, WipePCs
  <2>3. ~Done /\ ~Done'
    BY <2>1, DoneAt DEF Uncut
  <2>4. op.key \in Keys
    BY <2>2 DEF KInv, IInv, TypeOK, TypeRequest, Ops
  <2>5. Content[op.key] = NoValue
    BY <2>1, <2>4, ContentOf DEF Uncut, RequestNodes
  <2>6. QED
    BY <1>1, <2>1, <2>2, <2>3, <2>5 DEF Abstract!Return
<1>4. CASE End
  <2>1. pc = "end" /\ ~gcReq
    BY <1>4, MoveInGc DEF End, Uncut, Phases, KInv, GcPCs, MvPCs
  <2>2. op' = NoOp /\ result' = "ok"
    BY <1>4, <2>1 DEF End, Finish
  <2>3. op # NoOp
    BY <2>1 DEF Uncut, Phases, BootPCs, WipePCs
  <2>4. Done /\ ~Done'
    BY <2>1, <2>2, <2>3, DoneAt DEF Uncut
  <2>5. QED
    BY <1>1, <2>2, <2>3, <2>4 DEF Abstract!Return
<1>5. QED
  BY <1>2, <1>3, <1>4

\* A reset erases the values of one sector.
LEMMA ErasesSome ==
    ASSUME KInv, Uncut, Uncut', Whole, Whole', EraseAll
    PROVE  Abstract!ResetSome \/ UNCHANGED Abstract!vars
<1>1. /\ pc = "erase_all" /\ pc' = "format_all" /\ op' = op /\ result' = result
      /\ Erase(fmt) /\ inRec' = inRec
  BY DEF EraseAll, request
<1>2. ~Done /\ ~Done'
  BY <1>1, DoneAt DEF Uncut
<1>3. \A a \in Addrs : node'[a] = IF a[1] = fmt THEN Blank ELSE node[a]
  BY <1>1, EraseEffect DEF KInv, IInv
<1>4. CASE inRec
  <2>1. \A a \in Addrs : ~Written(a)
    BY <1>1, <1>4 DEF Uncut, Erased, WipePCs
  <2>2. \A a \in Addrs : ~Holds(a) /\ ~Holds(a)'
    BY <1>3, <2>1 DEF Holds, Written, Blank, WRITE, PRE_DELETE
  <2>3. \A k \in Keys : Content'[k] = Content[k]
    BY <2>2, ContentUntouched DEF HoldsFor
  <2>4. QED
    BY <1>1, <1>2, <2>3, ContentSame, DoneKept DEF Abstract!vars
<1>5. CASE ~inRec
  <2>1. op # NoOp /\ op.kind = "reset"
    BY <1>1, <1>5 DEF Uncut, Phases, BootPCs, WipePCs
  <2>2. \A a, b \in Addrs : Holds(a) /\ Holds(b) /\ node[a].key = node[b].key => a = b
    BY <1>1, NodesAtRest DEF Rest, WipePCs
  <2>3. ASSUME NEW k \in Keys
        PROVE  Content'[k] \in {Content[k], NoValue} /\ Content'[k] \in Values \cup {NoValue}
    <3>1. CASE NoHolder(k)
      <4>1. NoHolder(k)'
        BY <1>3, <3>1 DEF NoHolder, Holds, Blank, WRITE, PRE_DELETE
      <4>2. QED
        BY <4>1, ContentNext
    <3>2. ASSUME NEW a \in Addrs, Stands(a, k), a[1] = fmt
          PROVE  Content'[k] = NoValue
      <4>1. NoHolder(k)'
        BY <1>3, <2>2, <3>2 DEF Stands, HoldsFor, NoHolder, Holds, Blank, WRITE, PRE_DELETE
      <4>2. QED
        BY <4>1, ContentNext
    <3>3. ASSUME NEW a \in Addrs, Stands(a, k), a[1] # fmt
          PROVE  Content'[k] = Content[k] /\ Content'[k] \in Values
      <4>1. node'[a] = node[a]
        BY <1>3, <3>3
      <4>2. Stands(a, k)'
        BY <1>3, <2>2, <3>3, <4>1
           DEF Stands, HoldsFor, Holds, Blank, WRITE, PRE_DELETE
      <4>3. Content'[k] = Content[k]
        BY <3>3, <4>1, <4>2, ContentMoves
      <4>4. Content[k] = node[a].val /\ node[a].val \in Values
        BY <3>3, ContentOf, HolderWhole DEF Stands, HoldsFor
      <4>5. QED
        BY <4>3, <4>4
    <3>4. QED
      BY <3>1, <3>2, <3>3, StandsOr
  <2>4. Content' \in {f \in [Keys -> Values \cup {NoValue}] :
                         \A k \in Keys : f[k] \in {Content[k], NoValue}}
    BY <2>3, ContentType
  <2>5. QED
    BY <1>1, <1>2, <2>1, <2>4, DoneKept DEF Abstract!ResetSome
<1>6. QED
  BY <1>4, <1>5

\* With the last sector formatted a reset is done, and nothing is left.
LEMMA FormatApplies ==
    ASSUME KInv, Uncut, Uncut', Whole, Whole', FormatAll
    PROVE  Abstract!Apply \/ UNCHANGED Abstract!vars
<1>1. pc = "format_all" /\ op' = op /\ result' = result /\ node' = node /\ inRec' = inRec
  BY DEF FormatAll, request
<1>2. Content' = Content
  BY <1>1, ContentQuiet
<1>3. ~Done
  BY <1>1, DoneAt DEF Uncut
<1>4. CASE pc' # "end"
  <2>1. pc' \in {"erase_all", "boot_gc"}
    BY <1>4 DEF FormatAll
  <2>2. ~Done'
    BY <2>1, DoneAt DEF Uncut
  <2>3. QED
    BY <1>1, <1>2, <1>3, <2>2, DoneKept DEF Abstract!vars
<1>5. CASE pc' = "end"
  <2>1. ~inRec /\ ~ (fmt + 1 < NSec)
    BY <1>5 DEF FormatAll
  <2>2. op # NoOp /\ op.kind = "reset"
    BY <1>1, <2>1 DEF Uncut, Phases, BootPCs, WipePCs
  <2>3. Done'
    BY <1>1, <1>5, <2>2, DoneAt DEF Uncut
  <2>4. \A a \in Addrs : ~Written(a)
    <3>1. SUFFICES ASSUME NEW a \in Addrs, Written(a) PROVE FALSE
      OBVIOUS
    <3>2. fmt < a[1]
      BY <1>1, <3>1 DEF Uncut, Erased, WipePCs
    <3>3. a[1] \in 0..(NSec - 1) /\ fmt \in Nat
      BY PairOf, KvdbAssumption DEF Sectors, KInv, IInv, TypeOK, TypeLocals
    <3>4. QED
      BY <2>1, <3>2, <3>3, KvdbAssumption
  <2>5. \A k \in Keys : Content[k] = NoValue
    <3>1. \A k \in Keys : NoHolder(k)
      BY <2>4 DEF NoHolder, Holds, Written, WRITE, PRE_DELETE
    <3>2. QED
      BY <3>1, ContentOf
  <2>6. Content' = [k \in Keys |-> NoValue]
    BY <1>2, <2>5, ContentType, Zenon
  <2>7. QED
    BY <1>1, <1>3, <2>2, <2>3, <2>6 DEF Abstract!Apply
<1>6. QED
  BY <1>4, <1>5

LEMMA DirtyStutters ==
    ASSUME KInv, Uncut, Uncut', Whole, Whole', DelDirty
    PROVE  UNCHANGED Abstract!vars
<1>1. Content' = Content
  BY NodesKeptBy, ContentQuiet
<1>2. pc = "deldirty" /\ pc' = "end" /\ op' = op /\ result' = result
  BY DEF DelDirty, request
<1>3. Done' = Done
  BY <1>2, DoneAt DEF Uncut, Done
<1>4. QED
  BY <1>1, <1>2, <1>3 DEF Abstract!vars

-----------------------------------------------------------------------------
(* All together.                                                           *)

\* Power is lost, or the database is closed.
LEMMA OffKeeps ==
    ASSUME Whole, Whole', PowerCut \/ Stop
    PROVE  Abstract!Off
<1>1. Content' = Content
  BY FlashKeptBy, ContentQuiet
<1>2. op' = NoOp /\ result' = "none"
  BY DEF PowerCut, Stop, LoseRam
<1>3. ~Done'
  BY <1>2 DEF Done
<1>4. QED
  BY <1>1, <1>2, <1>3 DEF Abstract!Off

LEMMA StepRefines ==
    ASSUME UInv, UInv', [Next]_vars, cuts = 0
    PROVE  Abstract!Next \/ UNCHANGED Abstract!vars
<1>1. KInv /\ Uncut /\ Whole
  BY SingleHolds DEF UInv, KInv, Whole
<1>2. Whole' /\ (cuts' = 0 => Uncut')
  <2>1. KInv' /\ (cuts' = 0 => Uncut')
    BY DEF UInv
  <2>2. Single'
    <3>1. CASE cuts' = 0
      BY <2>1, <3>1, SingleNext
    <3>2. CASE cuts' # 0
      <4>1. node' = node
        <5>1. PowerCut \/ cuts' = cuts
          BY CutsSame
        <5>2. QED
          BY <3>2, <5>1, FlashKeptBy
      <4>2. QED
        BY <1>1, <4>1 DEF Whole, Single, Holds
    <3>3. QED
      BY <3>1, <3>2
  <2>3. QED
    BY <2>1, <2>2 DEF KInv, Whole
<1>3. CASE PowerCut \/ Stop
  BY <1>1, <1>2, <1>3, OffKeeps DEF Abstract!Next
<1>4. CASE ~PowerCut
  <2>1. Uncut'
    BY <1>2, <1>4, CutsSame
  <2>2. CASE WorkSteps
    <3>1. Content' = Content /\ op' = op /\ result' = result
      BY <1>1, <1>2, <2>2, WorkContent, WorkRequest
    <3>2. ~Done /\ ~Done'
      BY <1>1, <2>1, <2>2, WorkRequest, DoneAt DEF LateSteps, Uncut
    <3>3. QED
      BY <3>1, <3>2, DoneKept DEF Abstract!vars
  <2>3. CASE RequestSteps
    BY <1>1, <1>2, <2>1, <2>3, BeginsRequest, CommitApplies, DeleteApplies, ReturnsHold,
       ErasesSome, FormatApplies, DirtyStutters DEF RequestSteps, Abstract!Next
  <2>4. CASE UNCHANGED vars
    <3>1. Content' = Content
      BY <1>1, <1>2, <2>4, FlashKeptBy, ContentQuiet
    <3>2. op' = op /\ result' = result /\ Done' = Done
      BY <2>4 DEF vars, Done
    <3>3. QED
      BY <3>1, <3>2 DEF Abstract!vars
  <2>5. QED
    BY <1>1, <1>3, <1>4, <2>2, <2>3, <2>4, AllSteps
<1>5. QED
  BY <1>3, <1>4

-----------------------------------------------------------------------------
(* The theorems.                                                           *)

\* The blank flash of the first boot is the empty store.
LEMMA InitRefines == Init => Abstract!Init
<1> SUFFICES ASSUME Init PROVE Abstract!Init
  OBVIOUS
<1>1. op = NoOp /\ result = "none"
  BY DEF Init
<1>2. Done = FALSE
  BY <1>1, Zenon DEF Done
<1>3. Content = [k \in Keys |-> NoValue]
  <2>1. \A k \in Keys : Live(k) = {} /\ Outgoing(k) = {}
    BY DEF Init, Live, Outgoing, Readable, Blank, WRITE, PRE_DELETE
  <2>2. QED
    BY <2>1 DEF Content
<1>4. QED
  BY <1>1, <1>2, <1>3 DEF Abstract!Init

\* Until the first power cut, the cut itself included, every step of the code
\* is one of the atomic store or none at all: set_kv takes effect when the new
\* node becomes live and del_kv when the old one is deleted, "full" and
\* "missing" leave the content as it was, and collection, moves, header writes
\* and boots never touch it.
THEOREM AtomicUntilCut ==
    Spec => Abstract!Init /\ [][cuts = 0 => Abstract!Next \/ UNCHANGED Abstract!vars]_vars
<1>1. UInv /\ UInv' /\ [Next]_vars => (cuts = 0 => Abstract!Next \/ UNCHANGED Abstract!vars)
  BY StepRefines
<1>2. QED
  BY <1>1, InitRefines, UncutInductive, PTL DEF Spec

\* Where power never fails the database implements the atomic store.
THEOREM AtomicWithoutCuts == ASSUME MaxCuts = 0 PROVE Spec => AtomicStore
<1>1. UInv => cuts = 0
  BY KvdbAssumption DEF UInv, KInv, IInv, TypeOK, TypeLocals
<1>2. UInv /\ UInv' /\ [Next]_vars => [Abstract!Next]_(Abstract!vars)
  BY <1>1, StepRefines
<1>3. QED
  BY <1>2, InitRefines, UncutInductive, PTL DEF Spec, AtomicStore, Abstract!Spec

-----------------------------------------------------------------------------
(* The order of the sectors.                                               *)

\* Sectors are first used from the bottom of the database up ...
Unwrapped(o, E) == o = 0 /\ \A s \in E, t \in Sectors : s <= t => t \in E

\* ... and later one stays empty, behind which the oldest follows.
Wrapped(o, E) == \E e \in Sectors : E = {e} /\ o = SectorAfter(e)
Settled(o, E) == Unwrapped(o, E) \/ Wrapped(o, E)

\* Before anything is written.
NoneInUse == \A s \in Sectors : hdr[s].store \in {0, EMPTY}

\* A sector in use that has no room for the value being set.
Crowded(s) ==
    hdr[s].store = USING /\ hdr[s].dirty \in {CLEAN, DIRTY} =>
       \/ Cap <= HdrLen + Size[op.val] + Threshold
       \/ \E o \in Offsets :
             /\ Written(<<s, o>>)
             /\ Cap <= o + Size[node[<<s, o>>].val] + Size[op.val] + Threshold

\* A collection leaves its reserve alone, or takes it.
Spent == \/ Empties = {}
         \/ /\ \E e \in Sectors : Empties = {e}
            /\ \A s \in Sectors \ {gc.sec} : Crowded(s)

\* Afterwards the sector it has freed is the second empty one; the value being set
\* goes into the first.
Freed == /\ \E e, s \in Sectors : e # s /\ Empties = {e, s} /\ oldest = SectorAfter(s)
         /\ \A s \in Sectors : Crowded(s)

\* Where nothing is allocated or collected.
SettledPCs == {"idle", "header", "body", "commit", "delete", "deldirty", "missing", "end",
               "boot_gc", "boot_kv", "boot_check"}

\* The order of the sectors, at each step of a call, a collection or a boot.
Ordered ==
    /\ pc \notin {"off", "boot_hdr", "gc_format"} \cup WipePCs => Bad = {}
    /\ pc = "off" =>
          \/ NoneInUse
          \/ /\ zeroed => OldestOnFlash = 0
             /\ Bad = {} /\ \E o \in Sectors : Settled(o, Empties)
    /\ pc = "boot_hdr" => (oldest = 0 /\ NoneInUse) \/ (Bad = {} /\ Settled(oldest, Empties))
    /\ pc \in WipePCs => \A s \in Sectors : s < fmt => hdr[s].store = EMPTY
    /\ pc \in SettledPCs => Settled(oldest, Empties)
    /\ pc = "alloc" => Settled(oldest, Empties) \/ Freed
    /\ pc \in {"predirty", "using"} => Settled(oldest, Empties \ {tgt[1]})
    /\ pc = "gc_scan" => ~gc.all /\ Wrapped(oldest, Empties) /\ \A s \in Sectors : Crowded(s)
    /\ pc = "gc_node" \/ pc \in MvPCs => ~gc.all /\ hdr[gc.sec].store = USING /\ Spent
    /\ pc = "gc_format" => ~gc.all /\ Bad = {gc.sec} /\ Spent

\* No sector is full.
LEMMA StoreKinds ==
    ASSUME IInv, NEW s \in Sectors
    PROVE  hdr[s].store \in {0, EMPTY, USING} /\ hdr[s] \in Header
<1>1. hdr[s] \in Header /\ hdr[s].store # FULL
  BY DEF IInv, TypeOK, TypeFlash, Headers
<1>2. QED
  BY <1>1 DEF Header, EMPTY, USING, FULL

\* A scan that sees the headers finds the oldest sector again.
LEMMA FoundAgain ==
    ASSUME IInv, Bad = {}, NEW o \in Sectors, Settled(o, Empties)
    PROVE  OldestOnFlash = o
<1> DEFINE starts == {s \in Sectors \ {0} : /\ hdr[s - 1].store = EMPTY
                                            /\ hdr[s].store \in {USING, FULL}}
<1>1. /\ \A s \in Sectors : hdr[s].store \in {USING, FULL} <=> s \notin Empties
      /\ \A s \in Sectors \ {0} : s - 1 \in Sectors
      /\ \A s \in Sectors \ {0} : hdr[s - 1].store = EMPTY <=> s - 1 \in Empties
  <2>1. \A s \in Sectors : hdr[s].store = USING \/ hdr[s].store = EMPTY
    BY StoreKinds DEF Bad
  <2>2. \A s \in Sectors \ {0} : s - 1 \in Sectors
    BY KvdbAssumption DEF Sectors
  <2>3. QED
    BY <2>1, <2>2 DEF Empties, USING, FULL, EMPTY
<1>2. \A s : s \in starts <=> s \in Sectors \ {0} /\ s - 1 \in Empties /\ s \notin Empties
  BY <1>1
<1>3. OldestOnFlash = IF starts = {} THEN 0 ELSE Max(starts)
  BY DEF OldestOnFlash
<1> HIDE DEF starts
<1>4. CASE Unwrapped(o, Empties)
  <2>1. starts = {}
    BY <1>1, <1>2, <1>4, KvdbAssumption DEF Unwrapped, Sectors
  <2>2. QED
    BY <1>3, <1>4, <2>1 DEF Unwrapped
<1>5. CASE Wrapped(o, Empties)
  <2>1. PICK e \in Sectors : Empties = {e} /\ o = SectorAfter(e)
    BY <1>5 DEF Wrapped
  <2>2. CASE e + 1 < NSec
    <3>1. o = e + 1 /\ o \in Nat /\ starts = {o}
      <4>1. o = e + 1 /\ o \in Nat
        BY <2>1, <2>2, KvdbAssumption DEF SectorAfter, Sectors
      <4>2. \A s : s \in starts <=> s \in Sectors \ {0} /\ s - 1 = e /\ s # e
        BY <1>2, <2>1
      <4>3. \A s : s \in starts <=> s = o
        BY <2>2, <4>1, <4>2, KvdbAssumption DEF Sectors
      <4>4. QED
        BY <4>1, <4>3
    <3>2. Max({o}) = o
      <4>1. {o} \in SUBSET (0..o) /\ {o} # {}
        BY <3>1
      <4>2. Max({o}) \in {o}
        BY <3>1, <4>1, MaxOfNaturals
      <4>3. QED
        BY <4>2
    <3>3. QED
      BY <1>3, <3>1, <3>2
  <2>3. CASE ~(e + 1 < NSec)
    <3>1. starts = {} /\ o = 0
      BY <1>2, <2>1, <2>3, KvdbAssumption DEF SectorAfter, Sectors
    <3>2. QED
      BY <1>3, <3>1
  <2>4. QED
    BY <2>2, <2>3
<1>6. QED
  BY <1>4, <1>5 DEF Settled

\* Where no sector is in use it takes the lowest.
LEMMA NothingFound ==
    ASSUME NoneInUse
    PROVE  OldestOnFlash = 0 /\ (Bad = {} => Settled(0, Empties))
<1> DEFINE starts == {s \in Sectors \ {0} : /\ hdr[s - 1].store = EMPTY
                                            /\ hdr[s].store \in {USING, FULL}}
<1>1. starts = {}
  BY DEF NoneInUse, USING, FULL, EMPTY
<1>2. OldestOnFlash = 0
  BY <1>1 DEF OldestOnFlash
<1>3. Bad = {} => Empties = Sectors
  BY DEF Bad, Empties, NoneInUse
<1>4. QED
  BY <1>2, <1>3 DEF Settled, Unwrapped

\* That every sector in use is crowded is what alloc_kv sees when it finds none.
LEMMA CrowdedTaken ==
    ASSUME IInv, op \in SetOps
    PROVE  /\ (\A s \in Sectors : Crowded(s)) => Candidates(USING, Size[op.val]) = {}
           /\ Candidates(USING, Size[op.val]) = {} /\ ~gcReq => \A s \in Sectors : Crowded(s)
<1> DEFINE len == Size[op.val]
<1>1. len \in Nat
  BY KvdbAssumption DEF SetOps, Ops
<1>2. ASSUME NEW s \in Sectors, hdr[s].store = USING
      PROVE  /\ UsedEnd(s) \in Nat /\ HdrLen <= UsedEnd(s)
             /\ \A o \in Offsets : Written(<<s, o>>) =>
                     /\ Size[node[<<s, o>>].val] \in Nat
                     /\ o + Size[node[<<s, o>>].val] <= UsedEnd(s)
             /\ \/ UsedEnd(s) = HdrLen
                \/ \E o \in Offsets : Written(<<s, o>>) /\
                                       UsedEnd(s) = o + Size[node[<<s, o>>].val]
  <2>1. hdr[s].store # EMPTY
    BY <1>2 DEF USING, EMPTY
  <2>2. QED
    BY <1>2, <2>1, UsedEndBounds, WrittenNode, AddrPair DEF IInv
<1>3. ASSUME NEW s \in Sectors, Crowded(s), s \in Candidates(USING, len) PROVE FALSE
  <2>1. /\ hdr[s].store = USING /\ hdr[s].dirty \in {CLEAN, DIRTY}
        /\ Remain(s) > len + Threshold
    BY <1>3 DEF Candidates, Fits
  <2>2. UsedEnd(s) + len + Threshold < Cap /\ UsedEnd(s) \in Nat
    BY <1>1, <1>2, <2>1, KvdbAssumption DEF Remain
  <2>3. ~(Cap <= HdrLen + len + Threshold)
    BY <1>1, <1>2, <2>1, <2>2, KvdbAssumption
  <2>4. PICK o \in Offsets : /\ Written(<<s, o>>)
                             /\ Cap <= o + Size[node[<<s, o>>].val] + len + Threshold
    BY <1>3, <2>1, <2>3 DEF Crowded
  <2>5. o \in Nat /\ Size[node[<<s, o>>].val] \in Nat
        /\ o + Size[node[<<s, o>>].val] <= UsedEnd(s)
    BY <1>2, <2>1, <2>4, KvdbAssumption DEF Offsets
  <2> DEFINE b == Size[node[<<s, o>>].val]
  <2> HIDE DEF b, len
  <2>6. QED
    BY <1>1, <2>2, <2>4, <2>5, KvdbAssumption
<1>4. ASSUME NEW s \in Sectors, s \notin Candidates(USING, len), ~gcReq PROVE Crowded(s)
  <2> SUFFICES ASSUME hdr[s].store = USING, hdr[s].dirty \in {CLEAN, DIRTY}
               PROVE  \/ Cap <= HdrLen + len + Threshold
                      \/ \E o \in Offsets :
                            /\ Written(<<s, o>>)
                            /\ Cap <= o + Size[node[<<s, o>>].val] + len + Threshold
    BY DEF Crowded
  <2>1. ~(Remain(s) > len + Threshold)
    BY <1>4 DEF Candidates, Fits
  <2>2. Cap <= UsedEnd(s) + len + Threshold
    BY <1>1, <1>2, <2>1, KvdbAssumption DEF Remain
  <2>3. CASE UsedEnd(s) = HdrLen
    BY <2>2, <2>3
  <2>4. CASE \E o \in Offsets : Written(<<s, o>>) /\ UsedEnd(s) = o + Size[node[<<s, o>>].val]
    <3>1. PICK o \in Offsets : Written(<<s, o>>) /\ UsedEnd(s) = o + Size[node[<<s, o>>].val]
      BY <2>4
    <3>2. Cap <= o + Size[node[<<s, o>>].val] + len + Threshold
      BY <2>2, <3>1
    <3>3. QED
      BY <3>1, <3>2
  <2>5. QED
    BY <1>2, <2>3, <2>4
<1>5. (\A s \in Sectors : Crowded(s)) => Candidates(USING, len) = {}
  <2>1. Candidates(USING, len) \subseteq Sectors
    BY DEF Candidates
  <2>2. QED
    BY <1>3, <2>1
<1>6. QED
  BY <1>4, <1>5

\* Every empty sector has room.
LEMMA EmptiesFit ==
    ASSUME IInv, Clean, op \in SetOps
    PROVE  Candidates(EMPTY, Size[op.val]) = Empties
<1>1. Size[op.val] \in Nat /\ Size[op.val] + Threshold < Cap
  BY KvdbAssumption DEF SetOps, Ops
<1>2. ASSUME NEW s \in Empties PROVE s \in Candidates(EMPTY, Size[op.val])
  <2>1. s \in Sectors /\ hdr[s].store = EMPTY /\ hdr[s].dirty = CLEAN
    BY DEF Empties, Clean
  <2>2. UsedEnd(s) = 0
    BY <2>1 DEF UsedEnd
  <2>3. Remain(s) > Size[op.val] + Threshold
    BY <1>1, <2>2, KvdbAssumption DEF Remain
  <2>4. QED
    BY <2>1, <2>3 DEF Candidates, Fits
<1>3. QED
  BY <1>2 DEF Candidates, Empties

\* One empty sector only is the reserve.
LEMMA OneEmpty ==
    ASSUME Cardinality(Empties) = 1
    PROVE  \E e \in Sectors : Empties = {e}
<1>1. Empties # {}
  BY FS_EmptySet
<1>2. PICK e \in Empties : TRUE
  BY <1>1
<1>3. {e} \subseteq Empties /\ Cardinality({e}) = 1
  BY <1>2, FS_Singleton
<1>4. {e} = Empties
  BY <1>3, EmptiesFinite, FS_Subset
<1>5. QED
  BY <1>4 DEF Empties

\* The set takes the first of the sectors that have room, and the order stays.
LEMMA OrderAfterAlloc ==
    ASSUME IInv, Clean, op \in SetOps, ~gcReq, Alloc(Size[op.val]) # NoAddr,
           Settled(oldest, Empties) \/ Freed
    PROVE  Settled(oldest, Empties \ {Alloc(Size[op.val])[1]})
<1> DEFINE len == Size[op.val]
           inUse == Candidates(USING, len)
           fresh == IF Cardinality(Empties) > 1 \/ gcReq
                    THEN Candidates(EMPTY, len) ELSE {}
           S == IF inUse # {} THEN inUse ELSE fresh
           s == FirstFrom(oldest, S)
<1>1. S # {} /\ Alloc(len) = <<s, UsedEnd(s)>>
  BY DEF Alloc
<1>2. S \in SUBSET Sectors /\ oldest \in Sectors
  BY DEF Candidates, IInv, TypeOK, TypeRam
<1>3. s \in S /\ \A t \in S : Rank(oldest, s) <= Rank(oldest, t)
  <2> HIDE DEF S
  <2>1. QED
    BY <1>1, <1>2, FirstFromLeast
<1>4. Alloc(len)[1] = s
  BY <1>1
<1>5. SUFFICES Settled(oldest, Empties \ {s})
  BY <1>4
<1>6. CASE inUse # {}
  <2>1. s \notin Empties
    BY <1>3, <1>6 DEF Candidates, Empties, USING, EMPTY
  <2>2. ~Freed
    BY <1>6, CrowdedTaken DEF Freed
  <2>3. Empties \ {s} = Empties
    BY <2>1
  <2>4. QED
    BY <2>2, <2>3
<1>7. CASE inUse = {}
  <2>1. Cardinality(Empties) > 1 /\ S = Empties
    BY <1>1, <1>7, EmptiesFit
  <2> HIDE DEF S, s
  <2>2. s \in Empties /\ \A t \in Empties : Rank(oldest, s) <= Rank(oldest, t)
    BY <1>3, <2>1
  <2>3. s \in Sectors /\ Empties \subseteq Sectors
    BY <2>2 DEF Empties
  <2>4. CASE Unwrapped(oldest, Empties)
    <3>1. oldest = 0 /\ \A t \in Empties : s <= t
      BY <2>2, <2>3, <2>4, KvdbAssumption DEF Unwrapped, Rank, Sectors
    <3>2. ASSUME NEW x \in Empties \ {s}, NEW t \in Sectors, x <= t
          PROVE  t \in Empties \ {s}
      <4>1. t \in Empties
        BY <2>4, <3>2 DEF Unwrapped
      <4>2. s <= x /\ s # x /\ x \in Sectors
        BY <2>3, <3>1, <3>2
      <4>3. s # t
        BY <2>3, <3>2, <4>2, KvdbAssumption DEF Sectors
      <4>4. QED
        BY <4>1, <4>3
    <3>3. QED
      BY <3>1, <3>2 DEF Settled, Unwrapped
  <2>5. CASE Wrapped(oldest, Empties)
    <3>1. PICK e \in Sectors : Empties = {e}
      BY <2>5 DEF Wrapped
    <3>2. Cardinality({e}) = 1
      BY FS_Singleton
    <3>3. QED
      BY <2>1, <3>1, <3>2
  <2>6. CASE Freed
    <3>1. PICK e \in Sectors, f \in Sectors : /\ e # f /\ Empties = {e, f}
                                              /\ oldest = SectorAfter(f)
      BY <2>6 DEF Freed
    <3>2. Rank(oldest, e) < Rank(oldest, f)
      BY <3>1, KvdbAssumption DEF Rank, SectorAfter, Sectors
    <3>3. s = e
      <4>1. s \in {e, f} /\ Rank(oldest, s) <= Rank(oldest, e)
        BY <2>2, <3>1
      <4>2. Rank(oldest, e) \in Nat /\ Rank(oldest, f) \in Nat
        BY <1>2, RankType
      <4>3. QED
        BY <3>2, <4>1, <4>2
    <3>4. Empties \ {s} = {f}
      BY <3>1, <3>3
    <3>5. QED
      BY <3>1, <3>4 DEF Settled, Wrapped
  <2>7. QED
    BY <2>4, <2>5, <2>6 DEF Settled
<1>8. QED
  BY <1>6, <1>7

\* A set that finds no room and collects has spent what was empty but the reserve.
LEMMA OrderAtCollect ==
    ASSUME IInv, Clean, op \in SetOps, ~gcReq,
           Settled(oldest, Empties) \/ Freed, Alloc(Size[op.val]) = NoAddr
    PROVE  /\ Settled(oldest, Empties)
           /\ NeedsGc => Wrapped(oldest, Empties) /\ \A s \in Sectors : Crowded(s)
<1> DEFINE len == Size[op.val]
<1>0. IInv /\ Clean /\ op \in SetOps /\ ~gcReq
  OBVIOUS
<1>1. ~Freed
  <2> SUFFICES ASSUME Freed PROVE FALSE
    OBVIOUS
  <2>1. PICK e \in Sectors, f \in Sectors : e # f /\ Empties = {e, f}
    BY DEF Freed
  <2>2. Cardinality({e}) = 1 /\ IsFiniteSet({e})
    BY FS_Singleton
  <2>3. Cardinality(Empties) = 2
    <3>1. Empties = {e} \cup {f} /\ f \notin {e}
      BY <2>1
    <3>2. Cardinality({e} \cup {f}) = Cardinality({e}) + 1
      BY <2>2, <3>1, FS_AddElement
    <3>3. QED
      BY <2>2, <3>1, <3>2
  <2>4. Candidates(USING, len) = {} /\ Candidates(EMPTY, len) = Empties
    BY CrowdedTaken, EmptiesFit DEF Freed
  <2> DEFINE r == FirstFrom(oldest, Empties)
  <2>5. Alloc(len) = <<r, UsedEnd(r)>>
    BY <2>1, <2>3, <2>4 DEF Alloc
  <2>6. r \in Sectors
    BY <2>1, FirstFromLeast DEF IInv, TypeOK, TypeRam
  <2> HIDE DEF r
  <2>7. QED
    BY <2>5, <2>6, KvdbAssumption DEF NoAddr, Sectors
<1>2. ASSUME NeedsGc
      PROVE  Wrapped(oldest, Empties) /\ \A s \in Sectors : Crowded(s)
  <2>1. Candidates(USING, len) = {} /\ Cardinality(Empties) = 1
    BY <1>2 DEF NeedsGc, GcReqAfterAlloc
  <2>2. PICK e \in Sectors : Empties = {e}
    BY <2>1, OneEmpty
  <2>3. CASE Unwrapped(oldest, Empties)
    <3>1. oldest = 0 /\ \A t \in Sectors : e <= t => t = e
      BY <2>2, <2>3 DEF Unwrapped
    <3>2. NSec - 1 \in Sectors /\ e <= NSec - 1
      BY KvdbAssumption DEF Sectors
    <3>3. SectorAfter(e) = 0
      BY <3>1, <3>2, KvdbAssumption DEF SectorAfter, Sectors
    <3>4. QED
      BY <1>0, <2>1, <2>2, <3>1, <3>3, CrowdedTaken DEF Wrapped
  <2>4. QED
    BY <1>0, <1>1, <2>1, <2>3, CrowdedTaken DEF Settled
<1>3. QED
  BY <1>1, <1>2

\* A node that was written stays, until its sector is erased.
LEMMA WrittenStay ==
    ASSUME IInv, [Next]_vars, NEW a \in Addrs, Written(a)
    PROVE  \/ Written(a)' /\ node'[a].val = node[a].val
           \/ hdr'[a[1]].store = 0
<1>1. ASSUME NEW t \in Addrs, ~Written(t), NEW n \in Node, node' = [node EXCEPT ![t] = n]
      PROVE  Written(a)' /\ node'[a].val = node[a].val
  BY <1>1, HeaderStep DEF IInv
<1>2. CASE SetHeader
  <2> DEFINE n == [key |-> op.key, val |-> op.val, st |-> PRE_WRITE, crc |-> "bad"]
  <2>1. n \in Node /\ tgt \in Addrs /\ ~Written(tgt)
    BY <1>2, SetRequest, BeyondBlank
       DEF SetHeader, SetPCs, IInv, Targets, Node, PRE_WRITE
  <2>2. QED
    BY <1>1, <1>2, <2>1 DEF SetHeader
<1>3. CASE MoveHeader
  <2> DEFINE n == [key |-> Moved.key, val |-> Moved.val, st |-> PRE_WRITE, crc |-> "bad"]
  <2>1. n \in Node /\ mv.dst \in Addrs /\ ~Written(mv.dst)
    BY <1>3, MoveRequest, BeyondBlank
       DEF MoveHeader, MvPCs, IInv, Targets, Node, PRE_WRITE
  <2>2. QED
    BY <1>1, <1>3, <2>1 DEF MoveHeader
<1>4. ASSUME NEW s \in Sectors, Erase(s)
      PROVE  \/ Written(a)' /\ node'[a].val = node[a].val
             \/ hdr'[a[1]].store = 0
  BY <1>4, EraseStep DEF IInv, Written, Unformatted
<1>5. CASE EraseAll \/ GcErase
  BY <1>4, <1>5, WholeSector DEF EraseAll, GcErase
<1>6. ASSUME node' = node PROVE Written(a)' /\ node'[a].val = node[a].val
  BY <1>6 DEF Written
<1>7. ASSUME SameNodes PROVE Written(a)' /\ node'[a].val = node[a].val
  BY <1>7 DEF SameNodes
<1>8. QED
  BY <1>2, <1>3, <1>5, <1>6, <1>7, FlashKeptBy, NodesKeptBy, SameNodesBy
     DEF Next, Serve, Collect, Boot

\* While a set is served a crowded sector gets no emptier.
LEMMA CrowdedKept ==
    ASSUME IInv, [Next]_vars, op' = op, NEW s \in Sectors, Crowded(s),
           hdr'[s].store = USING /\ hdr'[s].dirty \in {CLEAN, DIRTY} =>
              hdr[s].store = USING /\ hdr[s].dirty \in {CLEAN, DIRTY}
    PROVE  Crowded(s)'
<1> SUFFICES ASSUME hdr'[s].store = USING, hdr'[s].dirty \in {CLEAN, DIRTY},
                    ~(Cap <= HdrLen + Size[op.val] + Threshold)
             PROVE  \E o \in Offsets :
                       /\ Written(<<s, o>>)'
                       /\ Cap <= o + Size[node'[<<s, o>>].val] + Size[op.val] + Threshold
  BY DEF Crowded
<1>1. PICK o \in Offsets :
         /\ Written(<<s, o>>)
         /\ Cap <= o + Size[node[<<s, o>>].val] + Size[op.val] + Threshold
  BY DEF Crowded
<1>2. <<s, o>> \in Addrs /\ <<s, o>>[1] = s /\ hdr'[s].store # 0
  BY AddrPair DEF USING
<1>3. Written(<<s, o>>)' /\ node'[<<s, o>>].val = node[<<s, o>>].val
  BY <1>1, <1>2, WrittenStay
<1>4. QED
  BY <1>1, <1>3

\* A step of a collection that writes no header.
LEMMA SpentKept ==
    ASSUME IInv, [Next]_vars, op' = op, gc'.sec = gc.sec, hdr' = hdr, Spent
    PROVE  Spent'
<1>1. Empties' = Empties
  BY SetsKept
<1>2. ASSUME NEW s \in Sectors, Crowded(s) PROVE Crowded(s)'
  BY <1>2, CrowdedKept
<1>3. QED
  BY <1>1, <1>2 DEF Spent

\* The calls and the boots.
LEMMA OrderAtRest ==
    ASSUME KInv, Uncut, Ordered, Stop => (zeroed' => OldestOnFlash = 0),
           \/ \E k \in Keys, v \in Values : BeginSet(k, v)
           \/ \E k \in Keys : BeginDel(k)
           \/ \E k \in Keys : Get(k)
           \/ BeginReset \/ SetFull \/ DelMissing \/ End
           \/ BootScan \/ BootHeadersOk \/ BootGc \/ BootKvDone \/ BootCheck \/ Stop
    PROVE  Ordered'
<1> USE DEF SettledPCs, WipePCs, MvPCs
<1>0. /\ \/ \E k \in Keys, v \in Values : BeginSet(k, v)
         \/ \E k \in Keys : BeginDel(k)
         \/ \E k \in Keys : Get(k)
         \/ BeginReset \/ SetFull \/ DelMissing \/ End
         \/ BootScan \/ BootHeadersOk \/ BootGc \/ BootKvDone \/ BootCheck \/ Stop
      /\ Stop => (zeroed' => OldestOnFlash = 0)
      /\ IInv /\ Clean /\ oldest \in Sectors
  BY DEF KInv, IInv, TypeOK, TypeRam
<1>1. hdr' = hdr
  BY <1>0, FlashKeptBy DEF Caller
<1>2. Empties' = Empties /\ Bad' = Bad /\ (NoneInUse' <=> NoneInUse)
  BY <1>1, SetsKept DEF NoneInUse
<1>3. CASE \/ \E k \in Keys, v \in Values : BeginSet(k, v)
           \/ \E k \in Keys : BeginDel(k)
           \/ \E k \in Keys : Get(k)
           \/ DelMissing
  <2>1. /\ pc \in {"idle", "missing"} /\ pc' \in {"idle", "alloc", "missing", "delete"}
        /\ oldest' = oldest
    BY <1>3 DEF BeginSet, BeginDel, Get, DelMissing, Finish
  <2>2. QED
    BY <1>2, <2>1 DEF Ordered
<1>4. CASE BeginReset
  <2>1. pc' = "erase_all" /\ fmt' = 0
    BY <1>4 DEF BeginReset
  <2>2. \A s \in Sectors : ~(s < fmt')
    BY <2>1, KvdbAssumption DEF Sectors
  <2>3. QED
    BY <2>1, <2>2 DEF Ordered
<1>5. CASE SetFull
  <2>1. /\ pc = "alloc" /\ pc' = "idle" /\ oldest' = oldest
        /\ Alloc(Size[op.val]) = NoAddr
    BY <1>5 DEF SetFull, Finish
  <2>2. op \in SetOps /\ ~gcReq
    BY <2>1 DEF KInv, IInv, Control, SetPCs, RInv, NotLast
  <2>3. Settled(oldest, Empties)
    BY <1>0, <2>1, <2>2, OrderAtCollect DEF Ordered
  <2>4. QED
    BY <1>2, <2>1, <2>3 DEF Ordered
<1>6. CASE End \/ BootCheck
  <2>1. ~gcReq
    BY <1>6 DEF End, BootCheck, Uncut, Phases, InGc, GcPCs, MvPCs, KInv, IInv, Control
  <2>2. pc \in {"end", "boot_check"} /\ pc' = "idle" /\ oldest' = oldest
    BY <1>6, <2>1 DEF End, BootCheck, Finish
  <2>3. QED
    BY <1>2, <2>2 DEF Ordered
<1>7. CASE BootScan
  <2>1. pc = "off" /\ pc' = "boot_hdr" /\ oldest' = OldestFound
    BY <1>7 DEF BootScan
  <2>2. CASE NoneInUse
    BY <1>2, <2>1, <2>2, NothingFound DEF OldestFound, Ordered
  <2>3. CASE /\ zeroed => OldestOnFlash = 0
             /\ Bad = {} /\ \E o \in Sectors : Settled(o, Empties)
    <3>1. OldestFound = OldestOnFlash
      BY <2>3 DEF OldestFound
    <3>2. QED
      BY <1>0, <1>2, <2>1, <2>3, <3>1, FoundAgain DEF Ordered
  <2>4. QED
    BY <2>1, <2>2, <2>3 DEF Ordered
<1>8. CASE BootHeadersOk
  <2>1. /\ pc = "boot_hdr" /\ Bad = {} /\ pc' \in {"erase_all", "boot_gc"} /\ fmt' = 0
        /\ oldest' = oldest
    BY <1>8 DEF BootHeadersOk
  <2>2. Settled(oldest, Empties)
    BY <2>1, NothingFound DEF Ordered
  <2>3. \A s \in Sectors : ~(s < fmt')
    BY <2>1, KvdbAssumption DEF Sectors
  <2>4. QED
    BY <1>2, <2>1, <2>2, <2>3 DEF Ordered
<1>9. CASE BootGc \/ BootKvDone
  <2>1. pc \in {"boot_gc", "boot_kv"} /\ ~Interrupted
    BY <1>9, NeverTaken DEF BootGc, BootKvDone
  <2>2. pc' \in {"boot_kv", "boot_check"} /\ oldest' = oldest
    BY <1>9, <2>1 DEF BootGc, BootKvDone
  <2>3. QED
    BY <1>2, <2>1, <2>2 DEF Ordered
<1>10. CASE Stop
  <2>1. pc = "idle" /\ pc' = "off" /\ (zeroed' => OldestOnFlash = 0)
    BY <1>0, <1>10 DEF Stop, LoseRam
  <2>2. OldestOnFlash' = OldestOnFlash
    BY <1>1 DEF OldestOnFlash
  <2>3. QED
    BY <1>0, <1>2, <2>1, <2>2 DEF Ordered
<1>11. QED
  BY <1>0, <1>3, <1>4, <1>5, <1>6, <1>7, <1>8, <1>9, <1>10

\* A set or a deletion: the new node may use up the lowest of the empty sectors.
LEMMA OrderAtSet ==
    ASSUME KInv, Uncut, Ordered,
           \/ SetStart \/ SetPreDirty \/ SetUsing \/ SetHeader \/ SetBody \/ SetCommit
           \/ Delete \/ DelDirty
    PROVE  Ordered'
<1> USE DEF SettledPCs, WipePCs, MvPCs
<1>0. IInv /\ TypeOK /\ Clean
  BY DEF KInv, IInv
<1>1. CASE SetStart
  <2>1. /\ pc = "alloc" /\ pc' \in {"predirty", "using"} /\ oldest' = oldest /\ hdr' = hdr
        /\ tgt' = Alloc(Size[op.val]) /\ Alloc(Size[op.val]) # NoAddr
    BY <1>1 DEF SetStart
  <2>2. op \in SetOps /\ ~gcReq
    BY <2>1 DEF KInv, IInv, Control, SetPCs, RInv, NotLast
  <2>3. Settled(oldest, Empties \ {tgt'[1]})
    BY <1>0, <2>1, <2>2, OrderAfterAlloc DEF Ordered
  <2>4. Empties' = Empties /\ Bad' = Bad
    BY <2>1, SetsKept
  <2>5. QED
    BY <2>1, <2>3, <2>4 DEF Ordered
<1>2. CASE SetPreDirty \/ DelDirty
  <2>1. SetDirty(old[1], DIRTY) /\ DIRTY \in 1..3
    BY <1>2 DEF SetPreDirty, DelDirty, DIRTY
  <2>2. Empties' = Empties /\ Bad' = Bad
    BY <1>0, <2>1, DirtySets
  <2>3. \/ pc = "predirty" /\ pc' = "using" /\ oldest' = oldest /\ tgt' = tgt
        \/ pc = "deldirty" /\ pc' = "end" /\ oldest' = oldest
    BY <1>2 DEF SetPreDirty, DelDirty, request
  <2>4. QED
    BY <2>2, <2>3 DEF Ordered
<1>3. CASE SetUsing
  <2>1. hdr' = [hdr EXCEPT ![tgt[1]].store = USING] /\ tgt \in Addrs
    BY <1>0, <1>3, SetUsingResult DEF SetUsing, IInv, Targets, Beyond
  <2>2. /\ \A t \in Sectors : t # tgt[1] => hdr'[t] = hdr[t]
        /\ hdr'[tgt[1]].store = USING
    BY <1>0, <2>1, PairOf DEF TypeOK, TypeFlash, Header
  <2>3. Empties' = Empties \ {tgt[1]}
    BY <2>2 DEF Empties, USING, EMPTY
  <2>4. Bad' \subseteq Bad
    BY <2>2 DEF Bad, USING
  <2>5. pc = "using" /\ pc' = "header" /\ oldest' = oldest
    BY <1>3 DEF SetUsing
  <2>6. QED
    BY <2>3, <2>4, <2>5 DEF Ordered
<1>4. CASE SetHeader \/ SetBody \/ SetCommit \/ Delete
  <2>1. hdr' = hdr
    BY <1>4, HeadersKeptBy
  <2>2. Empties' = Empties /\ Bad' = Bad
    BY <2>1, SetsKept
  <2>3. /\ pc \in {"header", "body", "commit", "delete"}
        /\ pc' \in {"body", "commit", "delete", "deldirty", "end"}
        /\ oldest' = oldest
    BY <1>4 DEF SetHeader, SetBody, SetCommit, Delete
  <2>4. QED
    BY <2>2, <2>3 DEF Ordered
<1>5. QED
  BY <1>1, <1>2, <1>3, <1>4

\* The boot that formats, and the reset.
LEMMA OrderAtFormat ==
    ASSUME KInv, Ordered, EraseAll \/ FormatAll \/ BootFormat
    PROVE  Ordered'
<1> USE DEF SettledPCs, WipePCs, MvPCs
<1>0. IInv /\ TypeOK
  BY DEF KInv, IInv
<1>1. CASE EraseAll
  <2>1. /\ pc = "erase_all" /\ pc' = "format_all" /\ fmt' = fmt /\ fmt \in Sectors /\ Erase(fmt)
    BY <1>0, <1>1, WholeSector DEF EraseAll
  <2>2. \A t \in Sectors : t # fmt => hdr'[t] = hdr[t]
    BY <1>0, <2>1, EraseStep
  <2>3. \A t \in Sectors : t < fmt => t # fmt
    BY <2>1, KvdbAssumption DEF Sectors
  <2>4. QED
    BY <2>1, <2>2, <2>3 DEF Ordered
<1>2. CASE FormatAll
  <2>1. /\ pc = "format_all" /\ fmt \in Sectors /\ hdr' = [hdr EXCEPT ![fmt] = Formatted]
    BY <1>0, <1>2, WholeSector DEF FormatAll
  <2>2. hdr'[fmt].store = EMPTY /\ \A t \in Sectors : t # fmt => hdr'[t] = hdr[t]
    BY <1>0, <2>1, FormatStep DEF Formatted
  <2>3. \A t \in Sectors : t < fmt + 1 => hdr'[t].store = EMPTY
    <3>1. \A t \in Sectors : t < fmt + 1 => t < fmt \/ t = fmt
      BY <2>1, KvdbAssumption DEF Sectors
    <3>2. QED
      BY <2>1, <2>2, <3>1 DEF Ordered
  <2>4. CASE fmt + 1 < NSec
    BY <1>2, <2>1, <2>3, <2>4 DEF FormatAll, Ordered
  <2>5. CASE ~(fmt + 1 < NSec)
    <3>1. \A t \in Sectors : hdr'[t].store = EMPTY
      BY <2>1, <2>3, <2>5, KvdbAssumption DEF Sectors
    <3>2. Empties' = Sectors /\ Bad' = {}
      BY <3>1 DEF Empties, Bad, EMPTY
    <3>3. pc' \in {"boot_gc", "end"} /\ oldest' = 0
      BY <1>2, <2>5 DEF FormatAll
    <3>4. Settled(0, Sectors)
      BY DEF Settled, Unwrapped
    <3>5. QED
      BY <3>2, <3>3, <3>4 DEF Ordered
  <2>6. QED
    BY <2>4, <2>5
<1>3. CASE BootFormat
  <2>1. PICK s \in Sectors : hdr' = [hdr EXCEPT ![s] = Formatted]
    BY <1>0, <1>3, WholeSector DEF BootFormat, Bad
  <2>2. hdr'[s].store = EMPTY /\ \A t \in Sectors : t # s => hdr'[t] = hdr[t]
    BY <1>0, <2>1, FormatStep DEF Formatted
  <2>3. pc = "boot_hdr" /\ pc' = "boot_hdr" /\ oldest' = oldest /\ Bad # {}
    BY <1>3 DEF BootFormat
  <2>4. oldest = 0 /\ NoneInUse
    BY <2>3 DEF Ordered
  <2>5. NoneInUse'
    BY <2>2, <2>4 DEF NoneInUse
  <2>6. QED
    BY <2>3, <2>4, <2>5 DEF Ordered
<1>4. QED
  BY <1>1, <1>2, <1>3

\* A collection begins, or ends without having found a sector.
LEMMA OrderAtScan ==
    ASSUME KInv, Uncut, Ordered, [Next]_vars, SetCollect \/ GcPick \/ GcDone
    PROVE  Ordered'
<1> USE DEF SettledPCs, WipePCs, MvPCs
<1>0. IInv /\ TypeOK /\ Clean
  BY DEF KInv, IInv
<1>1. CASE SetCollect
  <2>1. /\ pc = "alloc" /\ oldest' = oldest /\ hdr' = hdr /\ op' = op
        /\ Alloc(Size[op.val]) = NoAddr /\ NeedsGc
        /\ pc' \in {"alloc", "gc_scan"} /\ (pc' = "gc_scan" => ~gc'.all)
    BY <1>1 DEF SetCollect, StartGc, flash
  <2>2. op \in SetOps /\ ~gcReq
    BY <2>1 DEF KInv, IInv, Control, SetPCs, RInv, NotLast
  <2>3. Settled(oldest, Empties) /\ Wrapped(oldest, Empties) /\ \A s \in Sectors : Crowded(s)
    BY <1>0, <2>1, <2>2, OrderAtCollect DEF Ordered
  <2>4. Empties' = Empties /\ Bad' = Bad
    BY <2>1, SetsKept
  <2>5. \A s \in Sectors : Crowded(s)'
    BY <1>0, <2>1, <2>3, CrowdedKept
  <2>6. QED
    BY <2>1, <2>3, <2>4, <2>5 DEF Ordered
<1>2. CASE GcPick
  <2>1. /\ pc = "gc_scan" /\ pc' = "gc_node" /\ oldest' = oldest /\ op' = op
        /\ gc'.all = gc.all /\ gc'.sec = FirstFrom(gc.from, ToCollect)
    BY <1>2 DEF GcPick, request
  <2>2. /\ gc'.sec \in Sectors /\ hdr[gc'.sec].store # 0
        /\ hdr[gc'.sec].dirty \in {DIRTY, GC} /\ SetDirty(gc'.sec, GC)
    BY <1>0, <1>2, PickedSector
  <2>3. GC \in 1..3
    BY DEF GC
  <2>4. /\ \A t \in Sectors : hdr'[t].store = hdr[t].store
        /\ \A t \in Sectors : t # gc'.sec => hdr'[t] = hdr[t]
    BY <1>0, <2>2, <2>3, SetDirtyStep
  <2>5. hdr'[gc'.sec].store = USING
    BY <1>0, <2>2, <2>4, StoreKinds DEF Clean, CLEAN, DIRTY, GC
  <2>6. Empties' = Empties /\ Bad' = Bad
    BY <1>0, <2>2, <2>3, DirtySets
  <2>7. /\ ~gc.all /\ Bad = {} /\ \E e \in Sectors : Empties = {e}
        /\ \A s \in Sectors : Crowded(s)
    BY <2>1 DEF Ordered, Wrapped
  <2>8. \A s \in Sectors \ {gc'.sec} : Crowded(s)'
    BY <1>0, <2>1, <2>4, <2>7, CrowdedKept
  <2>9. QED
    BY <2>1, <2>5, <2>6, <2>7, <2>8 DEF Ordered, Spent
<1>3. CASE GcDone
  <2>1. pc = "gc_scan" /\ oldest' = oldest /\ hdr' = hdr /\ pc' = gc.ret
    BY <1>3 DEF GcDone, EndGc, flash
  <2>2. pc' = "alloc"
    BY <2>1 DEF Uncut, Phases, KInv, IInv, Control, GcPCs
  <2>3. Empties' = Empties /\ Bad' = Bad
    BY <2>1, SetsKept
  <2>4. QED
    BY <2>1, <2>2, <2>3 DEF Ordered, Settled
<1>4. QED
  BY <1>1, <1>2, <1>3

\* The moves of a collection, its erase, and the header of the freed sector.
LEMMA OrderAtMove ==
    ASSUME KInv, Uncut, Ordered, [Next]_vars, MoveSteps \/ GcErase \/ GcFormat
    PROVE  Ordered'
<1> USE DEF SettledPCs, WipePCs, MvPCs
<1>0. IInv /\ TypeOK /\ gc.sec \in Sectors /\ Uncut
  BY DEF KInv, IInv, TypeOK, TypeLocals, GcLocals
<1>1. CASE MoveStart
  <2>1. /\ hdr' = [hdr EXCEPT ![MoveRoom[1]].store = USING] /\ MoveRoom \in Addrs
        /\ pc = "mv_alloc" /\ pc' = "mv_header" /\ op' = op /\ gc' = gc
    BY <1>0, <1>1, MoveStartResult DEF MoveStart, Beyond, request
  <2> DEFINE s == MoveRoom[1]
  <2>2. /\ s \in Sectors /\ hdr'[s].store = USING /\ hdr'[s].dirty = hdr[s].dirty
        /\ \A t \in Sectors : t # s => hdr'[t] = hdr[t]
    BY <1>0, <2>1, PairOf DEF TypeOK, TypeFlash, Header
  <2> HIDE DEF s
  <2>3. Empties' = Empties \ {s}
    BY <2>2 DEF Empties, USING, EMPTY
  <2>4. Bad' \subseteq Bad
    BY <2>2 DEF Bad, USING
  <2>5. /\ ~gc.all /\ hdr[gc.sec].store = USING /\ Spent /\ Bad = {}
    BY <2>1 DEF Ordered
  <2>6. hdr'[gc.sec].store = USING
    BY <1>0, <2>2, <2>5
  <2>7. CASE Empties' = {}
    BY <2>1, <2>4, <2>5, <2>6, <2>7 DEF Ordered, Spent
  <2>8. CASE Empties' # {}
    <3>1. /\ \E e \in Sectors : Empties = {e}
          /\ \A t \in Sectors \ {gc.sec} : Crowded(t)
      BY <2>3, <2>5, <2>8 DEF Spent
    <3>2. Empties' = Empties /\ hdr[s].store # EMPTY
      <4>1. s \notin Empties
        BY <2>3, <2>8, <3>1
      <4>2. QED
        BY <2>2, <2>3, <4>1 DEF Empties
    <3>3. hdr[s].store = USING
      BY <1>0, <2>2, <2>5, <3>2, StoreKinds DEF Bad
    <3>4. \A t \in Sectors \ {gc.sec} : Crowded(t)'
      BY <1>0, <2>1, <2>2, <3>1, <3>3, CrowdedKept
    <3>5. Spent'
      BY <2>1, <3>1, <3>2, <3>4 DEF Spent
    <3>6. QED
      BY <2>1, <2>4, <2>5, <2>6, <3>5 DEF Ordered
  <2>9. QED
    BY <2>7, <2>8
<1>2. CASE GcMove \/ MoveHeader \/ MoveBody \/ MoveCommit \/ MoveDelete
  <2>1. hdr' = hdr
    BY <1>2, HeadersKeptBy
  <2>2. /\ pc = "gc_node" \/ pc \in MvPCs
        /\ pc' = "gc_node" \/ pc' \in MvPCs
        /\ op' = op /\ gc'.sec = gc.sec /\ gc'.all = gc.all
    <3>1. GcMove => gc'.sec = gc.sec /\ gc'.all = gc.all
      BY DEF GcMove, KInv, IInv, TypeOK, TypeLocals, GcLocals
    <3>2. mv.ret = "gc_node" \/ pc \notin MvPCs
      BY DEF Uncut, Phases, KInv, IInv, Control
    <3>3. QED
      BY <1>2, <3>1, <3>2
         DEF GcMove, MoveHeader, MoveBody, MoveCommit, MoveDelete, request
  <2>3. Spent'
    BY <1>0, <2>1, <2>2, SpentKept DEF Ordered
  <2>4. Empties' = Empties /\ Bad' = Bad
    BY <2>1, SetsKept
  <2>5. QED
    BY <2>1, <2>2, <2>3, <2>4 DEF Ordered
<1>3. CASE GcErase
  <2>1. pc = "gc_node" /\ pc' = "gc_format" /\ gc' = gc /\ op' = op /\ Erase(gc.sec)
    BY <1>3 DEF GcErase, request
  <2>2. /\ hdr'[gc.sec] = Unformatted
        /\ \A t \in Sectors : t # gc.sec => hdr'[t] = hdr[t]
    BY <1>0, <2>1, EraseStep
  <2>3. ~gc.all /\ hdr[gc.sec].store = USING /\ Spent /\ Bad = {}
    BY <2>1 DEF Ordered
  <2>4. Empties' = Empties /\ Bad' = {gc.sec}
    BY <1>0, <2>2, <2>3 DEF Empties, Bad, Unformatted, USING, EMPTY
  <2>5. \A s \in Sectors \ {gc.sec} : Crowded(s) => Crowded(s)'
    BY <1>0, <2>1, <2>2, CrowdedKept
  <2>6. Spent'
    BY <2>1, <2>3, <2>4, <2>5 DEF Spent
  <2>7. QED
    BY <2>1, <2>3, <2>4, <2>6 DEF Ordered
<1>4. CASE GcFormat
  <2>1. /\ pc = "gc_format" /\ ~gc.all /\ Bad = {gc.sec} /\ Spent
        /\ hdr' = [hdr EXCEPT ![gc.sec] = Formatted]
        /\ oldest' = SectorAfter(gc.sec) /\ op' = op
    BY <1>4 DEF GcFormat, Ordered, request
  <2>2. pc' = "alloc"
    BY <1>4, <2>1 DEF GcFormat, EndGc, Uncut, Phases, KInv, IInv, Control, GcPCs
  <2>3. /\ hdr'[gc.sec] = Formatted
        /\ \A t \in Sectors : t # gc.sec => hdr'[t] = hdr[t]
    BY <1>0, <2>1, FormatStep
  <2>4. /\ Empties' = Empties \cup {gc.sec} /\ Bad' = {} /\ gc.sec \notin Empties
    BY <1>0, <2>1, <2>3 DEF Empties, Bad, Formatted, EMPTY
  <2>5. CASE Empties = {}
    BY <1>0, <2>1, <2>2, <2>4, <2>5 DEF Ordered, Settled, Wrapped
  <2>6. CASE Empties # {}
    <3>1. /\ \E e \in Sectors : Empties = {e}
          /\ \A s \in Sectors \ {gc.sec} : Crowded(s)
      BY <2>1, <2>6 DEF Spent
    <3>2. \A s \in Sectors \ {gc.sec} : Crowded(s)'
      BY <1>0, <2>1, <2>3, <3>1, CrowdedKept
    <3>3. ASSUME NEW s \in Sectors, s = gc.sec PROVE Crowded(s)'
      BY <2>3, <3>3 DEF Crowded, Formatted, EMPTY, USING
    <3>4. \A s \in Sectors : Crowded(s)'
      BY <3>2, <3>3
    <3>5. \E e, s \in Sectors : e # s /\ Empties' = {e, s} /\ oldest' = SectorAfter(s)
      <4>1. PICK e \in Sectors : Empties = {e}
        BY <3>1
      <4>2. e # gc.sec /\ Empties' = {e, gc.sec}
        BY <2>4, <4>1
      <4>3. QED
        BY <1>0, <2>1, <4>2
    <3>6. Freed'
      BY <3>4, <3>5 DEF Freed
    <3>7. QED
      BY <2>2, <2>4, <3>6 DEF Ordered
  <2>7. QED
    BY <2>5, <2>6
<1>5. QED
  BY <1>1, <1>2, <1>3, <1>4 DEF MoveSteps

\* An open database is not one that was just switched on.
Awake == pc # "off" => ~zeroed

LEMMA AwakeStep ==
    ASSUME Awake, [Next]_vars
    PROVE  Awake'
<1>1. Caller => pc # "off" /\ zeroed' = zeroed
  BY DEF Caller, BeginSet, BeginDel, Get, BeginReset
<1>2. Serve => pc # "off" /\ zeroed' = zeroed
  BY DEF Serve, SetStart, SetCollect, SetFull, SetPreDirty, SetUsing, SetHeader, SetBody,
     SetCommit, DelMissing, Delete, DelDirty, End, EraseAll, FormatAll
<1>3. Collect => pc # "off" /\ zeroed' = zeroed
  BY DEF Collect, GcPick, GcDone, GcMove, GcErase, GcFormat, MoveFails, MoveSkip, MoveStart,
     MoveHeader, MoveBody, MoveCommit, MoveDelete, MoveDirty
<1>4. Boot => pc # "off" /\ zeroed' = zeroed
  BY DEF Boot, BootFormat, BootHeadersOk, BootGc, BootPreDelete, BootPreWrite, BootKvDone,
     BootCheck
<1>5. BootScan => ~zeroed'
  BY DEF BootScan
<1>6. PowerCut \/ Stop => pc' = "off"
  BY DEF PowerCut, Stop, LoseRam
<1>7. UNCHANGED vars => Awake'
  BY DEF vars, Awake
<1>8. QED
  BY <1>1, <1>2, <1>3, <1>4, <1>5, <1>6, <1>7 DEF Next, Awake

\* Every step keeps the order, if the power is lost only where the default is right.
LEMMA OrderNext ==
    ASSUME KInv, Uncut, Ordered, [Next]_vars, cuts' = 0,
           Stop => (zeroed' => OldestOnFlash = 0)
    PROVE  Ordered'
<1>1. CASE QuietSteps \/ NodeSteps
  BY <1>1, OrderAtRest, OrderAtSet, OrderAtFormat, OrderAtScan, OrderAtMove
     DEF QuietSteps, NodeSteps, MoveSteps
<1>2. CASE UNCHANGED vars
  <2>1. Empties' = Empties /\ Bad' = Bad /\ (NoneInUse' <=> NoneInUse)
    BY <1>2 DEF vars, Empties, Bad, NoneInUse
  <2>2. \A s \in Sectors : Crowded(s) => Crowded(s)'
    BY <1>2, CrowdedKept DEF KInv, vars
  <2>3. (Spent => Spent') /\ (Freed => Freed')
    BY <1>2, <2>1, <2>2 DEF vars, Spent, Freed
  <2>4. OldestOnFlash' = OldestOnFlash
    BY <1>2 DEF vars, OldestOnFlash
  <2>5. QED
    BY <1>2, <2>1, <2>2, <2>3, <2>4 DEF vars, Ordered
<1>3. QED
  BY <1>1, <1>2, UncutSteps

InOrder == [Next /\ (zeroed' /\ ~zeroed => OldestOnFlash = 0)]_vars

\* Such a behaviour is one of the database.
LEMMA InOrderIsSpec == InOrderSpec => Spec
<1>1. InOrder => [Next]_vars
  BY DEF InOrder
<1>2. QED
  BY <1>1, PTL DEF InOrderSpec, Spec, InOrder

\* The order holds in every state until a call is cut short.
LEMMA OrderInductive == InOrderSpec => [](UInv /\ Awake /\ (cuts = 0 => Ordered))
<1>1. Init => Awake /\ Ordered
  <2> SUFFICES ASSUME Init PROVE Awake /\ Ordered
    OBVIOUS
  <2>1. pc = "off" /\ NoneInUse
    BY DEF Init, NoneInUse, Unformatted
  <2>2. QED
    BY <2>1 DEF Awake, Ordered, SettledPCs, WipePCs, MvPCs
<1>2. UInv /\ Awake /\ (cuts = 0 => Ordered) /\ InOrder => (Awake /\ (cuts = 0 => Ordered))'
  <2> SUFFICES ASSUME UInv, Awake, cuts = 0 => Ordered, InOrder
               PROVE  Awake' /\ (cuts' = 0 => Ordered')
    OBVIOUS
  <2>1. /\ [Next]_vars
        /\ UNCHANGED vars \/ (zeroed' /\ ~zeroed => OldestOnFlash = 0)
    BY DEF InOrder
  <2>2. Stop => (zeroed' => OldestOnFlash = 0)
    <3>1. Stop => ~zeroed /\ pc' # pc
      BY DEF Awake, Stop, LoseRam
    <3>2. UNCHANGED vars => pc' = pc
      BY DEF vars
    <3>3. QED
      BY <2>1, <3>1, <3>2
  <2>3. ASSUME cuts' = 0 PROVE Ordered'
    <3>1. KInv /\ IInv
      BY DEF UInv, KInv
    <3>2. cuts = 0
      BY <2>1, <2>3, <3>1, CutsGrow
    <3>3. QED
      BY <2>1, <2>2, <2>3, <3>1, <3>2, OrderNext DEF UInv
  <2>4. QED
    BY <2>1, <2>3, AwakeStep
<1>3. QED
  BY <1>1, <1>2, UncutInductive, InOrderIsSpec, PTL DEF InOrderSpec, InOrder

\* Until a call is cut short a boot takes for the oldest sector the one that was
\* oldest before, where its scan sees the headers or power was lost while the
\* default is right: collections leave a single empty sector, and the oldest behind
\* it.  After any other power-on it takes sector 0 all the same (OldestFound).
THEOREM OldestRecoveredInOrder == InOrderSpec => []OldestRecovered
<1>1. ASSUME UInv, cuts = 0 => Ordered
      PROVE  OldestRecovered
  <2> SUFFICES ASSUME pc = "idle", cuts = 0 PROVE OldestOnFlash = oldest
    BY DEF OldestRecovered
  <2>1. IInv /\ oldest \in Sectors
    BY <1>1 DEF UInv, KInv, IInv, TypeOK, TypeRam
  <2>2. Bad = {} /\ Settled(oldest, Empties)
    BY <1>1 DEF Ordered, SettledPCs, WipePCs
  <2>3. QED
    BY <2>1, <2>2, FoundAgain
<1>2. QED
  BY <1>1, OrderInductive, PTL

-----------------------------------------------------------------------------
(* The library under readers: what a spoiled header is to it.              *)

\* A node over a spoiled address: a node like others, but for its status.
OverNode(key, val) == [key |-> key, val |-> val, st |-> Program(ERR_HDR, PRE_WRITE), crc |-> "bad"]

\* It is a node of the same length.
LEMMA OverNodeType ==
    ASSUME NEW k \in Keys, NEW v \in Values
    PROVE  OverNode(k, v) \in Node /\ OverNode(k, v).val = v
BY DEF OverNode, Node, Program, ERR_HDR, PRE_WRITE

\* The address such a header is written to.
LEMMA OverTargets ==
    ASSUME IInv
    PROVE  /\ SetHeaderSpoiled =>
                 /\ op.key \in Keys /\ op.val \in Values
                 /\ Beyond(tgt, Size[op.val]) /\ hdr[tgt[1]].store = USING
                 /\ tgt \in Addrs /\ ~Written(tgt)
                 /\ node' = [node EXCEPT ![tgt] = OverNode(op.key, op.val)]
           /\ MoveHeaderSpoiled =>
                 /\ Moved.key \in Keys /\ Moved.val \in Values
                 /\ Beyond(mv.dst, Size[Moved.val]) /\ hdr[mv.dst[1]].store = USING
                 /\ mv.dst \in Addrs /\ ~Written(mv.dst)
                 /\ node' = [node EXCEPT ![mv.dst] = OverNode(Moved.key, Moved.val)]
<1>1. CASE SetHeaderSpoiled
  <2>1. pc = "header" /\ node' = [node EXCEPT ![tgt] = OverNode(op.key, op.val)]
    BY <1>1 DEF SetHeaderSpoiled, Over, OverNode
  <2>2. op.key \in Keys /\ op.val \in Values
    BY <2>1, SetRequest DEF SetPCs
  <2>3. Beyond(tgt, Size[op.val]) /\ hdr[tgt[1]].store = USING
    BY <2>1 DEF IInv, Targets
  <2>4. tgt \in Addrs /\ ~Written(tgt)
    BY <2>3, BeyondBlank
  <2>5. ~MoveHeaderSpoiled
    BY <2>1 DEF MoveHeaderSpoiled
  <2>6. QED
    BY <2>1, <2>2, <2>3, <2>4, <2>5
<1>2. CASE MoveHeaderSpoiled
  <2>1. pc = "mv_header" /\ node' = [node EXCEPT ![mv.dst] = OverNode(Moved.key, Moved.val)]
    BY <1>2 DEF MoveHeaderSpoiled, Over, OverNode
  <2>2. Moved.key \in Keys /\ Moved.val \in Values
    BY <2>1, MoveRequest DEF MvPCs
  <2>3. Beyond(mv.dst, Size[Moved.val]) /\ hdr[mv.dst[1]].store = USING
    BY <2>1 DEF IInv, Targets
  <2>4. mv.dst \in Addrs /\ ~Written(mv.dst)
    BY <2>3, BeyondBlank
  <2>5. ~SetHeaderSpoiled
    BY <2>1 DEF SetHeaderSpoiled
  <2>6. QED
    BY <2>1, <2>2, <2>3, <2>4, <2>5
<1>3. QED
  BY <1>1, <1>2

\* Such a step is to the invariant what SetHeader and MoveHeader are.
LEMMA SpoiledStep ==
    ASSUME IInv, SetHeaderSpoiled \/ MoveHeaderSpoiled
    PROVE  IInv'
<1> USE DEF SetPCs, GcPCs, MvPCs
<1>1. PICK a \in Addrs, n \in Node :
         /\ ~Written(a) /\ hdr[a[1]].store = USING
         /\ node' = [node EXCEPT ![a] = n]
         /\ IF SetHeaderSpoiled THEN a = tgt ELSE a = mv.dst
  <2>1. CASE SetHeaderSpoiled
    BY <2>1, OverTargets, OverNodeType
  <2>2. CASE ~SetHeaderSpoiled
    BY <2>2, OverTargets, OverNodeType
  <2>3. QED
    BY <2>1, <2>2
<1>2. /\ node' \in [Addrs -> Node \cup {Blank}]
      /\ Written(a)'
      /\ \A b \in Addrs : b # a => node'[b] = node[b]
      /\ \A b \in Addrs : Written(b) => Written(b)' /\ node'[b] = node[b]
  BY <1>1, HeaderStep DEF IInv
<1>3. /\ UNCHANGED <<hdr, op, result, tgt, old, tried, oldest, gcReq, inRec, lastDel,
                     cache, gc, mv, at, fmt, zeroed, cuts>>
      /\ IF SetHeaderSpoiled THEN pc = "header" /\ pc' = "body"
                             ELSE pc = "mv_header" /\ pc' = "mv_body"
  BY DEF SetHeaderSpoiled, MoveHeaderSpoiled, request
<1>4. TypeOK'
  BY <1>2, <1>3 DEF IInv, TypeOK, TypeFlash, TypeRequest, TypeRam, TypeLocals, PCs
<1>5. Control' /\ Requests'
  BY <1>3 DEF IInv, Control, Requests
<1>6. Headers'
  <2> SUFFICES ASSUME NEW s \in Sectors, hdr[s].store \in {0, EMPTY}, NEW o \in Offsets
               PROVE  ~Written(<<s, o>>)'
    BY <1>3 DEF IInv, Headers
  <2>1. <<s, o>> # a
    BY <1>1 DEF USING, EMPTY
  <2>2. node'[<<s, o>>] = node[<<s, o>>]
    BY <1>2, <2>1, AddrPair
  <2>3. QED
    BY <2>2 DEF IInv, Headers, Written
<1>7. Formatting'
  BY <1>3 DEF IInv, Formatting
<1>8. Targets'
  <2>1. CASE SetHeaderSpoiled
    <3>1. old # NoAddr => old \in Addrs /\ Written(old)
      BY <1>3, <2>1 DEF IInv, Targets, TypeOK, TypeRequest
    <3>2. old' # NoAddr => Written(old)'
      BY <1>2, <1>3, <3>1 DEF Written
    <3>3. pc' = "body" /\ tgt' \in Addrs /\ Written(tgt)'
      BY <1>1, <1>2, <1>3, <2>1 DEF Written
    <3>4. QED
      BY <3>2, <3>3 DEF Targets
  <2>2. CASE ~SetHeaderSpoiled
    <3>1. mv.src \in Addrs /\ Written(mv.src)
      BY <1>3, <2>2 DEF IInv, Targets
    <3>2. mv'.src \in Addrs /\ Written(mv.src)'
      BY <1>2, <1>3, <3>1 DEF Written
    <3>3. pc' = "mv_body" /\ mv'.dst \in Addrs /\ Written(mv.dst)'
      BY <1>1, <1>2, <1>3, <2>2 DEF Written
    <3>4. QED
      BY <3>2, <3>3 DEF Targets
  <2>3. QED
    BY <2>1, <2>2
<1>9. QED
  BY <1>4, <1>5, <1>6, <1>7, <1>8 DEF IInv

\* What a step of readers and library is to the library.
LEMMA LibrarySteps ==
    ASSUME [RNext]_allvars
    PROVE  [Next]_vars \/ SetHeaderSpoiled \/ MoveHeaderSpoiled
<1>1. ASSUME NEW k \in Keys, GetObj(k)
      PROVE  Get(k)
  BY <1>1 DEF GetObj, Get
<1>2. QED
  BY <1>1 DEF RNext, allvars, Library, IterInit, IterNext, IterEnd, Next, Caller

\* The library's invariant, and its layout.
LInv == IInv /\ Laid

\* Readers and library keep both, and also the layout of what is spoiled.
LEMMA LayoutKept ==
    ASSUME LInv, [RNext]_allvars
    PROVE  LInv'
<1>1. CASE [Next]_vars
  BY <1>1, InvariantStep, LaidNext DEF LInv
<1>2. CASE SetHeaderSpoiled
  BY <1>2, SpoiledStep, OverTargets, OverNodeType, LaidHeader DEF LInv
<1>3. CASE MoveHeaderSpoiled
  BY <1>3, SpoiledStep, OverTargets, OverNodeType, LaidHeader DEF LInv
<1>4. QED
  BY <1>1, <1>2, <1>3, LibrarySteps

\* A node that was written stays, until its sector is erased.
LEMMA NodesStay ==
    ASSUME LInv, [RNext]_allvars, NEW a \in Addrs, Written(a)
    PROVE  \/ Written(a)' /\ node'[a].val = node[a].val
           \/ hdr'[a[1]].store = 0
<1>1. IInv
  BY DEF LInv
<1>2. CASE SetHeaderSpoiled \/ MoveHeaderSpoiled
  <2>1. ASSUME NEW t \in Addrs, ~Written(t), NEW n \in Node, node' = [node EXCEPT ![t] = n]
        PROVE  Written(a)' /\ node'[a].val = node[a].val
    BY <1>1, <2>1, HeaderStep DEF IInv
  <2>2. QED
    BY <1>1, <1>2, <2>1, OverTargets, OverNodeType
<1>3. QED
  BY <1>1, <1>2, WrittenStay, LibrarySteps

-----------------------------------------------------------------------------
(* The object of fdb_kv_get_obj.                                           *)

\* What a reader holds.
IterRec == [kind : {"iter", "done"}, start : Sectors, at : (0..NSec) \X Nat,
            seen : SUBSET Keys, twice : BOOLEAN, must : SUBSET Keys, quiet : BOOLEAN]
ObjRec  == [kind : {"obj"}, addr : Addrs, key : Keys, val : Values, own : BOOLEAN,
            erased : BOOLEAN]
ReaderType == rd \in IterRec \cup ObjRec \cup {NoReader}

\* The node of an object is there until its sector is erased.
ObjHeld == rd.kind = "obj" /\ ~rd.erased => Written(rd.addr) /\ node[rd.addr].val = rd.val

-----------------------------------------------------------------------------
(* The next node of an iteration.                                          *)

\* Of the nodes that an iterator has yet to come to one is the first.
LEMMA NextIn ==
    ASSUME rd.start \in Sectors, ToVisit # {}
    PROVE  /\ NextToVisit \in ToVisit
           /\ \A b \in ToVisit : NotBehind(Place(b), Place(NextToVisit))
<1> DEFINE R == {Rank(rd.start, a[1]) : a \in ToVisit}
<1>1. ToVisit \in SUBSET Addrs
  BY DEF ToVisit
<1>2. \A a \in ToVisit : Rank(rd.start, a[1]) \in Nat /\ a[2] \in Nat
  BY <1>1, RankType, PairOf, KvdbAssumption DEF Offsets
<1>3. PICK r \in R : \A q \in R : r <= q
  <2>1. R \in SUBSET Nat /\ R # {}
    BY <1>2
  <2> HIDE DEF R
  <2>2. QED
    BY <2>1, LeastNatural
<1> DEFINE O == {a[2] : a \in {b \in ToVisit : Rank(rd.start, b[1]) = r}}
<1>4. PICK p \in O : \A q \in O : p <= q
  <2>1. O \in SUBSET Nat /\ O # {}
    BY <1>2
  <2> HIDE DEF O
  <2>2. QED
    BY <2>1, LeastNatural
<1>5. PICK a \in ToVisit : Rank(rd.start, a[1]) = r /\ a[2] = p
  OBVIOUS
<1>6. ASSUME NEW b \in ToVisit
      PROVE  NotBehind(Place(b), Place(a))
  <2>1. r <= Rank(rd.start, b[1])
    BY <1>3
  <2>2. Rank(rd.start, b[1]) = r => p <= b[2]
    BY <1>4
  <2>3. r \in Nat /\ p \in Nat /\ Rank(rd.start, b[1]) \in Nat /\ b[2] \in Nat
    BY <1>2, <1>5
  <2>4. Rank(rd.start, b[1]) > r \/ (Rank(rd.start, b[1]) = r /\ b[2] >= p)
    BY <2>1, <2>2, <2>3
  <2>5. QED
    BY <1>5, <2>4 DEF NotBehind, Place
<1>7. QED
  BY <1>6 DEF NextToVisit

\* What Follow says, kind by kind.
LEMMA FollowKinds ==
    ASSUME Follow
    PROVE  /\ pc' = "off" \/ rd.kind \in {"none", "done"} => rd' = NoReader
           /\ pc' # "off" /\ rd.kind = "iter" =>
                 rd' = [rd EXCEPT !.must = Untouched(@), !.quiet = @ /\ UNCHANGED flash]
           /\ pc' # "off" /\ rd.kind = "obj" =>
                 rd' = [rd EXCEPT !.own = @ /\ Untouched({rd.key}) # {},
                                  !.erased = @ \/ hdr'[rd.addr[1]].store = 0]
BY DEF Follow

\* A reader keeps its type.
LEMMA ReaderTyped ==
    ASSUME LInv, ReaderType, [RNext]_allvars
    PROVE  ReaderType'
<1>1. CASE UNCHANGED allvars
  BY <1>1 DEF allvars, ReaderType
<1>2. CASE IterInit
  <2>1. LiveKeys \in SUBSET Keys /\ oldest \in Sectors
    BY DEF LiveKeys, LInv, IInv, TypeOK, TypeRam
  <2>2. PICK K \in SUBSET Keys : rd' = Iterator(oldest, K)
    BY <1>2, <2>1 DEF IterInit
  <2>3. <<0, 0>> \in (0..NSec) \X Nat
    BY KvdbAssumption
  <2>4. QED
    BY <2>1, <2>2, <2>3 DEF ReaderType, IterRec, Iterator
<1>3. CASE IterNext
  <2>1. rd \in IterRec /\ rd.start \in Sectors
    BY <1>3 DEF IterNext, ReaderType, IterRec, ObjRec, NoReader
  <2>2. PICK a \in Addrs : a = NextToVisit /\ Written(a)
    BY <1>3, <2>1, NextIn DEF IterNext, ToVisit, Readable, Written, WRITE
  <2>3. node[a].key \in Keys /\ Size[node[a].val] \in Nat /\ a[2] \in Nat
    BY <2>2, WrittenNode, PairOf, KvdbAssumption DEF Offsets, LInv, IInv
  <2>4. Place(a)[1] \in 0..NSec
    BY <2>1, RankType, PairOf, KvdbAssumption DEF Place
  <2>5. <<Place(a)[1], a[2] + Size[node[a].val]>> \in (0..NSec) \X Nat
    BY <2>3, <2>4
  <2>6. (rd.twice \/ node[a].key \in rd.seen) \in BOOLEAN
    OBVIOUS
  <2>7. rd.seen \cup {node[a].key} \in SUBSET Keys
    BY <2>1, <2>3 DEF IterRec
  <2>8. rd' = [rd EXCEPT !.at = <<Place(a)[1], a[2] + Size[node[a].val]>>,
                         !.seen = @ \cup {node[a].key},
                         !.twice = @ \/ node[a].key \in rd.seen]
    BY <1>3, <2>2 DEF IterNext
  <2>9. rd' \in IterRec
    BY <2>1, <2>5, <2>6, <2>7, <2>8 DEF IterRec
  <2>10. QED
    BY <2>9 DEF ReaderType
<1>4. CASE IterEnd
  <2>1. rd \in IterRec
    BY <1>4 DEF IterEnd, ReaderType, IterRec, ObjRec, NoReader
  <2>2. <<NSec, 0>> \in (0..NSec) \X Nat
    BY KvdbAssumption
  <2>3. rd' \in IterRec
    BY <1>4, <2>1, <2>2 DEF IterEnd, IterRec
  <2>4. QED
    BY <2>3 DEF ReaderType
<1>5. ASSUME NEW k \in Keys, GetObj(k)
      PROVE  ReaderType'
  <2>1. rd' = IF Find(k) = NoAddr THEN NoReader ELSE Object(Find(k), k)
    BY <1>5 DEF GetObj
  <2>2. CASE Find(k) = NoAddr
    BY <2>1, <2>2 DEF ReaderType
  <2>3. CASE Find(k) # NoAddr
    <3>1. Find(k) \in Addrs /\ node[Find(k)].val \in Values
      BY <2>3, FindResult, WrittenNode DEF LInv, IInv
    <3>2. Object(Find(k), k) \in ObjRec
      BY <3>1 DEF Object, ObjRec
    <3>3. QED
      BY <2>1, <2>3, <3>2 DEF ReaderType
  <2>4. QED
    BY <2>2, <2>3
<1>6. CASE Library
  <2>1. Follow
    BY <1>6 DEF Library
  <2>2. CASE pc' = "off" \/ rd.kind \in {"none", "done"}
    BY <2>1, <2>2, FollowKinds DEF ReaderType
  <2>3. CASE pc' # "off" /\ rd.kind = "iter"
    <3>1. rd \in IterRec
      BY <2>3 DEF ReaderType, ObjRec, NoReader
    <3>2. Untouched(rd.must) \in SUBSET Keys
      BY <3>1 DEF Untouched, IterRec
    <3>3. (rd.quiet /\ UNCHANGED flash) \in BOOLEAN
      OBVIOUS
    <3>4. PICK q \in BOOLEAN : q = (rd.quiet /\ UNCHANGED flash)
      BY <3>3
    <3>5. rd' = [rd EXCEPT !.must = Untouched(rd.must), !.quiet = q]
      BY <2>1, <2>3, <3>4, FollowKinds
    <3>6. rd' \in IterRec
      BY <3>1, <3>2, <3>5 DEF IterRec
    <3>7. QED
      BY <3>6 DEF ReaderType
  <2>4. CASE pc' # "off" /\ rd.kind = "obj"
    <3>1. rd \in ObjRec
      BY <2>4 DEF ReaderType, IterRec, NoReader
    <3>2. PICK o \in BOOLEAN, e \in BOOLEAN :
             rd' = [rd EXCEPT !.own = o, !.erased = e]
      BY <2>1, <2>4, FollowKinds
    <3>3. rd' \in ObjRec
      BY <3>1, <3>2 DEF ObjRec
    <3>4. QED
      BY <3>3 DEF ReaderType
  <2>5. rd.kind \in {"iter", "done", "obj", "none"}
    BY DEF ReaderType, IterRec, ObjRec, NoReader
  <2>6. QED
    BY <2>2, <2>3, <2>4, <2>5
<1>7. QED
  BY <1>1, <1>2, <1>3, <1>4, <1>5, <1>6 DEF RNext

\* No step takes the node of an object away but an erase of its sector.
LEMMA ObjHeldNext ==
    ASSUME LInv, ReaderType, ObjHeld, [RNext]_allvars
    PROVE  ObjHeld'
<1> SUFFICES ASSUME rd'.kind = "obj", ~rd'.erased
             PROVE  Written(rd.addr)' /\ node'[rd'.addr].val = rd'.val
  BY DEF ObjHeld
<1>1. ASSUME rd' = rd
      PROVE  Written(rd.addr)' /\ node'[rd'.addr].val = rd'.val
  <2>1. rd \in ObjRec /\ Written(rd.addr) /\ node[rd.addr].val = rd.val
    BY <1>1 DEF ObjHeld, ReaderType, IterRec, NoReader
  <2>2. CASE node' = node
    BY <1>1, <2>1, <2>2 DEF Written
  <2>3. CASE node' # node
    <3>1. Library
      BY <2>3 DEF RNext, allvars, vars, IterInit, IterNext, IterEnd, GetObj, flash
    <3>2. pc' # "off"
      BY <1>1, <2>1, <3>1, FollowKinds DEF Library, NoReader, ObjRec
    <3>3. rd'.erased = (rd.erased \/ hdr'[rd.addr[1]].store = 0)
      BY <2>1, <3>1, <3>2, FollowKinds DEF Library, ObjRec
    <3>4. hdr'[rd.addr[1]].store # 0
      BY <3>3
    <3>5. rd.addr \in Addrs
      BY <2>1 DEF ObjRec
    <3>6. Written(rd.addr)' /\ node'[rd.addr].val = node[rd.addr].val
      <4>1. PICK a \in Addrs : a = rd.addr
        BY <3>5
      <4>2. Written(a)' /\ node'[a].val = node[a].val
        BY <2>1, <3>4, <4>1, NodesStay
      <4>3. QED
        BY <1>1, <4>1, <4>2 DEF Written
    <3>7. QED
      BY <1>1, <2>1, <3>6
  <2>4. QED
    BY <2>2, <2>3
<1>2. CASE IterInit \/ IterNext \/ IterEnd
  <2>1. CASE IterInit
    <3>1. rd'.kind = "iter"
      BY <2>1 DEF IterInit, Iterator
    <3>2. QED
      BY <3>1
  <2>2. CASE IterNext \/ IterEnd
    <3>1. rd \in IterRec
      BY <2>2 DEF IterNext, IterEnd, ReaderType, ObjRec, NoReader
    <3>2. CASE IterNext
      BY <3>1, <3>2 DEF IterNext, IterRec
    <3>3. CASE IterEnd
      BY <3>1, <3>3 DEF IterEnd, IterRec
    <3>4. QED
      BY <2>2, <3>2, <3>3
  <2>3. QED
    BY <1>2, <2>1, <2>2
<1>3. ASSUME NEW k \in Keys, GetObj(k)
      PROVE  Written(rd.addr)' /\ node'[rd'.addr].val = rd'.val
  <2>1. Find(k) # NoAddr /\ rd' = Object(Find(k), k)
    BY <1>3 DEF GetObj, NoReader
  <2>2. Written(Find(k)) /\ node' = node
    BY <1>3, <2>1, FindResult DEF GetObj, flash, LInv, IInv
  <2>3. rd'.addr = Find(k) /\ rd'.val = node[Find(k)].val
    BY <2>1 DEF Object
  <2>4. QED
    BY <2>2, <2>3 DEF Written
<1>4. CASE Library
  <2>1. Follow
    BY <1>4 DEF Library
  <2>2. pc' # "off" /\ rd.kind = "obj"
    <3>1. rd.kind \in {"iter", "done", "obj", "none"}
      BY DEF ReaderType, IterRec, ObjRec, NoReader
    <3>2. rd'.kind # "none"
      OBVIOUS
    <3>3. ASSUME pc' # "off", rd.kind = "iter"
          PROVE  FALSE
      <4>1. rd \in IterRec
        BY <3>3 DEF ReaderType, ObjRec, NoReader
      <4>2. rd' = [rd EXCEPT !.must = Untouched(@), !.quiet = @ /\ UNCHANGED flash]
        BY <2>1, <3>3, FollowKinds
      <4>3. rd'.kind = rd.kind
        BY <4>1, <4>2 DEF IterRec
      <4>4. QED
        BY <3>3, <4>3
    <3>4. QED
      BY <2>1, <3>1, <3>2, <3>3, FollowKinds DEF NoReader
  <2>3. rd \in ObjRec
    BY <2>2 DEF ReaderType, IterRec, NoReader
  <2>4. rd' = [rd EXCEPT !.own = @ /\ Untouched({rd.key}) # {},
                         !.erased = @ \/ hdr'[rd.addr[1]].store = 0]
    BY <2>1, <2>2, FollowKinds
  <2>5. /\ rd'.addr = rd.addr /\ rd'.val = rd.val
        /\ ~rd.erased /\ hdr'[rd.addr[1]].store # 0
    BY <2>3, <2>4 DEF ObjRec
  <2>6. PICK a \in Addrs : a = rd.addr
    BY <2>3 DEF ObjRec
  <2>7. Written(a) /\ node[a].val = rd.val
    BY <2>2, <2>5, <2>6 DEF ObjHeld
  <2>8. Written(a)' /\ node'[a].val = node[a].val
    BY <2>5, <2>6, <2>7, NodesStay
  <2>9. QED
    BY <2>5, <2>6, <2>7, <2>8 DEF Written
<1>5. QED
  BY <1>1, <1>2, <1>3, <1>4 DEF RNext, allvars

\* The inductive invariant of readers and library.
LEMMA ReadersInductive == RSpec => [](LInv /\ ReaderType /\ ObjHeld)
<1>1. RInit => LInv /\ ReaderType /\ ObjHeld
  <2>1. RInit => LInv
    BY InitInv, InitUncut DEF RInit, LInv
  <2>2. RInit => ReaderType /\ ObjHeld
    BY DEF RInit, ReaderType, ObjHeld, NoReader
  <2>3. QED
    BY <2>1, <2>2
<1>2. LInv /\ ReaderType /\ ObjHeld /\ [RNext]_allvars => (LInv /\ ReaderType /\ ObjHeld)'
  <2> SUFFICES ASSUME LInv, ReaderType, ObjHeld, [RNext]_allvars
               PROVE  LInv' /\ ReaderType' /\ ObjHeld'
    OBVIOUS
  <2>1. QED
    BY LayoutKept, ReaderTyped, ObjHeldNext
<1>3. QED
  BY <1>1, <1>2, PTL DEF RSpec

\* Whatever calls, collections, power cuts and other readers come between, and also
\* between two flash writes of another thread, a blob reads back its value until its
\* sector is erased.
THEOREM ObjectsReadBack == RSpec => []ObjStable
<1>1. LInv /\ ReaderType /\ ObjHeld => ObjStable
  <2> SUFFICES ASSUME LInv, ReaderType, ObjHeld, rd.kind = "obj", ~rd.erased
               PROVE  BlobRead = rd.val
    BY DEF ObjStable
  <2>1. PICK a \in Addrs : a = rd.addr
    BY DEF ReaderType, IterRec, ObjRec, NoReader
  <2>2. Written(a) /\ node[a].val = rd.val
    BY <2>1 DEF ObjHeld
  <2>3. a[1] \in Sectors /\ a[2] \in Offsets /\ a = <<a[1], a[2]>>
    BY PairOf
  <2>4. ASSUME NEW o \in Offsets, o > a[2], o < a[2] + Size[rd.val]
        PROVE  ~Written(<<a[1], o>>)
    <3>1. SUFFICES ASSUME Written(<<a[1], o>>) PROVE FALSE
      OBVIOUS
    <3>2. a[2] + Size[node[<<a[1], a[2]>>].val] <= o
      BY <2>2, <2>3, <2>4, <3>1, KvdbAssumption DEF LInv, Laid, Offsets
    <3>3. Size[node[a].val] \in Nat
      BY <2>2, WrittenNode DEF LInv, IInv
    <3>4. QED
      BY <2>2, <2>3, <2>4, <3>2, <3>3, KvdbAssumption DEF Offsets
  <2>5. QED
    BY <2>1, <2>2, <2>4 DEF BlobRead
<1>2. QED
  BY <1>1, ReadersInductive, PTL

-----------------------------------------------------------------------------
(* The integrity check of fdb_kvdb_check.                                  *)

\* Only the node being written is torn, ...
NoneTorn == \A a \in Addrs : Written(a) => \/ node[a].crc = "good"
                                           \/ pc = "body" /\ a = tgt
                                           \/ pc = "mv_body" /\ a = mv.dst

\* ... and a sector in use has its first node, or gets it next, ...
Begun == \A s \in Sectors : HoldsNodes(s) =>
            /\ <<s, 0>> \in Addrs
            /\ \/ Written(<<s, 0>>)
               \/ pc = "header" /\ tgt = <<s, 0>>
               \/ pc = "mv_header" /\ mv.dst = <<s, 0>>

\* ... for in an empty sector alloc_kv returns the first address.
Freshly == pc \in {"predirty", "using"} /\ hdr[tgt[1]].store = EMPTY => tgt[2] = 0

Sound == NoneTorn /\ Begun /\ Freshly

WritingPCs == {"header", "mv_header", "body", "mv_body"}

\* A step that begins no node, and puts no sector in use.
LEMMA SoundKept ==
    ASSUME Sound, pc \notin WritingPCs, pc' \notin {"predirty", "using"},
           \A a \in Addrs : Written(a)' => Written(a) /\ node'[a].crc = node[a].crc,
           \A s \in Sectors : HoldsNodes(s)' =>
              HoldsNodes(s) /\ (<<s, 0>> \in Addrs /\ Written(<<s, 0>>) => Written(<<s, 0>>)')
    PROVE  Sound'
<1>1. NoneTorn'
  BY DEF Sound, NoneTorn, WritingPCs
<1>2. Begun'
  BY DEF Sound, Begun, WritingPCs
<1>3. QED
  BY <1>1, <1>2 DEF Sound, Freshly

\* What alloc_kv returns in an empty sector.
LEMMA AllocFresh ==
    ASSUME NEW len, Alloc(len) # NoAddr, hdr[Alloc(len)[1]].store = EMPTY
    PROVE  Alloc(len)[2] = 0
<1> DEFINE inUse == Candidates(USING, len)
           fresh == IF Cardinality(Empties) > 1 \/ gcReq
                    THEN Candidates(EMPTY, len) ELSE {}
           s == FirstFrom(oldest, IF inUse # {} THEN inUse ELSE fresh)
<1>1. Alloc(len) = <<s, UsedEnd(s)>>
  BY DEF Alloc
<1> HIDE DEF s
<1>2. QED
  BY <1>1 DEF UsedEnd

\* A sector is put in use for a node at its beginning, or has one there.
LEMMA SoundUsing ==
    ASSUME IInv, Sound, pc \notin WritingPCs, NEW a \in Addrs, Usable(a),
           hdr[a[1]].store = EMPTY => a[2] = 0,
           hdr' = [hdr EXCEPT ![a[1]].store = USING], node' = node,
           \/ pc' = "header" /\ tgt' = a
           \/ pc' = "mv_header" /\ mv'.dst = a
    PROVE  Sound'
<1>1. NoneTorn'
  BY DEF Sound, NoneTorn, WritingPCs, Written
<1>2. \A t \in Sectors : t # a[1] => hdr'[t] = hdr[t]
  BY StoreStep DEF IInv
<1>3. ASSUME NEW s \in Sectors, HoldsNodes(s)'
      PROVE  /\ <<s, 0>> \in Addrs
             /\ Written(<<s, 0>>)' \/ a = <<s, 0>>
  <2>1. CASE HoldsNodes(s)
    BY <2>1 DEF Sound, Begun, WritingPCs, Written
  <2>2. CASE ~HoldsNodes(s)
    <3>1. s = a[1]
      BY <1>2, <1>3, <2>2 DEF HoldsNodes
    <3>2. hdr[a[1]].store = EMPTY
      BY <2>2, <3>1 DEF Usable, HoldsNodes
    <3>3. a = <<s, 0>>
      BY <3>1, <3>2, PairOf
    <3>4. QED
      BY <3>3
  <2>3. QED
    BY <2>1, <2>2
<1>4. QED
  BY <1>1, <1>3 DEF Sound, Begun, Freshly

\* A header begins the node that Begun waits for.
LEMMA SoundHeader ==
    ASSUME IInv, Sound, NEW a \in Addrs, ~Written(a), NEW n \in Node,
           node' = [node EXCEPT ![a] = n], hdr' = hdr,
           \/ pc = "header" /\ tgt = a /\ pc' = "body" /\ tgt' = a
           \/ pc = "mv_header" /\ mv.dst = a /\ pc' = "mv_body" /\ mv'.dst = a
    PROVE  Sound'
<1>1. /\ Written(a)'
      /\ \A b \in Addrs : b # a => node'[b] = node[b]
      /\ \A b \in Addrs : Written(b) => Written(b)'
  BY HeaderStep DEF IInv
<1>2. NoneTorn'
  BY <1>1 DEF Sound, NoneTorn, Written
<1>3. ASSUME NEW s \in Sectors, HoldsNodes(s)'
      PROVE  <<s, 0>> \in Addrs /\ Written(<<s, 0>>)'
  BY <1>1, <1>3 DEF Sound, Begun, HoldsNodes
<1>4. QED
  BY <1>2, <1>3 DEF Sound, Begun, Freshly

\* Its body makes it whole.
LEMMA SoundBody ==
    ASSUME IInv, Sound, NEW a \in Addrs, Written(a),
           node' = [node EXCEPT ![a].crc = "good"], hdr' = hdr,
           \/ pc = "body" /\ tgt = a
           \/ pc = "mv_body" /\ mv.dst = a,
           pc' \in {"commit", "mv_commit"}
    PROVE  Sound'
<1>1. /\ \A b \in Addrs : b # a => node'[b] = node[b]
      /\ node'[a].crc = "good" /\ node'[a].st = node[a].st
  BY BodyEffect DEF IInv
<1>2. \A b \in Addrs : Written(b)' <=> Written(b)
  BY <1>1 DEF Written
<1>3. NoneTorn'
  BY <1>1, <1>2 DEF Sound, NoneTorn, Written
<1>4. ASSUME NEW s \in Sectors, HoldsNodes(s)'
      PROVE  <<s, 0>> \in Addrs /\ Written(<<s, 0>>)'
  BY <1>2, <1>4 DEF Sound, Begun, HoldsNodes
<1>5. QED
  BY <1>3, <1>4 DEF Sound, Begun, Freshly

\* The steps that do so.
WritingSteps == \/ SetStart \/ SetPreDirty \/ SetUsing \/ SetHeader \/ SetBody \/ MoveStart
                \/ MoveHeader \/ MoveBody

\* A status that is written leaves every node its CRC.
LEMMA StatusSound ==
    ASSUME IInv, NEW a \in Addrs, Written(a), NEW i \in 1..5, SetStatus(a, i)
    PROVE  \A b \in Addrs : /\ Written(b)' <=> Written(b)
                            /\ node'[b].crc = node[b].crc
<1>1. \A b \in Addrs : Written(b)' <=> Written(b)
  BY SetStatusStep DEF IInv
<1>2. \A b \in Addrs : node'[b].crc = node[b].crc
  BY StatusEffect DEF IInv
<1>3. QED
  BY <1>1, <1>2

\* These steps do so.
LEMMA StatusSteps ==
    ASSUME IInv, SetCommit \/ Delete \/ GcMove \/ MoveCommit \/ MoveDelete \/ BootPreWrite
    PROVE  \A b \in Addrs : /\ Written(b)' <=> Written(b)
                            /\ node'[b].crc = node[b].crc
<1>1. PRE_DELETE \in 1..5 /\ WRITE \in 1..5 /\ DELETED \in 1..5 /\ ERR_HDR \in 1..5
  BY DEF PRE_DELETE, WRITE, DELETED, ERR_HDR
<1>2. CASE SetCommit
  BY <1>1, <1>2, StatusSound DEF SetCommit, IInv, Targets
<1>3. CASE Delete
  BY <1>1, <1>3, StatusSound DEF Delete, IInv, Targets, TypeOK, TypeRequest
<1>4. CASE GcMove
  BY <1>1, <1>4, ToMoveFirst, StatusSound DEF GcMove, IInv, TypeOK, TypeLocals, GcLocals
<1>5. CASE MoveCommit
  BY <1>1, <1>5, StatusSound DEF MoveCommit, IInv, Targets
<1>6. CASE MoveDelete
  BY <1>1, <1>6, StatusSound DEF MoveDelete, IInv, Targets, MvPCs
<1>7. CASE BootPreWrite
  BY <1>1, <1>7, UnfinishedFirst, StatusSound DEF BootPreWrite
<1>8. QED
  BY <1>2, <1>3, <1>4, <1>5, <1>6, <1>7

\* No other step leads to or from a write of a node.
LEMMA OtherPCs ==
    ASSUME IInv, [Next]_vars, ~WritingSteps, ~PowerCut, ~UNCHANGED vars
    PROVE  pc \notin WritingPCs /\ pc' \notin {"predirty", "using"}
<1> USE DEF WritingPCs
<1>1. gc.ret \notin {"predirty", "using"} /\ mv.ret \notin {"predirty", "using"}
  BY DEF IInv, Control
<1>2. CASE Caller \/ BootScan \/ Stop
  BY <1>2 DEF Caller, BeginSet, BeginDel, Get, BeginReset, BootScan, Stop, LoseRam
<1>3. CASE Serve
  BY <1>3 DEF WritingSteps, Serve, SetCollect, SetFull, SetCommit, DelMissing, Delete,
     DelDirty, End, EraseAll, FormatAll, StartGc, Finish
<1>4. CASE Collect
  BY <1>1, <1>4 DEF WritingSteps, Collect, GcPick, GcDone, GcMove, GcErase, GcFormat,
     MoveFails, MoveSkip, MoveCommit, MoveDelete, MoveDirty, EndGc
<1>5. CASE Boot
  BY <1>5 DEF Boot, BootFormat, BootHeadersOk, BootGc, BootPreDelete, BootPreWrite,
     BootKvDone, BootCheck, StartGc
<1>6. QED
  BY <1>2, <1>3, <1>4, <1>5 DEF Next

\* Nor does any of them tear a node.
LEMMA SoundOthers ==
    ASSUME IInv, Sound, [Next]_vars, ~WritingSteps, ~PowerCut, ~UNCHANGED vars
    PROVE  Sound'
<1>1. pc \notin WritingPCs /\ pc' \notin {"predirty", "using"}
  BY OtherPCs
<1>2. ASSUME node' = node, \A s \in Sectors : HoldsNodes(s)' => HoldsNodes(s)
      PROVE  Sound'
  BY <1>1, <1>2, SoundKept DEF Written
<1>3. ASSUME hdr' = hdr, node' = node PROVE Sound'
  BY <1>2, <1>3 DEF HoldsNodes
<1>4. ASSUME NEW s, NEW d \in 1..3, SetDirty(s, d), node' = node PROVE Sound'
  BY <1>2, <1>4, SetDirtyStep DEF HoldsNodes, IInv
<1>5. ASSUME NEW s \in Sectors, hdr' = [hdr EXCEPT ![s] = Formatted], node' = node
      PROVE  Sound'
  BY <1>2, <1>5, FormatStep DEF HoldsNodes, IInv, Formatted, EMPTY, USING, FULL
<1>6. ASSUME NEW s \in Sectors, Erase(s) PROVE Sound'
  <2>1. /\ hdr'[s].store = 0
        /\ \A t \in Sectors : t # s => hdr'[t] = hdr[t]
    BY <1>6, EraseStep DEF IInv, Unformatted
  <2>2. \A a \in Addrs : node'[a] = IF a[1] = s THEN Blank ELSE node[a]
    BY <1>6, EraseEffect DEF IInv
  <2>3. \A a \in Addrs : Written(a)' => Written(a) /\ node'[a].crc = node[a].crc
    BY <2>2 DEF Written, Blank
  <2>4. ASSUME NEW t \in Sectors, HoldsNodes(t)'
        PROVE  /\ HoldsNodes(t)
               /\ <<t, 0>> \in Addrs /\ Written(<<t, 0>>) => Written(<<t, 0>>)'
    <3>1. t # s
      BY <2>1, <2>4 DEF HoldsNodes, USING, FULL
    <3>2. HoldsNodes(t)
      BY <2>1, <2>4, <3>1 DEF HoldsNodes
    <3>3. <<t, 0>> \in Addrs => node'[<<t, 0>>] = node[<<t, 0>>]
      BY <2>2, <3>1
    <3>4. QED
      BY <3>2, <3>3 DEF Written
  <2>5. QED
    BY <1>1, <2>3, <2>4, SoundKept
<1>7. ASSUME hdr' = hdr, \A b \in Addrs : /\ Written(b)' <=> Written(b)
                                          /\ node'[b].crc = node[b].crc
      PROVE  Sound'
  BY <1>1, <1>7, SoundKept DEF HoldsNodes
<1>8. DIRTY \in 1..3 /\ GC \in 1..3
  BY DEF DIRTY, GC
<1>9. CASE DelDirty \/ MoveDirty \/ GcPick
  BY <1>4, <1>8, <1>9 DEF DelDirty, MoveDirty, GcPick
<1>10. CASE FormatAll \/ GcFormat \/ BootFormat
  <2>1. BootFormat => FirstFrom(oldest, Bad) \in Sectors
    BY WholeSector DEF Bad
  <2>2. QED
    BY <1>5, <1>10, <2>1, WholeSector DEF FormatAll, GcFormat, BootFormat
<1>11. CASE EraseAll \/ GcErase
  BY <1>6, <1>11, WholeSector DEF EraseAll, GcErase
<1>12. CASE SetCommit \/ Delete \/ GcMove \/ MoveCommit \/ MoveDelete \/ BootPreWrite
  BY <1>7, <1>12, StatusSteps, HeadersKeptBy
<1>13. QED
  BY <1>3, <1>9, <1>10, <1>11, <1>12, FlashKeptBy
     DEF Next, Serve, Collect, Boot, WritingSteps

\* The steps that put a sector in use or write a node, over a spoiled address too.
LEMMA SoundWriting ==
    ASSUME IInv, Sound, WritingSteps \/ SetHeaderSpoiled \/ MoveHeaderSpoiled
    PROVE  Sound'
<1> USE DEF WritingPCs
<1>1. CASE SetStart
  <2>1. /\ pc = "alloc" /\ pc' \in {"predirty", "using"} /\ hdr' = hdr
        /\ tgt' = Alloc(Size[op.val]) /\ Alloc(Size[op.val]) # NoAddr
    BY <1>1 DEF SetStart
  <2>2. Freshly'
    BY <2>1, AllocFresh DEF Freshly
  <2>3. \A b \in Addrs : /\ Written(b)' <=> Written(b)
                         /\ node'[b].crc = node[b].crc
    <3>1. CASE old' = NoAddr
      BY <1>1, <3>1, SetStartResult DEF Written
    <3>2. CASE old' # NoAddr
      <4>1. PICK f \in Addrs : Written(f) /\ SetStatus(f, PRE_DELETE)
        BY <1>1, <3>2, SetStartResult
      <4>2. PRE_DELETE \in 1..5
        BY DEF PRE_DELETE
      <4>3. QED
        BY <4>1, <4>2, StatusSound
    <3>3. QED
      BY <3>1, <3>2
  <2>4. NoneTorn'
    BY <2>1, <2>3 DEF Sound, NoneTorn
  <2>5. Begun'
    BY <2>1, <2>3 DEF Sound, Begun, HoldsNodes
  <2>6. QED
    BY <2>2, <2>4, <2>5 DEF Sound
<1>2. CASE SetPreDirty
  <2>1. SetDirty(old[1], DIRTY) /\ pc = "predirty" /\ pc' = "using" /\ tgt' = tgt /\ node' = node
    BY <1>2 DEF SetPreDirty, request
  <2>2. \A t \in Sectors : hdr'[t].store = hdr[t].store
    BY <2>1, SetDirtyStep DEF IInv, DIRTY
  <2>3. tgt[1] \in Sectors
    BY <2>1, PairOf DEF IInv, Targets, Beyond
  <2>4. Freshly'
    BY <2>1, <2>2, <2>3 DEF Sound, Freshly
  <2>5. NoneTorn' /\ Begun'
    BY <2>1, <2>2 DEF Sound, NoneTorn, Begun, HoldsNodes, Written
  <2>6. QED
    BY <2>4, <2>5 DEF Sound
<1>3. CASE SetUsing
  <2>1. /\ pc = "using" /\ pc' = "header" /\ tgt' = tgt /\ node' = node
        /\ tgt \in Addrs /\ Usable(tgt)
    BY <1>3 DEF SetUsing, request, IInv, Targets, Beyond
  <2>2. hdr[tgt[1]].store = EMPTY => tgt[2] = 0
    BY <2>1 DEF Sound, Freshly
  <2>3. QED
    BY <1>3, <2>1, <2>2, SetUsingResult, SoundUsing
<1>4. CASE MoveStart
  <2>1. /\ pc = "mv_alloc" /\ pc' = "mv_header" /\ node' = node
        /\ MoveRoom # NoAddr /\ MoveRoom \in Addrs /\ Usable(MoveRoom)
    BY <1>4, MoveStartResult DEF MoveStart, Beyond
  <2>2. hdr[MoveRoom[1]].store = EMPTY => MoveRoom[2] = 0
    BY <2>1, AllocFresh DEF MoveRoom
  <2>3. mv'.dst = MoveRoom
    BY <1>4, MoveStartResult DEF IInv, TypeOK, TypeLocals, MvLocals
  <2>4. QED
    BY <1>4, <2>1, <2>2, <2>3, MoveStartResult, SoundUsing
<1>5. CASE SetHeader
  <2> DEFINE n == [key |-> op.key, val |-> op.val, st |-> PRE_WRITE, crc |-> "bad"]
  <2>1. n \in Node /\ tgt \in Addrs /\ ~Written(tgt)
    BY <1>5, SetRequest, BeyondBlank
       DEF SetHeader, SetPCs, IInv, Targets, Node, PRE_WRITE
  <2>2. pc = "header" /\ pc' = "body" /\ tgt' = tgt /\ hdr' = hdr
    BY <1>5 DEF SetHeader, request
  <2>3. node' = [node EXCEPT ![tgt] = n]
    BY <1>5 DEF SetHeader
  <2> HIDE DEF n
  <2>4. QED
    BY <2>1, <2>2, <2>3, SoundHeader
<1>6. CASE MoveHeader
  <2> DEFINE n == [key |-> Moved.key, val |-> Moved.val, st |-> PRE_WRITE, crc |-> "bad"]
  <2>1. n \in Node /\ mv.dst \in Addrs /\ ~Written(mv.dst)
    BY <1>6, MoveRequest, BeyondBlank
       DEF MoveHeader, MvPCs, IInv, Targets, Node, PRE_WRITE
  <2>2. pc = "mv_header" /\ pc' = "mv_body" /\ mv' = mv /\ hdr' = hdr
    BY <1>6 DEF MoveHeader
  <2>3. node' = [node EXCEPT ![mv.dst] = n]
    BY <1>6 DEF MoveHeader
  <2> HIDE DEF n
  <2>4. QED
    BY <2>1, <2>2, <2>3, SoundHeader
<1>7. CASE SetHeaderSpoiled
  <2>1. pc = "header" /\ pc' = "body" /\ tgt' = tgt /\ hdr' = hdr
    BY <1>7 DEF SetHeaderSpoiled, request
  <2>2. QED
    BY <1>7, <2>1, OverTargets, OverNodeType, SoundHeader
<1>8. CASE MoveHeaderSpoiled
  <2>1. pc = "mv_header" /\ pc' = "mv_body" /\ mv' = mv /\ hdr' = hdr
    BY <1>8 DEF MoveHeaderSpoiled
  <2>2. QED
    BY <1>8, <2>1, OverTargets, OverNodeType, SoundHeader
<1>9. CASE SetBody
  BY <1>9, SoundBody DEF SetBody, IInv, Targets
<1>10. CASE MoveBody
  BY <1>10, SoundBody DEF MoveBody, IInv, Targets
<1>11. QED
  BY <1>1, <1>2, <1>3, <1>4, <1>5, <1>6, <1>7, <1>8, <1>9, <1>10 DEF WritingSteps

\* A step of readers and library that is no power cut keeps the nodes sound.
LEMMA SoundNext ==
    ASSUME IInv, Sound, [RNext]_allvars, ~PowerCut
    PROVE  Sound'
<1>1. CASE UNCHANGED vars
  BY <1>1 DEF vars, Sound, NoneTorn, Begun, Freshly, HoldsNodes, Written
<1>2. CASE ~UNCHANGED vars
  BY <1>2, LibrarySteps, SoundOthers, SoundWriting
<1>3. QED
  BY <1>1, <1>2

\* Readers cut no power.
LEMMA ReadersCuts ==
    ASSUME IInv, [RNext]_allvars, cuts' = 0
    PROVE  cuts = 0 /\ ~PowerCut
<1>1. CASE [Next]_vars
  <2>1. cuts = 0
    BY <1>1, CutsGrow
  <2>2. QED
    BY <2>1 DEF PowerCut
<1>2. CASE SetHeaderSpoiled \/ MoveHeaderSpoiled
  BY <1>2 DEF SetHeaderSpoiled, MoveHeaderSpoiled, PowerCut
<1>3. QED
  BY <1>1, <1>2, LibrarySteps

\* A new device has neither nodes nor sectors in use.
LEMMA InitSound == RInit => Sound
<1> SUFFICES ASSUME RInit PROVE Sound
  OBVIOUS
<1>1. \A a \in Addrs : ~Written(a)
  BY DEF RInit, Init, Written, Blank
<1>2. \A s \in Sectors : ~HoldsNodes(s)
  BY DEF RInit, Init, Unformatted, HoldsNodes, USING, FULL
<1>3. pc = "off"
  BY DEF RInit, Init
<1>4. QED
  BY <1>1, <1>2, <1>3 DEF Sound, NoneTorn, Begun, Freshly

\* The inductive invariant of the integrity check.
LEMMA SoundInductive == RSpec => [](LInv /\ (cuts = 0 => Sound))
<1>1. RInit => LInv /\ (cuts = 0 => Sound)
  BY InitInv, InitUncut, InitSound DEF RInit, LInv
<1>2. LInv /\ (cuts = 0 => Sound) /\ [RNext]_allvars => (LInv /\ (cuts = 0 => Sound))'
  <2> SUFFICES ASSUME LInv, cuts = 0 => Sound, [RNext]_allvars
               PROVE  LInv' /\ (cuts' = 0 => Sound')
    OBVIOUS
  <2>1. LInv'
    BY LayoutKept
  <2>2. cuts' = 0 => Sound'
    BY ReadersCuts, SoundNext DEF LInv
  <2>3. QED
    BY <2>1, <2>2
<1>3. QED
  BY <1>1, <1>2, PTL DEF RSpec

\* Whatever readers program into erased cells, and also when they read between two
\* flash writes of another thread's call: as long as power stays, fdb_kvdb_check
\* finds every sector in use to begin with a node and every node whole.
THEOREM CheckNeverFails == RSpec => []CheckPasses
<1>1. LInv /\ (cuts = 0 => Sound) => CheckPasses
  <2> SUFFICES ASSUME IInv, Sound, pc = "idle", NEW s \in Sectors, HoldsNodes(s)
               PROVE  /\ Written(<<s, 0>>)
                      /\ \A o \in Offsets : Written(<<s, o>>) => node[<<s, o>>].crc = "good"
    BY DEF LInv, CheckPasses, CheckOk
  <2>1. Written(<<s, 0>>)
    BY DEF Sound, Begun
  <2>2. QED
    BY <2>1, AddrPair DEF Sound, NoneTorn
<1>2. QED
  BY <1>1, SoundInductive, PTL

-----------------------------------------------------------------------------
(* An iteration during which nothing is written.                           *)

\* The valid nodes that the iterator is past.
Passed == {a \in Addrs : Readable(a, WRITE) /\ ~NotBehind(Place(a), rd.at)}

\* They are the ones it returned.
Returned == rd.kind \in {"iter", "done"} /\ rd.quiet =>
               /\ rd.seen = {node[a].key : a \in Passed}
               /\ ~rd.twice
               /\ rd.kind = "done" => rd.at = <<NSec, 0>>

\* What holds until power fails when readers and writer share a thread.
Calm == KInv /\ Uncut /\ Sound /\ spoiled = {} /\ Returned

\* The place of a node is a rank and an offset.
LEMMA PlaceType ==
    ASSUME rd.start \in Sectors, NEW a \in Addrs
    PROVE  /\ Place(a)[1] \in 0..(NSec - 1) /\ Place(a)[2] \in Nat
           /\ Place(a)[1] = Rank(rd.start, a[1]) /\ Place(a)[2] = a[2]
BY RankType, PairOf, KvdbAssumption DEF Place, Offsets

\* Passing a node of which the next place is behind e passes no other.
LEMMA PlaceOrder ==
    ASSUME NEW p, NEW q, NEW r, NEW e \in Nat,
           p[1] \in Nat, p[2] \in Nat, q[1] \in Nat, q[2] \in Nat, r[1] \in Nat, r[2] \in Nat,
           NotBehind(p, r), NotBehind(q, r) => NotBehind(q, p),
           p[2] <= e, q[1] = p[1] /\ p[2] <= q[2] => e <= q[2]
    PROVE  NotBehind(q, r) <=> NotBehind(q, <<p[1], e>>)
BY DEF NotBehind

\* The iterator visits one node and passes it.
LEMMA PassedNext ==
    ASSUME KInv, rd \in IterRec, NEW a \in ToVisit,
           \A b \in ToVisit : NotBehind(Place(b), Place(a)),
           rd'.at = <<Place(a)[1], a[2] + Size[node[a].val]>>,
           rd'.start = rd.start, node' = node
    PROVE  Passed' = Passed \cup {a} /\ a \notin Passed
<1> DEFINE e == a[2] + Size[node[a].val]
<1>1. /\ rd.start \in Sectors /\ rd.at[1] \in 0..NSec /\ rd.at[2] \in Nat
      /\ a \in Addrs /\ Readable(a, WRITE) /\ NotBehind(Place(a), rd.at)
  BY DEF IterRec, ToVisit
<1>2. Written(a)
  BY <1>1 DEF Readable, Written, WRITE
<1>3. Size[node[a].val] \in Nat /\ Size[node[a].val] > 0
  BY <1>1, <1>2, WrittenNode, KvdbAssumption DEF KInv, IInv
<1>4. \A b \in Addrs : Place(b)' = Place(b)
  BY DEF Place
<1>5. a[1] \in Sectors /\ a[2] \in Offsets /\ a = <<a[1], a[2]>>
  BY <1>1, PairOf
<1>6. ASSUME NEW b \in Addrs, Readable(b, WRITE), b # a
      PROVE  NotBehind(Place(b), rd.at) <=> NotBehind(Place(b), <<Place(a)[1], e>>)
  <2> DEFINE p == Place(a)
             q == Place(b)
  <2>1. /\ p[1] \in Nat /\ p[2] \in Nat /\ q[1] \in Nat /\ q[2] \in Nat
        /\ p[2] = a[2] /\ q[2] = b[2]
        /\ p[1] = Rank(rd.start, a[1]) /\ q[1] = Rank(rd.start, b[1])
    BY <1>1, <1>6, PlaceType, KvdbAssumption
  <2>2. Written(b)
    BY <1>6 DEF Readable, Written, WRITE
  <2>3. b[1] \in Sectors /\ b[2] \in Offsets /\ b = <<b[1], b[2]>>
    BY <1>6, PairOf
  <2>4. ASSUME q[1] = p[1], p[2] <= q[2]
        PROVE  e <= q[2]
    <3>1. b[1] = a[1]
      BY <1>1, <1>5, <2>1, <2>3, <2>4, RankInjective
    <3>2. a[2] # b[2]
      BY <1>5, <1>6, <2>3, <3>1
    <3>3. a[2] < b[2]
      BY <2>1, <2>4, <3>2
    <3>4. Written(<<a[1], a[2]>>) /\ Written(<<a[1], b[2]>>)
      BY <1>2, <1>5, <2>2, <2>3, <3>1
    <3>5. a[2] + Size[node[<<a[1], a[2]>>].val] <= b[2]
      BY <1>5, <2>3, <3>3, <3>4 DEF KInv, Laid
    <3>6. QED
      BY <1>5, <2>1, <3>5
  <2>5. NotBehind(q, rd.at) => NotBehind(q, p)
    <3>1. hdr[b[1]].store \notin {0, EMPTY}
      BY <2>2, <2>3 DEF KInv, IInv, Headers
    <3>2. hdr[b[1]].store \in 0..3
      BY <2>3 DEF KInv, IInv, TypeOK, TypeFlash, Header
    <3>3. HoldsNodes(b[1])
      BY <3>1, <3>2 DEF HoldsNodes, EMPTY, USING, FULL
    <3>4. NotBehind(q, rd.at) => b \in ToVisit
      BY <1>6, <3>3 DEF ToVisit
    <3>5. QED
      BY <3>4
  <2>6. NotBehind(p, rd.at) /\ e \in Nat /\ p[2] <= e
    BY <1>1, <1>3, <2>1
  <2>7. p[1] \in Nat /\ p[2] \in Nat /\ q[1] \in Nat /\ q[2] \in Nat
    BY <2>1
  <2>8. rd.at[1] \in Nat /\ rd.at[2] \in Nat
    BY <1>1, KvdbAssumption
  <2> HIDE DEF e, p, q
  <2>9. NotBehind(q, rd.at) <=> NotBehind(q, <<p[1], e>>)
    BY <2>4, <2>5, <2>6, <2>7, <2>8, PlaceOrder
  <2>10. QED
    BY <2>9 DEF p, q
<1>7. ~NotBehind(Place(a), <<Place(a)[1], e>>)
  BY <1>1, <1>3, PlaceType DEF NotBehind
<1>8. \A b \in Addrs : Readable(b, WRITE)' <=> Readable(b, WRITE)
  BY DEF Readable
<1>9. rd'.at = <<Place(a)[1], e>>
  OBVIOUS
<1> HIDE DEF e
<1>10. a \notin Passed
  BY <1>1 DEF Passed
<1>11. Passed' = Passed \cup {a}
  BY <1>1, <1>4, <1>6, <1>7, <1>8, <1>9 DEF Passed
<1>12. QED
  BY <1>10, <1>11

\* At rest two live nodes have different keys.
LEMMA LiveDiffer ==
    ASSUME OneHolder, pc = "idle", NEW a \in Addrs, NEW b \in Addrs,
           Readable(a, WRITE), Readable(b, WRITE), node[a].key = node[b].key
    PROVE  a = b
<1>1. Holds(a) /\ Holds(b)
  BY DEF Readable, Holds
<1>2. ~Pair(a, b)
  BY DEF Pair
<1>3. QED
  BY <1>1, <1>2 DEF OneHolder

\* Every step keeps account of the keys returned.
LEMMA ReturnedNext ==
    ASSUME Calm, ReaderType, [RNext]_allvars, ~Shared
    PROVE  Returned'
<1> SUFFICES ASSUME rd'.kind \in {"iter", "done"}, rd'.quiet
             PROVE  /\ rd'.seen = {node'[a].key : a \in Passed'}
                    /\ ~rd'.twice
                    /\ rd'.kind = "done" => rd'.at = <<NSec, 0>>
  BY DEF Returned
<1>1. ASSUME node' = node, rd'.at = rd.at, rd'.start = rd.start, rd'.seen = rd.seen,
             rd'.twice = rd.twice, rd'.kind = rd.kind, rd.quiet
      PROVE  /\ rd'.seen = {node'[a].key : a \in Passed'}
             /\ ~rd'.twice
             /\ rd'.kind = "done" => rd'.at = <<NSec, 0>>
  <2>1. Passed' = Passed
    BY <1>1 DEF Passed, Readable, Place
  <2>2. QED
    BY <1>1, <2>1 DEF Calm, Returned
<1>2. CASE UNCHANGED allvars
  BY <1>1, <1>2 DEF allvars, vars
<1>3. CASE IterInit
  <2>1. LiveKeys \in SUBSET Keys /\ oldest \in Sectors
    BY DEF LiveKeys, Calm, KInv, IInv, TypeOK, TypeRam
  <2>2. PICK K \in SUBSET Keys : rd' = Iterator(oldest, K)
    BY <1>3, <2>1 DEF IterInit
  <2>3. /\ rd'.at[1] = 0 /\ rd'.at[2] = 0 /\ rd'.start = oldest
        /\ rd'.seen = {} /\ rd'.twice = FALSE /\ rd'.kind = "iter"
    BY <2>2 DEF Iterator
  <2>4. ASSUME NEW a \in Addrs PROVE NotBehind(Place(a), rd.at)'
    <3>1. Place(a)' = <<Rank(oldest, a[1]), a[2]>>
      BY <2>3 DEF Place
    <3>2. Rank(oldest, a[1]) \in Nat /\ a[2] \in Nat
      BY <2>1, PairOf, RankType, KvdbAssumption DEF Offsets
    <3>3. QED
      BY <2>3, <3>1, <3>2 DEF NotBehind
  <2>5. Passed' = {}
    BY <2>4 DEF Passed
  <2>6. QED
    BY <2>3, <2>5
<1>4. CASE IterNext
  <2>1. rd \in IterRec /\ rd.start \in Sectors
    BY <1>4 DEF IterNext, ReaderType, IterRec, ObjRec, NoReader
  <2>2. PICK a \in ToVisit : /\ a = NextToVisit
                             /\ \A b \in ToVisit : NotBehind(Place(b), Place(a))
    BY <1>4, <2>1, NextIn DEF IterNext
  <2>3. rd' = [rd EXCEPT !.at = <<Place(a)[1], a[2] + Size[node[a].val]>>,
                         !.seen = @ \cup {node[a].key},
                         !.twice = @ \/ node[a].key \in rd.seen]
    BY <1>4, <2>2 DEF IterNext
  <2>4. /\ rd'.at = <<Place(a)[1], a[2] + Size[node[a].val]>>
        /\ rd'.seen = rd.seen \cup {node[a].key}
        /\ rd'.twice <=> rd.twice \/ node[a].key \in rd.seen
        /\ rd'.start = rd.start /\ rd'.quiet = rd.quiet /\ rd'.kind = rd.kind
    BY <2>1, <2>3 DEF IterRec
  <2>5. node' = node /\ pc = "idle" /\ rd.kind = "iter"
    BY <1>4 DEF IterNext, MayRead, Busy, vars
  <2>6. Passed' = Passed \cup {a} /\ a \notin Passed
    BY <2>1, <2>2, <2>4, <2>5, PassedNext DEF Calm
  <2>7. rd.seen = {node[b].key : b \in Passed} /\ ~rd.twice
    BY <2>4, <2>5 DEF Calm, Returned
  <2>8. node[a].key \notin rd.seen
    <3> SUFFICES ASSUME NEW b \in Passed, node[b].key = node[a].key PROVE FALSE
      BY <2>7
    <3>1. a = b
      BY <2>5, LiveDiffer DEF Passed, ToVisit, Calm, Uncut
    <3>2. QED
      BY <2>6, <3>1
  <2>9. {node'[b].key : b \in Passed'} = rd.seen \cup {node[a].key}
    BY <2>5, <2>6, <2>7
  <2>10. QED
    BY <2>4, <2>5, <2>7, <2>8, <2>9
<1>5. CASE IterEnd
  <2>1. rd \in IterRec /\ rd.start \in Sectors
    BY <1>5 DEF IterEnd, ReaderType, IterRec, ObjRec, NoReader
  <2>2. /\ rd' = [rd EXCEPT !.kind = "done", !.at = <<NSec, 0>>]
        /\ node' = node /\ rd.kind = "iter" /\ ToVisit = {}
    BY <1>5 DEF IterEnd, vars
  <2>3. /\ rd'.at = <<NSec, 0>> /\ rd'.seen = rd.seen /\ rd'.twice = rd.twice
        /\ rd'.start = rd.start /\ rd'.quiet = rd.quiet
    BY <2>1, <2>2 DEF IterRec
  <2>4. rd.seen = {node[b].key : b \in Passed} /\ ~rd.twice
    BY <2>2, <2>3 DEF Calm, Returned
  <2>5. ASSUME NEW a \in Addrs, Readable(a, WRITE)
        PROVE  a \in Passed /\ ~NotBehind(Place(a), rd.at)'
    <3>1. Written(a) /\ a = <<a[1], a[2]>> /\ a[1] \in Sectors /\ a[2] \in Offsets
      BY <2>5, PairOf DEF Readable, Written, WRITE
    <3>2. hdr[a[1]].store \notin {0, EMPTY} /\ hdr[a[1]].store \in 0..3
      BY <3>1 DEF Calm, KInv, IInv, Headers, TypeOK, TypeFlash, Header
    <3>3. HoldsNodes(a[1])
      BY <3>2 DEF HoldsNodes, EMPTY, USING, FULL
    <3>4. a \in Passed
      BY <2>2, <2>5, <3>3 DEF ToVisit, Passed
    <3>5. Place(a)' = Place(a) /\ Place(a)[1] \in 0..(NSec - 1)
      BY <2>1, <2>3, PlaceType DEF Place
    <3>6. ~NotBehind(Place(a), <<NSec, 0>>)
      BY <3>5, KvdbAssumption DEF NotBehind
    <3>7. QED
      BY <2>3, <3>4, <3>5, <3>6
  <2>6. Passed' = Passed
    BY <2>2, <2>5 DEF Passed, Readable
  <2>7. QED
    BY <2>2, <2>3, <2>4, <2>6
<1>6. ASSUME NEW k \in Keys, GetObj(k) PROVE FALSE
  BY <1>6 DEF GetObj, Object, NoReader
<1>7. CASE Library
  <2>1. Follow
    BY <1>7 DEF Library
  <2>2. rd.kind \in {"iter", "done", "obj", "none"}
    BY DEF ReaderType, IterRec, ObjRec, NoReader
  <2>3. pc' # "off" /\ rd.kind \notin {"none", "done"}
    BY <2>1, FollowKinds DEF NoReader
  <2>4. rd.kind # "obj"
    <3> SUFFICES ASSUME rd.kind = "obj" PROVE FALSE
      OBVIOUS
    <3>1. rd \in ObjRec
      BY DEF ReaderType, IterRec, NoReader
    <3>2. rd' = [rd EXCEPT !.own = @ /\ Untouched({rd.key}) # {},
                           !.erased = @ \/ hdr'[rd.addr[1]].store = 0]
      BY <2>1, <2>3, FollowKinds
    <3>3. rd'.kind = rd.kind
      BY <3>1, <3>2 DEF ObjRec
    <3>4. QED
      BY <3>3
  <2>5. rd.kind = "iter" /\ rd \in IterRec
    BY <2>2, <2>3, <2>4 DEF ReaderType, ObjRec, NoReader
  <2>6. rd' = [rd EXCEPT !.must = Untouched(@), !.quiet = @ /\ UNCHANGED flash]
    BY <2>1, <2>3, <2>5, FollowKinds
  <2>7. /\ rd'.at = rd.at /\ rd'.start = rd.start /\ rd'.seen = rd.seen
        /\ rd'.twice = rd.twice /\ rd'.kind = rd.kind
        /\ rd'.quiet = (rd.quiet /\ UNCHANGED flash)
    BY <2>5, <2>6 DEF IterRec
  <2>8. QED
    BY <1>1, <2>7 DEF flash
<1>8. QED
  BY <1>2, <1>3, <1>4, <1>5, <1>6, <1>7 DEF RNext

\* A reader that waits for the writer's calls to return spoils nothing.
LEMMA CalmNext ==
    ASSUME Calm, ReaderType, [RNext]_allvars, ~Shared, cuts' = 0
    PROVE  Calm'
<1>1. IInv /\ TInv /\ RInv /\ Clean /\ Laid
  BY DEF Calm, KInv
<1>2. [Next]_vars
  BY LibrarySteps DEF Calm, SetHeaderSpoiled, MoveHeaderSpoiled
<1>3. KInv'
  BY <1>1, <1>2, InvariantStep, TornNext, ReserveNext, CleanNext, LaidNext DEF KInv
<1>4. Uncut'
  BY <1>2, UncutNext DEF Calm
<1>5. Sound'
  BY <1>1, ReadersCuts, SoundNext DEF Calm
<1>6. spoiled' = {}
  <2>1. ASSUME NEW p, MayRead PROVE Unwritten(p) = {}
    <3>1. pc = "idle"
      BY <2>1 DEF MayRead, Busy
    <3>2. QED
      BY <3>1 DEF Unwritten, Calm, Sound, Begun
  <2>2. CASE IterNext
    <3>1. spoiled' = spoiled \cup {<<s, 0>> : s \in Unwritten(Place(NextToVisit))}
      BY <2>2 DEF IterNext
    <3>2. Unwritten(Place(NextToVisit)) = {}
      BY <2>1, <2>2 DEF IterNext
    <3>3. QED
      BY <3>1, <3>2 DEF Calm
  <2>3. CASE IterEnd
    <3>1. spoiled' = spoiled \cup {<<s, 0>> : s \in Unwritten(<<NSec, 0>>)}
      BY <2>3 DEF IterEnd
    <3>2. Unwritten(<<NSec, 0>>) = {}
      BY <2>1, <2>3 DEF IterEnd
    <3>3. QED
      BY <3>1, <3>2 DEF Calm
  <2>4. CASE Library
    BY <2>4 DEF Library, Calm
  <2>5. CASE UNCHANGED spoiled
    BY <2>5 DEF Calm
  <2>6. QED
    BY <2>2, <2>3, <2>4, <2>5 DEF RNext, allvars, IterInit, GetObj
<1>7. Returned'
  BY ReturnedNext
<1>8. QED
  BY <1>3, <1>4, <1>5, <1>6, <1>7 DEF Calm

\* Where readers and writer share a thread and until power fails: an iteration
\* during which nothing is written returns every stored key, once, and no other,
\* wherever the oldest sector lies and however many replaced nodes are left.
THEOREM IterationsReturnAll ==
    ASSUME ~Shared
    PROVE  RSpec => [](cuts = 0 => QuietIteration)
<1>1. RInit => (cuts = 0 => Calm)
  <2> SUFFICES ASSUME RInit PROVE Calm
    OBVIOUS
  <2>1. IInv /\ Clean /\ Laid /\ Uncut
    BY InitInv, InitUncut DEF RInit
  <2>2. TInv
    BY DEF RInit, Init, TInv, TornNodesInert, Trusted, WholeNodes, CacheHit, Written, Blank,
       SetPCs, MvPCs
  <2>3. RInv
    <3>1. 0 \in Sectors
      BY KvdbAssumption DEF Sectors
    <3>2. Bad # {}
      BY <3>1 DEF RInit, Init, Bad, Unformatted
    <3>3. QED
      BY <3>2 DEF RInit, Init, RInv, Reserve, Marked, NotLast, InGc, GcPCs, GcIdle, MvIdle
  <2>4. Sound
    BY InitSound
  <2>5. spoiled = {} /\ Returned
    BY DEF RInit, NoReader, Returned
  <2>6. QED
    BY <2>1, <2>2, <2>3, <2>4, <2>5 DEF Calm, KInv
<1>2. /\ LInv /\ ReaderType /\ ObjHeld /\ (cuts = 0 => Calm) /\ [RNext]_allvars
      => (cuts = 0 => Calm)'
  <2> SUFFICES ASSUME LInv, ReaderType, cuts = 0 => Calm, [RNext]_allvars, cuts' = 0
               PROVE  Calm'
    OBVIOUS
  <2>1. Calm
    BY ReadersCuts DEF LInv
  <2>2. QED
    BY <2>1, CalmNext
<1>3. ReaderType /\ (cuts = 0 => Calm) => (cuts = 0 => QuietIteration)
  <2> SUFFICES ASSUME Calm, ReaderType, rd.kind = "done", rd.quiet
               PROVE  rd.seen = LiveKeys /\ ~rd.twice
    BY DEF QuietIteration
  <2>1. rd.seen = {node[a].key : a \in Passed} /\ ~rd.twice /\ rd.at = <<NSec, 0>>
    BY DEF Calm, Returned
  <2>2. rd.start \in Sectors
    BY DEF ReaderType, IterRec, ObjRec, NoReader
  <2>3. ASSUME NEW a \in Addrs, Readable(a, WRITE)
        PROVE  a \in Passed /\ node[a].key \in Keys
    <3>1. Place(a)[1] \in 0..(NSec - 1)
      BY <2>2, PlaceType
    <3>2. ~NotBehind(Place(a), rd.at)
      BY <2>1, <3>1, KvdbAssumption DEF NotBehind
    <3>3. node[a].key \in Keys
      BY <2>3, WrittenNode DEF Readable, Written, WRITE, Calm, KInv, IInv, Node
    <3>4. QED
      BY <2>3, <3>2, <3>3 DEF Passed
  <2>4. LiveKeys = {node[a].key : a \in Passed}
    BY <2>3 DEF LiveKeys, Live, Passed
  <2>5. QED
    BY <2>1, <2>4
<1>4. QED
  BY <1>1, <1>2, <1>3, ReadersInductive, PTL DEF RSpec
=============================================================================
