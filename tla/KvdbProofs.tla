----------------------------- MODULE KvdbProofs -----------------------------
(***************************************************************************)
(* Proofs about Kvdb, for any number of sectors, keys, values and power    *)
(* cuts.  First the inductive invariant and the lemmas its proof rests on: *)
(* what the operators of Kvdb return, and what each kind of flash write    *)
(* does.  Then one lemma for each part of the invariant says that every    *)
(* step preserves it, with one proof step per action.                      *)
(***************************************************************************)
EXTENDS Kvdb, OrderLemmas, FiniteSetTheorems

-----------------------------------------------------------------------------
(* The inductive invariant.                                                *)

SetOps == {o \in Ops : o.kind = "set"}
SetPCs == {"alloc", "predirty", "using", "header", "body", "commit"}
GcPCs  == {"gc_scan", "gc_node", "gc_format"}
MvPCs  == {"mv_alloc", "mv_header", "mv_body", "mv_commit", "mv_delete", "mv_dirty"}

\* Who waits for what: a collection for its caller, a move for the collection
\* or the boot, and a request for a new node only while a set is served.
Control ==
    /\ gc.ret \in {"idle", "alloc", "end", "boot_kv"}
    /\ mv.ret \in {"idle", "gc_node", "boot_kv"}
    /\ pc \in GcPCs => gc.ret # "idle"
    /\ pc \in MvPCs <=> mv.ret # "idle"
    /\ mv.ret = "gc_node" => gc.ret # "idle"
    /\ gc.ret # "idle" => pc \in GcPCs \/ mv.ret = "gc_node"
    /\ pc \in SetPCs \/ gc.ret = "alloc" => op \in SetOps

\* Where a collection may be requested.
Requests ==
    /\ pc \in {"idle", "missing", "boot_hdr", "erase_all", "format_all"} => ~gcReq
    /\ pc \in {"delete", "deldirty", "end"} /\ gcReq => op.kind = "set"

\* What the sector headers say of the nodes.
Headers ==
    \A s \in Sectors :
       /\ hdr[s].store = 0 => hdr[s] = Unformatted
       /\ hdr[s].store \in {0, EMPTY} => \A o \in Offsets : ~Written(<<s, o>>)
       /\ hdr[s].store # FULL

\* The sector being formatted is erased, and the boot formats no more sectors
\* than there are.
Formatting ==
    /\ pc = "gc_format" => hdr[gc.sec] = Unformatted
    /\ pc = "format_all" => hdr[fmt] = Unformatted
    /\ pc \in {"erase_all", "format_all"} => fmt < NSec
    /\ pc = "boot_hdr" => fmt + Cardinality(Bad) <= NSec
    /\ pc = "off" => fmt = 0

\* Address a is behind every node of its sector, with room for len units and the
\* threshold.
Beyond(a, len) ==
    /\ a \in Addrs
    /\ a[2] + len + Threshold < Cap
    /\ \A o \in Offsets : Written(<<a[1], o>>) =>
                              o + Size[node[<<a[1], o>>].val] <= a[2]

\* The sector of a can take a node at a.
Usable(a) ==
    \/ hdr[a[1]].store = EMPTY
    \/ hdr[a[1]].store = USING /\ HdrLen <= a[2]

\* The nodes that the steps to come will program.
Targets ==
    /\ pc \in {"predirty", "using"} => Beyond(tgt, Size[op.val]) /\ Usable(tgt)
    /\ pc = "header" => Beyond(tgt, Size[op.val]) /\ hdr[tgt[1]].store = USING
    /\ pc \in {"body", "commit"} => tgt \in Addrs /\ Written(tgt)
    /\ pc \in SetPCs \ {"alloc"} /\ old # NoAddr => Written(old)
    /\ pc \in {"predirty", "delete", "deldirty"} => old # NoAddr /\ Written(old)
    /\ pc \in MvPCs => mv.src \in Addrs /\ Written(mv.src)
    /\ pc = "mv_header" => Beyond(mv.dst, Size[Moved.val]) /\ hdr[mv.dst[1]].store = USING
    /\ pc \in {"mv_body", "mv_commit"} => mv.dst \in Addrs /\ Written(mv.dst)

IInv == TypeOK /\ Control /\ Requests /\ Headers /\ Formatting /\ Targets

-----------------------------------------------------------------------------
(* Which sector or node an iteration reaches first.                        *)

\* A rank is a number of steps below the number of sectors.
LEMMA RankType ==
    ASSUME NEW o \in Sectors, NEW s \in Sectors
    PROVE  Rank(o, s) \in 0..(NSec - 1)
BY KvdbAssumption DEF Rank, Sectors

\* An iteration reaches no two sectors at once.
LEMMA RankInjective ==
    ASSUME NEW o \in Sectors, NEW s \in Sectors, NEW t \in Sectors,
           Rank(o, s) = Rank(o, t)
    PROVE  s = t
BY KvdbAssumption DEF Rank, Sectors

\* Of a non-empty set of sectors an iteration reaches one first.
LEMMA FirstFromLeast ==
    ASSUME NEW o \in Sectors, NEW S \in SUBSET Sectors, S # {}
    PROVE  FirstFrom(o, S) \in S /\ \A t \in S : Rank(o, FirstFrom(o, S)) <= Rank(o, t)
<1> DEFINE R == {Rank(o, t) : t \in S}
<1>1. R \in SUBSET Nat /\ R # {}
  BY RankType
<1>2. PICK r \in R : \A q \in R : r <= q
  <2> HIDE DEF R
  <2>1. QED
    BY <1>1, LeastNatural
<1>3. PICK s \in S : r = Rank(o, s)
  OBVIOUS
<1>4. \A t \in S : Rank(o, s) <= Rank(o, t)
  BY <1>2, <1>3
<1>5. QED
  BY <1>4 DEF FirstFrom

LEMMA FirstFromIn ==
    ASSUME NEW o \in Sectors, NEW S \in SUBSET Sectors, S # {}
    PROVE  FirstFrom(o, S) \in S
BY FirstFromLeast

\* Of a non-empty set of nodes kv_iterator reaches one first ...
LEMMA FirstNodeIn ==
    ASSUME oldest \in Sectors, NEW A \in SUBSET Addrs, A # {}
    PROVE  FirstNode(A) \in A
<1> DEFINE S == {a[1] : a \in A}
           f == FirstFrom(oldest, S)
           R == {Rank(oldest, t) : t \in S}
<1>1. S \in SUBSET Sectors /\ S # {}
  BY DEF Addrs
<1>2. PICK s \in S : \A t \in S : Rank(oldest, s) <= Rank(oldest, t)
  <2>1. R \in SUBSET Nat /\ R # {}
    BY <1>1, RankType
  <2>2. PICK r \in R : \A q \in R : r <= q
    <3> HIDE DEF R
    <3>1. QED
      BY <2>1, LeastNatural
  <2>3. QED
    BY <2>2
<1> DEFINE O == {a[2] : a \in {b \in A : b[1] = s}}
<1>3. O \in SUBSET Nat /\ O # {}
  BY KvdbAssumption DEF Addrs, Offsets
<1>4. PICK p \in O : \A q \in O : p <= q
  <2> HIDE DEF O
  <2>1. QED
    BY <1>3, LeastNatural
<1>5. PICK a \in A : a[1] = s /\ a[2] = p
  OBVIOUS
<1>6. \A b \in A : Before(a, b)
  <2> TAKE b \in A
  <2>1. Rank(oldest, s) <= Rank(oldest, b[1])
    BY <1>2
  <2>2. CASE b[1] = s
    BY <2>2, <1>4, <1>5 DEF Before
  <2>3. CASE b[1] # s
    <3>1. Rank(oldest, s) # Rank(oldest, b[1])
      BY <2>3, <1>1, RankInjective
    <3>2. Rank(oldest, s) < Rank(oldest, b[1])
      BY <3>1, <2>1, <1>1, RankType
    <3>3. QED
      BY <3>2, <1>5 DEF Before
  <2>4. QED
    BY <2>2, <2>3
<1>7. QED
  BY <1>6 DEF FirstNode

\* ... and one last.
LEMMA LastNodeIn ==
    ASSUME oldest \in Sectors, NEW A \in SUBSET Addrs, A # {}
    PROVE  LastNode(A) \in A
<1> DEFINE S == {a[1] : a \in A}
           R == {Rank(oldest, t) : t \in S}
<1>1. S \in SUBSET Sectors /\ S # {}
  BY DEF Addrs
<1>2. PICK s \in S : \A t \in S : Rank(oldest, t) <= Rank(oldest, s)
  <2>1. R \in SUBSET (0..(NSec - 1)) /\ R # {}
    BY <1>1, RankType
  <2>2. PICK r \in R : \A q \in R : q <= r
    <3>1. NSec - 1 \in Nat
      BY KvdbAssumption
    <3> HIDE DEF R
    <3>2. QED
      BY <2>1, <3>1, MaxOfNaturals
  <2>3. QED
    BY <2>2
<1> DEFINE O == {a[2] : a \in {b \in A : b[1] = s}}
<1>3. O \in SUBSET (0..Cap) /\ O # {}
  BY KvdbAssumption DEF Addrs, Offsets
<1>4. PICK p \in O : \A q \in O : q <= p
  <2> HIDE DEF O
  <2>1. QED
    BY <1>3, MaxOfNaturals, KvdbAssumption
<1>5. PICK a \in A : a[1] = s /\ a[2] = p
  OBVIOUS
<1>6. \A b \in A : Before(b, a)
  <2> TAKE b \in A
  <2>1. Rank(oldest, b[1]) <= Rank(oldest, s)
    BY <1>2
  <2>2. CASE b[1] = s
    BY <2>2, <1>4, <1>5 DEF Before
  <2>3. CASE b[1] # s
    <3>1. Rank(oldest, s) # Rank(oldest, b[1])
      BY <2>3, <1>1, RankInjective
    <3>2. Rank(oldest, b[1]) < Rank(oldest, s)
      BY <3>1, <2>1, <1>1, RankType
    <3>3. QED
      BY <3>2, <1>5 DEF Before
  <2>4. QED
    BY <2>2, <2>3
<1>7. QED
  BY <1>6 DEF LastNode

\* The boot scan of check_oldest_addr_cb always names a sector.
LEMMA OldestOnFlashType == OldestOnFlash \in Sectors
<1> DEFINE starts == {s \in Sectors \ {0} : /\ hdr[s - 1].store = EMPTY
                                            /\ hdr[s].store \in {USING, FULL}}
<1>1. CASE starts = {}
  BY <1>1, KvdbAssumption DEF OldestOnFlash, Sectors
<1>2. CASE starts # {}
  <2>1. starts \in SUBSET (0..NSec)
    BY KvdbAssumption DEF Sectors
  <2>2. Max(starts) \in starts
    <3> HIDE DEF starts
    <3>1. QED
      BY <1>2, <2>1, MaxOfNaturals, KvdbAssumption
  <2>3. QED
    BY <1>2, <2>2 DEF OldestOnFlash
<1>3. QED
  BY <1>1, <1>2

\* So does the default of an object that is all zeros.
LEMMA OldestFoundType == OldestFound \in Sectors
<1>1. 0 \in Sectors
  BY KvdbAssumption DEF Sectors
<1>2. QED
  BY <1>1, OldestOnFlashType DEF OldestFound

-----------------------------------------------------------------------------
(* Where alloc_kv puts a node, and which nodes find_kv returns.            *)

\* What was written is a node, longer than a header and shorter than a sector.
LEMMA WrittenNode ==
    ASSUME TypeOK, NEW a \in Addrs, Written(a)
    PROVE  /\ node[a] \in Node
           /\ node[a].key \in Keys /\ node[a].val \in Values /\ node[a].st \in 1..5
           /\ Size[node[a].val] \in Nat
           /\ Size[node[a].val] > HdrLen
           /\ Size[node[a].val] < Cap
<1>1. node[a] \in Node
  BY DEF TypeOK, TypeFlash, Written, Blank
<1>2. node[a].key \in Keys /\ node[a].val \in Values /\ node[a].st \in 1..5
  BY <1>1 DEF Node
<1>3. QED
  BY <1>1, <1>2, KvdbAssumption

\* The end of the last node lies behind every node of the sector and leaves room
\* for the header that a node-less sector gives up.
LEMMA UsedEndBounds ==
    ASSUME TypeOK, NEW s \in Sectors, hdr[s].store # EMPTY
    PROVE  /\ UsedEnd(s) \in Nat
           /\ HdrLen <= UsedEnd(s)
           /\ \A o \in Offsets : Written(<<s, o>>) =>
                                   o + Size[node[<<s, o>>].val] <= UsedEnd(s)
           /\ \/ UsedEnd(s) = HdrLen
              \/ \E o \in Offsets : Written(<<s, o>>) /\
                                     UsedEnd(s) = o + Size[node[<<s, o>>].val]
<1> DEFINE E == {HdrLen} \cup {o + Size[node[<<s, o>>].val] :
                                   o \in {p \in Offsets : Written(<<s, p>>)}}
           b == HdrLen + Cap + Cap
<1>1. \A o \in Offsets : Written(<<s, o>>) => o + Size[node[<<s, o>>].val] \in 0..b
  <2> SUFFICES ASSUME NEW o \in Offsets, Written(<<s, o>>)
               PROVE  o + Size[node[<<s, o>>].val] \in 0..b
    OBVIOUS
  <2>1. <<s, o>> \in Addrs
    BY DEF Addrs
  <2>2. /\ Size[node[<<s, o>>].val] \in Nat
        /\ Size[node[<<s, o>>].val] < Cap
    BY <2>1, WrittenNode
  <2>3. QED
    BY <2>2, KvdbAssumption DEF Offsets
<1>2. E \in SUBSET (0..b) /\ E # {} /\ b \in Nat
  <2>1. b \in Nat /\ HdrLen \in 0..b
    BY KvdbAssumption
  <2> HIDE DEF b
  <2>2. QED
    BY <1>1, <2>1
<1>3. Max(E) \in E /\ \A e \in E : e <= Max(E)
  <2> HIDE DEF E, b
  <2>1. QED
    BY <1>2, MaxOfNaturals
<1>4. UsedEnd(s) = Max(E)
  BY DEF UsedEnd
<1>5. HdrLen \in E
  OBVIOUS
<1>6. \A o \in Offsets : Written(<<s, o>>) => o + Size[node[<<s, o>>].val] \in E
  OBVIOUS
<1>7. \A e \in E : \/ e = HdrLen
                   \/ \E o \in Offsets : Written(<<s, o>>) /\
                                          e = o + Size[node[<<s, o>>].val]
  OBVIOUS
<1> HIDE DEF E, b
<1>8. UsedEnd(s) \in E /\ \A e \in E : e <= UsedEnd(s)
  BY <1>3, <1>4
<1>9. UsedEnd(s) \in Nat
  <2>1. E \subseteq Nat
    BY <1>2
  <2>2. QED
    BY <1>8, <2>1
<1>10. HdrLen <= UsedEnd(s)
  BY <1>5, <1>8
<1>11. \A o \in Offsets : Written(<<s, o>>) =>
                          o + Size[node[<<s, o>>].val] <= UsedEnd(s)
  BY <1>6, <1>8
<1>12. \/ UsedEnd(s) = HdrLen
       \/ \E o \in Offsets : Written(<<s, o>>) /\
                              UsedEnd(s) = o + Size[node[<<s, o>>].val]
  BY <1>7, <1>8
<1>13. QED
  BY <1>9, <1>10, <1>11, <1>12

\* What alloc_kv returns lies behind every node of a sector in use or empty, and
\* the node fits with the threshold to spare.
LEMMA AllocResult ==
    ASSUME TypeOK, Headers, NEW len \in Nat, Alloc(len) # NoAddr
    PROVE  Beyond(Alloc(len), len) /\ Usable(Alloc(len))
<1> DEFINE inUse == Candidates(USING, len)
           fresh == IF Cardinality(Empties) > 1 \/ gcReq
                    THEN Candidates(EMPTY, len) ELSE {}
           S == IF inUse # {} THEN inUse ELSE fresh
           s == FirstFrom(oldest, S)
<1>1. /\ Alloc(len) = <<s, UsedEnd(s)>>
      /\ S # {}
  BY DEF Alloc
<1>2. S \in SUBSET Sectors
  BY DEF Candidates
<1>3. s \in S
  <2> HIDE DEF S
  <2>1. QED
    BY <1>1, <1>2, FirstFromIn DEF TypeOK, TypeRam
<1>4. s \in Sectors /\ Fits(s, len) /\ hdr[s].store \in {USING, EMPTY}
  BY <1>3 DEF Candidates
<1> HIDE DEF s
<1>5. CASE hdr[s].store = EMPTY
  <2>1. UsedEnd(s) = 0
    BY <1>5 DEF UsedEnd
  <2>2. \A o \in Offsets : ~Written(<<s, o>>)
    BY <1>4, <1>5 DEF Headers
  <2>3. 0 + len + Threshold < Cap
    BY <1>4, <2>1, KvdbAssumption DEF Fits, Remain
  <2>4. <<s, 0>> \in Addrs
    BY <1>4, <2>3, KvdbAssumption DEF Addrs, Offsets
  <2>5. QED
    BY <1>1, <1>5, <2>1, <2>2, <2>3, <2>4 DEF Beyond, Usable
<1>6. CASE hdr[s].store = USING
  <2>1. hdr[s].store # EMPTY
    BY <1>6 DEF EMPTY, USING
  <2>2. /\ UsedEnd(s) \in Nat
        /\ HdrLen <= UsedEnd(s)
        /\ \A o \in Offsets : Written(<<s, o>>) =>
                                o + Size[node[<<s, o>>].val] <= UsedEnd(s)
    BY <1>4, <2>1, UsedEndBounds
  <2>3. UsedEnd(s) + len + Threshold < Cap
    BY <1>4, <2>2, KvdbAssumption DEF Fits, Remain
  <2>4. <<s, UsedEnd(s)>> \in Addrs
    BY <1>4, <2>2, <2>3, KvdbAssumption DEF Addrs, Offsets
  <2>5. QED
    BY <1>1, <1>6, <2>2, <2>3, <2>4 DEF Beyond, Usable
<1>7. QED
  BY <1>4, <1>5, <1>6

\* find_kv returns a node that was written, and a scan a live one.
LEMMA FindResult ==
    ASSUME TypeOK, NEW k \in Keys
    PROVE  Find(k) \in Addrs \cup {NoAddr} /\ (Find(k) # NoAddr => Written(Find(k)))
<1>1. CASE CacheHit(k)
  BY <1>1 DEF Find, CacheHit, TypeOK, TypeRam
<1>2. CASE ~CacheHit(k)
  <2>1. Live(k) \in SUBSET Addrs
    BY DEF Live
  <2>2. Live(k) # {} => FirstNode(Live(k)) \in Live(k)
    BY <2>1, FirstNodeIn DEF TypeOK, TypeRam
  <2>3. \A a \in Live(k) : Written(a)
    BY DEF Live, Readable, Written, WRITE
  <2>4. QED
    BY <1>2, <2>1, <2>2, <2>3 DEF Find, Scan
<1>3. QED
  BY <1>1, <1>2

\* find_kv caches addresses of the database only.
LEMMA CacheAfterFindType ==
    ASSUME TypeOK, NEW k \in Keys
    PROVE  CacheAfterFind(k) \in [Keys -> Addrs \cup {NoAddr}]
BY FindResult DEF CacheAfterFind, TypeOK, TypeRam

\* del_kv leaves addresses of the database in the cache.
LEMMA CacheAfterDeleteType ==
    ASSUME TypeOK, NEW k
    PROVE  CacheAfterDelete(k) \in [Keys -> Addrs \cup {NoAddr}]
BY DEF CacheAfterDelete, TypeOK, TypeRam

\* The boot loads addresses of the database into the cache.
LEMMA CacheLoadedType ==
    ASSUME TypeOK, NEW before
    PROVE  CacheLoaded(before) \in [Keys -> Addrs \cup {NoAddr}]
<1> SUFFICES ASSUME NEW k \in Keys, Live(k) \cap before # {}
             PROVE  LastNode(Live(k) \cap before) \in Addrs
  BY DEF CacheLoaded, TypeOK, TypeRam
<1>1. Live(k) \cap before \in SUBSET Addrs
  BY DEF Live
<1>2. QED
  BY <1>1, LastNodeIn DEF TypeOK, TypeRam

-----------------------------------------------------------------------------
(* What the flash writes do.                                               *)

\* A status write keeps every node and takes no status back.
LEMMA SetStatusStep ==
    ASSUME TypeOK, NEW a \in Addrs, Written(a), NEW i \in 1..5, SetStatus(a, i)
    PROVE  /\ node' \in [Addrs -> Node \cup {Blank}]
           /\ \A b \in Addrs : Written(b)' <=> Written(b)
           /\ \A b \in Addrs : Written(b) => node'[b].val = node[b].val
           /\ \A b \in Addrs : node'[b].st >= node[b].st
<1> DEFINE n == [node[a] EXCEPT !.st = Program(@, i)]
<1>1. node' = [node EXCEPT ![a] = n]
  BY DEF SetStatus
<1>2. node[a] \in Node /\ node[a].st \in 1..5
  BY WrittenNode
<1>3. Program(node[a].st, i) \in 1..5 /\ Program(node[a].st, i) >= node[a].st
  BY <1>2 DEF Program
<1>4. n \in Node /\ n.val = node[a].val /\ n.st >= node[a].st /\ n.st \in 1..5
  BY <1>2, <1>3 DEF Node
<1>5. \A b \in Addrs : node[b] \in Node \cup {Blank} /\ node[b].st \in 0..5
  BY DEF TypeOK, TypeFlash, Node, Blank
<1> HIDE DEF n
<1>6. QED
  BY <1>1, <1>2, <1>4, <1>5 DEF TypeOK, TypeFlash, Written

\* A node is written over erased cells.
LEMMA HeaderStep ==
    ASSUME TypeOK, NEW a \in Addrs, ~Written(a), NEW n \in Node,
           node' = [node EXCEPT ![a] = n]
    PROVE  /\ node' \in [Addrs -> Node \cup {Blank}]
           /\ node'[a] = n /\ Written(a)'
           /\ \A b \in Addrs : b # a => node'[b] = node[b]
           /\ \A b \in Addrs : Written(b) => Written(b)' /\ node'[b] = node[b]
           /\ \A b \in Addrs : node'[b].st >= node[b].st
<1>1. n.st \in 1..5
  BY DEF Node
<1>2. \A b \in Addrs : node[b].st \in 0..5
  BY DEF TypeOK, TypeFlash, Node, Blank
<1>3. QED
  BY <1>1, <1>2 DEF TypeOK, TypeFlash, Written

\* The body of a node changes nothing but its CRC.
LEMMA BodyStep ==
    ASSUME TypeOK, NEW a \in Addrs, Written(a),
           node' = [node EXCEPT ![a].crc = "good"]
    PROVE  /\ node' \in [Addrs -> Node \cup {Blank}]
           /\ \A b \in Addrs : Written(b)' <=> Written(b)
           /\ \A b \in Addrs : Written(b) => node'[b].val = node[b].val
           /\ \A b \in Addrs : node'[b].st >= node[b].st
<1> DEFINE n == [node[a] EXCEPT !.crc = "good"]
<1>1. node' = [node EXCEPT ![a] = n]
  OBVIOUS
<1>2. node[a] \in Node /\ node[a].st \in 1..5
  BY WrittenNode
<1>3. n \in Node /\ n.val = node[a].val /\ n.st >= node[a].st /\ n.st \in 1..5
  BY <1>2 DEF Node
<1>4. \A b \in Addrs : node[b] \in Node \cup {Blank} /\ node[b].st \in 0..5
  BY DEF TypeOK, TypeFlash, Node, Blank
<1> HIDE DEF n
<1>5. QED
  BY <1>1, <1>2, <1>3, <1>4 DEF TypeOK, TypeFlash, Written

\* A dirty status write touches one header and takes nothing back.
LEMMA SetDirtyStep ==
    ASSUME TypeOK, NEW s, NEW d \in 1..3, SetDirty(s, d)
    PROVE  /\ hdr' \in [Sectors -> Header]
           /\ \A t \in Sectors : hdr'[t].store = hdr[t].store
           /\ \A t \in Sectors : hdr'[t].dirty >= hdr[t].dirty
           /\ \A t \in Sectors : t # s => hdr'[t] = hdr[t]
<1>1. \A t \in Sectors : hdr[t] \in Header
  BY DEF TypeOK, TypeFlash
<1>2. hdr' = [t \in Sectors |-> IF t = s THEN [hdr[t] EXCEPT !.dirty = Program(@, d)]
                                         ELSE hdr[t]]
  BY DEF SetDirty, TypeOK, TypeFlash
<1>3. \A h \in Header : LET g == [h EXCEPT !.dirty = Program(@, d)]
                         IN  g \in Header /\ g.store = h.store /\ g.dirty >= h.dirty
  BY DEF Header, Program
<1>4. \A h \in Header : h.dirty >= h.dirty
  BY DEF Header
<1>5. QED
  BY <1>1, <1>2, <1>3, <1>4

\* update_sec_status: the sector is in use afterwards, and not full.
LEMMA StoreAfterUsing ==
    ASSUME TypeOK, NEW a, NEW len \in Nat, Beyond(a, len), Usable(a)
    PROVE  StoreAfter(a[1], len) = USING
<1>1. a[1] \in Sectors /\ a[2] \in Nat
  BY KvdbAssumption DEF Beyond, Addrs, Offsets
<1>2. CASE hdr[a[1]].store = EMPTY
  BY <1>2 DEF StoreAfter
<1>3. CASE hdr[a[1]].store = USING /\ HdrLen <= a[2]
  <2>1. hdr[a[1]].store # EMPTY
    BY <1>3 DEF EMPTY, USING
  <2>2. UsedEnd(a[1]) \in Nat /\ UsedEnd(a[1]) <= a[2]
    BY <1>1, <1>3, <2>1, UsedEndBounds DEF Beyond
  <2>3. ~ (Remain(a[1]) - len < Threshold)
    BY <1>1, <2>2, KvdbAssumption DEF Beyond, Remain
  <2>4. QED
    BY <1>3, <2>1, <2>3 DEF StoreAfter
<1>4. QED
  BY <1>2, <1>3 DEF Usable

\* Putting a sector in use touches the store status of that sector only.
LEMMA StoreStep ==
    ASSUME TypeOK, NEW s, hdr' = [hdr EXCEPT ![s].store = USING]
    PROVE  /\ hdr' \in [Sectors -> Header]
           /\ \A t \in Sectors : t = s => hdr'[t].store = USING
           /\ \A t \in Sectors : hdr'[t].dirty >= hdr[t].dirty
           /\ \A t \in Sectors : t # s => hdr'[t] = hdr[t]
<1> DEFINE G(h) == [h EXCEPT !.store = USING]
<1>1. \A t \in Sectors : hdr[t] \in Header
  BY DEF TypeOK, TypeFlash
<1>2. hdr' = [t \in Sectors |-> IF t = s THEN G(hdr[t]) ELSE hdr[t]]
  BY DEF TypeOK, TypeFlash
<1>3. \A h \in Header : G(h) \in Header /\ G(h).store = USING /\ G(h).dirty = h.dirty
  BY DEF Header, USING
<1>4. \A h \in Header : h.dirty \in 0..3
  BY DEF Header
<1> HIDE DEF G
<1>5. hdr' \in [Sectors -> Header]
  BY <1>1, <1>2, <1>3
<1>6. \A t \in Sectors : hdr'[t] = IF t = s THEN G(hdr[t]) ELSE hdr[t]
  BY <1>2
<1>7. \A t \in Sectors : hdr'[t].dirty = hdr[t].dirty
  BY <1>1, <1>3, <1>6
<1>8. \A t \in Sectors : t = s => hdr'[t].store = USING
  BY <1>1, <1>3, <1>6
<1>9. QED
  BY <1>1, <1>4, <1>5, <1>6, <1>7, <1>8

\* An erase blanks one sector and no other.
LEMMA EraseStep ==
    ASSUME TypeOK, NEW s \in Sectors, Erase(s)
    PROVE  /\ hdr' \in [Sectors -> Header]
           /\ node' \in [Addrs -> Node \cup {Blank}]
           /\ hdr'[s] = Unformatted
           /\ \A t \in Sectors : t # s => hdr'[t] = hdr[t]
           /\ \A a \in Addrs : a[1] # s => node'[a] = node[a]
           /\ \A o \in Offsets : node'[<<s, o>>] = Blank
BY DEF TypeOK, TypeFlash, Erase, Header, Unformatted, Addrs

\* Formatting writes one header.
LEMMA FormatStep ==
    ASSUME TypeOK, NEW s \in Sectors, hdr' = [hdr EXCEPT ![s] = Formatted]
    PROVE  /\ hdr' \in [Sectors -> Header]
           /\ hdr'[s] = Formatted
           /\ \A t \in Sectors : t # s => hdr'[t] = hdr[t]
BY DEF TypeOK, TypeFlash, Header, Formatted, EMPTY, CLEAN

-----------------------------------------------------------------------------
(* What a set or a move under way works on.                                *)

\* While a set is served its request names a key and a value that has a length.
LEMMA SetRequest ==
    ASSUME IInv, pc \in SetPCs
    PROVE  /\ op.kind = "set" /\ op.key \in Keys /\ op.val \in Values
           /\ Size[op.val] \in Nat /\ Size[op.val] > HdrLen
<1>1. op \in SetOps
  BY DEF IInv, Control
<1>2. op.kind = "set" /\ op.key \in Keys /\ op.val \in Values
  BY <1>1 DEF SetOps, Ops
<1>3. QED
  BY <1>2, KvdbAssumption

\* While a node is moved it is a written one.
LEMMA MoveRequest ==
    ASSUME IInv, pc \in MvPCs
    PROVE  /\ mv.src \in Addrs /\ Written(mv.src)
           /\ Moved \in Node /\ Moved.key \in Keys /\ Moved.val \in Values
           /\ Size[Moved.val] \in Nat /\ Size[Moved.val] > HdrLen
BY WrittenNode DEF IInv, Targets, Moved

\* The start of a set reserves room behind all nodes, and what it replaces was
\* written.
LEMMA SetStartResult ==
    ASSUME IInv, SetStart
    PROVE  /\ tgt' = Alloc(Size[op.val])
           /\ Beyond(tgt', Size[op.val]) /\ Usable(tgt')
           /\ old' \in Addrs \cup {NoAddr}
           /\ old' # NoAddr => Written(old') /\ SetStatus(old', PRE_DELETE)
           /\ old' = NoAddr => node' = node
<1>1. op.key \in Keys /\ Size[op.val] \in Nat
  BY SetRequest DEF SetStart, SetPCs
<1>2. Alloc(Size[op.val]) # NoAddr /\ tgt' = Alloc(Size[op.val]) /\ old' = Find(op.key)
  BY DEF SetStart
<1>3. Beyond(tgt', Size[op.val]) /\ Usable(tgt')
  BY <1>1, <1>2, AllocResult DEF IInv
<1>4. old' \in Addrs \cup {NoAddr} /\ (old' # NoAddr => Written(old'))
  BY <1>1, <1>2, FindResult DEF IInv
<1>5. QED
  BY <1>2, <1>3, <1>4 DEF SetStart

\* So does the start of a move, which puts the sector in use and never marks it
\* full.
LEMMA MoveStartResult ==
    ASSUME IInv, MoveStart
    PROVE  /\ mv' = [mv EXCEPT !.dst = MoveRoom]
           /\ Beyond(MoveRoom, Size[Moved.val]) /\ Usable(MoveRoom)
           /\ hdr' = [hdr EXCEPT ![MoveRoom[1]].store = USING]
<1>1. Size[Moved.val] \in Nat
  BY MoveRequest DEF MoveStart, MvPCs
<1>2. Beyond(MoveRoom, Size[Moved.val]) /\ Usable(MoveRoom)
  BY <1>1, AllocResult DEF IInv, MoveStart, MoveRoom
<1>3. StoreAfter(MoveRoom[1], Size[Moved.val]) = USING
  BY <1>1, <1>2, StoreAfterUsing DEF IInv
<1>4. QED
  BY <1>2, <1>3 DEF MoveStart

\* update_sec_status puts the sector of a new node in use and never marks it full.
LEMMA SetUsingResult ==
    ASSUME IInv, SetUsing
    PROVE  hdr' = [hdr EXCEPT ![tgt[1]].store = USING]
<1>1. Size[op.val] \in Nat
  BY SetRequest DEF SetUsing, SetPCs
<1>2. StoreAfter(tgt[1], Size[op.val]) = USING
  BY <1>1, StoreAfterUsing DEF IInv, SetUsing, Targets
<1>3. QED
  BY <1>2 DEF SetUsing

\* The address that a header is written to was never written.
LEMMA BeyondBlank ==
    ASSUME IInv, NEW a, NEW len, Beyond(a, len)
    PROVE  a \in Addrs /\ ~Written(a)
<1>1. a \in Addrs /\ a = <<a[1], a[2]>> /\ a[2] \in Offsets
  BY DEF Beyond, Addrs
<1>2. SUFFICES ASSUME Written(a) PROVE FALSE
  BY <1>1
<1>3. a[2] + Size[node[a].val] <= a[2]
  BY <1>1, <1>2 DEF Beyond
<1>4. Size[node[a].val] \in Nat /\ Size[node[a].val] > HdrLen
  BY <1>1, <1>2, WrittenNode DEF IInv
<1>5. QED
  BY <1>1, <1>3, <1>4, KvdbAssumption DEF Offsets

\* The nodes that a collection or the boot picks are written nodes.
LEMMA ToMoveFirst ==
    ASSUME IInv, ToMove # {}, gc.sec \in Sectors
    PROVE  /\ Min(ToMove) \in Offsets
           /\ <<gc.sec, Min(ToMove)>> \in Addrs
           /\ Written(<<gc.sec, Min(ToMove)>>)
<1>1. ToMove \in SUBSET Nat /\ ToMove \in SUBSET Offsets
  BY KvdbAssumption DEF ToMove, Offsets
<1>2. Min(ToMove) \in ToMove
  BY <1>1, MinOfNaturals
<1>3. \A o \in ToMove : Written(<<gc.sec, o>>)
  BY DEF ToMove, Readable, Written, WRITE, PRE_DELETE
<1>4. QED
  BY <1>1, <1>2, <1>3 DEF Addrs

\* So is the node that the recovery acts on.
LEMMA UnfinishedFirst ==
    ASSUME IInv, Unfinished # {}
    PROVE  FirstNode(Unfinished) \in Addrs /\ Written(FirstNode(Unfinished))
<1>1. Unfinished \in SUBSET Addrs
  BY DEF Unfinished
<1>2. FirstNode(Unfinished) \in Unfinished
  BY <1>1, FirstNodeIn DEF IInv, TypeOK, TypeRam
<1>3. QED
  BY <1>2 DEF Unfinished, Readable, Written, PRE_WRITE, PRE_DELETE

-----------------------------------------------------------------------------
(* Every step preserves the types.                                         *)

\* Every step keeps the type of the program counter and of the request.
LEMMA TypeRequestStep ==
    ASSUME IInv, Next
    PROVE  TypeRequest'
<1> USE DEF IInv, TypeOK
<1>1. CASE Caller
  <2>1. CASE \E k \in Keys, v \in Values : BeginSet(k, v)
    BY <2>1 DEF BeginSet, Ops, TypeRequest, PCs
  <2>2. CASE \E k \in Keys : BeginDel(k)
    BY <2>2, FindResult DEF BeginDel, Ops, TypeRequest, PCs
  <2>3. CASE \E k \in Keys : Get(k)
    BY <2>3 DEF Get, request, TypeRequest, PCs
  <2>4. CASE BeginReset
    BY <2>4 DEF BeginReset, Ops, TypeRequest, PCs
  <2>5. QED
    BY <1>1, <2>1, <2>2, <2>3, <2>4 DEF Caller
<1>2. CASE Serve
  <2>1. CASE SetStart
    BY <2>1, SetStartResult DEF SetStart, Beyond, TypeRequest, PCs
  <2>2. CASE SetCollect
    BY <2>2 DEF SetCollect, StartGc, TypeRequest, PCs
  <2>3. CASE SetFull
    BY <2>3 DEF SetFull, Finish, TypeRequest, PCs
  <2>4. CASE SetPreDirty
    BY <2>4 DEF SetPreDirty, request, TypeRequest, PCs
  <2>5. CASE SetUsing
    BY <2>5 DEF SetUsing, request, TypeRequest, PCs
  <2>6. CASE SetHeader
    BY <2>6 DEF SetHeader, request, TypeRequest, PCs
  <2>7. CASE SetBody
    BY <2>7 DEF SetBody, request, TypeRequest, PCs
  <2>8. CASE SetCommit
    BY <2>8 DEF SetCommit, request, TypeRequest, PCs
  <2>9. CASE DelMissing
    BY <2>9 DEF DelMissing, Finish, TypeRequest, PCs
  <2>10. CASE Delete
    BY <2>10 DEF Delete, request, TypeRequest, PCs
  <2>11. CASE DelDirty
    BY <2>11 DEF DelDirty, request, TypeRequest, PCs
  <2>12. CASE End
    BY <2>12 DEF End, StartGc, Finish, request, TypeRequest, PCs
  <2>13. CASE EraseAll
    BY <2>13 DEF EraseAll, request, TypeRequest, PCs
  <2>14. CASE FormatAll
    BY <2>14 DEF FormatAll, request, TypeRequest, PCs
  <2>15. QED
    BY <1>2, <2>1, <2>2, <2>3, <2>4, <2>5, <2>6, <2>7, <2>8, <2>9, <2>10,
       <2>11, <2>12, <2>13, <2>14 DEF Serve
<1>3. CASE Collect
  <2>1. CASE GcPick
    BY <2>1 DEF GcPick, request, TypeRequest, PCs
  <2>2. CASE GcDone
    BY <2>2 DEF GcDone, request, EndGc, TypeLocals, GcLocals, TypeRequest, PCs
  <2>3. CASE GcMove
    BY <2>3 DEF GcMove, request, TypeRequest, PCs
  <2>4. CASE GcErase
    BY <2>4 DEF GcErase, request, TypeRequest, PCs
  <2>5. CASE GcFormat
    BY <2>5 DEF GcFormat, request, EndGc, TypeLocals, GcLocals, TypeRequest,
       PCs
  <2>6. CASE MoveFails
    BY <2>6 DEF MoveFails, request, TypeLocals, MvLocals, TypeRequest, PCs
  <2>7. CASE MoveSkip
    BY <2>7 DEF MoveSkip, request, TypeRequest, PCs
  <2>8. CASE MoveStart
    BY <2>8 DEF MoveStart, request, TypeRequest, PCs
  <2>9. CASE MoveHeader
    BY <2>9 DEF MoveHeader, request, TypeRequest, PCs
  <2>10. CASE MoveBody
    BY <2>10 DEF MoveBody, request, TypeRequest, PCs
  <2>11. CASE MoveCommit
    BY <2>11 DEF MoveCommit, request, TypeRequest, PCs
  <2>12. CASE MoveDelete
    BY <2>12 DEF MoveDelete, request, TypeLocals, MvLocals, TypeRequest, PCs
  <2>13. CASE MoveDirty
    BY <2>13 DEF MoveDirty, request, TypeLocals, MvLocals, TypeRequest, PCs
  <2>14. QED
    BY <1>3, <2>1, <2>2, <2>3, <2>4, <2>5, <2>6, <2>7, <2>8, <2>9, <2>10,
       <2>11, <2>12, <2>13 DEF Collect
<1>4. CASE Boot
  <2>1. CASE BootFormat
    BY <2>1 DEF BootFormat, request, TypeRequest, PCs
  <2>2. CASE BootHeadersOk
    BY <2>2 DEF BootHeadersOk, request, TypeRequest, PCs
  <2>3. CASE BootGc
    BY <2>3 DEF BootGc, request, StartGc, TypeRequest, PCs
  <2>4. CASE BootPreDelete
    BY <2>4 DEF BootPreDelete, request, TypeRequest, PCs
  <2>5. CASE BootPreWrite
    BY <2>5 DEF BootPreWrite, request, TypeRequest, PCs
  <2>6. CASE BootKvDone
    BY <2>6 DEF BootKvDone, request, TypeRequest, PCs
  <2>7. CASE BootCheck
    BY <2>7 DEF BootCheck, request, StartGc, TypeRequest, PCs
  <2>8. QED
    BY <1>4, <2>1, <2>2, <2>3, <2>4, <2>5, <2>6, <2>7 DEF Boot
<1>5. CASE BootScan
  BY <1>5 DEF BootScan, request, TypeRequest, PCs
<1>6. CASE PowerCut
  BY <1>6 DEF PowerCut, LoseRam, TypeRequest, PCs
<1>7. CASE Stop
  BY <1>7 DEF Stop, LoseRam, TypeRequest, PCs
<1>8. QED
  BY <1>1, <1>2, <1>3, <1>4, <1>5, <1>6, <1>7 DEF Next

\* Every step keeps the type of the flash: every address written to, and every
\* sector erased or marked, lies inside the database.
LEMMA TypeFlashStep ==
    ASSUME IInv, Next
    PROVE  TypeFlash'
<1>1. CASE Caller
  <2>1. CASE \E k \in Keys, v \in Values : BeginSet(k, v)
    BY <2>1 DEF BeginSet, flash, TypeFlash, IInv, TypeOK
  <2>2. CASE \E k \in Keys : BeginDel(k)
    BY <2>2 DEF BeginDel, flash, TypeFlash, IInv, TypeOK
  <2>3. CASE \E k \in Keys : Get(k)
    BY <2>3 DEF Get, flash, TypeFlash, IInv, TypeOK
  <2>4. CASE BeginReset
    BY <2>4 DEF BeginReset, flash, TypeFlash, IInv, TypeOK
  <2>5. QED
    BY <1>1, <2>1, <2>2, <2>3, <2>4 DEF Caller
<1>2. CASE Serve
  <2>1. CASE SetStart
    <3>1. old' # NoAddr => node' \in [Addrs -> Node \cup {Blank}]
      BY <2>1, SetStartResult, SetStatusStep DEF PRE_DELETE, IInv
    <3>2. hdr' = hdr
      BY <2>1 DEF SetStart
    <3>3. QED
      BY <3>1, <3>2, <2>1, SetStartResult DEF TypeFlash, IInv, TypeOK
  <2>2. CASE SetCollect
    BY <2>2 DEF SetCollect, flash, TypeFlash, IInv, TypeOK
  <2>3. CASE SetFull
    BY <2>3 DEF SetFull, flash, TypeFlash, IInv, TypeOK
  <2>4. CASE SetPreDirty
    BY <2>4, SetDirtyStep DEF SetPreDirty, DIRTY, TypeFlash, IInv, TypeOK
  <2>5. CASE SetUsing
    BY <2>5, SetUsingResult, StoreStep DEF SetUsing, TypeFlash, IInv, TypeOK
  <2>6. CASE SetHeader
    <3>1. Beyond(tgt, Size[op.val]) /\ pc \in SetPCs
      BY <2>6 DEF SetHeader, IInv, Targets, SetPCs
    <3> DEFINE n == [key |-> op.key, val |-> op.val, st |-> PRE_WRITE, crc |-> "bad"]
    <3>2. n \in Node
      BY <3>1, SetRequest DEF Node, PRE_WRITE
    <3>3. node' = [node EXCEPT ![tgt] = n] /\ hdr' = hdr
      BY <2>6 DEF SetHeader
    <3> HIDE DEF n
    <3>4. QED
      BY <3>1, <3>2, <3>3, BeyondBlank, HeaderStep DEF TypeFlash, IInv, TypeOK
  <2>7. CASE SetBody
    BY <2>7, BodyStep DEF SetBody, Targets, TypeFlash, IInv, TypeOK
  <2>8. CASE SetCommit
    BY <2>8, SetStatusStep DEF SetCommit, Targets, WRITE, TypeFlash, IInv,
       TypeOK
  <2>9. CASE DelMissing
    BY <2>9 DEF DelMissing, flash, TypeFlash, IInv, TypeOK
  <2>10. CASE Delete
    BY <2>10, SetStatusStep DEF Delete, Targets, DELETED, TypeRequest,
       TypeFlash, IInv, TypeOK
  <2>11. CASE DelDirty
    BY <2>11, SetDirtyStep DEF DelDirty, DIRTY, TypeFlash, IInv, TypeOK
  <2>12. CASE End
    BY <2>12 DEF End, flash, TypeFlash, IInv, TypeOK
  <2>13. CASE EraseAll
    <3>1. fmt \in Sectors
      BY <2>13, KvdbAssumption DEF EraseAll, IInv, Formatting, TypeOK, TypeLocals, Sectors
    <3>2. QED
      BY <2>13, <3>1, EraseStep DEF EraseAll, TypeFlash, IInv
  <2>14. CASE FormatAll
    <3>1. fmt \in Sectors
      BY <2>14, KvdbAssumption DEF FormatAll, IInv, Formatting, TypeOK, TypeLocals, Sectors
    <3>2. QED
      BY <2>14, <3>1, FormatStep DEF FormatAll, TypeFlash, IInv, TypeOK
  <2>15. QED
    BY <1>2, <2>1, <2>2, <2>3, <2>4, <2>5, <2>6, <2>7, <2>8, <2>9, <2>10,
       <2>11, <2>12, <2>13, <2>14 DEF Serve
<1>3. CASE Collect
  <2>1. CASE GcPick
    BY <2>1, SetDirtyStep DEF GcPick, GC, TypeFlash, IInv, TypeOK
  <2>2. CASE GcDone
    BY <2>2 DEF GcDone, flash, TypeFlash, IInv, TypeOK
  <2>3. CASE GcMove
    BY <2>3, ToMoveFirst, SetStatusStep DEF GcMove, TypeLocals, GcLocals,
       PRE_DELETE, TypeFlash, IInv, TypeOK
  <2>4. CASE GcErase
    BY <2>4, EraseStep DEF GcErase, TypeLocals, GcLocals, TypeFlash, IInv,
       TypeOK
  <2>5. CASE GcFormat
    BY <2>5, FormatStep DEF GcFormat, TypeLocals, GcLocals, TypeFlash, IInv,
       TypeOK
  <2>6. CASE MoveFails
    BY <2>6 DEF MoveFails, flash, TypeFlash, IInv, TypeOK
  <2>7. CASE MoveSkip
    BY <2>7 DEF MoveSkip, flash, TypeFlash, IInv, TypeOK
  <2>8. CASE MoveStart
    BY <2>8, MoveStartResult, StoreStep DEF MoveStart, TypeFlash, IInv, TypeOK
  <2>9. CASE MoveHeader
    <3>1. Beyond(mv.dst, Size[Moved.val]) /\ pc \in MvPCs
      BY <2>9 DEF MoveHeader, IInv, Targets, MvPCs
    <3> DEFINE n == [key |-> Moved.key, val |-> Moved.val, st |-> PRE_WRITE, crc |-> "bad"]
    <3>2. n \in Node
      BY <3>1, MoveRequest DEF Node, PRE_WRITE
    <3>3. node' = [node EXCEPT ![mv.dst] = n] /\ hdr' = hdr
      BY <2>9 DEF MoveHeader
    <3> HIDE DEF n
    <3>4. QED
      BY <3>1, <3>2, <3>3, BeyondBlank, HeaderStep DEF TypeFlash, IInv, TypeOK
  <2>10. CASE MoveBody
    BY <2>10, BodyStep DEF MoveBody, Targets, TypeFlash, IInv, TypeOK
  <2>11. CASE MoveCommit
    BY <2>11, SetStatusStep DEF MoveCommit, Targets, WRITE, TypeFlash, IInv,
       TypeOK
  <2>12. CASE MoveDelete
    BY <2>12, SetStatusStep DEF MoveDelete, Targets, DELETED, MvPCs, TypeFlash,
       IInv, TypeOK
  <2>13. CASE MoveDirty
    BY <2>13, SetDirtyStep DEF MoveDirty, DIRTY, TypeFlash, IInv, TypeOK
  <2>14. QED
    BY <1>3, <2>1, <2>2, <2>3, <2>4, <2>5, <2>6, <2>7, <2>8, <2>9, <2>10,
       <2>11, <2>12, <2>13 DEF Collect
<1>4. CASE Boot
  <2>1. CASE BootFormat
    <3>1. FirstFrom(oldest, Bad) \in Sectors
      BY <2>1, FirstFromIn DEF BootFormat, Bad, IInv, TypeOK, TypeRam
    <3>2. QED
      BY <2>1, <3>1, FormatStep DEF BootFormat, TypeFlash, IInv, TypeOK
  <2>2. CASE BootHeadersOk
    BY <2>2 DEF BootHeadersOk, flash, TypeFlash, IInv, TypeOK
  <2>3. CASE BootGc
    BY <2>3 DEF BootGc, flash, TypeFlash, IInv, TypeOK
  <2>4. CASE BootPreDelete
    BY <2>4 DEF BootPreDelete, flash, TypeFlash, IInv, TypeOK
  <2>5. CASE BootPreWrite
    BY <2>5, UnfinishedFirst, SetStatusStep DEF BootPreWrite, ERR_HDR,
       TypeFlash, IInv, TypeOK
  <2>6. CASE BootKvDone
    BY <2>6 DEF BootKvDone, flash, TypeFlash, IInv, TypeOK
  <2>7. CASE BootCheck
    BY <2>7 DEF BootCheck, flash, TypeFlash, IInv, TypeOK
  <2>8. QED
    BY <1>4, <2>1, <2>2, <2>3, <2>4, <2>5, <2>6, <2>7 DEF Boot
<1>5. CASE BootScan
  BY <1>5 DEF BootScan, flash, TypeFlash, IInv, TypeOK
<1>6. CASE PowerCut
  BY <1>6 DEF PowerCut, LoseRam, flash, TypeFlash, IInv, TypeOK
<1>7. CASE Stop
  BY <1>7 DEF Stop, LoseRam, flash, TypeFlash, IInv, TypeOK
<1>8. QED
  BY <1>1, <1>2, <1>3, <1>4, <1>5, <1>6, <1>7 DEF Next

\* Every step keeps the type of the RAM fields.
LEMMA TypeRamStep ==
    ASSUME IInv, Next
    PROVE  TypeRam'
<1>1. CASE Caller
  <2>1. CASE \E k \in Keys, v \in Values : BeginSet(k, v)
    BY <2>1 DEF BeginSet, TypeRam, IInv, TypeOK
  <2>2. CASE \E k \in Keys : BeginDel(k)
    BY <2>2, CacheAfterFindType DEF BeginDel, TypeRam, IInv, TypeOK
  <2>3. CASE \E k \in Keys : Get(k)
    BY <2>3, CacheAfterFindType DEF Get, TypeRam, IInv, TypeOK
  <2>4. CASE BeginReset
    BY <2>4 DEF BeginReset, TypeRam, IInv, TypeOK
  <2>5. QED
    BY <1>1, <2>1, <2>2, <2>3, <2>4 DEF Caller
<1>2. CASE Serve
  <2>1. CASE SetStart
    BY <2>1, SetRequest, CacheAfterFindType DEF SetStart, SetPCs, TypeRam,
       IInv, TypeOK
  <2>2. CASE SetCollect
    BY <2>2 DEF SetCollect, StartGc, TypeRam, IInv, TypeOK
  <2>3. CASE SetFull
    BY <2>3 DEF SetFull, TypeRam, IInv, TypeOK
  <2>4. CASE SetPreDirty
    BY <2>4 DEF SetPreDirty, TypeRam, IInv, TypeOK
  <2>5. CASE SetUsing
    BY <2>5 DEF SetUsing, TypeRam, IInv, TypeOK
  <2>6. CASE SetHeader
    BY <2>6 DEF SetHeader, TypeRam, IInv, TypeOK
  <2>7. CASE SetBody
    BY <2>7, SetRequest DEF SetBody, SetPCs, Targets, TypeRam, IInv, TypeOK
  <2>8. CASE SetCommit
    BY <2>8 DEF SetCommit, TypeRam, IInv, TypeOK
  <2>9. CASE DelMissing
    BY <2>9 DEF DelMissing, TypeRam, IInv, TypeOK
  <2>10. CASE Delete
    BY <2>10, CacheAfterDeleteType DEF Delete, TypeRam, IInv, TypeOK
  <2>11. CASE DelDirty
    BY <2>11 DEF DelDirty, TypeRam, IInv, TypeOK
  <2>12. CASE End
    BY <2>12 DEF End, StartGc, Finish, TypeRam, IInv, TypeOK
  <2>13. CASE EraseAll
    BY <2>13 DEF EraseAll, TypeRam, IInv, TypeOK
  <2>14. CASE FormatAll
    BY <2>14, KvdbAssumption DEF FormatAll, Sectors, TypeRam, IInv, TypeOK
  <2>15. QED
    BY <1>2, <2>1, <2>2, <2>3, <2>4, <2>5, <2>6, <2>7, <2>8, <2>9, <2>10,
       <2>11, <2>12, <2>13, <2>14 DEF Serve
<1>3. CASE Collect
  <2>1. CASE GcPick
    BY <2>1 DEF GcPick, TypeRam, IInv, TypeOK
  <2>2. CASE GcDone
    BY <2>2 DEF GcDone, EndGc, TypeRam, IInv, TypeOK
  <2>3. CASE GcMove
    BY <2>3 DEF GcMove, TypeRam, IInv, TypeOK
  <2>4. CASE GcErase
    BY <2>4 DEF GcErase, TypeRam, IInv, TypeOK
  <2>5. CASE GcFormat
    <3>1. SectorAfter(gc.sec) \in Sectors
      BY KvdbAssumption DEF IInv, TypeOK, TypeLocals, GcLocals, SectorAfter, Sectors
    <3>2. QED
      BY <2>5, <3>1 DEF GcFormat, EndGc, TypeRam, IInv, TypeOK
  <2>6. CASE MoveFails
    BY <2>6 DEF MoveFails, GcReqAfterAlloc, TypeRam, IInv, TypeOK
  <2>7. CASE MoveSkip
    BY <2>7 DEF MoveSkip, TypeRam, IInv, TypeOK
  <2>8. CASE MoveStart
    BY <2>8 DEF MoveStart, TypeRam, IInv, TypeOK
  <2>9. CASE MoveHeader
    BY <2>9 DEF MoveHeader, TypeRam, IInv, TypeOK
  <2>10. CASE MoveBody
    BY <2>10 DEF MoveBody, TypeRam, IInv, TypeOK
  <2>11. CASE MoveCommit
    BY <2>11, MoveRequest DEF MoveCommit, MvPCs, Targets, TypeRam, IInv, TypeOK
  <2>12. CASE MoveDelete
    BY <2>12, CacheAfterDeleteType DEF MoveDelete, TypeRam, IInv, TypeOK
  <2>13. CASE MoveDirty
    BY <2>13 DEF MoveDirty, TypeRam, IInv, TypeOK
  <2>14. QED
    BY <1>3, <2>1, <2>2, <2>3, <2>4, <2>5, <2>6, <2>7, <2>8, <2>9, <2>10,
       <2>11, <2>12, <2>13 DEF Collect
<1>4. CASE Boot
  <2>1. CASE BootFormat
    BY <2>1 DEF BootFormat, TypeRam, IInv, TypeOK
  <2>2. CASE BootHeadersOk
    BY <2>2 DEF BootHeadersOk, TypeRam, IInv, TypeOK
  <2>3. CASE BootGc
    BY <2>3 DEF BootGc, StartGc, TypeRam, IInv, TypeOK
  <2>4. CASE BootPreDelete
    BY <2>4, CacheLoadedType DEF BootPreDelete, TypeRam, IInv, TypeOK
  <2>5. CASE BootPreWrite
    BY <2>5, CacheLoadedType DEF BootPreWrite, TypeRam, IInv, TypeOK
  <2>6. CASE BootKvDone
    BY <2>6, CacheLoadedType DEF BootKvDone, TypeRam, IInv, TypeOK
  <2>7. CASE BootCheck
    BY <2>7 DEF BootCheck, StartGc, TypeRam, IInv, TypeOK
  <2>8. QED
    BY <1>4, <2>1, <2>2, <2>3, <2>4, <2>5, <2>6, <2>7 DEF Boot
<1>5. CASE BootScan
  BY <1>5, OldestFoundType DEF BootScan, TypeRam, IInv, TypeOK
<1>6. CASE PowerCut
  <2>1. oldest' \in Sectors /\ gcReq' = FALSE /\ inRec' = FALSE
    BY <1>6, KvdbAssumption DEF PowerCut, LoseRam, Sectors
  <2>2. lastDel' \in BOOLEAN /\ zeroed' \in BOOLEAN
    BY <1>6 DEF PowerCut, TypeRam, IInv, TypeOK
  <2>3. cache' \in [Keys -> Addrs \cup {NoAddr}]
    BY <1>6 DEF PowerCut, LoseRam
  <2>4. QED
    BY <2>1, <2>2, <2>3 DEF TypeRam
<1>7. CASE Stop
  <2>1. oldest' \in Sectors /\ gcReq' = FALSE /\ inRec' = FALSE
    BY <1>7, KvdbAssumption DEF Stop, LoseRam, Sectors
  <2>2. lastDel' \in BOOLEAN /\ zeroed' \in BOOLEAN
    BY <1>7 DEF Stop, TypeRam, IInv, TypeOK
  <2>3. cache' \in [Keys -> Addrs \cup {NoAddr}]
    BY <1>7 DEF Stop, LoseRam
  <2>4. QED
    BY <2>1, <2>2, <2>3 DEF TypeRam
<1>8. QED
  BY <1>1, <1>2, <1>3, <1>4, <1>5, <1>6, <1>7 DEF Next

\* The locals of no collection.
LEMMA GcIdleType == GcIdle \in GcLocals
BY KvdbAssumption DEF GcIdle, GcLocals, PCs, Sectors

\* The locals of no move.
LEMMA MvIdleType == MvIdle \in MvLocals
BY DEF MvIdle, MvLocals, PCs

\* The locals at the start of a collection.
LEMMA StartGcType ==
    ASSUME IInv, NEW ret \in PCs, NEW all \in BOOLEAN, StartGc(ret, all)
    PROVE  gc' \in GcLocals
<1>1. oldest \in Sectors /\ 0 \in Sectors /\ 0 \in 0..NSec /\ 0 \in 0..Cap
  BY KvdbAssumption DEF IInv, TypeOK, TypeRam, Sectors
<1>2. [ret |-> ret, all |-> all, from |-> oldest, next |-> 0, sec |-> 0, off |-> 0]
      \in GcLocals
  BY <1>1 DEF GcLocals
<1>3. QED
  BY <1>2, GcIdleType DEF StartGc

\* There are NSec sectors.
LEMMA SectorsFinite == IsFiniteSet(Sectors) /\ Cardinality(Sectors) = NSec
<1>1. NSec - 1 \in Nat /\ 0 <= NSec - 1
  BY KvdbAssumption
<1>2. QED
  BY <1>1, FS_Interval, KvdbAssumption DEF Sectors

\* Every step keeps the type of the locals and of the counters.
LEMMA TypeLocalsStep ==
    ASSUME IInv, Next
    PROVE  TypeLocals'
<1>1. CASE Caller
  <2>1. CASE \E k \in Keys, v \in Values : BeginSet(k, v)
    BY <2>1 DEF BeginSet, TypeLocals, IInv, TypeOK
  <2>2. CASE \E k \in Keys : BeginDel(k)
    BY <2>2 DEF BeginDel, TypeLocals, IInv, TypeOK
  <2>3. CASE \E k \in Keys : Get(k)
    BY <2>3 DEF Get, TypeLocals, IInv, TypeOK
  <2>4. CASE BeginReset
    BY <2>4, KvdbAssumption DEF BeginReset, TypeLocals, IInv, TypeOK
  <2>5. QED
    BY <1>1, <2>1, <2>2, <2>3, <2>4 DEF Caller
<1>2. CASE Serve
  <2>1. CASE SetStart
    BY <2>1 DEF SetStart, TypeLocals, IInv, TypeOK
  <2>2. CASE SetCollect
    BY <2>2, StartGcType DEF SetCollect, PCs, TypeLocals, IInv, TypeOK
  <2>3. CASE SetFull
    BY <2>3 DEF SetFull, TypeLocals, IInv, TypeOK
  <2>4. CASE SetPreDirty
    BY <2>4 DEF SetPreDirty, TypeLocals, IInv, TypeOK
  <2>5. CASE SetUsing
    BY <2>5 DEF SetUsing, TypeLocals, IInv, TypeOK
  <2>6. CASE SetHeader
    BY <2>6 DEF SetHeader, TypeLocals, IInv, TypeOK
  <2>7. CASE SetBody
    BY <2>7 DEF SetBody, TypeLocals, IInv, TypeOK
  <2>8. CASE SetCommit
    BY <2>8 DEF SetCommit, TypeLocals, IInv, TypeOK
  <2>9. CASE DelMissing
    BY <2>9 DEF DelMissing, TypeLocals, IInv, TypeOK
  <2>10. CASE Delete
    BY <2>10 DEF Delete, TypeLocals, IInv, TypeOK
  <2>11. CASE DelDirty
    BY <2>11 DEF DelDirty, TypeLocals, IInv, TypeOK
  <2>12. CASE End
    BY <2>12, StartGcType DEF End, PCs, TypeLocals, IInv, TypeOK
  <2>13. CASE EraseAll
    BY <2>13 DEF EraseAll, TypeLocals, IInv, TypeOK
  <2>14. CASE FormatAll
    BY <2>14, KvdbAssumption DEF FormatAll, TypeLocals, IInv, TypeOK
  <2>15. QED
    BY <1>2, <2>1, <2>2, <2>3, <2>4, <2>5, <2>6, <2>7, <2>8, <2>9, <2>10,
       <2>11, <2>12, <2>13, <2>14 DEF Serve
<1>3. CASE Collect
  <2>1. CASE GcPick
    <3>1. FirstFrom(gc.from, ToCollect) \in Sectors
      BY <2>1, FirstFromIn DEF GcPick, ToCollect, TypeLocals, GcLocals, IInv, TypeOK
    <3>2. Rank(gc.from, FirstFrom(gc.from, ToCollect)) + 1 \in 0..NSec
      BY <3>1, RankType, KvdbAssumption DEF TypeLocals, GcLocals, IInv, TypeOK
    <3> DEFINE s == FirstFrom(gc.from, ToCollect)
    <3>3. gc' = [ret |-> gc.ret, all |-> gc.all, from |-> gc.from,
                 next |-> Rank(gc.from, s) + 1, sec |-> s, off |-> 0]
      BY <2>1 DEF GcPick
    <3>4. gc' \in GcLocals
      BY <3>1, <3>2, <3>3, KvdbAssumption DEF TypeLocals, GcLocals, IInv, TypeOK
    <3>5. QED
      BY <2>1, <3>4 DEF GcPick, TypeLocals, IInv, TypeOK
  <2>2. CASE GcDone
    BY <2>2, GcIdleType DEF GcDone, EndGc, TypeLocals, IInv, TypeOK
  <2>3. CASE GcMove
    <3> DEFINE src == <<gc.sec, Min(ToMove)>>
    <3>1. src \in Addrs /\ Written(src) /\ Min(ToMove) \in Offsets
      BY <2>3, ToMoveFirst DEF GcMove, TypeLocals, GcLocals, IInv, TypeOK
    <3>2. node[src].st \in 0..5
      BY <3>1, WrittenNode DEF IInv
    <3>3. Min(ToMove) + 1 \in 0..Cap
      BY <3>1, KvdbAssumption DEF Offsets
    <3>4. QED
      BY <2>3, <3>1, <3>2, <3>3 DEF GcMove, TypeLocals, GcLocals, MvLocals, PCs, IInv, TypeOK
  <2>4. CASE GcErase
    BY <2>4 DEF GcErase, TypeLocals, IInv, TypeOK
  <2>5. CASE GcFormat
    BY <2>5, GcIdleType DEF GcFormat, EndGc, TypeLocals, IInv, TypeOK
  <2>6. CASE MoveFails
    BY <2>6, MvIdleType DEF MoveFails, TypeLocals, IInv, TypeOK
  <2>7. CASE MoveSkip
    BY <2>7 DEF MoveSkip, TypeLocals, IInv, TypeOK
  <2>8. CASE MoveStart
    BY <2>8, MoveStartResult DEF MoveStart, Beyond, MvLocals, TypeLocals, IInv,
       TypeOK
  <2>9. CASE MoveHeader
    BY <2>9 DEF MoveHeader, TypeLocals, IInv, TypeOK
  <2>10. CASE MoveBody
    BY <2>10 DEF MoveBody, TypeLocals, IInv, TypeOK
  <2>11. CASE MoveCommit
    BY <2>11 DEF MoveCommit, TypeLocals, IInv, TypeOK
  <2>12. CASE MoveDelete
    BY <2>12, MvIdleType DEF MoveDelete, TypeLocals, IInv, TypeOK
  <2>13. CASE MoveDirty
    BY <2>13, MvIdleType DEF MoveDirty, TypeLocals, IInv, TypeOK
  <2>14. QED
    BY <1>3, <2>1, <2>2, <2>3, <2>4, <2>5, <2>6, <2>7, <2>8, <2>9, <2>10,
       <2>11, <2>12, <2>13 DEF Collect
<1>4. CASE Boot
  <2>1. CASE BootFormat
    <3>1. fmt + 1 \in 0..NSec
      <4>1. Bad # {} /\ IsFiniteSet(Bad)
        BY <2>1, SectorsFinite, FS_Subset DEF BootFormat, Bad
      <4>2. Cardinality(Bad) \in Nat /\ Cardinality(Bad) # 0
        BY <4>1, FS_CardinalityType, FS_EmptySet
      <4>3. QED
        BY <2>1, <4>2, KvdbAssumption DEF BootFormat, TypeLocals, Formatting, IInv, TypeOK
    <3>2. QED
      BY <2>1, <3>1 DEF BootFormat, TypeLocals, IInv, TypeOK
  <2>2. CASE BootHeadersOk
    BY <2>2, KvdbAssumption DEF BootHeadersOk, TypeLocals, IInv, TypeOK
  <2>3. CASE BootGc
    <3>1. gc' \in GcLocals
      BY <2>3, StartGcType DEF BootGc, PCs, TypeLocals, IInv, TypeOK
    <3>2. at' \in (0..NSec) \X (0..Cap)
      BY <2>3, KvdbAssumption DEF BootGc
    <3>3. UNCHANGED <<mv, fmt, cuts>>
      BY <2>3 DEF BootGc
    <3>4. QED
      BY <3>1, <3>2, <3>3 DEF TypeLocals, IInv, TypeOK
  <2>4. CASE BootPreDelete
    <3> DEFINE a == FirstNode(Unfinished)
    <3>1. a \in Addrs
      BY <2>4, UnfinishedFirst DEF BootPreDelete
    <3>2. a[1] \in Sectors /\ a[2] + 1 \in 0..Cap
      BY <3>1, KvdbAssumption DEF Addrs, Offsets
    <3>3. Rank(oldest, a[1]) \in 0..NSec
      BY <3>2, RankType, KvdbAssumption DEF TypeRam, IInv, TypeOK
    <3> HIDE DEF a
    <3>4. /\ mv' = [ret |-> "boot_kv", src |-> a, dst |-> NoAddr, st |-> 3]
          /\ at' = <<Rank(oldest, a[1]), a[2] + 1>>
          /\ UNCHANGED <<gc, fmt, cuts>>
      BY <2>4 DEF BootPreDelete, PRE_DELETE, a
    <3>5. QED
      BY <3>1, <3>2, <3>3, <3>4 DEF TypeLocals, MvLocals, PCs, IInv, TypeOK
  <2>5. CASE BootPreWrite
    BY <2>5 DEF BootPreWrite, TypeLocals, IInv, TypeOK
  <2>6. CASE BootKvDone
    BY <2>6 DEF BootKvDone, TypeLocals, IInv, TypeOK
  <2>7. CASE BootCheck
    <3>1. gc' \in GcLocals
      BY <2>7, StartGcType DEF BootCheck, PCs, TypeLocals, IInv, TypeOK
    <3>2. at' \in (0..NSec) \X (0..Cap)
      BY <2>7, KvdbAssumption DEF BootCheck
    <3>3. UNCHANGED <<mv, fmt, cuts>>
      BY <2>7 DEF BootCheck
    <3>4. QED
      BY <3>1, <3>2, <3>3 DEF TypeLocals, IInv, TypeOK
  <2>8. QED
    BY <1>4, <2>1, <2>2, <2>3, <2>4, <2>5, <2>6, <2>7 DEF Boot
<1>5. CASE BootScan
  BY <1>5 DEF BootScan, TypeLocals, IInv, TypeOK
<1>6. CASE PowerCut
  BY <1>6, GcIdleType, MvIdleType, KvdbAssumption DEF PowerCut, LoseRam,
     TypeLocals, IInv, TypeOK
<1>7. CASE Stop
  BY <1>7, GcIdleType, MvIdleType, KvdbAssumption DEF Stop, LoseRam,
     TypeLocals, IInv, TypeOK
<1>8. QED
  BY <1>1, <1>2, <1>3, <1>4, <1>5, <1>6, <1>7 DEF Next

\* Every step keeps who waits for what.
LEMMA ControlStep ==
    ASSUME IInv, Next
    PROVE  Control'
<1> USE DEF IInv
<1>1. CASE Caller
  <2>1. CASE \E k \in Keys, v \in Values : BeginSet(k, v)
    BY <2>1 DEF BeginSet, SetOps, Ops, Control, SetPCs, GcPCs, MvPCs
  <2>2. CASE \E k \in Keys : BeginDel(k)
    BY <2>2 DEF BeginDel, Control, SetPCs, GcPCs, MvPCs
  <2>3. CASE \E k \in Keys : Get(k)
    BY <2>3 DEF Get, request, Control, SetPCs, GcPCs, MvPCs
  <2>4. CASE BeginReset
    BY <2>4 DEF BeginReset, Control, SetPCs, GcPCs, MvPCs
  <2>5. QED
    BY <1>1, <2>1, <2>2, <2>3, <2>4 DEF Caller
<1>2. CASE Serve
  <2>1. CASE SetStart
    BY <2>1 DEF SetStart, Control, SetPCs, GcPCs, MvPCs
  <2>2. CASE SetCollect
    BY <2>2 DEF SetCollect, StartGc, GcIdle, Control, SetPCs, GcPCs, MvPCs
  <2>3. CASE SetFull
    BY <2>3 DEF SetFull, Finish, Control, SetPCs, GcPCs, MvPCs
  <2>4. CASE SetPreDirty
    BY <2>4 DEF SetPreDirty, request, Control, SetPCs, GcPCs, MvPCs
  <2>5. CASE SetUsing
    BY <2>5 DEF SetUsing, request, Control, SetPCs, GcPCs, MvPCs
  <2>6. CASE SetHeader
    BY <2>6 DEF SetHeader, request, Control, SetPCs, GcPCs, MvPCs
  <2>7. CASE SetBody
    BY <2>7 DEF SetBody, request, Control, SetPCs, GcPCs, MvPCs
  <2>8. CASE SetCommit
    BY <2>8 DEF SetCommit, request, Control, SetPCs, GcPCs, MvPCs
  <2>9. CASE DelMissing
    BY <2>9 DEF DelMissing, Finish, Control, SetPCs, GcPCs, MvPCs
  <2>10. CASE Delete
    BY <2>10 DEF Delete, request, Control, SetPCs, GcPCs, MvPCs
  <2>11. CASE DelDirty
    BY <2>11 DEF DelDirty, request, Control, SetPCs, GcPCs, MvPCs
  <2>12. CASE End
    BY <2>12 DEF End, StartGc, GcIdle, Finish, request, Control, SetPCs, GcPCs,
       MvPCs
  <2>13. CASE EraseAll
    BY <2>13 DEF EraseAll, request, Control, SetPCs, GcPCs, MvPCs
  <2>14. CASE FormatAll
    BY <2>14 DEF FormatAll, request, Control, SetPCs, GcPCs, MvPCs
  <2>15. QED
    BY <1>2, <2>1, <2>2, <2>3, <2>4, <2>5, <2>6, <2>7, <2>8, <2>9, <2>10,
       <2>11, <2>12, <2>13, <2>14 DEF Serve
<1>3. CASE Collect
  <2>1. CASE GcPick
    BY <2>1 DEF GcPick, request, Control, SetPCs, GcPCs, MvPCs
  <2>2. CASE GcDone
    BY <2>2 DEF GcDone, request, EndGc, GcIdle, Control, SetPCs, GcPCs, MvPCs
  <2>3. CASE GcMove
    BY <2>3 DEF GcMove, request, Control, SetPCs, GcPCs, MvPCs
  <2>4. CASE GcErase
    BY <2>4 DEF GcErase, request, Control, SetPCs, GcPCs, MvPCs
  <2>5. CASE GcFormat
    BY <2>5 DEF GcFormat, request, EndGc, GcIdle, Control, SetPCs, GcPCs, MvPCs
  <2>6. CASE MoveFails
    BY <2>6 DEF MoveFails, request, MvIdle, Control, SetPCs, GcPCs, MvPCs
  <2>7. CASE MoveSkip
    BY <2>7 DEF MoveSkip, request, Control, SetPCs, GcPCs, MvPCs
  <2>8. CASE MoveStart
    BY <2>8 DEF MoveStart, request, Control, SetPCs, GcPCs, MvPCs
  <2>9. CASE MoveHeader
    BY <2>9 DEF MoveHeader, request, Control, SetPCs, GcPCs, MvPCs
  <2>10. CASE MoveBody
    BY <2>10 DEF MoveBody, request, Control, SetPCs, GcPCs, MvPCs
  <2>11. CASE MoveCommit
    BY <2>11 DEF MoveCommit, request, Control, SetPCs, GcPCs, MvPCs
  <2>12. CASE MoveDelete
    BY <2>12 DEF MoveDelete, request, MvIdle, Control, SetPCs, GcPCs, MvPCs
  <2>13. CASE MoveDirty
    BY <2>13 DEF MoveDirty, request, MvIdle, Control, SetPCs, GcPCs, MvPCs
  <2>14. QED
    BY <1>3, <2>1, <2>2, <2>3, <2>4, <2>5, <2>6, <2>7, <2>8, <2>9, <2>10,
       <2>11, <2>12, <2>13 DEF Collect
<1>4. CASE Boot
  <2>1. CASE BootFormat
    BY <2>1 DEF BootFormat, request, Control, SetPCs, GcPCs, MvPCs
  <2>2. CASE BootHeadersOk
    BY <2>2 DEF BootHeadersOk, request, Control, SetPCs, GcPCs, MvPCs
  <2>3. CASE BootGc
    BY <2>3 DEF BootGc, StartGc, GcIdle, Control, SetPCs, GcPCs, MvPCs
  <2>4. CASE BootPreDelete
    BY <2>4 DEF BootPreDelete, request, Control, SetPCs, GcPCs, MvPCs
  <2>5. CASE BootPreWrite
    BY <2>5 DEF BootPreWrite, request, Control, SetPCs, GcPCs, MvPCs
  <2>6. CASE BootKvDone
    BY <2>6 DEF BootKvDone, request, Control, SetPCs, GcPCs, MvPCs
  <2>7. CASE BootCheck
    BY <2>7 DEF BootCheck, StartGc, GcIdle, Control, SetPCs, GcPCs, MvPCs
  <2>8. QED
    BY <1>4, <2>1, <2>2, <2>3, <2>4, <2>5, <2>6, <2>7 DEF Boot
<1>5. CASE BootScan
  BY <1>5 DEF BootScan, request, Control, SetPCs, GcPCs, MvPCs
<1>6. CASE PowerCut
  BY <1>6 DEF PowerCut, LoseRam, GcIdle, MvIdle, Control, SetPCs, GcPCs, MvPCs
<1>7. CASE Stop
  BY <1>7 DEF Stop, LoseRam, GcIdle, MvIdle, Control, SetPCs, GcPCs, MvPCs
<1>8. QED
  BY <1>1, <1>2, <1>3, <1>4, <1>5, <1>6, <1>7 DEF Next

\* Every step keeps where a collection may be requested.
LEMMA RequestsStep ==
    ASSUME IInv, Next
    PROVE  Requests'
<1> USE DEF IInv
<1>1. CASE Caller
  <2>1. CASE \E k \in Keys, v \in Values : BeginSet(k, v)
    BY <2>1 DEF BeginSet, Requests
  <2>2. CASE \E k \in Keys : BeginDel(k)
    BY <2>2 DEF BeginDel, Requests
  <2>3. CASE \E k \in Keys : Get(k)
    BY <2>3 DEF Get, request, Requests
  <2>4. CASE BeginReset
    BY <2>4 DEF BeginReset, Requests
  <2>5. QED
    BY <1>1, <2>1, <2>2, <2>3, <2>4 DEF Caller
<1>2. CASE Serve
  <2>1. CASE SetStart
    BY <2>1 DEF SetStart, Requests
  <2>2. CASE SetCollect
    BY <2>2 DEF SetCollect, StartGc, Requests
  <2>3. CASE SetFull
    BY <2>3 DEF SetFull, Finish, Requests
  <2>4. CASE SetPreDirty
    BY <2>4 DEF SetPreDirty, request, Requests
  <2>5. CASE SetUsing
    BY <2>5 DEF SetUsing, request, Requests
  <2>6. CASE SetHeader
    BY <2>6 DEF SetHeader, request, Requests
  <2>7. CASE SetBody
    BY <2>7 DEF SetBody, request, Requests
  <2>8. CASE SetCommit
    BY <2>8, SetRequest DEF SetCommit, request, SetPCs, Requests
  <2>9. CASE DelMissing
    BY <2>9 DEF DelMissing, Finish, Requests
  <2>10. CASE Delete
    BY <2>10 DEF Delete, request, Requests
  <2>11. CASE DelDirty
    BY <2>11 DEF DelDirty, request, Requests
  <2>12. CASE End
    BY <2>12 DEF End, StartGc, Finish, request, Requests
  <2>13. CASE EraseAll
    BY <2>13 DEF EraseAll, request, Requests
  <2>14. CASE FormatAll
    BY <2>14 DEF FormatAll, request, Requests
  <2>15. QED
    BY <1>2, <2>1, <2>2, <2>3, <2>4, <2>5, <2>6, <2>7, <2>8, <2>9, <2>10,
       <2>11, <2>12, <2>13, <2>14 DEF Serve
<1>3. CASE Collect
  <2>1. CASE GcPick
    BY <2>1 DEF GcPick, request, Requests
  <2>2. CASE GcDone
    BY <2>2 DEF GcDone, request, EndGc, Control, GcPCs, Requests
  <2>3. CASE GcMove
    BY <2>3 DEF GcMove, request, Requests
  <2>4. CASE GcErase
    BY <2>4 DEF GcErase, request, Requests
  <2>5. CASE GcFormat
    BY <2>5 DEF GcFormat, request, EndGc, Control, GcPCs, Requests
  <2>6. CASE MoveFails
    BY <2>6 DEF MoveFails, request, Control, MvPCs, Requests
  <2>7. CASE MoveSkip
    BY <2>7 DEF MoveSkip, request, Requests
  <2>8. CASE MoveStart
    BY <2>8 DEF MoveStart, request, Requests
  <2>9. CASE MoveHeader
    BY <2>9 DEF MoveHeader, request, Requests
  <2>10. CASE MoveBody
    BY <2>10 DEF MoveBody, request, Requests
  <2>11. CASE MoveCommit
    BY <2>11 DEF MoveCommit, request, Requests
  <2>12. CASE MoveDelete
    BY <2>12 DEF MoveDelete, request, Control, MvPCs, Requests
  <2>13. CASE MoveDirty
    BY <2>13 DEF MoveDirty, request, Control, MvPCs, Requests
  <2>14. QED
    BY <1>3, <2>1, <2>2, <2>3, <2>4, <2>5, <2>6, <2>7, <2>8, <2>9, <2>10,
       <2>11, <2>12, <2>13 DEF Collect
<1>4. CASE Boot
  <2>1. CASE BootFormat
    BY <2>1 DEF BootFormat, request, Requests
  <2>2. CASE BootHeadersOk
    BY <2>2 DEF BootHeadersOk, request, Requests
  <2>3. CASE BootGc
    BY <2>3 DEF BootGc, StartGc, Requests
  <2>4. CASE BootPreDelete
    BY <2>4 DEF BootPreDelete, request, Requests
  <2>5. CASE BootPreWrite
    BY <2>5 DEF BootPreWrite, request, Requests
  <2>6. CASE BootKvDone
    BY <2>6 DEF BootKvDone, request, Requests
  <2>7. CASE BootCheck
    BY <2>7 DEF BootCheck, StartGc, Requests
  <2>8. QED
    BY <1>4, <2>1, <2>2, <2>3, <2>4, <2>5, <2>6, <2>7 DEF Boot
<1>5. CASE BootScan
  BY <1>5 DEF BootScan, request, Requests
<1>6. CASE PowerCut
  BY <1>6 DEF PowerCut, LoseRam, Requests
<1>7. CASE Stop
  BY <1>7 DEF Stop, LoseRam, Requests
<1>8. QED
  BY <1>1, <1>2, <1>3, <1>4, <1>5, <1>6, <1>7 DEF Next

\* A sector and an offset make an address.
LEMMA AddrPair == \A s \in Sectors, o \in Offsets : <<s, o>> \in Addrs
BY DEF Addrs

\* A written node lies in a formatted sector.
LEMMA WrittenSector ==
    ASSUME IInv, NEW a \in Addrs, Written(a)
    PROVE  a[1] \in Sectors /\ hdr[a[1]].store # 0
<1>1. a[1] \in Sectors /\ a[2] \in Offsets /\ a = <<a[1], a[2]>>
  BY DEF Addrs
<1>2. QED
  BY <1>1 DEF IInv, Headers

\* The headers still tell the truth when they and the set of written nodes stay.
LEMMA HeadersKept ==
    ASSUME Headers, hdr' = hdr,
           node' = node \/ \A b \in Addrs : Written(b)' <=> Written(b)
    PROVE  Headers'
BY AddrPair DEF Headers, Written

\* Marking a formatted sector dirty changes nothing that the headers say.
LEMMA DirtyHeaders ==
    ASSUME IInv, NEW s \in Sectors, hdr[s].store # 0, NEW d \in 1..3,
           SetDirty(s, d), node' = node
    PROVE  Headers'
BY SetDirtyStep DEF IInv, Headers, Written

\* Nor does putting a sector in use.
LEMMA UsingHeaders ==
    ASSUME IInv, NEW s \in Sectors, hdr' = [hdr EXCEPT ![s].store = USING], node' = node
    PROVE  Headers'
BY StoreStep DEF IInv, Headers, Written, USING, EMPTY, FULL

\* A node is written to a sector that is in use already.
LEMMA NodeHeaders ==
    ASSUME IInv, NEW a \in Addrs, hdr[a[1]].store = USING, hdr' = hdr,
           NEW n, node' = [node EXCEPT ![a] = n]
    PROVE  Headers'
<1>1. \A s \in Sectors, p \in Offsets :
         hdr[s].store \in {0, EMPTY} => node'[<<s, p>>] = node[<<s, p>>]
  BY AddrPair DEF USING, EMPTY, IInv, TypeOK, TypeFlash
<1>2. QED
  BY <1>1 DEF IInv, Headers, Written

\* An erased sector has neither header nor nodes.
LEMMA EraseHeaders ==
    ASSUME IInv, NEW s \in Sectors, Erase(s)
    PROVE  Headers'
<1>1. /\ hdr'[s] = Unformatted
      /\ \A t \in Sectors : t # s => hdr'[t] = hdr[t]
      /\ \A t \in Sectors, p \in Offsets : t # s => node'[<<t, p>>] = node[<<t, p>>]
      /\ \A p \in Offsets : node'[<<s, p>>] = Blank
  BY EraseStep, AddrPair DEF IInv
<1>2. QED
  BY <1>1 DEF IInv, Headers, Written, Unformatted, Blank, FULL

\* A sector without header has no nodes when it is formatted.
LEMMA FormatHeaders ==
    ASSUME IInv, NEW s \in Sectors, hdr[s].store = 0,
           hdr' = [hdr EXCEPT ![s] = Formatted], node' = node
    PROVE  Headers'
BY FormatStep DEF IInv, Headers, Written, Formatted, EMPTY, FULL

\* Every step keeps what the headers say of the nodes.
LEMMA HeadersStep ==
    ASSUME IInv, Next
    PROVE  Headers'
<1>1. CASE Caller
  <2>1. CASE \E k \in Keys, v \in Values : BeginSet(k, v)
    BY <2>1, HeadersKept DEF BeginSet, flash, IInv, TypeOK
  <2>2. CASE \E k \in Keys : BeginDel(k)
    BY <2>2, HeadersKept DEF BeginDel, flash, IInv, TypeOK
  <2>3. CASE \E k \in Keys : Get(k)
    BY <2>3, HeadersKept DEF Get, flash, IInv, TypeOK
  <2>4. CASE BeginReset
    BY <2>4, HeadersKept DEF BeginReset, flash, IInv, TypeOK
  <2>5. QED
    BY <1>1, <2>1, <2>2, <2>3, <2>4 DEF Caller
<1>2. CASE Serve
  <2>1. CASE SetStart
    <3>1. old' # NoAddr => \A b \in Addrs : Written(b)' <=> Written(b)
      BY <2>1, SetStartResult, SetStatusStep DEF PRE_DELETE, IInv, TypeOK
    <3>2. hdr' = hdr
      BY <2>1 DEF SetStart, IInv, TypeOK
    <3>3. node' = node \/ \A b \in Addrs : Written(b)' <=> Written(b)
      BY <2>1, <3>1, SetStartResult
    <3>4. QED
      BY <3>2, <3>3, HeadersKept DEF IInv
  <2>2. CASE SetCollect
    BY <2>2, HeadersKept DEF SetCollect, flash, IInv, TypeOK
  <2>3. CASE SetFull
    BY <2>3, HeadersKept DEF SetFull, flash, IInv, TypeOK
  <2>4. CASE SetPreDirty
    BY <2>4, DirtyHeaders, WrittenSector DEF SetPreDirty, DIRTY, Targets,
       SetPCs, TypeRequest, IInv, TypeOK
  <2>5. CASE SetUsing
    BY <2>5, UsingHeaders, SetUsingResult DEF SetUsing, Targets, Beyond, Addrs, IInv, TypeOK
  <2>6. CASE SetHeader
    <3>1. Beyond(tgt, Size[op.val]) /\ hdr[tgt[1]].store = USING
      BY <2>6 DEF SetHeader, Targets, IInv, TypeOK
    <3>2. QED
      BY <2>6, <3>1, NodeHeaders, BeyondBlank DEF SetHeader, IInv, TypeOK
  <2>7. CASE SetBody
    BY <2>7, HeadersKept, BodyStep DEF SetBody, Targets, IInv, TypeOK
  <2>8. CASE SetCommit
    BY <2>8, HeadersKept, SetStatusStep DEF SetCommit, Targets, WRITE, IInv,
       TypeOK
  <2>9. CASE DelMissing
    BY <2>9, HeadersKept DEF DelMissing, flash, IInv, TypeOK
  <2>10. CASE Delete
    BY <2>10, HeadersKept, SetStatusStep DEF Delete, Targets, DELETED,
       TypeRequest, IInv, TypeOK
  <2>11. CASE DelDirty
    BY <2>11, DirtyHeaders, WrittenSector DEF DelDirty, DIRTY, Targets, SetPCs,
       TypeRequest, IInv, TypeOK
  <2>12. CASE End
    BY <2>12, HeadersKept DEF End, flash, IInv, TypeOK
  <2>13. CASE EraseAll
    <3>1. fmt \in Sectors
      BY <2>13, KvdbAssumption DEF EraseAll, Formatting, TypeLocals, Sectors, IInv, TypeOK
    <3>2. QED
      BY <2>13, <3>1, EraseHeaders DEF EraseAll, IInv, TypeOK
  <2>14. CASE FormatAll
    <3>1. fmt \in Sectors /\ hdr[fmt].store = 0
      BY <2>14, KvdbAssumption DEF FormatAll, Formatting, TypeLocals, Sectors, Unformatted, IInv, TypeOK
    <3>2. QED
      BY <2>14, <3>1, FormatHeaders DEF FormatAll, Unformatted, IInv, TypeOK
  <2>15. QED
    BY <1>2, <2>1, <2>2, <2>3, <2>4, <2>5, <2>6, <2>7, <2>8, <2>9, <2>10,
       <2>11, <2>12, <2>13, <2>14 DEF Serve
<1>3. CASE Collect
  <2>1. CASE GcPick
    <3>1. FirstFrom(gc.from, ToCollect) \in ToCollect
      BY <2>1, FirstFromIn DEF GcPick, ToCollect, TypeLocals, GcLocals, IInv, TypeOK
    <3>2. QED
      BY <2>1, <3>1, DirtyHeaders DEF GcPick, ToCollect, GC, IInv, TypeOK
  <2>2. CASE GcDone
    BY <2>2, HeadersKept DEF GcDone, flash, IInv, TypeOK
  <2>3. CASE GcMove
    BY <2>3, HeadersKept, ToMoveFirst, SetStatusStep DEF GcMove, TypeLocals,
       GcLocals, PRE_DELETE, IInv, TypeOK
  <2>4. CASE GcErase
    BY <2>4, EraseHeaders DEF GcErase, TypeLocals, GcLocals, IInv, TypeOK
  <2>5. CASE GcFormat
    <3>1. gc.sec \in Sectors /\ hdr[gc.sec].store = 0
      BY <2>5 DEF GcFormat, Formatting, TypeLocals, GcLocals, Unformatted, IInv, TypeOK
    <3>2. QED
      BY <2>5, <3>1, FormatHeaders DEF GcFormat
  <2>6. CASE MoveFails
    BY <2>6, HeadersKept DEF MoveFails, flash, IInv, TypeOK
  <2>7. CASE MoveSkip
    BY <2>7, HeadersKept DEF MoveSkip, flash, IInv, TypeOK
  <2>8. CASE MoveStart
    BY <2>8, UsingHeaders, MoveStartResult DEF MoveStart, Beyond, Addrs, IInv, TypeOK
  <2>9. CASE MoveHeader
    <3>1. Beyond(mv.dst, Size[Moved.val]) /\ hdr[mv.dst[1]].store = USING
      BY <2>9 DEF MoveHeader, Targets, IInv, TypeOK
    <3>2. QED
      BY <2>9, <3>1, NodeHeaders, BeyondBlank DEF MoveHeader, IInv, TypeOK
  <2>10. CASE MoveBody
    BY <2>10, HeadersKept, BodyStep DEF MoveBody, Targets, IInv, TypeOK
  <2>11. CASE MoveCommit
    BY <2>11, HeadersKept, SetStatusStep DEF MoveCommit, Targets, WRITE, IInv,
       TypeOK
  <2>12. CASE MoveDelete
    BY <2>12, HeadersKept, SetStatusStep DEF MoveDelete, Targets, DELETED,
       MvPCs, IInv, TypeOK
  <2>13. CASE MoveDirty
    BY <2>13, DirtyHeaders, WrittenSector DEF MoveDirty, DIRTY, Targets, MvPCs,
       IInv, TypeOK
  <2>14. QED
    BY <1>3, <2>1, <2>2, <2>3, <2>4, <2>5, <2>6, <2>7, <2>8, <2>9, <2>10,
       <2>11, <2>12, <2>13 DEF Collect
<1>4. CASE Boot
  <2>1. CASE BootFormat
    <3>1. FirstFrom(oldest, Bad) \in Bad
      BY <2>1, FirstFromIn DEF BootFormat, Bad, TypeRam, IInv, TypeOK
    <3>2. QED
      BY <2>1, <3>1, FormatHeaders DEF BootFormat, Bad, IInv, TypeOK
  <2>2. CASE BootHeadersOk
    BY <2>2, HeadersKept DEF BootHeadersOk, flash, IInv, TypeOK
  <2>3. CASE BootGc
    BY <2>3, HeadersKept DEF BootGc, flash, IInv, TypeOK
  <2>4. CASE BootPreDelete
    BY <2>4, HeadersKept DEF BootPreDelete, flash, IInv, TypeOK
  <2>5. CASE BootPreWrite
    BY <2>5, HeadersKept, UnfinishedFirst, SetStatusStep DEF BootPreWrite,
       ERR_HDR, IInv, TypeOK
  <2>6. CASE BootKvDone
    BY <2>6, HeadersKept DEF BootKvDone, flash, IInv, TypeOK
  <2>7. CASE BootCheck
    BY <2>7, HeadersKept DEF BootCheck, flash, IInv, TypeOK
  <2>8. QED
    BY <1>4, <2>1, <2>2, <2>3, <2>4, <2>5, <2>6, <2>7 DEF Boot
<1>5. CASE BootScan
  BY <1>5, HeadersKept DEF BootScan, flash, IInv, TypeOK
<1>6. CASE PowerCut
  BY <1>6, HeadersKept DEF PowerCut, LoseRam, flash, IInv, TypeOK
<1>7. CASE Stop
  BY <1>7, HeadersKept DEF Stop, LoseRam, flash, IInv, TypeOK
<1>8. QED
  BY <1>1, <1>2, <1>3, <1>4, <1>5, <1>6, <1>7 DEF Next

\* Every step keeps the facts about the sector being formatted.
LEMMA FormattingStep ==
    ASSUME IInv, Next
    PROVE  Formatting'
<1>1. CASE Caller
  <2>1. CASE \E k \in Keys, v \in Values : BeginSet(k, v)
    BY <2>1 DEF BeginSet, Formatting, IInv
  <2>2. CASE \E k \in Keys : BeginDel(k)
    BY <2>2 DEF BeginDel, Formatting, IInv
  <2>3. CASE \E k \in Keys : Get(k)
    BY <2>3 DEF Get, Formatting, IInv
  <2>4. CASE BeginReset
    BY <2>4, KvdbAssumption DEF BeginReset, Formatting, IInv
  <2>5. QED
    BY <1>1, <2>1, <2>2, <2>3, <2>4 DEF Caller
<1>2. CASE Serve
  <2>1. CASE SetStart
    BY <2>1 DEF SetStart, Formatting, IInv
  <2>2. CASE SetCollect
    BY <2>2 DEF SetCollect, StartGc, Formatting, IInv
  <2>3. CASE SetFull
    BY <2>3 DEF SetFull, Finish, Formatting, IInv
  <2>4. CASE SetPreDirty
    BY <2>4 DEF SetPreDirty, Formatting, IInv
  <2>5. CASE SetUsing
    BY <2>5 DEF SetUsing, Formatting, IInv
  <2>6. CASE SetHeader
    BY <2>6 DEF SetHeader, Formatting, IInv
  <2>7. CASE SetBody
    BY <2>7 DEF SetBody, Formatting, IInv
  <2>8. CASE SetCommit
    BY <2>8 DEF SetCommit, Formatting, IInv
  <2>9. CASE DelMissing
    BY <2>9 DEF DelMissing, Finish, Formatting, IInv
  <2>10. CASE Delete
    BY <2>10 DEF Delete, Formatting, IInv
  <2>11. CASE DelDirty
    BY <2>11 DEF DelDirty, Formatting, IInv
  <2>12. CASE End
    BY <2>12 DEF End, StartGc, Finish, Formatting, IInv
  <2>13. CASE EraseAll
    BY <2>13, EraseStep, KvdbAssumption DEF EraseAll, TypeOK, TypeLocals,
       Sectors, Formatting, IInv
  <2>14. CASE FormatAll
    BY <2>14, KvdbAssumption DEF FormatAll, TypeOK, TypeLocals, Sectors,
       Formatting, IInv
  <2>15. QED
    BY <1>2, <2>1, <2>2, <2>3, <2>4, <2>5, <2>6, <2>7, <2>8, <2>9, <2>10,
       <2>11, <2>12, <2>13, <2>14 DEF Serve
<1>3. CASE Collect
  <2>1. CASE GcPick
    BY <2>1 DEF GcPick, Formatting, IInv
  <2>2. CASE GcDone
    BY <2>2 DEF GcDone, EndGc, Control, GcPCs, Formatting, IInv
  <2>3. CASE GcMove
    BY <2>3 DEF GcMove, Formatting, IInv
  <2>4. CASE GcErase
    BY <2>4, EraseStep DEF GcErase, TypeOK, TypeLocals, GcLocals, Formatting,
       IInv
  <2>5. CASE GcFormat
    BY <2>5 DEF GcFormat, EndGc, Control, GcPCs, Formatting, IInv
  <2>6. CASE MoveFails
    BY <2>6 DEF MoveFails, Control, MvPCs, Formatting, IInv
  <2>7. CASE MoveSkip
    BY <2>7 DEF MoveSkip, Formatting, IInv
  <2>8. CASE MoveStart
    BY <2>8 DEF MoveStart, Formatting, IInv
  <2>9. CASE MoveHeader
    BY <2>9 DEF MoveHeader, Formatting, IInv
  <2>10. CASE MoveBody
    BY <2>10 DEF MoveBody, Formatting, IInv
  <2>11. CASE MoveCommit
    BY <2>11 DEF MoveCommit, Formatting, IInv
  <2>12. CASE MoveDelete
    BY <2>12 DEF MoveDelete, Control, MvPCs, Formatting, IInv
  <2>13. CASE MoveDirty
    BY <2>13 DEF MoveDirty, Control, MvPCs, Formatting, IInv
  <2>14. QED
    BY <1>3, <2>1, <2>2, <2>3, <2>4, <2>5, <2>6, <2>7, <2>8, <2>9, <2>10,
       <2>11, <2>12, <2>13 DEF Collect
<1>4. CASE Boot
  <2>1. CASE BootFormat
    <3> DEFINE s == FirstFrom(oldest, Bad)
    <3>1. s \in Bad /\ s \in Sectors
      BY <2>1, FirstFromIn DEF BootFormat, Bad, IInv, TypeOK, TypeRam
    <3>2. /\ pc = "boot_hdr" /\ pc' = "boot_hdr" /\ fmt' = fmt + 1
          /\ hdr' = [hdr EXCEPT ![s] = Formatted]
      BY <2>1 DEF BootFormat
    <3> HIDE DEF s
    <3>3. Bad' = Bad \ {s}
      <4>1. hdr'[s].store = 1 /\ \A x \in Sectors : x # s => hdr'[x] = hdr[x]
        BY <3>1, <3>2, FormatStep DEF Formatted, EMPTY, IInv
      <4>2. QED
        BY <3>1, <4>1 DEF Bad
    <3>4. IsFiniteSet(Bad)
      BY SectorsFinite, FS_Subset DEF Bad
    <3>5. Cardinality(Bad \ {s}) = Cardinality(Bad) - 1
      BY <3>1, <3>4, FS_RemoveElement
    <3>6. Cardinality(Bad) \in Nat /\ fmt \in Nat
      BY <3>4, FS_CardinalityType DEF IInv, TypeOK, TypeLocals
    <3>7. QED
      BY <3>2, <3>3, <3>5, <3>6, KvdbAssumption DEF Formatting, IInv
  <2>2. CASE BootHeadersOk
    BY <2>2, KvdbAssumption DEF BootHeadersOk, Formatting, IInv
  <2>3. CASE BootGc
    BY <2>3 DEF BootGc, StartGc, Formatting, IInv
  <2>4. CASE BootPreDelete
    BY <2>4 DEF BootPreDelete, Formatting, IInv
  <2>5. CASE BootPreWrite
    BY <2>5 DEF BootPreWrite, Formatting, IInv
  <2>6. CASE BootKvDone
    BY <2>6 DEF BootKvDone, Formatting, IInv
  <2>7. CASE BootCheck
    BY <2>7 DEF BootCheck, StartGc, Formatting, IInv
  <2>8. QED
    BY <1>4, <2>1, <2>2, <2>3, <2>4, <2>5, <2>6, <2>7 DEF Boot
<1>5. CASE BootScan
  <2>1. hdr' = hdr /\ fmt' = 0 /\ pc' = "boot_hdr"
    BY <1>5 DEF BootScan, flash, Formatting, IInv
  <2>2. Bad' = Bad
    BY <2>1 DEF Bad
  <2>3. IsFiniteSet(Bad) /\ Cardinality(Bad) <= NSec
    BY SectorsFinite, FS_Subset DEF Bad
  <2>4. Cardinality(Bad) \in Nat
    BY <2>3, FS_CardinalityType
  <2>5. QED
    BY <2>1, <2>2, <2>3, <2>4, KvdbAssumption DEF Formatting
<1>6. CASE PowerCut
  BY <1>6 DEF PowerCut, LoseRam, Formatting, IInv
<1>7. CASE Stop
  BY <1>7 DEF Stop, LoseRam, Formatting, IInv
<1>8. QED
  BY <1>1, <1>2, <1>3, <1>4, <1>5, <1>6, <1>7 DEF Next

StepPCs == (SetPCs \ {"alloc"}) \cup {"delete", "deldirty"} \cup MvPCs

\* Nothing is promised of the nodes while no step is to program one.
LEMMA TargetsIdle ==
    ASSUME pc' \notin StepPCs
    PROVE  Targets'
BY DEF Targets, StepPCs, SetPCs, MvPCs

\* A step that keeps what was written and how long it is.
SameNodes == \A b \in Addrs : /\ Written(b)' <=> Written(b)
                              /\ Written(b) => node'[b].val = node[b].val

\* Such a step leaves an address behind all nodes of its sector.
LEMMA SameBeyond ==
    ASSUME SameNodes, NEW a, NEW len, Beyond(a, len)
    PROVE  /\ a \in Addrs
           /\ a[2] + len + Threshold < Cap
           /\ \A o \in Offsets : Written(<<a[1], o>>)' =>
                                    o + Size[node'[<<a[1], o>>].val] <= a[2]
BY DEF Beyond, SameNodes, Addrs

\* Every step keeps the facts about the nodes that are yet to be programmed.
LEMMA TargetsStep ==
    ASSUME IInv, Next
    PROVE  Targets'
<1>1. CASE Caller
  <2>1. CASE \E k \in Keys, v \in Values : BeginSet(k, v)
    BY <2>1, TargetsIdle DEF BeginSet, StepPCs, SetPCs, MvPCs, IInv
  <2>2. CASE \E k \in Keys : BeginDel(k)
    BY <2>2, FindResult DEF BeginDel, Targets, SetPCs, MvPCs, flash, Written,
       IInv
  <2>3. CASE \E k \in Keys : Get(k)
    BY <2>3, TargetsIdle DEF Get, StepPCs, SetPCs, MvPCs, IInv
  <2>4. CASE BeginReset
    BY <2>4, TargetsIdle DEF BeginReset, StepPCs, SetPCs, MvPCs, IInv
  <2>5. QED
    BY <1>1, <2>1, <2>2, <2>3, <2>4 DEF Caller
<1>2. CASE Serve
  <2>1. CASE SetStart
    <3>1. /\ Beyond(tgt', Size[op.val]) /\ Usable(tgt')
          /\ old' # NoAddr => /\ old' \in Addrs /\ Written(old')
                              /\ SetStatus(old', PRE_DELETE)
          /\ old' = NoAddr => node' = node
      BY <2>1, SetStartResult
    <3>2. SameNodes
      <4>1. CASE old' = NoAddr
        BY <3>1, <4>1 DEF SameNodes, Written
      <4>2. CASE old' # NoAddr
        BY <3>1, <4>2, SetStatusStep DEF SameNodes, PRE_DELETE, IInv
      <4>3. QED
        BY <4>1, <4>2
    <3>3. op' = op /\ hdr' = hdr
      BY <2>1 DEF SetStart
    <3>4. Beyond(tgt, Size[op.val])'
      BY <3>1, <3>2, <3>3, SameBeyond DEF Beyond
    <3>5. Usable(tgt)'
      BY <3>1, <3>3 DEF Usable
    <3>6. old' # NoAddr => Written(old)'
      BY <3>1, <3>2 DEF SameNodes, Written
    <3>7. pc' \in {"predirty", "using"} /\ (pc' = "predirty" => old' # NoAddr)
      BY <2>1 DEF SetStart
    <3>8. QED
      BY <3>4, <3>5, <3>6, <3>7 DEF Targets, SetPCs, MvPCs
  <2>2. CASE SetCollect
    BY <2>2, TargetsIdle DEF SetCollect, StartGc, StepPCs, SetPCs, MvPCs, IInv
  <2>3. CASE SetFull
    BY <2>3, TargetsIdle DEF SetFull, Finish, StepPCs, SetPCs, MvPCs, IInv
  <2>4. CASE SetPreDirty
    <3>1. Beyond(tgt, Size[op.val]) /\ Usable(tgt) /\ Written(old)
      BY <2>4 DEF SetPreDirty, Targets, IInv
    <3>2. tgt[1] \in Sectors
      BY <3>1 DEF Beyond, Addrs
    <3>3. \A t \in Sectors : hdr'[t].store = hdr[t].store
      BY <2>4, SetDirtyStep DEF SetPreDirty, DIRTY, IInv
    <3>4. UNCHANGED <<node, tgt, old, op>> /\ pc' = "using"
      BY <2>4 DEF SetPreDirty, request
    <3>5. Beyond(tgt, Size[op.val])' /\ Usable(tgt)' /\ Written(old)'
      BY <3>1, <3>2, <3>3, <3>4 DEF Beyond, Usable, Written
    <3>6. QED
      BY <3>4, <3>5 DEF Targets, SetPCs, MvPCs
  <2>5. CASE SetUsing
    <3>1. Beyond(tgt, Size[op.val]) /\ (old # NoAddr => Written(old))
      BY <2>5 DEF SetUsing, Targets, SetPCs, IInv
    <3>2. hdr'[tgt[1]].store = USING
      BY <2>5, <3>1, SetUsingResult, StoreStep DEF Beyond, Addrs, IInv
    <3>3. UNCHANGED <<node, tgt, old, op>> /\ pc' = "header"
      BY <2>5 DEF SetUsing, request
    <3>4. Beyond(tgt, Size[op.val])' /\ (old' # NoAddr => Written(old)')
      BY <3>1, <3>3 DEF Beyond, Written
    <3>5. QED
      BY <3>2, <3>3, <3>4 DEF Targets, SetPCs, MvPCs
  <2>6. CASE SetHeader
    <3>1. Beyond(tgt, Size[op.val]) /\ (old # NoAddr => Written(old))
      BY <2>6 DEF SetHeader, Targets, SetPCs, IInv
    <3>2. tgt \in Addrs /\ ~Written(tgt)
      BY <3>1, BeyondBlank
    <3> DEFINE n == [key |-> op.key, val |-> op.val, st |-> PRE_WRITE, crc |-> "bad"]
    <3>3. n \in Node
      BY <2>6, SetRequest DEF SetHeader, SetPCs, Node, PRE_WRITE
    <3>4. node' = [node EXCEPT ![tgt] = n] /\ UNCHANGED <<tgt, old>> /\ pc' = "body"
      BY <2>6 DEF SetHeader, request
    <3> HIDE DEF n
    <3>5. Written(tgt)' /\ \A b \in Addrs : Written(b) => Written(b)'
      BY <3>2, <3>3, <3>4, HeaderStep DEF IInv, Written
    <3>6. old \in Addrs \cup {NoAddr}
      BY DEF IInv, TypeOK, TypeRequest
    <3>7. old' # NoAddr => Written(old)'
      BY <3>1, <3>4, <3>5, <3>6 DEF Written
    <3>8. QED
      BY <3>2, <3>4, <3>5, <3>7 DEF Targets, SetPCs, MvPCs
  <2>7. CASE SetBody
    <3>1. tgt \in Addrs /\ Written(tgt) /\ old \in Addrs \cup {NoAddr}
          /\ (old # NoAddr => Written(old))
      BY <2>7 DEF SetBody, Targets, SetPCs, IInv, TypeOK, TypeRequest
    <3>2. \A b \in Addrs : Written(b)' <=> Written(b)
      BY <2>7, <3>1, BodyStep DEF SetBody, IInv
    <3>3. UNCHANGED <<tgt, old>> /\ pc' = "commit"
      BY <2>7 DEF SetBody, request
    <3>4. QED
      BY <3>1, <3>2, <3>3 DEF Targets, SetPCs, MvPCs, Written
  <2>8. CASE SetCommit
    <3>1. tgt \in Addrs /\ Written(tgt) /\ old \in Addrs \cup {NoAddr}
          /\ (old # NoAddr => Written(old))
      BY <2>8 DEF SetCommit, Targets, SetPCs, IInv, TypeOK, TypeRequest
    <3>2. \A b \in Addrs : Written(b)' <=> Written(b)
      BY <2>8, <3>1, SetStatusStep DEF SetCommit, WRITE, IInv
    <3>3. UNCHANGED <<tgt, old>> /\ pc' \in {"end", "delete"} /\ (pc' = "delete" => old # NoAddr)
      BY <2>8 DEF SetCommit, request
    <3>4. QED
      BY <3>1, <3>2, <3>3 DEF Targets, SetPCs, MvPCs, Written
  <2>9. CASE DelMissing
    BY <2>9, TargetsIdle DEF DelMissing, Finish, StepPCs, SetPCs, MvPCs, IInv
  <2>10. CASE Delete
    <3>1. old \in Addrs /\ Written(old)
      BY <2>10 DEF Delete, Targets, IInv, TypeOK, TypeRequest
    <3>2. \A b \in Addrs : Written(b)' <=> Written(b)
      BY <2>10, <3>1, SetStatusStep DEF Delete, DELETED, IInv
    <3>3. old' = old /\ old # NoAddr /\ pc' \in {"deldirty", "end"}
      BY <2>10 DEF Delete, request, Targets, IInv
    <3>4. QED
      BY <3>1, <3>2, <3>3 DEF Targets, SetPCs, MvPCs, Written
  <2>11. CASE DelDirty
    BY <2>11, TargetsIdle DEF DelDirty, StepPCs, SetPCs, MvPCs, IInv
  <2>12. CASE End
    BY <2>12, TargetsIdle DEF End, StartGc, Finish, StepPCs, SetPCs, MvPCs, IInv
  <2>13. CASE EraseAll
    BY <2>13, TargetsIdle DEF EraseAll, StepPCs, SetPCs, MvPCs, IInv
  <2>14. CASE FormatAll
    BY <2>14, TargetsIdle DEF FormatAll, StepPCs, SetPCs, MvPCs, IInv
  <2>15. QED
    BY <1>2, <2>1, <2>2, <2>3, <2>4, <2>5, <2>6, <2>7, <2>8, <2>9, <2>10,
       <2>11, <2>12, <2>13, <2>14 DEF Serve
<1>3. CASE Collect
  <2>1. CASE GcPick
    BY <2>1, TargetsIdle DEF GcPick, StepPCs, SetPCs, MvPCs, IInv
  <2>2. CASE GcDone
    BY <2>2, TargetsIdle DEF GcDone, EndGc, StepPCs, SetPCs, MvPCs, Control, GcPCs, IInv
  <2>3. CASE GcMove
    <3> DEFINE src == <<gc.sec, Min(ToMove)>>
    <3>1. src \in Addrs /\ Written(src)
      BY <2>3, ToMoveFirst DEF GcMove, IInv, TypeOK, TypeLocals, GcLocals
    <3>2. \A b \in Addrs : Written(b)' <=> Written(b)
      BY <2>3, <3>1, SetStatusStep DEF GcMove, PRE_DELETE, IInv
    <3>3. mv'.src = src /\ pc' = "mv_alloc"
      BY <2>3 DEF GcMove
    <3> HIDE DEF src
    <3>4. QED
      BY <3>1, <3>2, <3>3 DEF Targets, SetPCs, MvPCs, Written
  <2>4. CASE GcErase
    BY <2>4, TargetsIdle DEF GcErase, StepPCs, SetPCs, MvPCs, IInv
  <2>5. CASE GcFormat
    BY <2>5, TargetsIdle DEF GcFormat, EndGc, StepPCs, SetPCs, MvPCs, Control, GcPCs, IInv
  <2>6. CASE MoveFails
    BY <2>6, TargetsIdle DEF MoveFails, StepPCs, SetPCs, Control, MvPCs, IInv
  <2>7. CASE MoveSkip
    BY <2>7 DEF MoveSkip, flash, Targets, SetPCs, MvPCs, Written, IInv
  <2>8. CASE MoveStart
    <3>1. /\ mv' = [mv EXCEPT !.dst = MoveRoom]
          /\ Beyond(MoveRoom, Size[Moved.val])
          /\ hdr' = [hdr EXCEPT ![MoveRoom[1]].store = USING]
      BY <2>8, MoveStartResult
    <3>2. mv.src \in Addrs /\ Written(mv.src)
      BY <2>8, MoveRequest DEF MoveStart, MvPCs
    <3>3. mv'.src = mv.src /\ mv'.dst = MoveRoom
      BY <3>1 DEF IInv, TypeOK, TypeLocals, MvLocals
    <3>4. node' = node /\ pc' = "mv_header"
      BY <2>8 DEF MoveStart
    <3>5. hdr'[MoveRoom[1]].store = USING
      BY <3>1, StoreStep DEF Beyond, Addrs, IInv
    <3>6. Beyond(mv.dst, Size[Moved.val])'
      BY <3>1, <3>3, <3>4 DEF Beyond, Moved, Written
    <3>7. QED
      BY <3>2, <3>3, <3>4, <3>5, <3>6 DEF Targets, SetPCs, MvPCs, Written
  <2>9. CASE MoveHeader
    <3>1. Beyond(mv.dst, Size[Moved.val]) /\ mv.src \in Addrs /\ Written(mv.src)
      BY <2>9 DEF MoveHeader, Targets, MvPCs, IInv
    <3>2. mv.dst \in Addrs /\ ~Written(mv.dst)
      BY <3>1, BeyondBlank
    <3> DEFINE n == [key |-> Moved.key, val |-> Moved.val, st |-> PRE_WRITE, crc |-> "bad"]
    <3>3. n \in Node
      BY <2>9, MoveRequest DEF MoveHeader, MvPCs, Node, PRE_WRITE
    <3>4. node' = [node EXCEPT ![mv.dst] = n] /\ mv' = mv /\ pc' = "mv_body"
      BY <2>9 DEF MoveHeader
    <3> HIDE DEF n
    <3>5. Written(mv.dst)' /\ \A b \in Addrs : Written(b) => Written(b)'
      BY <3>2, <3>3, <3>4, HeaderStep DEF IInv, Written
    <3>6. QED
      BY <3>1, <3>2, <3>4, <3>5 DEF Targets, SetPCs, MvPCs, Written
  <2>10. CASE MoveBody
    <3>1. mv.src \in Addrs /\ Written(mv.src) /\ mv.dst \in Addrs /\ Written(mv.dst)
      BY <2>10 DEF MoveBody, Targets, MvPCs, IInv
    <3>2. \A b \in Addrs : Written(b)' <=> Written(b)
      BY <2>10, <3>1, BodyStep DEF MoveBody, IInv
    <3>3. mv' = mv /\ pc' = "mv_commit"
      BY <2>10 DEF MoveBody
    <3>4. QED
      BY <3>1, <3>2, <3>3 DEF Targets, SetPCs, MvPCs, Written
  <2>11. CASE MoveCommit
    <3>1. mv.src \in Addrs /\ Written(mv.src) /\ mv.dst \in Addrs /\ Written(mv.dst)
      BY <2>11 DEF MoveCommit, Targets, MvPCs, IInv
    <3>2. \A b \in Addrs : Written(b)' <=> Written(b)
      BY <2>11, <3>1, SetStatusStep DEF MoveCommit, WRITE, IInv
    <3>3. mv' = mv /\ pc' = "mv_delete"
      BY <2>11 DEF MoveCommit
    <3>4. QED
      BY <3>1, <3>2, <3>3 DEF Targets, SetPCs, MvPCs, Written
  <2>12. CASE MoveDelete
    <3>1. mv.src \in Addrs /\ Written(mv.src)
      BY <2>12 DEF MoveDelete, Targets, MvPCs, IInv
    <3>2. \A b \in Addrs : Written(b)' <=> Written(b)
      BY <2>12, <3>1, SetStatusStep DEF MoveDelete, DELETED, IInv
    <3>3. \/ mv' = mv /\ pc' = "mv_dirty"
          \/ pc' = mv.ret /\ mv.ret \in {"gc_node", "boot_kv"}
      BY <2>12 DEF MoveDelete, Control, MvPCs, IInv
    <3>4. QED
      BY <3>1, <3>2, <3>3 DEF Targets, SetPCs, MvPCs, Written
  <2>13. CASE MoveDirty
    BY <2>13, TargetsIdle DEF MoveDirty, StepPCs, SetPCs, Control, MvPCs, IInv
  <2>14. QED
    BY <1>3, <2>1, <2>2, <2>3, <2>4, <2>5, <2>6, <2>7, <2>8, <2>9, <2>10,
       <2>11, <2>12, <2>13 DEF Collect
<1>4. CASE Boot
  <2>1. CASE BootFormat
    BY <2>1, TargetsIdle DEF BootFormat, StepPCs, SetPCs, MvPCs, IInv
  <2>2. CASE BootHeadersOk
    BY <2>2, TargetsIdle DEF BootHeadersOk, StepPCs, SetPCs, MvPCs, IInv
  <2>3. CASE BootGc
    BY <2>3, TargetsIdle DEF BootGc, StartGc, StepPCs, SetPCs, MvPCs, IInv
  <2>4. CASE BootPreDelete
    <3>1. FirstNode(Unfinished) \in Addrs /\ Written(FirstNode(Unfinished))
      BY <2>4, UnfinishedFirst DEF BootPreDelete
    <3>2. mv'.src = FirstNode(Unfinished) /\ pc' = "mv_alloc" /\ node' = node
      BY <2>4 DEF BootPreDelete, flash
    <3>3. QED
      BY <3>1, <3>2 DEF Targets, SetPCs, MvPCs, Written
  <2>5. CASE BootPreWrite
    BY <2>5, TargetsIdle DEF BootPreWrite, StepPCs, SetPCs, MvPCs, IInv
  <2>6. CASE BootKvDone
    BY <2>6, TargetsIdle DEF BootKvDone, StepPCs, SetPCs, MvPCs, IInv
  <2>7. CASE BootCheck
    BY <2>7, TargetsIdle DEF BootCheck, StartGc, StepPCs, SetPCs, MvPCs, IInv
  <2>8. QED
    BY <1>4, <2>1, <2>2, <2>3, <2>4, <2>5, <2>6, <2>7 DEF Boot
<1>5. CASE BootScan
  BY <1>5, TargetsIdle DEF BootScan, StepPCs, SetPCs, MvPCs, IInv
<1>6. CASE PowerCut
  BY <1>6, TargetsIdle DEF PowerCut, LoseRam, StepPCs, SetPCs, MvPCs, IInv
<1>7. CASE Stop
  BY <1>7, TargetsIdle DEF Stop, LoseRam, StepPCs, SetPCs, MvPCs, IInv
<1>8. QED
  BY <1>1, <1>2, <1>3, <1>4, <1>5, <1>6, <1>7 DEF Next

-----------------------------------------------------------------------------
(* The theorems.                                                           *)

\* A step that changes nothing keeps the invariant.
LEMMA StutterStep ==
    ASSUME IInv, UNCHANGED vars
    PROVE  IInv'
<1>1. TypeOK'
  BY DEF IInv, vars, TypeOK, TypeFlash, TypeRequest, TypeRam, TypeLocals
<1>2. Control' /\ Requests'
  BY DEF IInv, vars, Control, Requests
<1>3. Headers'
  BY HeadersKept DEF IInv, vars
<1>4. Formatting'
  <2>1. Bad' = Bad
    BY DEF vars, Bad
  <2>2. QED
    BY <2>1 DEF IInv, vars, Formatting
<1>5. Targets'
  BY DEF IInv, vars, Targets, Beyond, Usable, Written, Moved
<1>6. QED
  BY <1>1, <1>2, <1>3, <1>4, <1>5 DEF IInv

\* The invariant holds of a device that was never used.
LEMMA InitInv == Init => IInv
<1> SUFFICES ASSUME Init PROVE IInv
  OBVIOUS
<1>1. TypeFlash
  BY DEF Init, TypeFlash, Header, Unformatted
<1>2. TypeRequest
  BY DEF Init, TypeRequest, PCs
<1>3. TypeRam
  <2>1. 0 \in Sectors
    BY KvdbAssumption DEF Sectors
  <2>2. cache \in [Keys -> Addrs \cup {NoAddr}]
    BY DEF Init
  <2>3. /\ oldest = 0 /\ gcReq = FALSE /\ inRec = FALSE /\ lastDel = FALSE
        /\ zeroed = TRUE
    BY DEF Init
  <2>4. QED
    BY <2>1, <2>2, <2>3 DEF TypeRam
<1>4. TypeLocals
  BY KvdbAssumption, GcIdleType, MvIdleType DEF Init, TypeLocals
<1>5. Control /\ Requests
  BY DEF Init, Control, Requests, GcIdle, MvIdle, GcPCs, MvPCs, SetPCs
<1>6. Headers
  BY AddrPair DEF Init, Headers, Written, Unformatted, Blank, FULL
<1>7. Formatting /\ Targets
  BY DEF Init, Formatting, Targets, SetPCs, MvPCs
<1>8. QED
  BY <1>1, <1>2, <1>3, <1>4, <1>5, <1>6, <1>7 DEF IInv, TypeOK

LEMMA InvariantStep ==
    ASSUME IInv, [Next]_vars
    PROVE  IInv'
<1>1. CASE Next
  <2>1. TypeOK'
    BY <1>1, TypeFlashStep, TypeRequestStep, TypeRamStep, TypeLocalsStep DEF TypeOK
  <2>2. QED
    BY <1>1, <2>1, ControlStep, RequestsStep, HeadersStep, FormattingStep, TargetsStep DEF IInv
<1>2. CASE UNCHANGED vars
  BY <1>2, StutterStep
<1>3. QED
  BY <1>1, <1>2

\* The invariant is inductive: it holds in every reachable state, after any
\* number of calls, collections, power cuts and boots.
THEOREM Inductive == Spec => []IInv
<1>1. IInv /\ [Next]_vars => IInv'
  BY InvariantStep
<1>2. QED
  BY <1>1, InitInv, PTL DEF Spec

\* Every state is of its type: in particular no address and no cursor ever
\* leaves the database.
THEOREM TypeCorrect == Spec => []TypeOK
<1>1. IInv => TypeOK
  BY DEF IInv
<1>2. QED
  BY <1>1, Inductive, PTL

\* update_sec_status never marks a sector FULL, because alloc_kv_cb keeps
\* FDB_SEC_REMAIN_THRESHOLD free.
THEOREM NoSectorFull == Spec => []NeverFull
<1>1. IInv => NeverFull
  BY DEF IInv, Headers, NeverFull
<1>2. QED
  BY <1>1, Inductive, PTL

\* gc_request never outlives the call or the boot that raised it.
THEOREM NoRequestLeft == Spec => []RequestOver
<1>1. IInv => RequestOver
  BY DEF IInv, Requests, RequestOver
<1>2. QED
  BY <1>1, Inductive, PTL

\* What lies behind all nodes of a sector overlaps none of them.
LEMMA BeyondErased ==
    ASSUME IInv, NEW a, NEW len \in Nat, Beyond(a, len)
    PROVE  /\ a[2] + len <= Cap
           /\ \A o \in Offsets : Written(<<a[1], o>>) =>
                 Span(a, len) \cap Span(<<a[1], o>>, Size[node[<<a[1], o>>].val]) = {}
<1>1. a[1] \in Sectors /\ a[2] \in Nat
  BY KvdbAssumption DEF Beyond, Addrs, Offsets
<1>2. a[2] + len <= Cap
  BY <1>1, KvdbAssumption DEF Beyond
<1>3. ASSUME NEW o \in Offsets, Written(<<a[1], o>>)
      PROVE  Span(a, len) \cap Span(<<a[1], o>>, Size[node[<<a[1], o>>].val]) = {}
  <2> DEFINE n == Size[node[<<a[1], o>>].val]
  <2>1. n \in Nat
    BY <1>1, <1>3, AddrPair, WrittenNode DEF IInv
  <2>2. o \in Nat /\ o + n <= a[2]
    BY <1>3, KvdbAssumption DEF Beyond, Offsets
  <2> HIDE DEF n
  <2>3. Span(a, len) = a[2]..(a[2] + len - 1) /\ Span(<<a[1], o>>, n) = o..(o + n - 1)
    BY DEF Span
  <2>4. Span(a, len) \cap Span(<<a[1], o>>, n) = {}
    BY <1>1, <2>1, <2>2, <2>3
  <2>5. QED
    BY <2>4 DEF n
<1>4. QED
  BY <1>2, <1>3

\* write_kv_hdr and move_kv only ever program erased cells inside the sector,
\* whatever cuts and collections came between the reservation and the write.
THEOREM ProgramsErasedCells == Spec => []TargetErased
<1>1. ASSUME IInv
      PROVE  TargetErased
  <2>1. CASE pc = "header"
    <3>1. Beyond(tgt, Size[op.val]) /\ Size[op.val] \in Nat
      BY <1>1, <2>1, SetRequest DEF SetPCs, Targets, IInv
    <3>2. QED
      BY <1>1, <2>1, <3>1, BeyondErased DEF TargetErased
  <2>2. CASE pc = "mv_header"
    <3>1. Beyond(mv.dst, Size[Moved.val]) /\ Size[Moved.val] \in Nat
      BY <1>1, <2>2, MoveRequest DEF MvPCs, Targets, IInv
    <3>2. QED
      BY <1>1, <2>2, <3>1, BeyondErased DEF TargetErased
  <2>3. CASE pc \notin {"header", "mv_header"}
    BY <2>3 DEF TargetErased
  <2>4. QED
    BY <2>1, <2>2, <2>3
<1>2. QED
  BY <1>1, Inductive, PTL

-----------------------------------------------------------------------------
(* Torn nodes.                                                             *)

Good(a) == Written(a) /\ node[a].crc = "good"

\* An address that find_kv would take from the cache is that of a whole node, but
\* for a stale one over which a node is being written.
Trusted ==
    \A k \in Keys : CacheHit(k) => \/ Good(cache[k])
                                   \/ pc = "body" /\ cache[k] = tgt
                                   \/ pc = "mv_body" /\ cache[k] = mv.dst

\* The nodes that the steps to come will complete, move or delete are whole.
WholeNodes ==
    /\ pc \in (SetPCs \ {"alloc"}) \cup {"delete"} /\ old # NoAddr => Good(old)
    /\ pc = "commit" => Good(tgt)
    /\ pc \in MvPCs => Good(mv.src)
    /\ pc = "mv_commit" => Good(mv.dst)

TInv == TornNodesInert /\ Trusted /\ WholeNodes

\* A step that writes no node anew and erases none.
Preserved ==
    /\ \A a \in Addrs : Good(a) => Good(a)'
    /\ \A a \in Addrs : Written(a)' => Written(a) /\ node'[a].key = node[a].key
    /\ TornNodesInert'

LEMMA NodesPreserved ==
    ASSUME TornNodesInert, node' = node
    PROVE  Preserved
BY DEF TornNodesInert, Preserved, Good, Written

\* A status is written to a whole node, or says that the node is not.
LEMMA StatusPreserved ==
    ASSUME TypeOK, TornNodesInert, NEW a \in Addrs, Written(a), NEW i \in 1..5,
           SetStatus(a, i), Good(a) \/ i = ERR_HDR
    PROVE  Preserved
<1>1. node[a] \in Node /\ node[a].st \in 1..5
  BY WrittenNode
<1>2. node' = [node EXCEPT ![a].st = Program(@, i)]
  BY DEF SetStatus
<1>3. \A b \in Addrs : b # a => node'[b] = node[b]
  BY <1>2
<1>4. /\ node'[a].crc = node[a].crc /\ node'[a].key = node[a].key
      /\ node'[a].st = Program(node[a].st, i)
  BY <1>1, <1>2 DEF TypeOK, TypeFlash, Node
<1>5. node'[a].st \in 1..5 /\ (i = ERR_HDR => node'[a].st = ERR_HDR)
  BY <1>1, <1>4 DEF Program, ERR_HDR
<1>6. \A b \in Addrs : Good(b) => Good(b)'
  BY <1>3, <1>4, <1>5 DEF Good, Written
<1>7. \A b \in Addrs : Written(b)' => Written(b) /\ node'[b].key = node[b].key
  BY <1>3, <1>4 DEF Written
<1>8. TornNodesInert'
  <2> SUFFICES ASSUME NEW b \in Addrs, Written(b)', node'[b].crc = "bad"
               PROVE  node'[b].st \in {PRE_WRITE, ERR_HDR}
    BY DEF TornNodesInert
  <2>1. CASE b = a
    BY <1>4, <1>5, <2>1 DEF Good
  <2>2. CASE b # a
    BY <1>3, <2>2 DEF TornNodesInert, Written
  <2>3. QED
    BY <2>1, <2>2
<1>9. QED
  BY <1>6, <1>7, <1>8 DEF Preserved

\* The body makes a node whole.
LEMMA BodyPreserved ==
    ASSUME TypeOK, TornNodesInert, NEW a \in Addrs, Written(a),
           node' = [node EXCEPT ![a].crc = "good"]
    PROVE  Preserved /\ Good(a)'
<1>1. node[a] \in Node /\ node[a].st \in 1..5
  BY WrittenNode
<1>2. \A b \in Addrs : b # a => node'[b] = node[b]
  OBVIOUS
<1>3. /\ node'[a].crc = "good" /\ node'[a].key = node[a].key
      /\ node'[a].st = node[a].st
  BY <1>1 DEF TypeOK, TypeFlash, Node
<1>4. Good(a)' /\ \A b \in Addrs : Good(b) => Good(b)'
  BY <1>1, <1>2, <1>3 DEF Good, Written
<1>5. \A b \in Addrs : Written(b)' => Written(b) /\ node'[b].key = node[b].key
  BY <1>2, <1>3 DEF Written
<1>6. TornNodesInert'
  BY <1>2, <1>3 DEF TornNodesInert, Written
<1>7. QED
  BY <1>4, <1>5, <1>6 DEF Preserved

\* A header begins a node that is torn, at an address that may be cached.
LEMMA HeaderBegins ==
    ASSUME TypeOK, TornNodesInert, NEW x \in Addrs, ~Written(x), NEW n \in Node,
           n.st = PRE_WRITE, node' = [node EXCEPT ![x] = n]
    PROVE  /\ \A a \in Addrs : Good(a) => Good(a)'
           /\ \A a \in Addrs : a # x => (Written(a)' => Written(a) /\ node'[a].key = node[a].key)
           /\ TornNodesInert'
<1>1. node'[x] = n /\ \A a \in Addrs : a # x => node'[a] = node[a]
  BY DEF TypeOK, TypeFlash
<1>2. \A a \in Addrs : Good(a) => Good(a)'
  BY <1>1 DEF Good, Written
<1>3. TornNodesInert'
  BY <1>1 DEF TornNodesInert, Written
<1>4. QED
  BY <1>1, <1>2, <1>3 DEF Written

\* An erase leaves no node of its sector, and the others alone.
LEMMA ErasePreserved ==
    ASSUME TypeOK, TornNodesInert, Trusted, NEW s \in Sectors, Erase(s), cache' = cache,
           pc \notin {"body", "mv_body"}
    PROVE  TornNodesInert' /\ Trusted'
<1>1. /\ \A a \in Addrs : a[1] # s => node'[a] = node[a]
      /\ \A a \in Addrs : a[1] = s => node'[a] = Blank
  BY DEF Erase
<1>2. \A a \in Addrs : Written(a)' => node'[a] = node[a] /\ Written(a)
  BY <1>1 DEF Written, Blank
<1>3. TornNodesInert'
  BY <1>2 DEF TornNodesInert
<1>4. ASSUME NEW k \in Keys, CacheHit(k)'
      PROVE  Good(cache[k])'
  <2>1. cache[k] \in Addrs
    BY <1>4 DEF CacheHit, TypeOK, TypeRam
  <2>2. Written(cache[k])' /\ node'[cache[k]].key = k /\ cache[k] # NoAddr
    BY <1>4 DEF CacheHit, Written
  <2>3. CacheHit(k)
    BY <1>2, <2>1, <2>2 DEF CacheHit
  <2>4. QED
    BY <1>2, <2>1, <2>2, <2>3 DEF Trusted, Good, Written
<1>5. QED
  BY <1>3, <1>4 DEF Trusted, Good, Written

\* What goes into the cache is forgotten, was there, or is a whole node.
LEMMA TrustedNext ==
    ASSUME TypeOK, Trusted, Preserved, pc \notin {"body", "mv_body"},
           \A k \in Keys : \/ cache'[k] \in {NoAddr, cache[k]}
                           \/ \E c \in Addrs : cache'[k] = c /\ Good(c)
    PROVE  Trusted'
<1> SUFFICES ASSUME NEW k \in Keys, CacheHit(k)'
             PROVE  Good(cache[k])'
  BY DEF Trusted
<1>1. PICK c : c = cache'[k]
  OBVIOUS
<1>2. c # NoAddr /\ Written(c)' /\ node'[c].key = k
  BY <1>1 DEF CacheHit, Written
<1>3. ASSUME c = cache[k] PROVE c \in Addrs /\ Good(c)
  <2>1. c \in Addrs
    BY <1>2, <1>3 DEF TypeOK, TypeRam
  <2>2. CacheHit(k)
    BY <1>2, <1>3, <2>1 DEF CacheHit, Preserved
  <2>3. QED
    BY <1>3, <2>1, <2>2 DEF Trusted
<1>4. c \in Addrs /\ Good(c)
  BY <1>1, <1>2, <1>3
<1>5. Good(c)'
  BY <1>4 DEF Preserved
<1>6. QED
  BY <1>1, <1>5 DEF Good, Written

LEMMA NothingCached ==
    ASSUME cache' = [k \in Keys |-> NoAddr]
    PROVE  Trusted'
BY DEF Trusted, CacheHit

\* find_kv returns a whole node.
LEMMA FindGood ==
    ASSUME TypeOK, Trusted, pc \notin {"body", "mv_body"}, NEW k \in Keys, Find(k) # NoAddr
    PROVE  Find(k) \in Addrs /\ Good(Find(k))
<1>1. CASE CacheHit(k)
  <2>1. Find(k) = cache[k] /\ cache[k] \in Addrs
    BY <1>1 DEF Find, CacheHit, TypeOK, TypeRam
  <2>2. QED
    BY <1>1, <2>1 DEF Trusted
<1>2. CASE ~ CacheHit(k)
  <2>1. Find(k) = FirstNode(Live(k)) /\ Live(k) # {}
    BY <1>2 DEF Find, Scan
  <2>2. Live(k) \in SUBSET Addrs /\ oldest \in Sectors
    BY DEF Live, TypeOK, TypeRam
  <2>3. Find(k) \in Live(k)
    BY <2>1, <2>2, FirstNodeIn
  <2>4. QED
    BY <2>3 DEF Live, Readable, Good, Written, WRITE
<1>3. QED
  BY <1>1, <1>2

LEMMA FindCaches ==
    ASSUME TypeOK, Trusted, pc \notin {"body", "mv_body"}, NEW f \in Keys,
           cache' = CacheAfterFind(f)
    PROVE  \A k \in Keys : \/ cache'[k] \in {NoAddr, cache[k]}
                           \/ \E c \in Addrs : cache'[k] = c /\ Good(c)
<1>1. \A k \in Keys : k # f => cache'[k] = cache[k]
  BY DEF CacheAfterFind, TypeOK, TypeRam
<1>2. cache'[f] = IF Find(f) = NoAddr THEN cache[f] ELSE Find(f)
  BY DEF CacheAfterFind, TypeOK, TypeRam
<1>3. QED
  BY <1>1, <1>2, FindGood

\* The boot loads live nodes, which are whole.
LEMMA LoadCaches ==
    ASSUME TypeOK, NEW before, cache' = CacheLoaded(before)
    PROVE  \A k \in Keys : \/ cache'[k] \in {NoAddr, cache[k]}
                           \/ \E c \in Addrs : cache'[k] = c /\ Good(c)
<1> SUFFICES ASSUME NEW k \in Keys, cache'[k] # cache[k]
             PROVE  cache'[k] \in Addrs /\ Good(cache'[k])
  OBVIOUS
<1> DEFINE A == Live(k) \cap before
<1>1. A # {} /\ cache'[k] = LastNode(A)
  BY DEF CacheLoaded
<1>2. A \in SUBSET Addrs /\ oldest \in Sectors
  BY DEF Live, TypeOK, TypeRam
<1>3. cache'[k] \in A
  BY <1>1, <1>2, LastNodeIn
<1>4. QED
  BY <1>3 DEF Live, Readable, Good, Written, WRITE

\* del_kv clears an entry or none, and a node moved is put in.
LEMMA DeleteCaches ==
    ASSUME TypeOK, NEW f, cache' = CacheAfterDelete(f)
    PROVE  \A k \in Keys : cache'[k] \in {NoAddr, cache[k]}
BY DEF CacheAfterDelete, TypeOK, TypeRam

\* A step that writes neither a node nor the cache.
LEMMA QuietStep ==
    ASSUME IInv, TInv, node' = node, cache' = cache, pc \notin {"body", "mv_body"}
    PROVE  TornNodesInert' /\ Trusted'
<1>1. Preserved
  BY NodesPreserved DEF TInv
<1>2. Trusted'
  BY <1>1, TrustedNext DEF TInv, IInv
<1>3. QED
  BY <1>1, <1>2 DEF Preserved

\* The nodes that a step works on stay whole.
LEMMA WholeStay ==
    ASSUME IInv, WholeNodes, \A a \in Addrs : Good(a) => Good(a)'
    PROVE  /\ pc \in (SetPCs \ {"alloc"}) \cup {"delete"} /\ old # NoAddr => Good(old) /\ (old' = old => Good(old)')
           /\ pc = "commit" => Good(tgt) /\ (tgt' = tgt => Good(tgt)')
           /\ pc \in MvPCs => Good(mv.src) /\ (mv'.src = mv.src => Good(mv.src)')
           /\ pc = "mv_commit" => Good(mv.dst) /\ (mv'.dst = mv.dst => Good(mv.dst)')
<1>1. \A a, b : a \in Addrs /\ Good(a) /\ b = a => Good(b)'
  OBVIOUS
<1>2. /\ old \in Addrs \cup {NoAddr}
      /\ pc = "commit" => tgt \in Addrs
      /\ pc \in MvPCs => mv.src \in Addrs
      /\ pc = "mv_commit" => mv.dst \in Addrs
  BY DEF IInv, Targets, TypeOK, TypeRequest
<1>3. QED
  BY <1>2 DEF WholeNodes, Good, Written

\* Every step of a call keeps torn nodes out of the way.
LEMMA TornServe ==
    ASSUME IInv, TInv, Serve
    PROVE  TInv'
<1> USE DEF SetPCs, MvPCs
<1>1. CASE SetStart
  <2>1. pc = "alloc" /\ op.key \in Keys /\ old' = Find(op.key) /\ mv' = mv
        /\ cache' = CacheAfterFind(op.key) /\ pc' \in {"using", "predirty"}
    BY <1>1, SetRequest DEF SetStart
  <2>2. old' # NoAddr => old' \in Addrs /\ Good(old')
    BY <2>1, FindGood DEF TInv, IInv
  <2>3. Preserved
    <3>1. CASE old' = NoAddr
      BY <1>1, <3>1, SetStartResult, NodesPreserved DEF TInv
    <3>2. CASE old' # NoAddr
      <4>1. PICK f \in Addrs : f = old'
        BY <2>2, <3>2
      <4>2. Good(f) /\ Written(f) /\ SetStatus(f, PRE_DELETE)
        BY <1>1, <2>2, <3>2, <4>1, SetStartResult DEF Good
      <4>3. QED
        BY <4>1, <4>2, StatusPreserved DEF TInv, IInv, PRE_DELETE
    <3>3. QED
      BY <3>1, <3>2
  <2>4. Trusted'
    BY <2>1, <2>3, FindCaches, TrustedNext DEF TInv, IInv
  <2>5. old' # NoAddr => Good(old)'
    <3>1. \A a \in Addrs : a = old' /\ Good(a) => Good(old)'
      BY <2>3 DEF Preserved, Good, Written
    <3>2. QED
      BY <2>2, <3>1
  <2>6. WholeNodes'
    BY <2>1, <2>5 DEF WholeNodes
  <2>7. QED
    BY <2>3, <2>4, <2>6 DEF TInv, Preserved
<1>2. CASE SetCollect
  <2>1. pc \notin {"body", "mv_body"} /\ node' = node /\ cache' = cache
    BY <1>2 DEF SetCollect, flash
  <2>2. WholeNodes'
    BY <1>2, <2>1, NodesPreserved, WholeStay DEF SetCollect, StartGc, Preserved, TInv, WholeNodes
  <2>3. QED
    BY <2>1, <2>2, QuietStep DEF TInv
<1>3. CASE SetFull
  <2>1. pc \notin {"body", "mv_body"} /\ node' = node /\ cache' = cache
    BY <1>3 DEF SetFull, flash
  <2>2. WholeNodes'
    BY <1>3, <2>1, NodesPreserved, WholeStay DEF SetFull, Finish, Preserved, TInv, WholeNodes
  <2>3. QED
    BY <2>1, <2>2, QuietStep DEF TInv
<1>4. CASE SetPreDirty
  <2>1. pc \notin {"body", "mv_body"} /\ node' = node /\ cache' = cache
    BY <1>4 DEF SetPreDirty, flash
  <2>2. WholeNodes'
    BY <1>4, <2>1, NodesPreserved, WholeStay DEF SetPreDirty, request, Preserved, TInv, WholeNodes
  <2>3. QED
    BY <2>1, <2>2, QuietStep DEF TInv
<1>5. CASE SetUsing
  <2>1. pc \notin {"body", "mv_body"} /\ node' = node /\ cache' = cache
    BY <1>5 DEF SetUsing, flash
  <2>2. WholeNodes'
    BY <1>5, <2>1, NodesPreserved, WholeStay DEF SetUsing, request, Preserved, TInv, WholeNodes
  <2>3. QED
    BY <2>1, <2>2, QuietStep DEF TInv
<1>6. CASE SetHeader
  <2> DEFINE n == [key |-> op.key, val |-> op.val, st |-> PRE_WRITE, crc |-> "bad"]
  <2>1. pc = "header" /\ pc' = "body" /\ tgt' = tgt /\ old' = old /\ mv' = mv /\ cache' = cache
        /\ node' = [node EXCEPT ![tgt] = n]
    BY <1>6 DEF SetHeader, request
  <2>2. tgt \in Addrs /\ ~Written(tgt)
    BY <2>1, BeyondBlank DEF Targets, IInv
  <2>3. n \in Node /\ n.st = PRE_WRITE
    BY <2>1, SetRequest DEF Node, PRE_WRITE
  <2> HIDE DEF n
  <2>4. /\ \A a \in Addrs : Good(a) => Good(a)'
        /\ \A a \in Addrs : a # tgt => (Written(a)' => Written(a) /\ node'[a].key = node[a].key)
        /\ TornNodesInert'
    BY <2>1, <2>2, <2>3, HeaderBegins DEF TInv, IInv
  <2>5. Trusted'
    <3> SUFFICES ASSUME NEW k \in Keys, CacheHit(k)', cache[k] # tgt
                 PROVE  Good(cache[k])'
      BY <2>1 DEF Trusted
    <3>1. cache[k] \in Addrs /\ cache[k] # NoAddr
      BY <2>1 DEF CacheHit, IInv, TypeOK, TypeRam
    <3>2. Written(cache[k])' /\ node'[cache[k]].key = k
      BY <2>1 DEF CacheHit, Written
    <3>3. CacheHit(k)
      BY <2>1, <2>4, <3>1, <3>2 DEF CacheHit, Written
    <3>4. Good(cache[k])
      BY <2>1, <3>3 DEF TInv, Trusted
    <3>5. QED
      BY <2>1, <2>4, <3>1, <3>4 DEF Good, Written
  <2>6. WholeNodes'
    BY <2>1, <2>4, WholeStay DEF TInv, WholeNodes
  <2>7. QED
    BY <2>4, <2>5, <2>6 DEF TInv
<1>7. CASE SetBody
  <2>1. pc = "body" /\ pc' = "commit" /\ tgt' = tgt /\ old' = old /\ mv' = mv
        /\ cache' = [cache EXCEPT ![op.key] = tgt] /\ node' = [node EXCEPT ![tgt].crc = "good"]
    BY <1>7 DEF SetBody, request
  <2>2. tgt \in Addrs /\ Written(tgt)
    BY <2>1 DEF Targets, IInv
  <2>3. Preserved /\ Good(tgt)'
    <3>1. PICK x \in Addrs : x = tgt
      BY <2>2
    <3>2. Preserved /\ Good(x)'
      BY <2>1, <2>2, <3>1, BodyPreserved DEF TInv, IInv
    <3>3. QED
      BY <2>1, <3>1, <3>2 DEF Good, Written
  <2>4. Trusted'
    <3> SUFFICES ASSUME NEW k \in Keys, CacheHit(k)'
                 PROVE  Good(cache[k])'
      BY DEF Trusted
    <3>1. cache'[k] \in {tgt, cache[k]}
      BY <2>1 DEF IInv, TypeOK, TypeRam
    <3>2. CASE cache'[k] = tgt
      BY <2>1, <2>3, <3>2 DEF Good, Written
    <3>3. CASE cache'[k] # tgt
      <4>1. cache[k] \in Addrs /\ cache'[k] = cache[k] /\ cache[k] # NoAddr
        BY <3>1, <3>3 DEF CacheHit, IInv, TypeOK, TypeRam
      <4>2. Written(cache[k])' /\ node'[cache[k]].key = k
        BY <4>1 DEF CacheHit, Written
      <4>3. PICK c \in Addrs : c = cache[k]
        BY <4>1
      <4>4. Written(c)' /\ node'[c].key = k /\ c # NoAddr /\ cache'[k] = c
        BY <4>1, <4>3 DEF CacheHit, Written
      <4>5. CacheHit(k)
        BY <2>3, <4>3, <4>4 DEF CacheHit, Preserved
      <4>6. Good(c)
        BY <2>1, <3>3, <4>3, <4>4, <4>5 DEF TInv, Trusted
      <4>7. QED
        BY <2>3, <4>4, <4>6 DEF Good, Written, Preserved
    <3>4. QED
      BY <3>2, <3>3
  <2>5. WholeNodes'
    BY <2>1, <2>3, WholeStay DEF TInv, WholeNodes, Preserved
  <2>6. QED
    BY <2>3, <2>4, <2>5 DEF TInv, Preserved
<1>8. CASE SetCommit
  <2>1. pc = "commit" /\ pc' \in {"end", "delete"} /\ old' = old /\ mv' = mv
        /\ cache' = cache /\ SetStatus(tgt, WRITE)
    BY <1>8 DEF SetCommit, request
  <2>2. tgt \in Addrs /\ Written(tgt) /\ Good(tgt)
    BY <2>1 DEF Targets, IInv, TInv, WholeNodes
  <2>3. Preserved
    BY <2>1, <2>2, StatusPreserved DEF TInv, IInv, WRITE
  <2>4. Trusted'
    BY <2>1, <2>3, TrustedNext DEF TInv, IInv
  <2>5. WholeNodes'
    BY <2>1, <2>3, WholeStay DEF TInv, WholeNodes, Preserved
  <2>6. QED
    BY <2>3, <2>4, <2>5 DEF TInv, Preserved
<1>9. CASE DelMissing
  <2>1. pc \notin {"body", "mv_body"} /\ node' = node /\ cache' = cache
    BY <1>9 DEF DelMissing, flash
  <2>2. WholeNodes'
    BY <1>9, <2>1, NodesPreserved, WholeStay DEF DelMissing, Finish, Preserved, TInv, WholeNodes
  <2>3. QED
    BY <2>1, <2>2, QuietStep DEF TInv
<1>10. CASE Delete
  <2>1. pc = "delete" /\ pc' \in {"end", "deldirty"} /\ cache' = CacheAfterDelete(op.key)
        /\ SetStatus(old, DELETED)
    BY <1>10 DEF Delete
  <2>2. old \in Addrs /\ Written(old) /\ Good(old)
    BY <2>1 DEF Targets, IInv, TInv, WholeNodes, TypeOK, TypeRequest
  <2>3. Preserved
    BY <2>1, <2>2, StatusPreserved DEF TInv, IInv, DELETED
  <2>4. Trusted'
    BY <2>1, <2>3, DeleteCaches, TrustedNext DEF TInv, IInv
  <2>5. WholeNodes'
    BY <2>1 DEF WholeNodes
  <2>6. QED
    BY <2>3, <2>4, <2>5 DEF TInv, Preserved
<1>11. CASE DelDirty
  <2>1. pc \notin {"body", "mv_body"} /\ node' = node /\ cache' = cache
    BY <1>11 DEF DelDirty, flash
  <2>2. WholeNodes'
    BY <1>11, <2>1, NodesPreserved, WholeStay DEF DelDirty, request, Preserved, TInv, WholeNodes
  <2>3. QED
    BY <2>1, <2>2, QuietStep DEF TInv
<1>12. CASE End
  <2>1. pc \notin {"body", "mv_body"} /\ node' = node /\ cache' = cache
    BY <1>12 DEF End, flash
  <2>2. WholeNodes'
    BY <1>12, <2>1, NodesPreserved, WholeStay DEF End, StartGc, Finish, request, Preserved, TInv, WholeNodes
  <2>3. QED
    BY <2>1, <2>2, QuietStep DEF TInv
<1>13. CASE EraseAll
  <2>1. pc = "erase_all" /\ pc' = "format_all" /\ cache' = cache /\ Erase(fmt) /\ fmt \in Sectors
    <3>1. pc = "erase_all" /\ fmt \in 0..NSec
      BY <1>13 DEF EraseAll, IInv, TypeOK, TypeLocals
    <3>2. fmt \in Sectors
      BY <3>1, KvdbAssumption DEF IInv, Formatting, Sectors
    <3>3. QED
      BY <1>13, <3>2 DEF EraseAll
  <2>2. TornNodesInert' /\ Trusted'
    BY <2>1, ErasePreserved DEF TInv, IInv
  <2>3. WholeNodes'
    BY <2>1 DEF WholeNodes
  <2>4. QED
    BY <2>2, <2>3 DEF TInv
<1>14. CASE FormatAll
  <2>1. pc \notin {"body", "mv_body"} /\ node' = node /\ cache' = cache
    BY <1>14 DEF FormatAll, flash
  <2>2. WholeNodes'
    BY <1>14, <2>1, NodesPreserved, WholeStay DEF FormatAll, request, Preserved, TInv, WholeNodes
  <2>3. QED
    BY <2>1, <2>2, QuietStep DEF TInv
<1>15. QED
  BY <1>1, <1>2, <1>3, <1>4, <1>5, <1>6, <1>7, <1>8, <1>9, <1>10, <1>11, <1>12, <1>13, <1>14 DEF Serve

\* So does every step of a collection or of a move.
LEMMA TornCollect ==
    ASSUME IInv, TInv, Collect
    PROVE  TInv'
<1> USE DEF SetPCs, MvPCs
<1>1. CASE GcPick
  <2>1. pc \notin {"body", "mv_body"} /\ node' = node /\ cache' = cache
    BY <1>1 DEF GcPick, flash
  <2>2. WholeNodes'
    BY <1>1, <2>1, NodesPreserved, WholeStay DEF GcPick, request, Preserved, TInv, WholeNodes
  <2>3. QED
    BY <2>1, <2>2, QuietStep DEF TInv
<1>2. CASE GcDone
  <2>1. pc \notin {"body", "mv_body"} /\ node' = node /\ cache' = cache
    BY <1>2 DEF GcDone, flash
  <2>2. WholeNodes'
    BY <1>2, <2>1, NodesPreserved, WholeStay DEF GcDone, EndGc, IInv, Control, Preserved, TInv, WholeNodes
  <2>3. QED
    BY <2>1, <2>2, QuietStep DEF TInv
<1>3. CASE GcMove
  <2> DEFINE src == <<gc.sec, Min(ToMove)>>
  <2>1. pc = "gc_node" /\ pc' = "mv_alloc" /\ cache' = cache /\ SetStatus(src, PRE_DELETE)
        /\ mv'.src = src /\ ToMove # {} /\ gc.sec \in Sectors
    BY <1>3 DEF GcMove, IInv, TypeOK, TypeLocals, GcLocals
  <2>2. src \in Addrs /\ Written(src)
    BY <2>1, ToMoveFirst
  <2>3. Good(src)
    <3>1. ToMove \in SUBSET Nat
      BY KvdbAssumption DEF ToMove, Offsets
    <3>2. Min(ToMove) \in ToMove
      BY <2>1, <3>1, MinOfNaturals
    <3>3. QED
      BY <3>2, <2>2 DEF ToMove, Readable, Good
  <2> HIDE DEF src
  <2>4. Preserved
    BY <2>1, <2>2, <2>3, StatusPreserved DEF TInv, IInv, PRE_DELETE
  <2>5. Trusted'
    BY <2>1, <2>4, TrustedNext DEF TInv, IInv
  <2>6. PICK c \in Addrs : c = src
    BY <2>2
  <2>7. Good(c)' /\ mv'.src = c
    BY <2>1, <2>3, <2>4, <2>6 DEF Preserved
  <2>8. Good(mv.src)'
    BY <2>7 DEF Good, Written
  <2>9. WholeNodes'
    BY <2>1, <2>8 DEF WholeNodes
  <2>10. QED
    BY <2>4, <2>5, <2>9 DEF TInv, Preserved
<1>4. CASE GcErase
  <2>1. pc = "gc_node" /\ pc' = "gc_format" /\ cache' = cache /\ Erase(gc.sec) /\ gc.sec \in Sectors
    BY <1>4 DEF GcErase, IInv, TypeOK, TypeLocals, GcLocals
  <2>2. TornNodesInert' /\ Trusted'
    BY <2>1, ErasePreserved DEF TInv, IInv
  <2>3. WholeNodes'
    BY <2>1 DEF WholeNodes
  <2>4. QED
    BY <2>2, <2>3 DEF TInv
<1>5. CASE GcFormat
  <2>1. pc \notin {"body", "mv_body"} /\ node' = node /\ cache' = cache
    BY <1>5 DEF GcFormat, flash
  <2>2. WholeNodes'
    BY <1>5, <2>1, NodesPreserved, WholeStay DEF GcFormat, EndGc, IInv, Control, Preserved, TInv, WholeNodes
  <2>3. QED
    BY <2>1, <2>2, QuietStep DEF TInv
<1>6. CASE MoveFails
  <2>1. pc \notin {"body", "mv_body"} /\ node' = node /\ cache' = cache
    BY <1>6 DEF MoveFails, flash
  <2>2. WholeNodes'
    BY <1>6, <2>1, NodesPreserved, WholeStay DEF MoveFails, IInv, Control, Preserved, TInv, WholeNodes
  <2>3. QED
    BY <2>1, <2>2, QuietStep DEF TInv
<1>7. CASE MoveSkip
  <2>1. pc \notin {"body", "mv_body"} /\ node' = node /\ cache' = cache
    BY <1>7 DEF MoveSkip, flash
  <2>2. WholeNodes'
    BY <1>7, <2>1, NodesPreserved, WholeStay DEF MoveSkip, request, Preserved, TInv, WholeNodes
  <2>3. QED
    BY <2>1, <2>2, QuietStep DEF TInv
<1>8. CASE MoveStart
  <2>1. pc \notin {"body", "mv_body"} /\ node' = node /\ cache' = cache
    BY <1>8 DEF MoveStart, flash
  <2>2. WholeNodes'
    BY <1>8, <2>1, NodesPreserved, WholeStay DEF MoveStart, IInv, TypeOK, TypeLocals, MvLocals, Preserved, TInv, WholeNodes
  <2>3. QED
    BY <2>1, <2>2, QuietStep DEF TInv
<1>9. CASE MoveHeader
  <2> DEFINE n == [key |-> Moved.key, val |-> Moved.val, st |-> PRE_WRITE, crc |-> "bad"]
  <2>1. pc = "mv_header" /\ pc' = "mv_body" /\ mv' = mv /\ cache' = cache
        /\ node' = [node EXCEPT ![mv.dst] = n]
    BY <1>9 DEF MoveHeader, request
  <2>2. mv.dst \in Addrs /\ ~Written(mv.dst)
    BY <2>1, BeyondBlank DEF Targets, IInv
  <2>3. n \in Node /\ n.st = PRE_WRITE
    BY <2>1, MoveRequest DEF Node, PRE_WRITE
  <2> HIDE DEF n
  <2>4. /\ \A a \in Addrs : Good(a) => Good(a)'
        /\ \A a \in Addrs : a # mv.dst => (Written(a)' => Written(a) /\ node'[a].key = node[a].key)
        /\ TornNodesInert'
    BY <2>1, <2>2, <2>3, HeaderBegins DEF TInv, IInv
  <2>5. Trusted'
    <3> SUFFICES ASSUME NEW k \in Keys, CacheHit(k)', cache[k] # mv.dst
                 PROVE  Good(cache[k])'
      BY <2>1 DEF Trusted
    <3>1. cache[k] \in Addrs /\ cache[k] # NoAddr
      BY <2>1 DEF CacheHit, IInv, TypeOK, TypeRam
    <3>2. Written(cache[k])' /\ node'[cache[k]].key = k
      BY <2>1 DEF CacheHit, Written
    <3>3. CacheHit(k)
      BY <2>1, <2>4, <3>1, <3>2 DEF CacheHit, Written
    <3>4. Good(cache[k])
      BY <2>1, <3>3 DEF TInv, Trusted
    <3>5. QED
      BY <2>1, <2>4, <3>1, <3>4 DEF Good, Written
  <2>6. WholeNodes'
    BY <2>1, <2>4, WholeStay DEF TInv, WholeNodes
  <2>7. QED
    BY <2>4, <2>5, <2>6 DEF TInv
<1>10. CASE MoveBody
  <2>1. pc = "mv_body" /\ pc' = "mv_commit" /\ mv' = mv
        /\ cache' = cache /\ node' = [node EXCEPT ![mv.dst].crc = "good"]
    BY <1>10 DEF MoveBody, request
  <2>2. mv.dst \in Addrs /\ Written(mv.dst)
    BY <2>1 DEF Targets, IInv
  <2>3. Preserved /\ Good(mv.dst)'
    <3>1. PICK x \in Addrs : x = mv.dst
      BY <2>2
    <3>2. Preserved /\ Good(x)'
      BY <2>1, <2>2, <3>1, BodyPreserved DEF TInv, IInv
    <3>3. QED
      BY <2>1, <3>1, <3>2 DEF Good, Written
  <2>4. Trusted'
    <3> SUFFICES ASSUME NEW k \in Keys, CacheHit(k)'
                 PROVE  Good(cache[k])'
      BY DEF Trusted
    <3>1. cache'[k] \in {mv.dst, cache[k]}
      BY <2>1 DEF IInv, TypeOK, TypeRam
    <3>2. CASE cache'[k] = mv.dst
      BY <2>1, <2>3, <3>2 DEF Good, Written
    <3>3. CASE cache'[k] # mv.dst
      <4>1. cache[k] \in Addrs /\ cache'[k] = cache[k] /\ cache[k] # NoAddr
        BY <3>1, <3>3 DEF CacheHit, IInv, TypeOK, TypeRam
      <4>2. Written(cache[k])' /\ node'[cache[k]].key = k
        BY <4>1 DEF CacheHit, Written
      <4>3. PICK c \in Addrs : c = cache[k]
        BY <4>1
      <4>4. Written(c)' /\ node'[c].key = k /\ c # NoAddr /\ cache'[k] = c
        BY <4>1, <4>3 DEF CacheHit, Written
      <4>5. CacheHit(k)
        BY <2>3, <4>3, <4>4 DEF CacheHit, Preserved
      <4>6. Good(c)
        BY <2>1, <3>3, <4>3, <4>4, <4>5 DEF TInv, Trusted
      <4>7. QED
        BY <2>3, <4>4, <4>6 DEF Good, Written, Preserved
    <3>4. QED
      BY <3>2, <3>3
  <2>5. WholeNodes'
    BY <2>1, <2>3, WholeStay DEF TInv, WholeNodes, Preserved
  <2>6. QED
    BY <2>3, <2>4, <2>5 DEF TInv, Preserved
<1>11. CASE MoveCommit
  <2>1. pc = "mv_commit" /\ pc' = "mv_delete" /\ mv' = mv
        /\ cache' = [cache EXCEPT ![Moved.key] = mv.dst] /\ SetStatus(mv.dst, WRITE)
    BY <1>11 DEF MoveCommit
  <2>2. mv.dst \in Addrs /\ Written(mv.dst) /\ Good(mv.dst)
    BY <2>1 DEF Targets, IInv, TInv, WholeNodes
  <2>3. Preserved
    BY <2>1, <2>2, StatusPreserved DEF TInv, IInv, WRITE
  <2>4. Trusted'
    <3>1. \A k \in Keys : cache'[k] \in {mv.dst, cache[k]}
      BY <2>1 DEF IInv, TypeOK, TypeRam
    <3>2. QED
      BY <2>1, <2>2, <2>3, <3>1, TrustedNext DEF TInv, IInv
  <2>5. WholeNodes'
    BY <2>1, <2>3, WholeStay DEF TInv, WholeNodes, Preserved
  <2>6. QED
    BY <2>3, <2>4, <2>5 DEF TInv, Preserved
<1>12. CASE MoveDelete
  <2>1. pc = "mv_delete" /\ cache' = CacheAfterDelete(Moved.key) /\ SetStatus(mv.src, DELETED)
        /\ ((pc' = "mv_dirty" /\ mv' = mv) \/ pc' = mv.ret)
    BY <1>12 DEF MoveDelete
  <2>2. mv.src \in Addrs /\ Written(mv.src) /\ Good(mv.src)
    BY <2>1 DEF Targets, IInv, TInv, WholeNodes
  <2>3. Preserved
    BY <2>1, <2>2, StatusPreserved DEF TInv, IInv, DELETED
  <2>4. Trusted'
    BY <2>1, <2>3, DeleteCaches, TrustedNext DEF TInv, IInv
  <2>5. mv.ret \in {"idle", "gc_node", "boot_kv"}
    BY DEF IInv, Control
  <2>6. WholeNodes'
    BY <2>1, <2>3, <2>5, WholeStay DEF TInv, WholeNodes, Preserved
  <2>7. QED
    BY <2>3, <2>4, <2>6 DEF TInv, Preserved
<1>13. CASE MoveDirty
  <2>1. pc \notin {"body", "mv_body"} /\ node' = node /\ cache' = cache
    BY <1>13 DEF MoveDirty, flash
  <2>2. WholeNodes'
    BY <1>13, <2>1, NodesPreserved, WholeStay DEF MoveDirty, IInv, Control, Preserved, TInv, WholeNodes
  <2>3. QED
    BY <2>1, <2>2, QuietStep DEF TInv
<1>14. QED
  BY <1>1, <1>2, <1>3, <1>4, <1>5, <1>6, <1>7, <1>8, <1>9, <1>10, <1>11, <1>12, <1>13 DEF Collect

\* Every step of the boot keeps torn nodes out of the way.
LEMMA TornBoot ==
    ASSUME IInv, TInv, Boot
    PROVE  TInv'
<1> USE DEF SetPCs, MvPCs
<1>1. CASE BootFormat
  <2>1. pc \notin {"body", "mv_body"} /\ node' = node /\ cache' = cache
    BY <1>1 DEF BootFormat, flash
  <2>2. WholeNodes'
    BY <1>1, <2>1, NodesPreserved, WholeStay DEF BootFormat, request, Preserved, TInv, WholeNodes
  <2>3. QED
    BY <2>1, <2>2, QuietStep DEF TInv
<1>2. CASE BootHeadersOk
  <2>1. pc \notin {"body", "mv_body"} /\ node' = node /\ cache' = cache
    BY <1>2 DEF BootHeadersOk, flash
  <2>2. WholeNodes'
    BY <1>2, <2>1, NodesPreserved, WholeStay DEF BootHeadersOk, request, Preserved, TInv, WholeNodes
  <2>3. QED
    BY <2>1, <2>2, QuietStep DEF TInv
<1>3. CASE BootGc
  <2>1. pc \notin {"body", "mv_body"} /\ node' = node /\ cache' = cache
    BY <1>3 DEF BootGc, flash
  <2>2. WholeNodes'
    BY <1>3, <2>1, NodesPreserved, WholeStay DEF BootGc, StartGc, Preserved, TInv, WholeNodes
  <2>3. QED
    BY <2>1, <2>2, QuietStep DEF TInv
<1>4. CASE BootPreDelete
  <2> DEFINE a == FirstNode(Unfinished)
           b4 == {b \in Addrs : Ahead(b) /\ Before(b, a)}
  <2>1. pc = "boot_kv" /\ pc' = "mv_alloc" /\ node' = node /\ Unfinished # {}
        /\ node[a].st = PRE_DELETE /\ mv'.src = a /\ cache' = CacheLoaded(b4)
    BY <1>4 DEF BootPreDelete, flash
  <2>2. a \in Unfinished
    <3>1. Unfinished \in SUBSET Addrs /\ oldest \in Sectors
      BY DEF Unfinished, IInv, TypeOK, TypeRam
    <3>2. QED
      BY <2>1, <3>1, FirstNodeIn
  <2> HIDE DEF a, b4
  <2>3. Good(a)
    BY <2>1, <2>2 DEF Unfinished, Readable, Good, Written, PRE_DELETE, PRE_WRITE
  <2>4. Preserved
    BY <2>1, NodesPreserved DEF TInv
  <2>5. Trusted'
    BY <2>1, <2>4, LoadCaches, TrustedNext DEF TInv, IInv
  <2>6. WholeNodes'
    BY <2>1, <2>3 DEF WholeNodes, Good, Written
  <2>7. QED
    BY <2>4, <2>5, <2>6 DEF TInv, Preserved
<1>5. CASE BootPreWrite
  <2> DEFINE a == FirstNode(Unfinished)
           b4 == {b \in Addrs : Ahead(b) /\ Before(b, a)}
  <2>1. pc = "boot_kv" /\ pc' = "boot_check" /\ Unfinished # {} /\ SetStatus(a, ERR_HDR)
        /\ cache' = CacheLoaded(b4)
    BY <1>5 DEF BootPreWrite
  <2>2. a \in Addrs /\ Written(a)
    BY <2>1, UnfinishedFirst
  <2> HIDE DEF a, b4
  <2>3. Preserved
    BY <2>1, <2>2, StatusPreserved DEF TInv, IInv, ERR_HDR
  <2>4. Trusted'
    BY <2>1, <2>3, LoadCaches, TrustedNext DEF TInv, IInv
  <2>5. WholeNodes'
    BY <2>1 DEF WholeNodes
  <2>6. QED
    BY <2>3, <2>4, <2>5 DEF TInv, Preserved
<1>6. CASE BootKvDone
  <2> DEFINE b4 == {b \in Addrs : Ahead(b)}
  <2>1. pc = "boot_kv" /\ pc' = "boot_check" /\ node' = node /\ cache' = CacheLoaded(b4)
    BY <1>6 DEF BootKvDone, flash
  <2> HIDE DEF b4
  <2>2. Preserved
    BY <2>1, NodesPreserved DEF TInv
  <2>3. Trusted'
    BY <2>1, <2>2, LoadCaches, TrustedNext DEF TInv, IInv
  <2>4. WholeNodes'
    BY <2>1 DEF WholeNodes
  <2>5. QED
    BY <2>2, <2>3, <2>4 DEF TInv, Preserved
<1>7. CASE BootCheck
  <2>1. pc \notin {"body", "mv_body"} /\ node' = node /\ cache' = cache
    BY <1>7 DEF BootCheck, flash
  <2>2. WholeNodes'
    BY <1>7, <2>1, NodesPreserved, WholeStay DEF BootCheck, StartGc, Preserved, TInv, WholeNodes
  <2>3. QED
    BY <2>1, <2>2, QuietStep DEF TInv
<1>8. QED
  BY <1>1, <1>2, <1>3, <1>4, <1>5, <1>6, <1>7 DEF Boot

\* Every step of the database keeps torn nodes out of the way.
LEMMA TornNext ==
    ASSUME IInv, TInv, [Next]_vars
    PROVE  TInv'
<1> USE DEF SetPCs, MvPCs
<1>1. ASSUME NEW k \in Keys, NEW v \in Values, BeginSet(k, v)
      PROVE  TInv'
  <2>1. pc = "idle" /\ pc' = "alloc" /\ node' = node /\ cache' = cache
    BY <1>1 DEF BeginSet, flash
  <2>2. WholeNodes'
    BY <2>1 DEF WholeNodes
  <2>3. QED
    BY <2>1, <2>2, QuietStep DEF TInv
<1>2. ASSUME NEW k \in Keys, BeginDel(k)
      PROVE  TInv'
  <2>1. pc = "idle" /\ pc' \in {"missing", "delete"} /\ node' = node
        /\ old' = Find(k) /\ cache' = CacheAfterFind(k)
    BY <1>2 DEF BeginDel, flash
  <2>2. Preserved
    BY <2>1, NodesPreserved DEF TInv
  <2>3. Trusted'
    BY <2>1, <2>2, FindCaches, TrustedNext DEF TInv, IInv
  <2>4. old' # NoAddr => Good(old)'
    <3>1. PICK f : f = Find(k)
      OBVIOUS
    <3>2. f # NoAddr => Good(f)
      BY <2>1, <3>1, FindGood DEF TInv, IInv
    <3>3. QED
      BY <2>1, <3>1, <3>2 DEF Good, Written
  <2>5. WholeNodes'
    BY <2>1, <2>4 DEF WholeNodes
  <2>6. QED
    BY <2>2, <2>3, <2>5 DEF TInv, Preserved
<1>3. ASSUME NEW k \in Keys, Get(k)
      PROVE  TInv'
  <2>1. pc = "idle" /\ pc' = pc /\ node' = node /\ cache' = CacheAfterFind(k)
    BY <1>3 DEF Get, flash
  <2>2. Preserved
    BY <2>1, NodesPreserved DEF TInv
  <2>3. Trusted'
    BY <2>1, <2>2, FindCaches, TrustedNext DEF TInv, IInv
  <2>4. WholeNodes'
    BY <2>1 DEF WholeNodes
  <2>5. QED
    BY <2>2, <2>3, <2>4 DEF TInv, Preserved
<1>4. ASSUME node' = node, cache' = [k \in Keys |-> NoAddr],
             pc' \in {"off", "boot_hdr", "erase_all"}
      PROVE  TInv'
  <2>1. TornNodesInert'
    BY <1>4, NodesPreserved DEF TInv, Preserved
  <2>2. QED
    BY <1>4, <2>1, NothingCached DEF TInv, WholeNodes
<1>5. CASE BeginReset \/ BootScan \/ PowerCut \/ Stop
  BY <1>4, <1>5 DEF BeginReset, BootScan, PowerCut, Stop, LoseRam, flash
<1>6. CASE UNCHANGED vars
  <2>1. TornNodesInert'
    BY <1>6, NodesPreserved DEF TInv, Preserved, vars
  <2>2. Trusted'
    BY <1>6 DEF TInv, Trusted, CacheHit, Good, Written, vars
  <2>3. WholeNodes'
    BY <1>6 DEF TInv, WholeNodes, Good, Written, vars
  <2>4. QED
    BY <2>1, <2>2, <2>3 DEF TInv
<1>7. QED
  BY <1>1, <1>2, <1>3, <1>5, <1>6, TornServe, TornCollect, TornBoot DEF Next, Caller

LEMMA TornInductive == Spec => []TInv
<1>1. Init => TInv
  BY DEF Init, TInv, TornNodesInert, Trusted, WholeNodes, CacheHit, Written, Blank, SetPCs, MvPCs
<1>2. IInv /\ TInv /\ [Next]_vars => TInv'
  BY TornNext
<1>3. QED
  BY <1>1, <1>2, Inductive, PTL DEF Spec

\* A node whose CRC fails is never completed, deleted, moved or recovered: no stale
\* cache entry and no cut move leads del_kv or move_kv to one.
THEOREM TornStayInert == Spec => []TornNodesInert
<1>1. TInv => TornNodesInert
  BY DEF TInv
<1>2. QED
  BY <1>1, TornInductive, PTL

-----------------------------------------------------------------------------
(* The reserved sector.                                                    *)

Collecting == {s \in Sectors : hdr[s].dirty = GC}
InGc == pc \in GcPCs \/ mv.ret = "gc_node"

\* After the check of the headers there is an empty sector, but while a
\* collection may have spent it and while every sector is formatted.  Before the
\* collection of the boot, and in its iteration until a sector is picked, one
\* that was being collected may stand for it.
Reserve ==
    /\ \/ Empties # {} \/ Collecting # {} \/ Bad # {}
    /\ pc \notin {"off", "boot_hdr", "boot_gc", "erase_all", "format_all"} /\ ~ InGc => Empties # {}
    /\ pc = "boot_gc" => Empties # {} \/ Collecting # {}
    /\ pc = "gc_scan" => Empties # {} \/ (gc.next = 0 /\ Collecting # {})

\* The sector being collected is marked until it is erased.
Marked == pc = "gc_node" \/ mv.ret = "gc_node" => hdr[gc.sec].dirty = GC

\* An ordinary write, and a move of the recovery, leave an empty sector.
NotLast ==
    /\ pc \in {"alloc", "boot_gc", "boot_kv"} \/ mv.ret = "boot_kv" => ~gcReq
    /\ pc \in {"predirty", "using"} => \E s \in Empties : s # tgt[1]

RInv == Reserve /\ Marked /\ NotLast

LEMMA EmptiesFinite == IsFiniteSet(Empties)
<1>1. Empties \in SUBSET Sectors
  BY DEF Empties
<1>2. QED
  BY <1>1, SectorsFinite, FS_Subset

\* With more than one empty sector there is another than x.
LEMMA AnotherEmpty ==
    ASSUME Cardinality(Empties) > 1, NEW x
    PROVE  \E s \in Empties : s # x
<1> SUFFICES ASSUME \A s \in Empties : s = x PROVE FALSE
  OBVIOUS
<1>1. Empties \subseteq {x}
  OBVIOUS
<1>2. IsFiniteSet({x}) /\ Cardinality({x}) = 1
  BY FS_Singleton
<1>3. Cardinality(Empties) <= 1
  BY <1>1, <1>2, FS_Subset
<1>4. Cardinality(Empties) \in Nat
  BY EmptiesFinite, FS_CardinalityType
<1>5. QED
  BY <1>3, <1>4

\* Unless a collection is requested, alloc_kv leaves an empty sector.
LEMMA AllocLeaves ==
    ASSUME TypeOK, NEW len, Alloc(len) # NoAddr, ~gcReq, Empties # {}
    PROVE  \E s \in Empties : s # Alloc(len)[1]
<1> DEFINE inUse == Candidates(USING, len)
           fresh == IF Cardinality(Empties) > 1 \/ gcReq
                    THEN Candidates(EMPTY, len) ELSE {}
           S == IF inUse # {} THEN inUse ELSE fresh
           s == FirstFrom(oldest, S)
<1>1. S # {} /\ Alloc(len) = <<s, UsedEnd(s)>>
  BY DEF Alloc
<1>2. S \in SUBSET Sectors /\ oldest \in Sectors
  BY DEF Candidates, TypeOK, TypeRam
<1>3. s \in S
  BY <1>1, <1>2, FirstFromIn
<1>4. CASE inUse # {}
  <2>1. hdr[s].store = USING
    BY <1>3, <1>4 DEF Candidates
  <2>2. s \notin Empties
    BY <2>1 DEF Empties, USING, EMPTY
  <2>3. Alloc(len)[1] = s
    BY <1>1
  <2> HIDE DEF s
  <2>4. QED
    BY <2>2, <2>3
<1>5. CASE inUse = {}
  <2>1. Cardinality(Empties) > 1
    BY <1>1, <1>5
  <2>2. QED
    BY <2>1, AnotherEmpty
<1>6. QED
  BY <1>4, <1>5

\* What the header writes do to the sets of sectors.
LEMMA SetsKept ==
    ASSUME hdr' = hdr
    PROVE  Empties' = Empties /\ Collecting' = Collecting /\ Bad' = Bad
BY DEF Empties, Collecting, Bad

\* GC is the last dirty status.
LEMMA GcStays ==
    ASSUME TypeOK, hdr' \in [Sectors -> Header], NEW t \in Sectors,
           hdr'[t].dirty >= hdr[t].dirty, hdr[t].dirty = GC
    PROVE  hdr'[t].dirty = GC
<1>1. hdr'[t].dirty \in 0..3
  BY DEF Header
<1>2. QED
  BY <1>1 DEF GC

LEMMA DirtySets ==
    ASSUME TypeOK, NEW s, NEW d \in 1..3, SetDirty(s, d)
    PROVE  /\ Empties' = Empties /\ Bad' = Bad
           /\ \A t \in Sectors : hdr[t].dirty = GC => hdr'[t].dirty = GC
           /\ Collecting # {} => Collecting' # {}
<1>1. /\ hdr' \in [Sectors -> Header]
      /\ \A t \in Sectors : hdr'[t].store = hdr[t].store
      /\ \A t \in Sectors : hdr'[t].dirty >= hdr[t].dirty
  BY SetDirtyStep
<1>2. Empties' = Empties /\ Bad' = Bad
  BY <1>1 DEF Empties, Bad
<1>3. \A t \in Sectors : hdr[t].dirty = GC => hdr'[t].dirty = GC
  BY <1>1, GcStays
<1>4. QED
  BY <1>2, <1>3 DEF Collecting

LEMMA UsingSets ==
    ASSUME TypeOK, NEW s, hdr' = [hdr EXCEPT ![s].store = USING]
    PROVE  /\ \A t \in Empties : t # s => t \in Empties'
           /\ \A t \in Sectors : hdr[t].dirty = GC => hdr'[t].dirty = GC
<1>1. /\ hdr' \in [Sectors -> Header]
      /\ \A t \in Sectors : t # s => hdr'[t] = hdr[t]
      /\ \A t \in Sectors : hdr'[t].dirty >= hdr[t].dirty
  BY StoreStep
<1>2. \A t \in Sectors : hdr[t].dirty = GC => hdr'[t].dirty = GC
  BY <1>1, GcStays
<1>3. QED
  BY <1>1, <1>2 DEF Empties

LEMMA FormatSets ==
    ASSUME TypeOK, NEW s \in Sectors, hdr' = [hdr EXCEPT ![s] = Formatted]
    PROVE  s \in Empties'
<1>1. hdr'[s] = Formatted
  BY FormatStep
<1>2. QED
  BY <1>1 DEF Empties, Formatted

LEMMA EraseSets ==
    ASSUME TypeOK, NEW s \in Sectors, Erase(s)
    PROVE  s \in Bad'
<1>1. hdr'[s] = Unformatted
  BY EraseStep
<1>2. QED
  BY <1>1 DEF Bad, Unformatted

\* A collection is started while there is an empty sector, or by the boot.
LEMMA StartGcReserve ==
    ASSUME NEW ret, NEW all, StartGc(ret, all), hdr' = hdr
    PROVE  /\ gcReq' => pc' = "gc_scan"
           /\ \/ pc' = "gc_scan" /\ gc'.next = 0
              \/ pc' = ret /\ gc'.next = 0 /\ Empties # {}
<1>1. CASE Cardinality(Empties) <= 1
  BY <1>1 DEF StartGc
<1>2. CASE ~ (Cardinality(Empties) <= 1)
  <2>1. Empties # {}
    BY <1>2, FS_EmptySet
  <2>2. QED
    BY <1>2, <2>1 DEF StartGc, GcIdle
<1>3. QED
  BY <1>1, <1>2

\* No step of a call takes the last empty sector.
LEMMA ReserveServe ==
    ASSUME IInv, RInv, Serve
    PROVE  RInv'
<1> USE DEF RInv, Reserve, Marked, NotLast, InGc, GcPCs, MvPCs, SetPCs
<1>0. /\ gc.ret \in {"idle", "alloc", "end", "boot_kv"}
      /\ mv.ret \in {"idle", "gc_node", "boot_kv"}
      /\ pc \in GcPCs => gc.ret # "idle"
      /\ pc \in MvPCs <=> mv.ret # "idle"
      /\ pc \in {"idle", "missing", "boot_hdr", "erase_all", "format_all"} => ~gcReq
  BY DEF IInv, Control, Requests
<1>1. CASE SetStart
  <2>1. hdr' = hdr /\ pc = "alloc" /\ mv' = mv /\ pc' \in {"using", "predirty"} /\ gcReq' = gcReq
    BY <1>1 DEF SetStart
  <2>2. Empties' = Empties /\ Collecting' = Collecting /\ Bad' = Bad
    BY <2>1, SetsKept
  <2>3. Empties # {} /\ ~gcReq
    BY <1>0, <2>1
  <2>4. \E s \in Empties : s # tgt'[1]
    <3>1. tgt' = Alloc(Size[op.val]) /\ tgt' # NoAddr
      BY <1>1 DEF SetStart
    <3>2. QED
      BY <2>3, <3>1, AllocLeaves DEF IInv
  <2>5. QED
    BY <1>0, <2>1, <2>2, <2>3, <2>4
<1>2. CASE SetCollect
  <2>1. pc = "alloc" /\ hdr' = hdr /\ mv' = mv /\ StartGc("alloc", FALSE)
    BY <1>2 DEF SetCollect, flash
  <2>2. Empties' = Empties /\ Empties # {}
    BY <1>0, <2>1, SetsKept
  <2>3. /\ gcReq' => pc' = "gc_scan"
        /\ pc' \in {"gc_scan", "alloc"}
    BY <2>1, StartGcReserve
  <2>4. QED
    BY <1>0, <2>1, <2>2, <2>3
<1>3. CASE SetFull
  <2>1. hdr' = hdr
    BY <1>3 DEF SetFull, flash
  <2>2. Empties' = Empties /\ Collecting' = Collecting /\ Bad' = Bad
    BY <2>1, SetsKept
  <2>3. Reserve'
    BY <1>3, <1>0, <2>2 DEF SetFull, Finish
  <2>4. Marked'
    BY <1>3, <1>0, <2>1 DEF SetFull, Finish
  <2>5. NotLast'
    BY <1>3, <1>0, <2>2 DEF SetFull, Finish
  <2>6. QED
    BY <2>3, <2>4, <2>5
<1>4. CASE SetPreDirty
  <2>1. pc = "predirty" /\ pc' = "using" /\ mv' = mv /\ tgt' = tgt /\ SetDirty(old[1], DIRTY)
        /\ gcReq' = gcReq
    BY <1>4 DEF SetPreDirty, request
  <2>2. Empties' = Empties
    BY <2>1, DirtySets DEF DIRTY, IInv
  <2>3. QED
    BY <1>0, <2>1, <2>2
<1>5. CASE SetUsing
  <2>1. pc = "using" /\ pc' = "header" /\ mv' = mv /\ gcReq' = gcReq
    BY <1>5 DEF SetUsing
  <2>2. hdr' = [hdr EXCEPT ![tgt[1]].store = USING]
    BY <1>5, SetUsingResult
  <2>3. \A t \in Empties : t # tgt[1] => t \in Empties'
    BY <2>2, UsingSets DEF IInv
  <2>4. Empties' # {}
    BY <2>1, <2>3
  <2>5. QED
    BY <1>0, <2>1, <2>4
<1>6. CASE SetHeader
  <2>1. hdr' = hdr
    BY <1>6 DEF SetHeader, flash
  <2>2. Empties' = Empties /\ Collecting' = Collecting /\ Bad' = Bad
    BY <2>1, SetsKept
  <2>3. Reserve'
    BY <1>6, <1>0, <2>2 DEF SetHeader, request
  <2>4. Marked'
    BY <1>6, <1>0, <2>1 DEF SetHeader, request
  <2>5. NotLast'
    BY <1>6, <1>0, <2>2 DEF SetHeader, request
  <2>6. QED
    BY <2>3, <2>4, <2>5
<1>7. CASE SetBody
  <2>1. hdr' = hdr
    BY <1>7 DEF SetBody, flash
  <2>2. Empties' = Empties /\ Collecting' = Collecting /\ Bad' = Bad
    BY <2>1, SetsKept
  <2>3. Reserve'
    BY <1>7, <1>0, <2>2 DEF SetBody, request
  <2>4. Marked'
    BY <1>7, <1>0, <2>1 DEF SetBody, request
  <2>5. NotLast'
    BY <1>7, <1>0, <2>2 DEF SetBody, request
  <2>6. QED
    BY <2>3, <2>4, <2>5
<1>8. CASE SetCommit
  <2>1. hdr' = hdr
    BY <1>8 DEF SetCommit, flash
  <2>2. Empties' = Empties /\ Collecting' = Collecting /\ Bad' = Bad
    BY <2>1, SetsKept
  <2>3. Reserve'
    BY <1>8, <1>0, <2>2 DEF SetCommit, request
  <2>4. Marked'
    BY <1>8, <1>0, <2>1 DEF SetCommit, request
  <2>5. NotLast'
    BY <1>8, <1>0, <2>2 DEF SetCommit, request
  <2>6. QED
    BY <2>3, <2>4, <2>5
<1>9. CASE DelMissing
  <2>1. hdr' = hdr
    BY <1>9 DEF DelMissing, flash
  <2>2. Empties' = Empties /\ Collecting' = Collecting /\ Bad' = Bad
    BY <2>1, SetsKept
  <2>3. Reserve'
    BY <1>9, <1>0, <2>2 DEF DelMissing, Finish
  <2>4. Marked'
    BY <1>9, <1>0, <2>1 DEF DelMissing, Finish
  <2>5. NotLast'
    BY <1>9, <1>0, <2>2 DEF DelMissing, Finish
  <2>6. QED
    BY <2>3, <2>4, <2>5
<1>10. CASE Delete
  <2>1. hdr' = hdr
    BY <1>10 DEF Delete, flash
  <2>2. Empties' = Empties /\ Collecting' = Collecting /\ Bad' = Bad
    BY <2>1, SetsKept
  <2>3. Reserve'
    BY <1>10, <1>0, <2>2 DEF Delete, request
  <2>4. Marked'
    BY <1>10, <1>0, <2>1 DEF Delete, request
  <2>5. NotLast'
    BY <1>10, <1>0, <2>2 DEF Delete, request
  <2>6. QED
    BY <2>3, <2>4, <2>5
<1>11. CASE DelDirty
  <2>1. pc = "deldirty" /\ pc' = "end" /\ mv' = mv /\ SetDirty(old[1], DIRTY)
    BY <1>11 DEF DelDirty
  <2>2. Empties' = Empties
    BY <2>1, DirtySets DEF DIRTY, IInv
  <2>3. QED
    BY <1>0, <2>1, <2>2
<1>12. CASE End
  <2>1. pc = "end" /\ hdr' = hdr /\ mv' = mv /\ pc' \in {"gc_scan", "end", "idle"}
    BY <1>12, StartGcReserve DEF End, Finish, flash
  <2>2. Empties' = Empties /\ Empties # {}
    BY <1>0, <2>1, SetsKept
  <2>3. QED
    BY <1>0, <2>1, <2>2
<1>13. CASE EraseAll
  <2>1. pc = "erase_all" /\ pc' = "format_all" /\ mv' = mv /\ Erase(fmt) /\ fmt \in Sectors
    <3>1. pc = "erase_all" /\ fmt \in 0..NSec
      BY <1>13 DEF EraseAll, IInv, TypeOK, TypeLocals
    <3>2. fmt \in Sectors
      BY <3>1, KvdbAssumption DEF IInv, Formatting, Sectors
    <3>3. QED
      BY <1>13, <3>2 DEF EraseAll
  <2>2. Bad' # {}
    BY <2>1, EraseSets DEF IInv
  <2>3. QED
    BY <1>0, <2>1, <2>2
<1>14. CASE FormatAll
  <2>1. pc = "format_all" /\ pc' \in {"erase_all", "boot_gc", "end"} /\ mv' = mv /\ gcReq' = gcReq
        /\ hdr' = [hdr EXCEPT ![fmt] = Formatted]
    BY <1>14 DEF FormatAll
  <2>2. fmt \in Sectors
    <3>1. fmt \in 0..NSec
      BY DEF IInv, TypeOK, TypeLocals
    <3>2. QED
      BY <2>1, <3>1, KvdbAssumption DEF IInv, Formatting, Sectors
  <2>3. Empties' # {}
    BY <2>1, <2>2, FormatSets DEF IInv
  <2>4. QED
    BY <1>0, <2>1, <2>3
<1>15. QED
  BY <1>1, <1>2, <1>3, <1>4, <1>5, <1>6, <1>7, <1>8, <1>9, <1>10, <1>11, <1>12, <1>13, <1>14 DEF Serve

\* A collection may spend the last empty sector, but gives one back before it ends.
LEMMA ReserveCollect ==
    ASSUME IInv, RInv, Collect
    PROVE  RInv'
<1> USE DEF RInv, Reserve, Marked, NotLast, InGc, GcPCs, MvPCs, SetPCs
<1>0. /\ gc.ret \in {"idle", "alloc", "end", "boot_kv"}
      /\ mv.ret \in {"idle", "gc_node", "boot_kv"}
      /\ pc \in GcPCs => gc.ret # "idle"
      /\ pc \in MvPCs <=> mv.ret # "idle"
      /\ pc \in {"idle", "missing", "boot_hdr", "erase_all", "format_all"} => ~gcReq
  BY DEF IInv, Control, Requests
<1>1. CASE GcPick
  <2> DEFINE s == FirstFrom(gc.from, ToCollect)
  <2>1. pc = "gc_scan" /\ pc' = "gc_node" /\ mv' = mv /\ SetDirty(s, GC) /\ ToCollect # {}
        /\ gc'.sec = s
    BY <1>1 DEF GcPick
  <2>2. s \in ToCollect /\ s \in Sectors
    <3>1. ToCollect \in SUBSET Sectors /\ gc.from \in Sectors
      BY DEF ToCollect, IInv, TypeOK, TypeLocals, GcLocals
    <3>2. QED
      BY <2>1, <3>1, FirstFromIn
  <2> HIDE DEF s
  <2>3. hdr'[s].dirty = GC
    <3>1. hdr[s].dirty \in 0..3 /\ hdr[s] \in Header
      BY <2>2 DEF IInv, TypeOK, TypeFlash, Header
    <3>2. hdr'[s].dirty = Program(hdr[s].dirty, GC)
      BY <2>1, <2>2, <3>1 DEF SetDirty, IInv, TypeOK, TypeFlash, Header
    <3>3. QED
      BY <3>1, <3>2 DEF Program, GC
  <2>4. Collecting' # {}
    BY <2>2, <2>3 DEF Collecting
  <2>5. QED
    BY <1>0, <2>1, <2>3, <2>4
<1>2. CASE GcDone
  <2>1. pc = "gc_scan" /\ hdr' = hdr /\ mv' = mv /\ ToCollect = {} /\ pc' = gc.ret /\ ~gcReq'
    BY <1>2 DEF GcDone, EndGc, flash
  <2>2. Empties # {}
    <3> SUFFICES ASSUME gc.next = 0, NEW t \in Collecting PROVE FALSE
      BY <2>1 DEF Collecting
    <3>1. t \in Sectors /\ hdr[t].dirty = GC
      BY DEF Collecting
    <3>2. Rank(gc.from, t) \in 0..(NSec - 1)
      BY <3>1, RankType DEF IInv, TypeOK, TypeLocals, GcLocals
    <3>3. hdr[t].store # 0
      BY <3>1 DEF IInv, Headers, Unformatted, GC
    <3>4. Rank(gc.from, t) >= gc.next
      BY <3>2
    <3>5. t \in ToCollect
      BY <3>1, <3>3, <3>4 DEF ToCollect
    <3>6. QED
      BY <2>1, <3>5
  <2>3. Empties' = Empties
    BY <2>1, SetsKept
  <2>4. QED
    BY <1>0, <2>1, <2>2, <2>3
<1>3. CASE GcMove
  <2>1. pc = "gc_node" /\ pc' = "mv_alloc" /\ hdr' = hdr /\ mv'.ret = "gc_node" /\ gc'.sec = gc.sec
    BY <1>3 DEF GcMove, IInv, TypeOK, TypeLocals, GcLocals
  <2>2. Empties' = Empties /\ Collecting' = Collecting /\ Bad' = Bad
    BY <2>1, SetsKept
  <2>3. QED
    BY <1>0, <2>1, <2>2
<1>4. CASE GcErase
  <2>1. pc = "gc_node" /\ pc' = "gc_format" /\ mv' = mv /\ Erase(gc.sec) /\ gc.sec \in Sectors
    BY <1>4 DEF GcErase, IInv, TypeOK, TypeLocals, GcLocals
  <2>2. Bad' # {}
    BY <2>1, EraseSets DEF IInv
  <2>3. QED
    BY <1>0, <2>1, <2>2
<1>5. CASE GcFormat
  <2>1. pc = "gc_format" /\ mv' = mv /\ hdr' = [hdr EXCEPT ![gc.sec] = Formatted]
        /\ (pc' = "gc_scan" \/ (pc' = gc.ret /\ ~gcReq'))
    BY <1>5 DEF GcFormat, EndGc
  <2>2. gc.sec \in Sectors
    BY DEF IInv, TypeOK, TypeLocals, GcLocals
  <2>3. Empties' # {}
    BY <2>1, <2>2, FormatSets DEF IInv
  <2>4. QED
    BY <1>0, <2>1, <2>3
<1>6. CASE MoveFails
  <2>1. hdr' = hdr
    BY <1>6 DEF MoveFails, flash
  <2>2. Empties' = Empties /\ Collecting' = Collecting /\ Bad' = Bad
    BY <2>1, SetsKept
  <2>3. Reserve'
    BY <1>6, <1>0, <2>2 DEF MoveFails, MvIdle
  <2>4. Marked'
    BY <1>6, <1>0, <2>1 DEF MoveFails, MvIdle
  <2>5. NotLast'
    BY <1>6, <1>0, <2>2 DEF MoveFails, MvIdle
  <2>6. QED
    BY <2>3, <2>4, <2>5
<1>7. CASE MoveSkip
  <2>1. hdr' = hdr
    BY <1>7 DEF MoveSkip, flash
  <2>2. Empties' = Empties /\ Collecting' = Collecting /\ Bad' = Bad
    BY <2>1, SetsKept
  <2>3. Reserve'
    BY <1>7, <1>0, <2>2 DEF MoveSkip
  <2>4. Marked'
    BY <1>7, <1>0, <2>1 DEF MoveSkip
  <2>5. NotLast'
    BY <1>7, <1>0, <2>2 DEF MoveSkip
  <2>6. QED
    BY <2>3, <2>4, <2>5
<1>8. CASE MoveStart
  <2>1. pc = "mv_alloc" /\ pc' = "mv_header" /\ gc' = gc /\ mv'.ret = mv.ret /\ gcReq' = gcReq
        /\ MoveRoom # NoAddr
    BY <1>8 DEF MoveStart, IInv, TypeOK, TypeLocals, MvLocals
  <2>2. hdr' = [hdr EXCEPT ![MoveRoom[1]].store = USING]
    BY <1>8, MoveStartResult
  <2>3. /\ \A t \in Empties : t # MoveRoom[1] => t \in Empties'
        /\ \A t \in Sectors : hdr[t].dirty = GC => hdr'[t].dirty = GC
    BY <2>2, UsingSets DEF IInv
  <2>4. CASE mv.ret = "boot_kv"
    <3>1. Empties # {} /\ ~gcReq
      BY <1>0, <2>1, <2>4
    <3>2. \E s \in Empties : s # MoveRoom[1]
      BY <2>1, <3>1, AllocLeaves DEF MoveRoom, IInv
    <3>3. Empties' # {}
      BY <2>3, <3>2
    <3>4. QED
      BY <1>0, <2>1, <2>4, <3>1, <3>3
  <2>5. CASE mv.ret = "gc_node"
    <3>1. gc.sec \in Sectors /\ hdr'[gc.sec].dirty = GC
      BY <2>3, <2>5 DEF IInv, TypeOK, TypeLocals, GcLocals
    <3>2. Collecting' # {}
      BY <3>1 DEF Collecting
    <3>3. QED
      BY <1>0, <2>1, <2>5, <3>1, <3>2
  <2>6. QED
    BY <1>0, <2>1, <2>4, <2>5
<1>9. CASE MoveHeader
  <2>1. hdr' = hdr
    BY <1>9 DEF MoveHeader, flash
  <2>2. Empties' = Empties /\ Collecting' = Collecting /\ Bad' = Bad
    BY <2>1, SetsKept
  <2>3. Reserve'
    BY <1>9, <1>0, <2>2 DEF MoveHeader
  <2>4. Marked'
    BY <1>9, <1>0, <2>1 DEF MoveHeader
  <2>5. NotLast'
    BY <1>9, <1>0, <2>2 DEF MoveHeader
  <2>6. QED
    BY <2>3, <2>4, <2>5
<1>10. CASE MoveBody
  <2>1. hdr' = hdr
    BY <1>10 DEF MoveBody, flash
  <2>2. Empties' = Empties /\ Collecting' = Collecting /\ Bad' = Bad
    BY <2>1, SetsKept
  <2>3. Reserve'
    BY <1>10, <1>0, <2>2 DEF MoveBody
  <2>4. Marked'
    BY <1>10, <1>0, <2>1 DEF MoveBody
  <2>5. NotLast'
    BY <1>10, <1>0, <2>2 DEF MoveBody
  <2>6. QED
    BY <2>3, <2>4, <2>5
<1>11. CASE MoveCommit
  <2>1. hdr' = hdr
    BY <1>11 DEF MoveCommit, flash
  <2>2. Empties' = Empties /\ Collecting' = Collecting /\ Bad' = Bad
    BY <2>1, SetsKept
  <2>3. Reserve'
    BY <1>11, <1>0, <2>2 DEF MoveCommit
  <2>4. Marked'
    BY <1>11, <1>0, <2>1 DEF MoveCommit
  <2>5. NotLast'
    BY <1>11, <1>0, <2>2 DEF MoveCommit
  <2>6. QED
    BY <2>3, <2>4, <2>5
<1>12. CASE MoveDelete
  <2>1. hdr' = hdr
    BY <1>12 DEF MoveDelete, flash
  <2>2. Empties' = Empties /\ Collecting' = Collecting /\ Bad' = Bad
    BY <2>1, SetsKept
  <2>3. Reserve'
    BY <1>12, <1>0, <2>2 DEF MoveDelete, MvIdle
  <2>4. Marked'
    BY <1>12, <1>0, <2>1 DEF MoveDelete, MvIdle
  <2>5. NotLast'
    BY <1>12, <1>0, <2>2 DEF MoveDelete, MvIdle
  <2>6. QED
    BY <2>3, <2>4, <2>5
<1>13. CASE MoveDirty
  <2>1. pc = "mv_dirty" /\ pc' = mv.ret /\ gc' = gc /\ mv'.ret = "idle" /\ gcReq' = gcReq
        /\ SetDirty(mv.src[1], DIRTY)
    BY <1>13 DEF MoveDirty, MvIdle
  <2>2. /\ Empties' = Empties /\ Bad' = Bad
        /\ \A t \in Sectors : hdr[t].dirty = GC => hdr'[t].dirty = GC
        /\ Collecting # {} => Collecting' # {}
    BY <2>1, DirtySets DEF DIRTY, IInv
  <2>3. gc.sec \in Sectors
    BY DEF IInv, TypeOK, TypeLocals, GcLocals
  <2>4. QED
    BY <1>0, <2>1, <2>2, <2>3
<1>14. QED
  BY <1>1, <1>2, <1>3, <1>4, <1>5, <1>6, <1>7, <1>8, <1>9, <1>10, <1>11, <1>12, <1>13 DEF Collect

\* The boot finishes the collection that spent it before a call is accepted.
LEMMA ReserveBoot ==
    ASSUME IInv, RInv, Boot
    PROVE  RInv'
<1> USE DEF RInv, Reserve, Marked, NotLast, InGc, GcPCs, MvPCs, SetPCs
<1>0. /\ gc.ret \in {"idle", "alloc", "end", "boot_kv"}
      /\ mv.ret \in {"idle", "gc_node", "boot_kv"}
      /\ pc \in GcPCs => gc.ret # "idle"
      /\ pc \in MvPCs <=> mv.ret # "idle"
      /\ pc \in {"idle", "missing", "boot_hdr", "erase_all", "format_all"} => ~gcReq
  BY DEF IInv, Control, Requests
<1>1. CASE BootFormat
  <2> DEFINE s == FirstFrom(oldest, Bad)
  <2>1. pc = "boot_hdr" /\ pc' = pc /\ mv' = mv /\ hdr' = [hdr EXCEPT ![s] = Formatted] /\ Bad # {}
    BY <1>1 DEF BootFormat
  <2>2. s \in Sectors
    <3>1. Bad \in SUBSET Sectors /\ oldest \in Sectors
      BY DEF Bad, IInv, TypeOK, TypeRam
    <3>2. QED
      BY <2>1, <3>1, FirstFromIn
  <2> HIDE DEF s
  <2>3. Empties' # {}
    BY <2>1, <2>2, FormatSets DEF IInv
  <2>4. QED
    BY <1>0, <2>1, <2>3
<1>2. CASE BootHeadersOk
  <2>1. hdr' = hdr
    BY <1>2 DEF BootHeadersOk, flash
  <2>2. Empties' = Empties /\ Collecting' = Collecting /\ Bad' = Bad
    BY <2>1, SetsKept
  <2>3. Reserve'
    BY <1>2, <1>0, <2>2 DEF BootHeadersOk
  <2>4. Marked'
    BY <1>2, <1>0, <2>1 DEF BootHeadersOk
  <2>5. NotLast'
    BY <1>2, <1>0, <2>2 DEF BootHeadersOk
  <2>6. QED
    BY <2>3, <2>4, <2>5
<1>3. CASE BootGc
  <2>1. pc = "boot_gc" /\ hdr' = hdr /\ mv' = mv
        /\ IF Interrupted THEN StartGc("boot_kv", TRUE) ELSE pc' = "boot_kv" /\ gcReq' = gcReq
    BY <1>3 DEF BootGc, flash
  <2>2. Empties' = Empties /\ Collecting' = Collecting /\ Bad' = Bad
    BY <2>1, SetsKept
  <2>3. CASE Interrupted
    <3>1. /\ gcReq' => pc' = "gc_scan"
          /\ \/ pc' = "gc_scan" /\ gc'.next = 0
             \/ pc' = "boot_kv" /\ gc'.next = 0 /\ Empties # {}
      BY <2>1, <2>3, StartGcReserve
    <3>2. QED
      BY <1>0, <2>1, <2>2, <3>1
  <2>4. CASE ~ Interrupted
    <3>1. Collecting = {}
      BY <2>4 DEF Interrupted, Collecting
    <3>2. Empties # {}
      BY <2>1, <3>1
    <3>3. QED
      BY <1>0, <2>1, <2>2, <2>4, <3>2
  <2>5. QED
    BY <2>3, <2>4
<1>4. CASE BootPreDelete
  <2>1. hdr' = hdr
    BY <1>4 DEF BootPreDelete, flash
  <2>2. Empties' = Empties /\ Collecting' = Collecting /\ Bad' = Bad
    BY <2>1, SetsKept
  <2>3. Reserve'
    BY <1>4, <1>0, <2>2 DEF BootPreDelete
  <2>4. Marked'
    BY <1>4, <1>0, <2>1 DEF BootPreDelete
  <2>5. NotLast'
    BY <1>4, <1>0, <2>2 DEF BootPreDelete
  <2>6. QED
    BY <2>3, <2>4, <2>5
<1>5. CASE BootPreWrite
  <2>1. hdr' = hdr
    BY <1>5 DEF BootPreWrite, flash
  <2>2. Empties' = Empties /\ Collecting' = Collecting /\ Bad' = Bad
    BY <2>1, SetsKept
  <2>3. Reserve'
    BY <1>5, <1>0, <2>2 DEF BootPreWrite
  <2>4. Marked'
    BY <1>5, <1>0, <2>1 DEF BootPreWrite
  <2>5. NotLast'
    BY <1>5, <1>0, <2>2 DEF BootPreWrite
  <2>6. QED
    BY <2>3, <2>4, <2>5
<1>6. CASE BootKvDone
  <2>1. hdr' = hdr
    BY <1>6 DEF BootKvDone, flash
  <2>2. Empties' = Empties /\ Collecting' = Collecting /\ Bad' = Bad
    BY <2>1, SetsKept
  <2>3. Reserve'
    BY <1>6, <1>0, <2>2 DEF BootKvDone
  <2>4. Marked'
    BY <1>6, <1>0, <2>1 DEF BootKvDone
  <2>5. NotLast'
    BY <1>6, <1>0, <2>2 DEF BootKvDone
  <2>6. QED
    BY <2>3, <2>4, <2>5
<1>7. CASE BootCheck
  <2>1. pc = "boot_check" /\ hdr' = hdr /\ mv' = mv
        /\ \/ StartGc("boot_kv", TRUE)
           \/ pc' = "idle"
    BY <1>7 DEF BootCheck, flash
  <2>2. Empties' = Empties /\ Empties # {}
    BY <1>0, <2>1, SetsKept
  <2>3. pc' = "idle" \/ ((gcReq' => pc' = "gc_scan") /\ pc' \in {"gc_scan", "boot_kv"})
    BY <2>1, StartGcReserve
  <2>4. QED
    BY <1>0, <2>1, <2>2, <2>3
<1>8. QED
  BY <1>1, <1>2, <1>3, <1>4, <1>5, <1>6, <1>7 DEF Boot

\* Every step keeps the reserve; a loss of power leaves a sector that stands for it.
LEMMA ReserveNext ==
    ASSUME IInv, RInv, [Next]_vars
    PROVE  RInv'
<1> USE DEF RInv, Reserve, Marked, NotLast, InGc, GcPCs, MvPCs, SetPCs
<1>0. /\ gc.ret \in {"idle", "alloc", "end", "boot_kv"}
      /\ mv.ret \in {"idle", "gc_node", "boot_kv"}
      /\ pc \in GcPCs => gc.ret # "idle"
      /\ pc \in MvPCs <=> mv.ret # "idle"
      /\ pc \in {"idle", "missing", "boot_hdr", "erase_all", "format_all"} => ~gcReq
  BY DEF IInv, Control, Requests
<1>1. ASSUME hdr' = hdr
      PROVE  Empties' = Empties /\ Collecting' = Collecting /\ Bad' = Bad
  BY <1>1, SetsKept
<1>2. CASE Caller
  <2>1. /\ hdr' = hdr /\ pc = "idle" /\ mv' = mv /\ gcReq' = gcReq
        /\ pc' \in {"idle", "alloc", "missing", "delete", "erase_all"}
    BY <1>2 DEF Caller, BeginSet, BeginDel, Get, BeginReset, flash
  <2>2. QED
    BY <1>0, <1>1, <2>1
<1>3. CASE BootScan
  BY <1>0, <1>1, <1>3 DEF BootScan, flash
<1>4. CASE PowerCut \/ Stop
  <2>1. hdr' = hdr /\ pc' = "off" /\ mv' = MvIdle /\ gcReq' = FALSE
    BY <1>4 DEF PowerCut, Stop, LoseRam, flash
  <2>2. mv'.ret = "idle"
    BY <2>1 DEF MvIdle
  <2>3. Empties' # {} \/ Collecting' # {} \/ Bad' # {}
    BY <1>1, <2>1
  <2>4. QED
    BY <2>1, <2>2, <2>3
<1>5. CASE UNCHANGED vars
  BY <1>1, <1>5 DEF vars
<1>6. QED
  BY <1>2, <1>3, <1>4, <1>5, ReserveServe, ReserveCollect, ReserveBoot DEF Next

LEMMA ReserveInductive == Spec => []RInv
<1>1. Init => RInv
  <2> SUFFICES ASSUME Init PROVE RInv
    OBVIOUS
  <2>1. 0 \in Sectors
    BY KvdbAssumption DEF Sectors
  <2>2. Bad # {}
    BY <2>1 DEF Init, Bad, Unformatted
  <2>3. QED
    BY <2>2 DEF Init, RInv, Reserve, Marked, NotLast, InGc, GcPCs, GcIdle, MvIdle
<1>2. IInv /\ RInv /\ [Next]_vars => RInv'
  BY ReserveNext
<1>3. QED
  BY <1>1, <1>2, Inductive, PTL DEF Spec

\* Whenever no call is under way there is an empty sector for the next collection,
\* however many collections were cut short and wherever.
THEOREM ReserveStays == Spec => []ReserveKept
<1>1. IInv /\ RInv => ReserveKept
  BY DEF IInv, Control, RInv, Reserve, InGc, GcPCs, MvPCs, ReserveKept
<1>2. QED
  BY <1>1, Inductive, ReserveInductive, PTL
=============================================================================
