---------------------------- MODULE DbCallsProofs ----------------------------
(* An open database has a geometry, an open never formats what must not be     *)
(* formatted, and whoever writes the flash is alone: for any threads, calls,   *)
(* callbacks, partitions and sector sizes.                                     *)
EXTENDS DbCalls, SequenceTheorems, TLAPS

\* The steps of a call and of an attempt to open; "lock" belongs to both.
CallPcs == {"enter", "body", "back", "unlock"}
OpenPcs == {"geometry", "settings", "load", "relock", "relock_failed", "update",
            "done", "failed", "hung"}

Frame == [api : DOMAIN Api \cup {"init"}, path : Parts \cup {NoPart},
          pc : CallPcs \cup OpenPcs \cup {"lock"}]

TypeOK ==
    /\ db \in [type : Types, not_formatable : BOOLEAN, init_ok : BOOLEAN, sec_size : Nat,
               max_size : Nat, part : Parts \cup {NoPart}]
    /\ holder \in Threads \cup {NoThread}
    /\ stack \in [Threads -> Seq(Frame)]
    /\ bad \in {"none", "some", "all"}

\* A frame is at a step of its own kind; the callbacks are those of an iteration,
\* and only a KVDB loads.
FrameOk(f) ==
    /\ f.pc \in CallPcs => f.api # "init"
    /\ f.pc \in OpenPcs => f.api = "init"
    /\ f.pc = "back" => Api[f.api].calls
    /\ f.pc = "load" => db.type = KV

\* A frame lies on another when that one waits in its callback, or is the load,
\* which restores the defaults.  An attempt to open is nobody's callback.
NestOk(s) ==
    /\ \A i \in 1..Len(s) : FrameOk(s[i])
    /\ \A i \in 1..Len(s) - 1 : s[i].pc = "back" \/ (s[i].pc = "relock" /\ s[i+1].api = "kv_set_default")
    /\ \A i \in 2..Len(s) : s[i].api # "init"

Nesting == \A t \in Threads : NestOk(stack[t])

\* What a thread may have on its stack while the database is not open: a call that
\* is about to be refused; Main also an attempt that has found no geometry.
Refused(s)  == s # <<>> => Len(s) = 1 /\ s[1].pc = "enter" /\ Api[s[1].api].refuses
NotBegun(s) == Refused(s) \/ (Len(s) = 1 /\ s[1].pc \in {"geometry", "failed", "hung"})

Geo ==
    /\ db.part # NoPart
    /\ PowerOfTwo(db.sec_size) /\ db.sec_size % Blk[db.part] = 0
    /\ db.max_size = PartLen[db.part]
    /\ db.max_size % db.sec_size = 0 /\ db.max_size \div db.sec_size >= 2

Opening ==
    /\ ~db.init_ok => \A t \in Threads \ {Main} : Refused(stack[t])
    /\ db.init_ok \/ ~NotBegun(stack[Main]) => Geo

IInv == TypeOK /\ Nesting /\ Opening

\* A frame between the lock and the unlock of its own call.
HasLock(f) == \/ f.pc \in {"settings", "update", "unlock"}
              \/ f.pc \in {"body", "back"} /\ Api[f.api].locks

LockHeld ==
    \A t \in Threads : \A i \in 1..Len(stack[t]) : HasLock(stack[t][i]) =>
        /\ holder = t
        /\ \A j \in 1..Len(stack[t]) : HasLock(stack[t][j]) => i = j

\* A KVDB that is not opened again: whoever is at it is Main, before it is open.
OnlyMainOpens ==
    db.type = KV => \A t \in Threads : \A i \in 1..Len(stack[t]) :
                        stack[t][i].api = "init" => t = Main /\ ~db.init_ok

FirstCall == \A t \in Threads : stack[t] # <<>> => stack[t][1].api \in Calls \cup {"init"}

\* What the table of the calls says, as far as it matters below.
LEMMA ApiFacts ==
    /\ "init" \notin DOMAIN Api
    /\ {"kv_set_default", "tsl_clean"} \subseteq DOMAIN Api
    /\ \A c \in DOMAIN Api : Api[c].calls => c = "tsl_iter"
    /\ Api["tsl_iter"].locks /\ Api["kv_set_default"].locks
<1>1. DOMAIN Api = {"kv_set", "kv_get", "kv_set_default", "kv_iterate", "tsl_append", "tsl_iter",
                    "tsl_count", "tsl_set_status", "tsl_clean"}
  BY DEF Api
<1>2. /\ ~Api["kv_set"].calls /\ ~Api["kv_get"].calls /\ ~Api["kv_set_default"].calls
      /\ ~Api["kv_iterate"].calls /\ ~Api["tsl_append"].calls /\ ~Api["tsl_count"].calls
      /\ ~Api["tsl_set_status"].calls /\ ~Api["tsl_clean"].calls
  BY DEF Api, Does
<1>3. Api["tsl_iter"].locks /\ Api["kv_set_default"].locks
  BY DEF Api, Does
<1>4. QED
  BY <1>1, <1>2, <1>3

-----------------------------------------------------------------------------
(* What the edits of a stack do.                                           *)

Moved(t, pc) ==
    /\ stack' \in [Threads -> Seq(Frame)]
    /\ \A u \in Threads \ {t} : stack'[u] = stack[u]
    /\ Len(stack'[t]) = Len(stack[t])
    /\ \A i \in 1..Len(stack[t]) - 1 : stack'[t][i] = stack[t][i]
    /\ stack'[t][Len(stack[t])].api = Top(t).api
    /\ stack'[t][Len(stack[t])].pc = pc

Returned(t) ==
    /\ stack' \in [Threads -> Seq(Frame)]
    /\ \A u \in Threads \ {t} : stack'[u] = stack[u]
    /\ Len(stack'[t]) = Len(stack[t]) - 1
    /\ \A i \in 1..Len(stack[t]) - 1 : stack'[t][i] = stack[t][i]

\* The top frame goes to pc and a call of api is put on it.
Nested(t, pc, api) ==
    /\ stack' \in [Threads -> Seq(Frame)]
    /\ \A u \in Threads \ {t} : stack'[u] = stack[u]
    /\ Len(stack'[t]) = Len(stack[t]) + 1
    /\ \A i \in 1..Len(stack[t]) - 1 : stack'[t][i] = stack[t][i]
    /\ stack'[t][Len(stack[t])].api = Top(t).api
    /\ stack'[t][Len(stack[t])].pc = pc
    /\ stack'[t][Len(stack[t]) + 1].api = api
    /\ stack'[t][Len(stack[t]) + 1].pc = "enter"

\* An idle thread makes its first frame.
Begun(t, api, pc) ==
    /\ stack' \in [Threads -> Seq(Frame)]
    /\ \A u \in Threads \ {t} : stack'[u] = stack[u]
    /\ stack[t] = <<>>
    /\ Len(stack'[t]) = 1
    /\ stack'[t][1].api = api
    /\ stack'[t][1].pc = pc

LEMMA TopFrame ==
    ASSUME NEW s \in Seq(Frame), s # <<>>
    PROVE  Len(s) \in Nat \ {0} /\ Last(s) = s[Len(s)] /\ Last(s) \in Frame
<1>1. Len(s) \in Nat \ {0}
  BY EmptySeq
<1>2. QED
  BY <1>1, ElementOfSeq DEF Last

LEMMA FrontFrames ==
    ASSUME NEW s \in Seq(Frame), s # <<>>
    PROVE  /\ Front(s) \in Seq(Frame) /\ Len(Front(s)) = Len(s) - 1
           /\ \A i \in 1..Len(s) - 1 : Front(s)[i] = s[i]
<1>1. Len(s) \in Nat \ {0}
  BY EmptySeq
<1>2. \A i \in 1..Len(s) - 1 : s[i] \in Frame
  BY <1>1, ElementOfSeq
<1> DEFINE n == Len(s) - 1
<1>3. 1 \in Int /\ n \in Nat /\ n \in Int /\ \A i \in 1..n : s[i] \in Frame
  BY <1>1, <1>2
<1> HIDE DEF n
<1>4. /\ SubSeq(s, 1, n) \in Seq(Frame)
      /\ Len(SubSeq(s, 1, n)) = IF 1 <= n THEN n - 1 + 1 ELSE 0
      /\ \A i \in 1..n - 1 + 1 : SubSeq(s, 1, n)[i] = s[1 + i - 1]
  BY <1>3, SubSeqProperties
<1>5. Front(s) = SubSeq(s, 1, n)
  BY DEF Front, n
<1>6. Len(Front(s)) = n
  BY <1>3, <1>4, <1>5
<1>7. ASSUME NEW i \in 1..n PROVE Front(s)[i] = s[i]
  <2>1. 1 + i - 1 = i /\ i \in 1..n - 1 + 1
    BY <1>3
  <2>2. SubSeq(s, 1, n)[i] = s[1 + i - 1]
    BY <1>4, <2>1
  <2>3. QED
    BY <1>5, <2>1, <2>2
<1>8. QED
  BY <1>4, <1>5, <1>6, <1>7 DEF n

LEMMA GotoMoves ==
    ASSUME TypeOK, NEW t \in Threads, ~Idle(t), NEW pc \in CallPcs \cup OpenPcs \cup {"lock"},
           Goto(t, pc)
    PROVE  Moved(t, pc)
<1> DEFINE f == [api |-> Top(t).api, path |-> Top(t).path, pc |-> pc]
           n == Append(Front(stack[t]), f)
<1>1. stack[t] \in Seq(Frame) /\ stack[t] # <<>> /\ Top(t) \in Frame /\ Len(stack[t]) \in Nat \ {0}
  BY TopFrame DEF TypeOK, Idle, Top
<1>2. [Top(t) EXCEPT !.pc = pc] = f /\ f \in Frame
  BY <1>1 DEF Frame
<1>3. stack' = [stack EXCEPT ![t] = n]
  BY <1>2 DEF Goto
<1>4. Front(stack[t]) \in Seq(Frame)
  BY <1>1, FrontFrames
<1>5. n \in Seq(Frame) /\ Len(n) = Len(stack[t]) /\ n[Len(stack[t])] = f
  BY <1>1, <1>2, <1>4, FrontFrames, AppendProperties
<1>6. \A i \in 1..Len(stack[t]) - 1 : n[i] = stack[t][i]
  BY <1>1, <1>2, <1>4, FrontFrames, AppendProperties
<1> HIDE DEF n
<1>7. QED
  BY <1>3, <1>5, <1>6 DEF Moved, TypeOK

LEMMA ReturnReturns ==
    ASSUME TypeOK, NEW t \in Threads, ~Idle(t), Return(t)
    PROVE  Returned(t)
<1>1. stack[t] \in Seq(Frame) /\ stack[t] # <<>>
  BY DEF TypeOK, Idle
<1>2. QED
  BY <1>1, FrontFrames DEF Return, Returned, TypeOK

LEMMA NestNests ==
    ASSUME TypeOK, NEW t \in Threads, ~Idle(t), NEW pc \in OpenPcs \cup CallPcs, NEW api \in DOMAIN Api,
           stack' = [stack EXCEPT ![t] = Append(Append(Front(@), [Top(t) EXCEPT !.pc = pc]),
                                            [api |-> api, path |-> NoPart, pc |-> "enter"])]
    PROVE  Nested(t, pc, api)
<1> DEFINE f == [api |-> Top(t).api, path |-> Top(t).path, pc |-> pc]
           g == [api |-> api, path |-> NoPart, pc |-> "enter"]
           m == Append(Front(stack[t]), f)
           n == Append(m, g)
<1>1. stack[t] \in Seq(Frame) /\ stack[t] # <<>> /\ Top(t) \in Frame /\ Len(stack[t]) \in Nat \ {0}
  BY TopFrame DEF TypeOK, Idle, Top
<1>2. [Top(t) EXCEPT !.pc = pc] = f /\ f \in Frame /\ g \in Frame
  BY <1>1 DEF Frame, CallPcs
<1>3. stack' = [stack EXCEPT ![t] = n]
  BY <1>2
<1>4. Front(stack[t]) \in Seq(Frame)
  BY <1>1, FrontFrames
<1>5. /\ m \in Seq(Frame) /\ Len(m) = Len(stack[t]) /\ m[Len(stack[t])] = f
      /\ \A i \in 1..Len(stack[t]) - 1 : m[i] = stack[t][i]
  BY <1>1, <1>2, <1>4, FrontFrames, AppendProperties
<1>6. /\ n \in Seq(Frame) /\ Len(n) = Len(m) + 1 /\ n[Len(m) + 1] = g
      /\ \A i \in 1..Len(m) : n[i] = m[i]
  BY <1>2, <1>5, AppendProperties
<1> HIDE DEF n, m
<1>7. /\ stack' \in [Threads -> Seq(Frame)]
      /\ \A u \in Threads \ {t} : stack'[u] = stack[u]
      /\ stack'[t] = n
  BY <1>3, <1>6 DEF TypeOK
<1>8. n[Len(stack[t])].api = Top(t).api /\ n[Len(stack[t])].pc = pc
  BY <1>1, <1>5, <1>6
<1>9. /\ Len(n) = Len(stack[t]) + 1
      /\ n[Len(stack[t]) + 1].api = api /\ n[Len(stack[t]) + 1].pc = "enter"
  BY <1>5, <1>6
<1>10. \A i \in 1..Len(stack[t]) - 1 : n[i] = stack[t][i]
  BY <1>1, <1>5, <1>6
<1>11. QED
  BY <1>7, <1>8, <1>9, <1>10 DEF Nested

LEMMA EnterBegins ==
    ASSUME TypeOK, NEW t \in Threads, Idle(t), NEW api \in DOMAIN Api, Enter(t, api)
    PROVE  Begun(t, api, "enter")
<1> DEFINE g == [api |-> api, path |-> NoPart, pc |-> "enter"]
<1>1. g \in Frame
  BY DEF Frame, CallPcs
<1>2. stack' = [stack EXCEPT ![t] = Append(<<>>, g)]
  BY DEF Enter, Idle
<1> DEFINE n == Append(<<>>, g)
<1>3. n \in Seq(Frame) /\ Len(n) = 1 /\ n[1] = g
  BY <1>1, AppendProperties, EmptySeq
<1> HIDE DEF n
<1>4. QED
  BY <1>2, <1>3 DEF Begun, TypeOK, Idle, n

LEMMA OpenBegins ==
    ASSUME TypeOK, NEW t \in Threads, NEW p \in Parts \cup {NoPart}, Open(t, p)
    PROVE  Begun(t, "init", "geometry")
<1> DEFINE g == [api |-> "init", path |-> p, pc |-> "geometry"]
<1>1. g \in Frame
  BY DEF Frame, OpenPcs
<1>2. <<g>> \in Seq(Frame) /\ Len(<<g>>) = 1 /\ <<g>>[1] = g
  BY <1>1
<1>3. QED
  BY <1>2 DEF Open, Begun, TypeOK, Idle

-----------------------------------------------------------------------------
(* Which frames there are, and when.                                       *)

LEMMA InitInvariant == Init => IInv
<1> SUFFICES ASSUME Init PROVE IInv
  OBVIOUS
<1>1. \A t \in Threads : stack[t] = <<>> /\ Len(stack[t]) = 0
  BY DEF Init
<1>2. TypeOK
  <2>1. stack \in [Threads -> Seq(Frame)]
    BY EmptySeq DEF Init
  <2>2. db \in [type : Types, not_formatable : BOOLEAN, init_ok : BOOLEAN, sec_size : Nat,
                max_size : Nat, part : Parts \cup {NoPart}]
    <3>1. PICK ty \in Types : db = [type |-> ty, not_formatable |-> FALSE, init_ok |-> FALSE,
                                    sec_size |-> 0, max_size |-> 0, part |-> NoPart]
      BY DEF Init
    <3>2. QED
      BY <3>1
  <2>3. QED
    BY <2>1, <2>2 DEF Init, TypeOK
<1>3. Nesting
  BY <1>1 DEF Nesting, NestOk
<1>4. Opening
  BY <1>1, DbCallsAssumption DEF Init, Opening, Refused, NotBegun
<1>5. QED
  BY <1>2, <1>3, <1>4 DEF IInv

LEMMA StackOfThread ==
    ASSUME TypeOK, NEW t \in Threads
    PROVE  /\ stack[t] \in Seq(Frame) /\ Len(stack[t]) \in Nat
           /\ \A i \in 1..Len(stack[t]) : stack[t][i] \in Frame
           /\ ~Idle(t) => /\ Len(stack[t]) \in Nat \ {0} /\ Top(t) = stack[t][Len(stack[t])]
                          /\ Top(t) \in Frame
           /\ Idle(t) => Len(stack[t]) = 0
<1>1. stack[t] \in Seq(Frame)
  BY DEF TypeOK
<1>2. QED
  BY <1>1, TopFrame, ElementOfSeq, EmptySeq, LenProperties DEF Idle, Top

LEMMA MovedNests ==
    ASSUME TypeOK, Nesting, db'.type = db.type, NEW t \in Threads, ~Idle(t), NEW pc, Moved(t, pc),
           pc \in CallPcs => Top(t).api # "init",
           pc \in OpenPcs => Top(t).api = "init",
           pc = "back" => Api[Top(t).api].calls,
           pc = "load" => db.type = KV
    PROVE  Nesting'
<1>1. \A u \in Threads : stack[u] \in Seq(Frame) /\ Len(stack[u]) \in Nat
  BY StackOfThread
<1>2. Len(stack[t]) \in Nat \ {0} /\ Top(t) = stack[t][Len(stack[t])]
  BY StackOfThread
<1>3. ASSUME NEW u \in Threads \ {t} PROVE NestOk(stack[u])'
  BY <1>3 DEF Moved, Nesting, NestOk, FrameOk
<1>4. NestOk(stack[t])'
  <2>1. ASSUME NEW i \in 1..Len(stack[t])' PROVE FrameOk(stack[t][i])'
    <3>1. CASE i = Len(stack[t])
      BY <1>2, <3>1 DEF Moved, FrameOk
    <3>2. CASE i # Len(stack[t])
      BY <1>2, <3>2 DEF Moved, FrameOk, Nesting, NestOk
    <3>3. QED
      BY <3>1, <3>2
  <2>2. \A i \in 2..Len(stack'[t]) : stack'[t][i].api # "init"
    BY <1>2 DEF Moved, Nesting, NestOk
  <2>3. ASSUME NEW i \in 1..Len(stack'[t]) - 1
        PROVE  stack'[t][i].pc = "back" \/ (stack'[t][i].pc = "relock" /\ stack'[t][i+1].api = "kv_set_default")
    <3>1. stack'[t][i] = stack[t][i] /\ stack'[t][i+1].api = stack[t][i+1].api
      <4>1. CASE i + 1 = Len(stack[t])
        BY <1>2, <4>1 DEF Moved
      <4>2. CASE i + 1 # Len(stack[t])
        BY <1>2, <4>2 DEF Moved
      <4>3. QED
        BY <4>1, <4>2
    <3>2. QED
      BY <1>2, <3>1 DEF Moved, Nesting, NestOk
  <2>4. QED
    BY <2>1, <2>2, <2>3 DEF NestOk
<1>5. QED
  BY <1>3, <1>4 DEF Nesting

LEMMA ReturnedNests ==
    ASSUME TypeOK, Nesting, db'.type = db.type, NEW t \in Threads, ~Idle(t), Returned(t)
    PROVE  Nesting'
<1>1. \A u \in Threads : stack[u] \in Seq(Frame) /\ Len(stack[u]) \in Nat
  BY StackOfThread
<1>2. Len(stack[t]) \in Nat \ {0}
  BY StackOfThread
<1>3. ASSUME NEW u \in Threads \ {t} PROVE NestOk(stack[u])'
  <2>1. stack'[u] = stack[u]
    BY <1>3 DEF Returned
  <2>2. NestOk(stack[u])
    BY <1>3 DEF Nesting
  <2>3. \A i \in 1..Len(stack[u]) : FrameOk(stack[u][i])'
    <3>1. ASSUME NEW f, FrameOk(f), stack'[u] = stack[u], db'.type = db.type
          PROVE  /\ f.pc \in CallPcs => f.api # "init"
                 /\ f.pc \in OpenPcs => f.api = "init"
                 /\ f.pc = "back" => Api[f.api].calls
                 /\ f.pc = "load" => db'.type = KV
      BY <3>1 DEF FrameOk
    <3>2. \A i \in 1..Len(stack[u]) : FrameOk(stack[u][i])
      BY <2>2 DEF NestOk
    <3>3. QED
      BY <2>1, <3>1, <3>2 DEF FrameOk
  <2>4. QED
    BY <2>1, <2>2, <2>3 DEF NestOk
<1>4. NestOk(stack[t])'
  <2>1. \A i \in 1..Len(stack'[t]) : stack'[t][i] = stack[t][i] /\ i \in 1..Len(stack[t])
    BY <1>2 DEF Returned
  <2>2. \A i \in 1..Len(stack'[t]) : FrameOk(stack[t][i])'
    BY <2>1 DEF Nesting, NestOk, FrameOk
  <2>3. \A i \in 2..Len(stack'[t]) : stack'[t][i].api # "init"
    BY <1>2, <2>1 DEF Returned, Nesting, NestOk
  <2>4. ASSUME NEW i \in 1..Len(stack'[t]) - 1
        PROVE  stack'[t][i].pc = "back" \/ (stack'[t][i].pc = "relock" /\ stack'[t][i+1].api = "kv_set_default")
    <3>1. i \in 1..Len(stack[t]) - 1 /\ i + 1 \in 1..Len(stack'[t])
      BY <1>2 DEF Returned
    <3>2. stack'[t][i] = stack[t][i] /\ stack'[t][i+1] = stack[t][i+1]
      BY <2>1, <3>1 DEF Returned
    <3>3. QED
      BY <3>1, <3>2 DEF Nesting, NestOk
  <2>5. QED
    BY <2>2, <2>3, <2>4 DEF NestOk
<1>5. QED
  BY <1>3, <1>4 DEF Nesting

LEMMA NestedNests ==
    ASSUME TypeOK, Nesting, db'.type = db.type, NEW t \in Threads, ~Idle(t), NEW pc,
           NEW api \in DOMAIN Api, Nested(t, pc, api),
           \/ pc = "back" /\ Top(t).api # "init" /\ Api[Top(t).api].calls
           \/ pc = "relock" /\ Top(t).api = "init" /\ api = "kv_set_default"
    PROVE  Nesting'
<1> DEFINE l == Len(stack[t])
<1>1. \A u \in Threads : stack[u] \in Seq(Frame) /\ Len(stack[u]) \in Nat
  BY StackOfThread
<1>2. l \in Nat \ {0} /\ Top(t) = stack[t][l]
  BY StackOfThread
<1>3. ASSUME NEW u \in Threads \ {t} PROVE NestOk(stack[u])'
  BY <1>3 DEF Nested, Nesting, NestOk, FrameOk
<1>4. api # "init"
  BY DEF Api
<1>5. NestOk(stack[t])'
  <2>0. Len(stack'[t]) = l + 1
    BY DEF Nested
  <2>1. ASSUME NEW i \in 1..Len(stack[t])' PROVE FrameOk(stack[t][i])'
    <3>1. CASE i = l
      BY <1>2, <3>1 DEF Nested, FrameOk, CallPcs, OpenPcs
    <3>2. CASE i = l + 1
      BY <1>2, <1>4, <3>2 DEF Nested, FrameOk, CallPcs, OpenPcs
    <3>3. CASE i # l /\ i # l + 1
      <4>1. i \in 1..l - 1
        BY <1>2, <2>0, <3>3
      <4>2. stack'[t][i] = stack[t][i] /\ FrameOk(stack[t][i])
        BY <1>2, <4>1 DEF Nested, Nesting, NestOk
      <4>3. QED
        BY <4>2 DEF FrameOk
    <3>4. QED
      BY <3>1, <3>2, <3>3
  <2>2. ASSUME NEW i \in 2..Len(stack'[t]) PROVE stack'[t][i].api # "init"
    <3>1. CASE i = l
      BY <1>2, <3>1 DEF Nested, Nesting, NestOk
    <3>2. CASE i = l + 1
      BY <1>4, <3>2 DEF Nested
    <3>3. CASE i # l /\ i # l + 1
      <4>1. i \in 1..l - 1 /\ i \in 2..l
        BY <1>2, <2>0, <3>3
      <4>2. QED
        BY <4>1 DEF Nested, Nesting, NestOk
    <3>4. QED
      BY <3>1, <3>2, <3>3
  <2>3. ASSUME NEW i \in 1..Len(stack'[t]) - 1
        PROVE  stack'[t][i].pc = "back" \/ (stack'[t][i].pc = "relock" /\ stack'[t][i+1].api = "kv_set_default")
    <3>1. CASE i = l
      BY <1>2, <3>1 DEF Nested
    <3>2. CASE i # l
      <4>0. i \in 1..l - 1 /\ i + 1 \in 2..l
        BY <1>2, <2>0, <3>2
      <4>1. stack'[t][i] = stack[t][i] /\ stack'[t][i+1].api = stack[t][i+1].api
        <5>1. CASE i + 1 = l
          BY <1>2, <4>0, <5>1 DEF Nested
        <5>2. CASE i + 1 # l
          BY <1>2, <4>0, <5>2 DEF Nested
        <5>3. QED
          BY <5>1, <5>2
      <4>2. QED
        BY <4>0, <4>1 DEF Nesting, NestOk
    <3>3. QED
      BY <3>1, <3>2
  <2>4. QED
    BY <2>1, <2>2, <2>3 DEF NestOk
<1>6. QED
  BY <1>3, <1>5 DEF Nesting

LEMMA BegunNests ==
    ASSUME TypeOK, Nesting, db'.type = db.type, NEW t \in Threads, NEW api, NEW pc, Begun(t, api, pc),
           \/ pc = "enter" /\ api # "init"
           \/ pc = "geometry" /\ api = "init"
    PROVE  Nesting'
<1>1. ASSUME NEW u \in Threads \ {t} PROVE NestOk(stack[u])'
  BY <1>1 DEF Begun, Nesting, NestOk, FrameOk
<1>2. NestOk(stack[t])'
  BY DEF Begun, NestOk, FrameOk, CallPcs, OpenPcs
<1>3. QED
  BY <1>1, <1>2 DEF Nesting

\* While the database is not open nothing goes on but Main's attempt to open it.
LEMMA WhoActs ==
    ASSUME IInv, NEW t \in Threads, ~Idle(t), ~db.init_ok, t # Main \/ NotBegun(stack[t])
    PROVE  /\ Len(stack[t]) = 1
           /\ \/ Top(t).pc = "enter" /\ Api[Top(t).api].refuses
              \/ t = Main /\ Top(t).pc \in {"geometry", "failed", "hung"}
<1>1. Len(stack[t]) \in Nat \ {0} /\ Top(t) = stack[t][Len(stack[t])]
  BY StackOfThread DEF IInv
<1>2. Refused(stack[t]) \/ (t = Main /\ NotBegun(stack[t]))
  BY DEF IInv, Opening
<1>3. stack[t] # <<>>
  BY DEF Idle
<1>4. QED
  BY <1>1, <1>2, <1>3 DEF Refused, NotBegun

LEMMA OthersKeepOpening ==
    ASSUME IInv, NEW t \in Threads, ~Idle(t), UNCHANGED db,
           \A u \in Threads \ {t} : stack'[u] = stack[u],
           Top(t).pc \notin {"enter", "geometry", "failed", "hung"}
    PROVE  Opening'
<1>1. db.init_ok \/ (t = Main /\ ~NotBegun(stack[Main]))
  BY WhoActs
<1>2. Geo /\ Geo'
  BY <1>1 DEF IInv, Opening, Geo
<1>3. ~db.init_ok => \A u \in Threads \ {Main} : stack'[u] = stack[u]
  BY <1>1
<1>4. QED
  BY <1>2, <1>3 DEF IInv, Opening, Refused

LEMMA OpeningOfThread ==
    ASSUME Opening, NEW t \in Threads, UNCHANGED db,
           \A u \in Threads \ {t} : stack'[u] = stack[u],
           \/ db.init_ok
           \/ Refused(stack'[t])
           \/ t = Main /\ NotBegun(stack'[t])
    PROVE  Opening'
<1>1. Geo => Geo'
  BY DEF Geo
<1>2. ~db'.init_ok => \A u \in Threads \ {Main} : Refused(stack'[u])
  BY DEF Opening
<1>3. db'.init_ok => db.init_ok /\ Geo
  BY DEF Opening
<1>4. ~db'.init_ok => NotBegun(stack'[Main]) \/ ~NotBegun(stack[Main])
  BY DbCallsAssumption DEF NotBegun
<1>5. QED
  BY <1>1, <1>2, <1>3, <1>4 DEF Opening, Refused, NotBegun

LEMMA CheckKeeps ==
    ASSUME IInv, NEW t \in Threads, Check(t)
    PROVE  IInv'
<1>0. TypeOK /\ Nesting /\ Opening /\ ~Idle(t) /\ Top(t).pc = "enter" /\ UNCHANGED <<db, holder, bad>>
  BY DEF IInv, Check, At
<1>1. Len(stack[t]) \in Nat \ {0} /\ Top(t) = stack[t][Len(stack[t])] /\ Top(t).api # "init"
  BY <1>0, StackOfThread DEF Nesting, NestOk, FrameOk, CallPcs
<1>2. CASE ~db.init_ok /\ Api[Top(t).api].refuses
  <2>1. Returned(t)
    BY <1>0, <1>2, ReturnReturns DEF Check
  <2>2. TypeOK'
    BY <1>0, <2>1 DEF TypeOK, Returned
  <2>3. Nesting'
    BY <1>0, <2>1, ReturnedNests
  <2>4. Opening'
    <3>1. CASE t # Main \/ NotBegun(stack[t])
      <4>1. Len(stack[t]) = 1
        BY <1>0, <1>2, <3>1, WhoActs
      <4>2. stack'[t] = <<>>
        BY <2>1, <4>1, EmptySeq DEF Returned
      <4>3. QED
        BY <1>0, <2>1, <4>2, OpeningOfThread DEF Returned, Refused, NotBegun
    <3>2. CASE t = Main /\ ~NotBegun(stack[t])
      BY <1>0, <2>1, <3>2 DEF Opening, Refused, Returned, Geo
    <3>3. QED
      BY <3>1, <3>2
  <2>5. QED
    BY <2>2, <2>3, <2>4 DEF IInv
<1>3. CASE ~(~db.init_ok /\ Api[Top(t).api].refuses)
  <2>0. PICK pc \in {"lock", "body"} : Goto(t, pc)
    BY <1>0, <1>3 DEF Check
  <2>1. Moved(t, pc)
    BY <1>0, <2>0, GotoMoves DEF CallPcs
  <2>2. TypeOK'
    BY <1>0, <2>1 DEF TypeOK, Moved
  <2>3. Nesting'
    BY <1>0, <1>1, <2>1, MovedNests DEF CallPcs, OpenPcs
  <2>4. Opening'
    <3>1. db.init_ok \/ (t = Main /\ ~NotBegun(stack[Main]))
      BY <1>0, <1>3, WhoActs
    <3>2. Geo /\ Geo'
      BY <1>0, <3>1 DEF Opening, Geo
    <3>3. QED
      BY <1>0, <2>1, <3>1, <3>2 DEF Opening, Refused, Moved
  <2>5. QED
    BY <2>2, <2>3, <2>4 DEF IInv
<1>4. QED
  BY <1>2, <1>3

\* The steps within a call.
LEMMA CallKeeps ==
    ASSUME IInv, NEW t \in Threads,
           TakeLock(t) \/ Body(t) \/ Unlock(t) \/ (\E api \in CallbackCalls : Callback(t, api))
    PROVE  IInv'
<1>0. TypeOK /\ Nesting /\ Opening /\ ~Idle(t) /\ UNCHANGED db
      /\ Top(t).pc \in {"lock", "relock", "body", "back", "unlock"}
  BY DEF IInv, TakeLock, Body, Unlock, Callback, At
<1>1. Len(stack[t]) \in Nat \ {0} /\ Top(t) = stack[t][Len(stack[t])] /\ FrameOk(Top(t))
      /\ Top(t) \in Frame
  BY <1>0, StackOfThread DEF Nesting, NestOk
<1>2. CASE TakeLock(t)
  <2>0. PICK pc \in {"update", "settings", "body"} :
             /\ Goto(t, pc)
             /\ pc = "update" => Top(t).pc = "relock"
             /\ pc = "settings" => Top(t).api = "init"
             /\ pc = "body" => Top(t).pc = "lock" /\ Top(t).api # "init"
    BY <1>0, <1>2 DEF TakeLock, At
  <2>1. Moved(t, pc)
    BY <1>0, <2>0, GotoMoves DEF CallPcs, OpenPcs
  <2>2. TypeOK'
    BY <1>0, <1>2, <2>1 DEF TypeOK, Moved, TakeLock
  <2>3. Nesting'
    BY <1>0, <1>1, <2>0, <2>1, MovedNests DEF CallPcs, OpenPcs, FrameOk
  <2>4. QED
    BY <1>0, <2>1, <2>2, <2>3, OthersKeepOpening DEF IInv, Moved
<1>3. CASE Body(t)
  <2>0. Top(t).api # "init"
    BY <1>0, <1>1, <1>3 DEF Body, At, FrameOk, CallPcs
  <2>1. Moved(t, "unlock") \/ Returned(t)
    BY <1>0, <1>3, GotoMoves, ReturnReturns DEF Body, CallPcs
  <2>2. TypeOK'
    BY <1>0, <1>3, <2>1 DEF TypeOK, Moved, Returned, Body
  <2>3. Nesting'
    BY <1>0, <1>1, <2>0, <2>1, MovedNests, ReturnedNests DEF CallPcs, OpenPcs
  <2>4. QED
    BY <1>0, <2>1, <2>2, <2>3, OthersKeepOpening DEF IInv, Moved, Returned
<1>4. CASE Unlock(t)
  <2>1. Returned(t)
    BY <1>0, <1>4, ReturnReturns DEF Unlock
  <2>2. TypeOK'
    BY <1>0, <1>4, <2>1 DEF TypeOK, Returned, Unlock
  <2>3. QED
    BY <1>0, <2>1, <2>2, ReturnedNests, OthersKeepOpening DEF IInv, Returned
<1>5. CASE \E api \in CallbackCalls : Callback(t, api)
  <2>0. PICK api \in CallbackCalls : Callback(t, api)
    BY <1>5
  <2>1. Top(t).api # "init" /\ Api[Top(t).api].calls /\ api \in DOMAIN Api
    BY <1>0, <1>1, <2>0, DbCallsAssumption DEF Callback, At, FrameOk, CallPcs
  <2>2. Nested(t, "back", api)
    <3>1. "back" \in OpenPcs \cup CallPcs
      BY DEF CallPcs
    <3>2. QED
      BY <1>0, <2>0, <2>1, <3>1, NestNests DEF Callback
  <2>3. TypeOK'
    BY <1>0, <2>0, <2>2 DEF TypeOK, Nested, Callback
  <2>4. Nesting'
    BY <1>0, <2>1, <2>2, NestedNests
  <2>5. QED
    BY <1>0, <2>2, <2>3, <2>4, OthersKeepOpening DEF IInv, Nested
<1>6. QED
  BY <1>2, <1>3, <1>4, <1>5

\* The steps of an attempt to open, from the lock to the end.
LEMMA OpenStepKeeps ==
    ASSUME IInv, NEW t \in Threads,
           TsdbCheck(t) \/ KvdbSettings(t) \/ KvdbLoad(t) \/ KvdbLoadFailed(t) \/ KvdbUpdate(t)
    PROVE  IInv'
<1>0. TypeOK /\ Nesting /\ Opening /\ ~Idle(t) /\ UNCHANGED db
      /\ Top(t).pc \in {"settings", "load", "relock_failed", "update"}
  BY DEF IInv, TsdbCheck, KvdbSettings, KvdbLoad, KvdbLoadFailed, KvdbUpdate, At
<1>1. FrameOk(Top(t)) /\ Top(t).api = "init"
  BY <1>0, StackOfThread DEF Nesting, NestOk, FrameOk, OpenPcs
<1>2. TypeOK /\ holder' \in Threads \cup {NoThread} /\ bad' \in {"none", "some", "all"}
  BY <1>0 DEF TypeOK, TsdbCheck, KvdbSettings, KvdbLoad, KvdbLoadFailed, KvdbUpdate
<1>3. CASE \E pc \in {"failed", "done", "relock", "relock_failed"} : Goto(t, pc)
  <2>0. PICK pc \in {"failed", "done", "relock", "relock_failed"} : Goto(t, pc)
    BY <1>3
  <2>1. Moved(t, pc)
    BY <1>0, <2>0, GotoMoves DEF OpenPcs
  <2>2. TypeOK'
    BY <1>0, <1>2, <2>1 DEF TypeOK, Moved
  <2>3. Nesting'
    BY <1>0, <1>1, <2>0, <2>1, MovedNests DEF CallPcs, OpenPcs
  <2>4. QED
    BY <1>0, <2>1, <2>2, <2>3, OthersKeepOpening DEF IInv, Moved
<1>4. CASE Goto(t, "load") /\ db.type = KV
  <2>1. Moved(t, "load")
    BY <1>0, <1>4, GotoMoves DEF OpenPcs
  <2>2. TypeOK'
    BY <1>0, <1>2, <2>1 DEF TypeOK, Moved
  <2>3. Nesting'
    BY <1>0, <1>1, <1>4, <2>1, MovedNests DEF CallPcs, OpenPcs
  <2>4. QED
    BY <1>0, <2>1, <2>2, <2>3, OthersKeepOpening DEF IInv, Moved
<1>5. CASE stack' = [stack EXCEPT ![t] = Append(Append(Front(@), [Top(t) EXCEPT !.pc = "relock"]),
                               [api |-> "kv_set_default", path |-> NoPart, pc |-> "enter"])]
  <2>1. Nested(t, "relock", "kv_set_default")
    <3>1. "relock" \in OpenPcs \cup CallPcs /\ "kv_set_default" \in DOMAIN Api
      BY DEF OpenPcs, Api
    <3>2. QED
      BY <1>0, <1>5, <3>1, NestNests
  <2>2. TypeOK'
    BY <1>0, <1>2, <2>1 DEF TypeOK, Nested
  <2>3. Nesting'
    <3>1. "kv_set_default" \in DOMAIN Api
      BY DEF Api
    <3>2. QED
      BY <1>0, <1>1, <2>1, <3>1, NestedNests
  <2>4. QED
    BY <1>0, <2>1, <2>2, <2>3, OthersKeepOpening DEF IInv, Nested
<1>6. QED
  BY <1>3, <1>4, <1>5 DEF TsdbCheck, KvdbSettings, KvdbLoad, KvdbLoadFailed, KvdbUpdate

LEMMA BeginKeeps ==
    ASSUME IInv, NEW t \in Threads, \A c \in Early : Api[c].refuses,
           (\E api \in Calls : CallApi(t, api)) \/ (\E p \in Parts \cup {NoPart} : Open(t, p))
    PROVE  IInv'
<1>1. CASE \E api \in Calls : CallApi(t, api)
  <2>0. PICK api \in Calls : CallApi(t, api)
    BY <1>1
  <2>1. api \in DOMAIN Api /\ api # "init" /\ Idle(t) /\ UNCHANGED <<db, holder, bad>>
    BY <2>0, DbCallsAssumption DEF CallApi, Api
  <2>2. Begun(t, api, "enter")
    BY <2>0, <2>1, EnterBegins DEF CallApi, IInv
  <2>3. TypeOK' /\ Nesting'
    BY <2>1, <2>2, BegunNests DEF IInv, TypeOK, Begun
  <2>4. db.init_ok \/ Refused(stack'[t])
    BY <2>0, <2>2 DEF CallApi, Begun, Refused
  <2>5. QED
    BY <2>1, <2>2, <2>3, <2>4, OpeningOfThread DEF IInv, Begun
<1>2. CASE \E p \in Parts \cup {NoPart} : Open(t, p)
  <2>0. PICK p \in Parts \cup {NoPart} : Open(t, p)
    BY <1>2
  <2>1. Begun(t, "init", "geometry") /\ UNCHANGED <<db, holder, bad>>
    BY <2>0, OpenBegins DEF IInv, Open
  <2>2. TypeOK' /\ Nesting'
    BY <2>1, BegunNests DEF IInv, TypeOK, Begun
  <2>3. db.init_ok \/ (t = Main /\ NotBegun(stack'[t]))
    BY <2>0, <2>1 DEF Open, Begun, NotBegun
  <2>4. QED
    BY <2>1, <2>2, <2>3, OpeningOfThread DEF IInv, Begun
<1>3. QED
  BY <1>1, <1>2

\* What a length that is a multiple of the sector size, and at least two sectors,
\* amounts to in sectors.
LEMMA TwoSectors ==
    ASSUME NEW len \in Nat, NEW sec \in Nat \ {0}, len % sec = 0, ~(len < 2 * sec)
    PROVE  len \div sec >= 2
<1> DEFINE q == len \div sec
<1>1. q \in Nat /\ len = sec * q
  OBVIOUS
<1> HIDE DEF q
<1>2. q # 0 /\ q # 1
  BY <1>1
<1>3. QED
  BY <1>1, <1>2 DEF q

LEMMA GeometryKeeps ==
    ASSUME IInv, NEW t \in Threads, Geometry(t)
    PROVE  IInv'
<1> DEFINE p   == Top(t).path
           sec == IF db.sec_size = 0 THEN Blk[p] ELSE db.sec_size
<1>0. TypeOK /\ Nesting /\ Opening /\ ~Idle(t) /\ Top(t).pc = "geometry" /\ UNCHANGED <<holder, bad>>
  BY DEF IInv, Geometry, At
<1>1. FrameOk(Top(t)) /\ Top(t).api = "init" /\ Len(stack[t]) = 1 /\ p \in Parts \cup {NoPart}
  <2>1. Len(stack[t]) \in Nat \ {0} /\ Top(t) = stack[t][Len(stack[t])] /\ Top(t) \in Frame
    BY <1>0, StackOfThread
  <2>2. FrameOk(Top(t)) /\ Top(t).api = "init"
    BY <1>0, <2>1 DEF Nesting, NestOk, FrameOk, OpenPcs
  <2>3. ASSUME Len(stack[t]) # 1 PROVE FALSE
    <3>1. Len(stack[t]) \in Nat \ {0}
      BY <2>1
    <3>2. \A n \in Nat \ {0} : n # 1 => n \in 2..n
      OBVIOUS
    <3>3. Len(stack[t]) \in 2..Len(stack[t])
      BY <2>3, <3>1, <3>2
    <3>4. QED
      BY <1>0, <2>1, <2>2, <3>3 DEF Nesting, NestOk
  <2>4. Len(stack[t]) = 1
    BY <2>3
  <2>5. p \in Parts \cup {NoPart}
    BY <2>1 DEF Frame
  <2>6. QED
    BY <2>2, <2>4, <2>5
<1>2. PICK pc \in {"lock", "failed", "hung"} :
           /\ Goto(t, pc)
           /\ pc = "lock" /\ ~db.init_ok => /\ PowerOfTwo(sec) /\ PartLen[p] % sec = 0
                                          /\ ~(PartLen[p] < 2 * sec)
  BY <1>0 DEF Geometry
<1>3. Moved(t, pc) /\ stack'[t][1].pc = pc /\ Len(stack'[t]) = 1
  BY <1>0, <1>1, <1>2, GotoMoves DEF OpenPcs, Moved
<1>4. CASE db.init_ok
  <2>1. UNCHANGED db
    BY <1>0, <1>4 DEF Geometry
  <2>2. TypeOK' /\ Nesting'
    BY <1>0, <1>1, <1>3, <2>1, MovedNests DEF TypeOK, Moved, CallPcs, OpenPcs
  <2>3. QED
    BY <1>0, <1>3, <1>4, <2>1, <2>2, OpeningOfThread DEF IInv, Moved
<1>5. CASE ~db.init_ok
  <2>1. t = Main
    BY <1>0, <1>5, WhoActs
  <2>2. CASE p = NoPart \/ (p # NoPart /\ ~Aligned(sec, p))
    <3>1. Goto(t, "failed") /\ db' = [db EXCEPT !.part = p]
      BY <1>0, <1>5, <2>2 DEF Geometry
    <3>2. Moved(t, "failed") /\ stack'[t][1].pc = "failed" /\ Len(stack'[t]) = 1
      BY <1>0, <1>1, <3>1, GotoMoves DEF OpenPcs, Moved
    <3>3. db'.init_ok = db.init_ok /\ db'.type = db.type
      BY <1>0, <3>1 DEF TypeOK
    <3>4. TypeOK'
      BY <1>0, <1>1, <3>1, <3>2 DEF TypeOK, Moved
    <3>5. Nesting'
      BY <1>0, <1>1, <3>2, <3>3, MovedNests DEF CallPcs, OpenPcs
    <3>6. Opening'
      BY <1>0, <1>5, <2>1, <3>2, <3>3 DEF Opening, Refused, NotBegun, Moved
    <3>7. QED
      BY <3>4, <3>5, <3>6 DEF IInv
  <2>3. CASE p # NoPart /\ Aligned(sec, p)
    <3>1. db' = [db EXCEPT !.part = p, !.sec_size = sec, !.max_size = PartLen[p]]
      BY <1>0, <1>5, <2>3 DEF Geometry
    <3>2. p \in Parts /\ sec \in Nat \ {0} /\ PartLen[p] \in Nat /\ Blk[p] \in Nat \ {0}
      BY <1>0, <1>1, <2>3, DbCallsAssumption DEF TypeOK
    <3>3. /\ db'.init_ok = FALSE /\ db'.type = db.type /\ db'.part = p
          /\ db'.sec_size = sec /\ db'.max_size = PartLen[p]
      BY <1>0, <1>5, <3>1 DEF TypeOK
    <3>4. TypeOK'
      <4>1. db' \in [type : Types, not_formatable : BOOLEAN, init_ok : BOOLEAN, sec_size : Nat,
                     max_size : Nat, part : Parts \cup {NoPart}]
        BY <1>0, <3>1, <3>2 DEF TypeOK
      <4>2. QED
        BY <1>0, <1>3, <4>1 DEF TypeOK, Moved
    <3>5. Nesting'
      BY <1>0, <1>1, <1>3, <3>3, MovedNests DEF CallPcs, OpenPcs
    <3>6. pc = "lock" => Geo'
      <4>1. SUFFICES ASSUME pc = "lock" PROVE Geo'
        OBVIOUS
      <4>2. PowerOfTwo(sec) /\ PartLen[p] % sec = 0 /\ ~(PartLen[p] < 2 * sec)
        BY <1>2, <1>5, <4>1
      <4>3. PartLen[p] \div sec >= 2
        BY <3>2, <4>2, TwoSectors
      <4>4. sec % Blk[p] = 0
        BY <2>3 DEF Aligned
      <4> HIDE DEF sec, p
      <4>5. QED
        BY <2>3, <3>3, <4>2, <4>3, <4>4 DEF Geo
    <3>7. pc # "lock" => NotBegun(stack'[Main])
      BY <1>2, <1>3, <2>1 DEF NotBegun
    <3>8. Opening'
      BY <1>0, <1>3, <1>5, <2>1, <3>3, <3>6, <3>7 DEF Opening, Refused, NotBegun, Moved
    <3>9. QED
      BY <3>4, <3>5, <3>8 DEF IInv
  <2>4. QED
    BY <2>2, <2>3
<1>6. QED
  BY <1>0, <1>4, <1>5 DEF TypeOK

LEMMA FinishKeeps ==
    ASSUME IInv, NEW t \in Threads, Finish(t)
    PROVE  IInv'
<1>0. TypeOK /\ Nesting /\ Opening /\ ~Idle(t) /\ Top(t).pc \in {"done", "failed"}
      /\ UNCHANGED <<holder, bad>>
  BY DEF IInv, Finish, At
<1>1. Returned(t)
  BY <1>0, ReturnReturns DEF Finish
<1>2. db' = [db EXCEPT !.init_ok = db.init_ok \/ Top(t).pc = "done"]
  BY DEF Finish
<1>3. /\ db'.type = db.type /\ db'.sec_size = db.sec_size /\ db'.max_size = db.max_size
      /\ db'.part = db.part /\ db'.init_ok = (db.init_ok \/ Top(t).pc = "done")
  BY <1>0, <1>2 DEF TypeOK
<1>4. TypeOK'
  <2>1. db' \in [type : Types, not_formatable : BOOLEAN, init_ok : BOOLEAN, sec_size : Nat,
                 max_size : Nat, part : Parts \cup {NoPart}]
    BY <1>0, <1>2 DEF TypeOK
  <2>2. QED
    BY <1>0, <1>1, <2>1 DEF TypeOK, Returned
<1>5. Nesting'
  BY <1>0, <1>1, <1>3, ReturnedNests
<1>6. Geo' <=> Geo
  BY <1>3 DEF Geo
<1>7. db.init_ok \/ (t = Main /\ (NotBegun(stack[Main]) => Len(stack[t]) = 1 /\ Top(t).pc = "failed"))
  BY <1>0, WhoActs
<1>8. CASE db.init_ok
  BY <1>0, <1>3, <1>4, <1>5, <1>6, <1>8 DEF IInv, Opening
<1>9. CASE ~db.init_ok /\ NotBegun(stack[Main])
  <2>1. t = Main /\ Len(stack[t]) = 1 /\ Top(t).pc = "failed"
    BY <1>7, <1>9
  <2>2. ~db'.init_ok
    BY <1>3, <1>9, <2>1
  <2>3. stack'[t] = <<>>
    BY <1>1, <2>1, EmptySeq DEF Returned
  <2>4. Opening'
    BY <1>0, <1>1, <1>9, <2>1, <2>2, <2>3 DEF Opening, Refused, NotBegun, Returned
  <2>5. QED
    BY <1>4, <1>5, <2>4 DEF IInv
<1>10. CASE ~db.init_ok /\ ~NotBegun(stack[Main])
  <2>1. Geo'
    BY <1>0, <1>6, <1>10 DEF Opening
  <2>2. Opening'
    BY <1>0, <1>1, <1>7, <1>10, <2>1 DEF Opening, Refused, Returned
  <2>3. QED
    BY <1>4, <1>5, <2>2 DEF IInv
<1>11. QED
  BY <1>8, <1>9, <1>10

\* Closing and the options: nobody has a frame.
LEMMA SettingKeeps ==
    ASSUME IInv, Close \/ (\E n \in SecSizes : SetSecSize(n)) \/ (\E b \in BOOLEAN : SetNotFormat(b))
    PROVE  IInv'
<1>1. UNCHANGED <<holder, stack, bad>> /\ (\A t \in Threads : stack[t] = <<>>)
  BY DEF Close, SetSecSize, SetNotFormat, Quiet, Idle
<1>2. db' \in [type : Types, not_formatable : BOOLEAN, init_ok : BOOLEAN, sec_size : Nat,
               max_size : Nat, part : Parts \cup {NoPart}]
      /\ db'.init_ok = FALSE /\ db'.type = db.type
  <2>1. CASE Close
    BY <2>1 DEF IInv, TypeOK, Close
  <2>2. CASE \E n \in SecSizes : SetSecSize(n)
    BY <2>2, DbCallsAssumption DEF IInv, TypeOK, SetSecSize
  <2>3. CASE \E b \in BOOLEAN : SetNotFormat(b)
    BY <2>3 DEF IInv, TypeOK, SetNotFormat
  <2>4. QED
    BY <2>1, <2>2, <2>3
<1>3. TypeOK' /\ Nesting'
  BY <1>1, <1>2 DEF IInv, TypeOK, Nesting, NestOk, FrameOk
<1>4. Opening'
  BY <1>1, <1>2, DbCallsAssumption DEF Opening, Refused, NotBegun
<1>5. QED
  BY <1>3, <1>4 DEF IInv

LEMMA StepKeeps ==
    ASSUME \A c \in Early : Api[c].refuses
    PROVE  IInv /\ [Next]_vars => IInv'
<1> SUFFICES ASSUME IInv, [Next]_vars PROVE IInv'
  OBVIOUS
<1>1. ASSUME NEW t \in Threads, Step(t) PROVE IInv'
  BY <1>1, CheckKeeps, CallKeeps, OpenStepKeeps, GeometryKeeps, FinishKeeps DEF Step, OpenStep
<1>2. ASSUME NEW t \in Threads,
             \/ \E api \in Calls : CallApi(t, api)
             \/ \E p \in Parts \cup {NoPart} : Open(t, p)
      PROVE  IInv'
  BY <1>2, BeginKeeps
<1>3. ASSUME NEW t \in Threads, \E api \in CallbackCalls : Callback(t, api) PROVE IInv'
  BY <1>3, CallKeeps
<1>4. CASE Close \/ (\E n \in SecSizes : SetSecSize(n)) \/ (\E b \in BOOLEAN : SetNotFormat(b))
  BY <1>4, SettingKeeps
<1>5. CASE UNCHANGED vars
  BY <1>5 DEF vars, IInv, TypeOK, Nesting, NestOk, FrameOk, Opening, Refused, NotBegun, Geo
<1>6. QED
  BY <1>1, <1>2, <1>3, <1>4, <1>5 DEF Next

\* The invariant of the calls, for an application that makes no call before the
\* database is open but those that check init_ok (the others are used on a sector
\* size of zero, as the functions that print a warning and go on are).
THEOREM CallsInductive ==
    ASSUME \A c \in Early : Api[c].refuses
    PROVE  Spec => []IInv
  BY InitInvariant, StepKeeps, PTL DEF Spec

\* An open database, and one that any thread works on, has a geometry: whatever
\* partitions and sector sizes were tried before, and whoever calls meanwhile.
THEOREM OpenHasGeometry ==
    ASSUME \A c \in Early : Api[c].refuses
    PROVE  Spec => []GeometryOk
<1>1. IInv => GeometryOk
  <2> SUFFICES ASSUME IInv, ~db.init_ok, NEW t \in Threads, Working(t)
               PROVE  Geo
    BY DEF GeometryOk, Geo, IInv, Opening
  <2>1. PICK f \in Range(stack[t]) : f.pc \in {"body", "back", "settings", "load", "update"}
    BY DEF Working
  <2>2. PICK i \in 1..Len(stack[t]) : stack[t][i] = f
    BY <2>1, LenProperties DEF Range, IInv, TypeOK
  <2>3. ~Refused(stack[t]) /\ ~NotBegun(stack[t])
    BY <2>1, <2>2 DEF Refused, NotBegun
  <2>4. QED
    BY <2>3 DEF IInv, Opening
<1>2. QED
  BY <1>1, CallsInductive, PTL

\* In "NOT format mode" no step formats but a call that is made to.
THEOREM OpenNeverFormats ==
    ASSUME \A c \in Early : Api[c].refuses
    PROVE  Spec => NotFormatKept
<1>1. ASSUME IInv, [Next]_vars, db.not_formatable, bad' # bad
      PROVE  \E t \in Threads : At(t, "body") /\ Top(t).api \in {"kv_set_default", "tsl_clean"}
  <2>1. PICK t \in Threads : Body(t) \/ TsdbCheck(t) \/ KvdbLoad(t)
    BY <1>1 DEF Next, vars, Step, OpenStep, Check, TakeLock, Unlock, Geometry, KvdbSettings,
       KvdbLoadFailed, KvdbUpdate, Finish, CallApi, Callback, Open, Close, SetSecSize, SetNotFormat
  <2>2. Body(t)
    BY <1>1, <2>1 DEF TsdbCheck, KvdbLoad
  <2>3. Top(t).api \in {"kv_set_default", "tsl_clean"} /\ ~Idle(t)
    BY <1>1, <2>2 DEF Body, At
  <2>4. FrameOk(Top(t))
    BY <1>1, <2>3, StackOfThread DEF IInv, Nesting, NestOk
  <2>5. ~Api[Top(t).api].calls
    BY <2>3, ApiFacts
  <2>6. QED
    BY <2>2, <2>3, <2>4, <2>5 DEF Body, At, FrameOk
<1>2. IInv /\ [Next]_vars => [db.not_formatable /\ bad' # bad =>
          \E t \in Threads : At(t, "body") /\ Top(t).api \in {"kv_set_default", "tsl_clean"}]_vars
  BY <1>1
<1>3. QED
  BY <1>2, CallsInductive, PTL DEF Spec, NotFormatKept

-----------------------------------------------------------------------------
(* Who works on the flash.                                                 *)

XInv == LockHeld /\ OnlyMainOpens /\ FirstCall

\* What any step of a thread that has a frame does to the frames that stay.
Frames(t) ==
    /\ \A u \in Threads \ {t} : stack'[u] = stack[u]
    /\ Len(stack'[t]) \in 0..Len(stack[t]) + 1
    /\ \A i \in 1..Len(stack'[t]) : IF i <= Len(stack[t]) THEN stack'[t][i].api = stack[t][i].api
                                    ELSE stack'[t][i].api # "init" /\ stack'[t][i].pc = "enter"
    /\ \A i \in 1..Len(stack'[t]) : i < Len(stack[t]) => stack'[t][i] = stack[t][i]

LEMMA MovedFrames ==
    ASSUME TypeOK, NEW t \in Threads, ~Idle(t), NEW pc, Moved(t, pc)
    PROVE  Frames(t)
<1>1. Len(stack[t]) \in Nat \ {0} /\ Top(t) = stack[t][Len(stack[t])]
  BY StackOfThread
<1>2. ASSUME NEW i \in 1..Len(stack[t]) PROVE stack'[t][i].api = stack[t][i].api
  <2>1. CASE i = Len(stack[t])
    BY <1>1, <2>1 DEF Moved
  <2>2. CASE i # Len(stack[t])
    BY <1>1, <2>2 DEF Moved
  <2>3. QED
    BY <2>1, <2>2
<1>3. QED
  BY <1>1, <1>2 DEF Moved, Frames

LEMMA ReturnedFrames ==
    ASSUME TypeOK, NEW t \in Threads, ~Idle(t), Returned(t)
    PROVE  Frames(t)
<1> DEFINE n == Len(stack[t])
<1>1. n \in Nat \ {0}
  BY StackOfThread
<1>2. /\ \A u \in Threads \ {t} : stack'[u] = stack[u]
      /\ Len(stack'[t]) = n - 1
      /\ \A i \in 1..(n - 1) : stack'[t][i] = stack[t][i]
  BY DEF Returned
<1> HIDE DEF n
<1>3. Len(stack'[t]) \in 0..(n + 1)
  BY <1>1, <1>2
<1>4. \A i \in 1..Len(stack'[t]) : i <= n /\ stack'[t][i] = stack[t][i]
  BY <1>1, <1>2
<1>5. QED
  BY <1>2, <1>3, <1>4 DEF Frames, n

LEMMA NestedFrames ==
    ASSUME TypeOK, NEW t \in Threads, ~Idle(t), NEW pc, NEW api \in DOMAIN Api, Nested(t, pc, api)
    PROVE  Frames(t)
<1>1. Len(stack[t]) \in Nat \ {0} /\ Top(t) = stack[t][Len(stack[t])] /\ api # "init"
  BY StackOfThread, ApiFacts
<1>2. ASSUME NEW i \in 1..Len(stack[t]) PROVE stack'[t][i].api = stack[t][i].api
  <2>1. CASE i = Len(stack[t])
    BY <1>1, <2>1 DEF Nested
  <2>2. CASE i # Len(stack[t])
    BY <1>1, <2>2 DEF Nested
  <2>3. QED
    BY <2>1, <2>2
<1>3. \A i \in 1..Len(stack[t]) + 1 : ~(i <= Len(stack[t])) => i = Len(stack[t]) + 1
  BY <1>1
<1>4. QED
  BY <1>1, <1>2, <1>3 DEF Nested, Frames

\* The steps of a thread with a frame; what they do to the lock follows.
Acts(t) == Step(t) \/ \E api \in CallbackCalls : Callback(t, api)

LEMMA ActsFrames ==
    ASSUME IInv, NEW t \in Threads, Acts(t)
    PROVE  Frames(t) /\ ~Idle(t)
<1>0. TypeOK /\ ~Idle(t) /\ Top(t) \in Frame
  BY StackOfThread DEF IInv, Acts, Step, OpenStep, Check, TakeLock, Body, Unlock, Callback, Geometry, TsdbCheck,
     KvdbSettings, KvdbLoad, KvdbLoadFailed, KvdbUpdate, Finish, At
<1>1. CASE \E pc \in CallPcs \cup OpenPcs \cup {"lock"} : Goto(t, pc)
  BY <1>0, <1>1, GotoMoves, MovedFrames
<1>2. CASE Return(t)
  BY <1>0, <1>2, ReturnReturns, ReturnedFrames
<1>3. CASE \E pc \in OpenPcs \cup CallPcs, api \in DOMAIN Api :
             stack' = [stack EXCEPT ![t] = Append(Append(Front(@), [Top(t) EXCEPT !.pc = pc]),
                                              [api |-> api, path |-> NoPart, pc |-> "enter"])]
  BY <1>0, <1>3, NestNests, NestedFrames
<1>4. QED
  <2>1. CASE Check(t) \/ TakeLock(t) \/ Body(t) \/ Unlock(t)
    BY <1>1, <1>2, <2>1 DEF Check, TakeLock, Body, Unlock, CallPcs, OpenPcs
  <2>2. CASE Geometry(t) \/ TsdbCheck(t) \/ KvdbSettings(t) \/ KvdbLoadFailed(t) \/ KvdbUpdate(t) \/ Finish(t)
    BY <1>1, <1>2, <2>2 DEF Geometry, TsdbCheck, KvdbSettings, KvdbLoadFailed, KvdbUpdate, Finish,
       CallPcs, OpenPcs
  <2>3. CASE KvdbLoad(t)
    <3>1. "kv_set_default" \in DOMAIN Api
      BY ApiFacts
    <3>2. QED
      BY <1>1, <1>3, <2>3, <3>1 DEF KvdbLoad, OpenPcs
  <2>4. CASE \E api \in CallbackCalls : Callback(t, api)
    BY <1>3, <2>4, DbCallsAssumption DEF Callback, CallPcs
  <2>5. QED
    BY <2>1, <2>2, <2>3, <2>4 DEF Acts, Step, OpenStep

\* A frame that was not under the lock does not come under it when the holder stays.
LEMMA HolderStays ==
    ASSUME IInv, LockHeld, holder' = holder, NEW t \in Threads, Frames(t),
           \A i \in 1..Len(stack'[t]) : HasLock(stack'[t][i]) =>
               i \in 1..Len(stack[t]) /\ HasLock(stack[t][i])
    PROVE  LockHeld'
  BY DEF LockHeld, Frames

\* When the lock is given back no frame is under it any more.
LEMMA HolderLeaves ==
    ASSUME IInv, LockHeld, NEW t \in Threads, ~Idle(t), HasLock(Top(t)), Frames(t),
           Len(stack'[t]) = Len(stack[t]) => ~HasLock(stack'[t][Len(stack[t])]),
           Len(stack'[t]) <= Len(stack[t])
    PROVE  LockHeld'
<1>1. Len(stack[t]) \in Nat \ {0} /\ Top(t) = stack[t][Len(stack[t])]
  BY StackOfThread DEF IInv
<1>2. holder = t /\ \A j \in 1..Len(stack[t]) - 1 : ~HasLock(stack[t][j])
  BY <1>1 DEF LockHeld
<1>3. ASSUME NEW i \in 1..Len(stack'[t]) PROVE ~HasLock(stack'[t][i])
  <2>1. CASE i < Len(stack[t])
    BY <1>1, <1>2, <2>1 DEF Frames
  <2>2. CASE ~(i < Len(stack[t]))
    <3>1. i = Len(stack[t]) /\ Len(stack'[t]) = Len(stack[t])
      BY <1>1, <2>2 DEF Frames
    <3>2. QED
      BY <3>1
  <2>3. QED
    BY <2>1, <2>2
<1>4. \A u \in Threads \ {t} : \A i \in 1..Len(stack[u]) : ~HasLock(stack[u][i])
  BY <1>2 DEF LockHeld
<1>5. QED
  BY <1>3, <1>4 DEF LockHeld, Frames

\* When it is free and taken, the frame that takes it is the only one.
LEMMA HolderComes ==
    ASSUME IInv, LockHeld, holder = NoThread, NEW t \in Threads, holder' = t, Frames(t),
           Len(stack'[t]) = Len(stack[t])
    PROVE  LockHeld'
<1>1. \A u \in Threads : \A i \in 1..Len(stack[u]) : ~HasLock(stack[u][i])
  BY DbCallsAssumption DEF LockHeld
<1>2. \A i \in 1..Len(stack'[t]) : HasLock(stack'[t][i]) => i = Len(stack[t])
  <2>1. Len(stack[t]) \in Nat
    BY StackOfThread DEF IInv
  <2>2. QED
    BY <1>1, <2>1 DEF Frames
<1>3. QED
  BY <1>1, <1>2 DEF LockHeld, Frames

\* The top frame goes to pc, or leaves, and the lock stays where it is.
LEMMA GotoKeepsLock ==
    ASSUME IInv, LockHeld, holder' = holder, NEW t \in Threads, ~Idle(t),
           NEW pc \in CallPcs \cup OpenPcs \cup {"lock"}, Goto(t, pc),
           HasLock([Top(t) EXCEPT !.pc = pc]) => HasLock(Top(t))
    PROVE  LockHeld'
<1>1. TypeOK /\ Len(stack[t]) \in Nat \ {0} /\ Top(t) = stack[t][Len(stack[t])] /\ Top(t) \in Frame
  BY StackOfThread DEF IInv
<1>2. Moved(t, pc) /\ Frames(t)
  BY <1>1, GotoMoves, MovedFrames
<1>3. HasLock(stack'[t][Len(stack[t])]) => HasLock(Top(t))
  BY <1>1, <1>2 DEF Moved, HasLock, Frame
<1>4. ASSUME NEW i \in 1..Len(stack'[t]), HasLock(stack'[t][i])
      PROVE  i \in 1..Len(stack[t]) /\ HasLock(stack[t][i])
  <2>1. CASE i = Len(stack[t])
    BY <1>1, <1>3, <1>4, <2>1
  <2>2. CASE i # Len(stack[t])
    BY <1>1, <1>2, <1>4, <2>2 DEF Moved
  <2>3. QED
    BY <2>1, <2>2
<1>5. QED
  BY <1>2, <1>4, HolderStays

LEMMA ReturnKeepsLock ==
    ASSUME IInv, LockHeld, holder' = holder, NEW t \in Threads, ~Idle(t), Return(t)
    PROVE  LockHeld'
<1>1. TypeOK /\ Len(stack[t]) \in Nat \ {0}
  BY StackOfThread DEF IInv
<1>2. Returned(t) /\ Frames(t)
  BY <1>1, ReturnReturns, ReturnedFrames
<1>3. QED
  BY <1>1, <1>2, HolderStays DEF Returned

LEMMA NestKeepsLock ==
    ASSUME IInv, LockHeld, holder' = holder, NEW t \in Threads, ~Idle(t),
           NEW pc \in OpenPcs \cup CallPcs, NEW api \in DOMAIN Api,
           stack' = [stack EXCEPT ![t] = Append(Append(Front(@), [Top(t) EXCEPT !.pc = pc]),
                                            [api |-> api, path |-> NoPart, pc |-> "enter"])],
           HasLock([Top(t) EXCEPT !.pc = pc]) => HasLock(Top(t))
    PROVE  LockHeld'
<1>1. TypeOK /\ Len(stack[t]) \in Nat \ {0} /\ Top(t) = stack[t][Len(stack[t])] /\ Top(t) \in Frame
  BY StackOfThread DEF IInv
<1>2. Nested(t, pc, api) /\ Frames(t)
  BY <1>1, NestNests, NestedFrames
<1>3. HasLock(stack'[t][Len(stack[t])]) => HasLock(Top(t))
  BY <1>1, <1>2 DEF Nested, HasLock, Frame
<1>4. ~HasLock(stack'[t][Len(stack[t]) + 1])
  BY <1>2 DEF Nested, HasLock
<1>5. ASSUME NEW i \in 1..Len(stack'[t]), HasLock(stack'[t][i])
      PROVE  i \in 1..Len(stack[t]) /\ HasLock(stack[t][i])
  <2>1. CASE i = Len(stack[t])
    BY <1>1, <1>3, <1>5, <2>1
  <2>2. CASE i = Len(stack[t]) + 1
    BY <1>4, <1>5, <2>2
  <2>3. CASE i \in 1..Len(stack[t]) - 1
    BY <1>1, <1>2, <1>5, <2>3 DEF Nested
  <2>4. i \in 1..Len(stack[t]) + 1
    BY <1>2, <1>5 DEF Nested
  <2>5. QED
    BY <1>1, <2>1, <2>2, <2>3, <2>4
<1>6. QED
  BY <1>2, <1>5, HolderStays

LEMMA LeaveGivesBack ==
    ASSUME IInv, LockHeld, NEW t \in Threads, ~Idle(t), HasLock(Top(t)),
           Return(t) \/ Goto(t, "load") \/ Goto(t, "done")
    PROVE  LockHeld'
<1>1. TypeOK /\ Len(stack[t]) \in Nat \ {0}
  BY StackOfThread DEF IInv
<1>2. CASE Return(t)
  <2>1. Returned(t) /\ Frames(t)
    BY <1>1, <1>2, ReturnReturns, ReturnedFrames
  <2>2. QED
    BY <1>1, <2>1, HolderLeaves DEF Returned
<1>3. CASE \E pc \in {"load", "done"} : Goto(t, pc)
  <2>1. PICK pc \in {"load", "done"} : Goto(t, pc)
    BY <1>3
  <2>2. Moved(t, pc) /\ Frames(t)
    BY <1>1, <2>1, GotoMoves, MovedFrames DEF OpenPcs
  <2>3. ~HasLock(stack'[t][Len(stack[t])])
    BY <2>2 DEF Moved, HasLock
  <2>4. QED
    BY <1>1, <2>2, <2>3, HolderLeaves DEF Moved
<1>4. QED
  BY <1>2, <1>3

LEMMA ActsKeepLock ==
    ASSUME IInv, LockHeld, NEW t \in Threads, Acts(t)
    PROVE  LockHeld'
<1>0. TypeOK /\ ~Idle(t) /\ FrameOk(Top(t)) /\ Top(t) \in Frame /\ Frames(t)
  BY ActsFrames, StackOfThread DEF IInv, Nesting, NestOk
<1>1. \A pc : [Top(t) EXCEPT !.pc = pc].pc = pc /\ [Top(t) EXCEPT !.pc = pc].api = Top(t).api
  BY <1>0 DEF Frame
<1>2. CASE Check(t)
  <2>1. CASE Return(t)
    BY <1>0, <1>2, <2>1, ReturnKeepsLock DEF Check
  <2>2. CASE ~Return(t)
    <3>1. PICK pc \in {"lock", "body"} : Goto(t, pc) /\ (pc = "body" => ~Api[Top(t).api].locks)
      BY <1>2, <2>2 DEF Check
    <3>2. ~HasLock([Top(t) EXCEPT !.pc = pc])
      BY <1>1, <3>1 DEF HasLock
    <3>3. QED
      BY <1>0, <1>2, <3>1, <3>2, GotoKeepsLock DEF Check, CallPcs
  <2>3. QED
    BY <2>1, <2>2
<1>3. CASE TakeLock(t)
  <2>1. PICK pc \in {"update", "settings", "body"} : Goto(t, pc)
    BY <1>3 DEF TakeLock
  <2>2. Len(stack'[t]) = Len(stack[t])
    BY <1>0, <2>1, GotoMoves DEF Moved, CallPcs, OpenPcs
  <2>3. QED
    BY <1>0, <1>3, <2>2, HolderComes DEF TakeLock
<1>4. CASE Body(t)
  <2>1. CASE Api[Top(t).api].locks
    <3>1. HasLock(Top(t)) /\ Goto(t, "unlock") /\ holder' = holder
      BY <1>4, <2>1 DEF Body, At, HasLock
    <3>2. QED
      BY <1>0, <3>1, GotoKeepsLock DEF CallPcs
  <2>2. CASE ~Api[Top(t).api].locks
    BY <1>0, <1>4, <2>2, ReturnKeepsLock DEF Body
  <2>3. QED
    BY <2>1, <2>2
<1>5. CASE Unlock(t) \/ KvdbSettings(t) \/ KvdbUpdate(t)
  <2>1. HasLock(Top(t))
    BY <1>5 DEF Unlock, KvdbSettings, KvdbUpdate, At, HasLock
  <2>2. QED
    BY <1>0, <1>5, <2>1, LeaveGivesBack DEF Unlock, KvdbSettings, KvdbUpdate
<1>6. CASE \E api \in CallbackCalls : Callback(t, api)
  <2>1. PICK api \in CallbackCalls : Callback(t, api)
    BY <1>6
  <2>2. HasLock([Top(t) EXCEPT !.pc = "back"]) => HasLock(Top(t))
    BY <1>1, <2>1 DEF Callback, At, HasLock
  <2>3. api \in DOMAIN Api /\ holder' = holder /\ "back" \in OpenPcs \cup CallPcs
    BY <2>1, DbCallsAssumption DEF Callback, CallPcs
  <2>4. QED
    BY <1>0, <2>1, <2>2, <2>3, NestKeepsLock DEF Callback
<1>7. CASE Geometry(t)
  <2>1. PICK pc \in {"lock", "failed", "hung"} : Goto(t, pc)
    BY <1>7 DEF Geometry
  <2>2. ~HasLock([Top(t) EXCEPT !.pc = pc])
    BY <1>1, <2>1 DEF HasLock
  <2>3. QED
    BY <1>0, <1>7, <2>1, <2>2, GotoKeepsLock DEF Geometry, OpenPcs
<1>8. CASE TsdbCheck(t)
  <2>1. CASE Goto(t, "failed") /\ holder' = holder
    <3>1. ~HasLock([Top(t) EXCEPT !.pc = "failed"])
      BY <1>1 DEF HasLock
    <3>2. QED
      BY <1>0, <2>1, <3>1, GotoKeepsLock DEF OpenPcs
  <2>2. CASE Goto(t, "done")
    BY <1>0, <1>8, <2>2, LeaveGivesBack DEF TsdbCheck, At, HasLock
  <2>3. QED
    BY <1>8, <2>1, <2>2 DEF TsdbCheck
<1>9. CASE KvdbLoad(t)
  <2>1. \A pc \in {"relock", "relock_failed"} : ~HasLock([Top(t) EXCEPT !.pc = pc])
    BY <1>1 DEF HasLock
  <2>2. CASE \E pc \in {"relock", "relock_failed"} : Goto(t, pc)
    BY <1>0, <1>9, <2>1, <2>2, GotoKeepsLock DEF KvdbLoad, OpenPcs
  <2>3. CASE ~\E pc \in {"relock", "relock_failed"} : Goto(t, pc)
    <3>1. "kv_set_default" \in DOMAIN Api /\ "relock" \in OpenPcs \cup CallPcs
      BY ApiFacts DEF OpenPcs
    <3>2. QED
      BY <1>0, <1>9, <2>1, <2>3, <3>1, NestKeepsLock DEF KvdbLoad
  <2>4. QED
    BY <2>2, <2>3
<1>10. CASE KvdbLoadFailed(t)
  <2>1. ~HasLock([Top(t) EXCEPT !.pc = "failed"])
    BY <1>1 DEF HasLock
  <2>2. QED
    BY <1>0, <1>10, <2>1, GotoKeepsLock DEF KvdbLoadFailed, OpenPcs
<1>11. CASE Finish(t)
  BY <1>0, <1>11, ReturnKeepsLock DEF Finish
<1>12. QED
  BY <1>2, <1>3, <1>4, <1>5, <1>6, <1>7, <1>8, <1>9, <1>10, <1>11 DEF Acts, Step, OpenStep

\* A KVDB that is open is not opened again: a frame of fdb_kvdb_init is Main's, and
\* the database it is about is not open yet.
LEMMA ActsKeepOpener ==
    ASSUME IInv, OnlyMainOpens, db.type = KV, NEW t \in Threads, Acts(t)
    PROVE  OnlyMainOpens'
<1>0. TypeOK /\ Frames(t) /\ ~Idle(t) /\ Len(stack[t]) \in Nat \ {0} /\ Top(t) = stack[t][Len(stack[t])]
      /\ NestOk(stack[t])
  BY ActsFrames, StackOfThread DEF IInv, Nesting
<1>1. ASSUME NEW u \in Threads, NEW i \in 1..Len(stack'[u]), stack'[u][i].api = "init"
      PROVE  u = Main /\ ~db.init_ok
  <2>1. i \in 1..Len(stack[u]) /\ stack[u][i].api = "init"
    BY <1>0, <1>1 DEF Frames
  <2>2. QED
    BY <2>1 DEF OnlyMainOpens
<1>2. CASE Finish(t)
  <2>1. Top(t).api = "init" /\ Returned(t)
    BY <1>0, <1>2, ReturnReturns DEF Finish, At, NestOk, FrameOk, OpenPcs
  <2>2. t = Main
    BY <1>0, <2>1 DEF OnlyMainOpens
  <2>3. Len(stack[t]) = 1
    <3>1. \A n \in Nat \ {0} : n # 1 => n \in 2..n
      OBVIOUS
    <3>2. ~(Len(stack[t]) \in 2..Len(stack[t]))
      BY <1>0, <2>1 DEF NestOk
    <3>3. QED
      BY <1>0, <3>1, <3>2
  <2>4. Len(stack'[t]) = 0
    BY <2>1, <2>3 DEF Returned
  <2>5. QED
    BY <1>1, <2>2, <2>4 DEF OnlyMainOpens
<1>3. CASE ~Finish(t)
  <2>1. db'.init_ok = db.init_ok
    <3>1. CASE Geometry(t)
      BY <1>0, <3>1 DEF Geometry, TypeOK
    <3>2. CASE ~Geometry(t)
      BY <1>3, <3>2 DEF Acts, Step, OpenStep, Check, TakeLock, Body, Unlock, Callback, TsdbCheck, KvdbSettings,
         KvdbLoad, KvdbLoadFailed, KvdbUpdate
    <3>3. QED
      BY <3>1, <3>2
  <2>2. QED
    BY <1>1, <2>1 DEF OnlyMainOpens
<1>4. QED
  BY <1>2, <1>3

LEMMA TypeIsFixed ==
    ASSUME IInv, Next
    PROVE  db'.type = db.type
  BY DEF IInv, TypeOK, Next, Step, OpenStep, Check, TakeLock, Body, Unlock, Callback, TsdbCheck, KvdbSettings,
     KvdbLoad, KvdbLoadFailed, KvdbUpdate, Finish, Geometry, CallApi, Open, Close, SetSecSize, SetNotFormat

LEMMA StepKeepsX ==
    ASSUME KV \notin Again
    PROVE  IInv /\ IInv' /\ XInv /\ [Next]_vars => XInv'
<1> SUFFICES ASSUME IInv, IInv', XInv, [Next]_vars PROVE XInv'
  OBVIOUS
<1>1. ASSUME NEW t \in Threads, Acts(t), Next PROVE XInv'
  <2>0. Frames(t) /\ ~Idle(t)
    BY <1>1, ActsFrames
  <2>1. LockHeld'
    BY <1>1, ActsKeepLock DEF XInv
  <2>2. FirstCall'
    <3>1. ASSUME stack'[t] # <<>> PROVE stack'[t][1].api \in Calls \cup {"init"}
      <4>1. Len(stack'[t]) \in Nat \ {0} /\ Len(stack[t]) \in Nat \ {0}
        BY <2>0, <3>1, EmptySeq, StackOfThread DEF IInv, TypeOK
      <4>2. stack'[t][1].api = stack[t][1].api
        BY <2>0, <4>1 DEF Frames
      <4>3. QED
        BY <2>0, <4>2 DEF XInv, FirstCall, Idle
    <3>2. QED
      BY <2>0, <3>1 DEF XInv, FirstCall, Frames
  <2>3. OnlyMainOpens'
    BY <1>1, ActsKeepOpener, TypeIsFixed DEF XInv, OnlyMainOpens
  <2>4. QED
    BY <2>1, <2>2, <2>3 DEF XInv
<1>2. ASSUME NEW t \in Threads, NEW api \in Calls, CallApi(t, api) PROVE XInv'
  <2>1. api \in DOMAIN Api /\ api # "init" /\ Idle(t) /\ UNCHANGED <<db, holder>>
    BY <1>2, DbCallsAssumption, ApiFacts DEF CallApi
  <2>2. Begun(t, api, "enter")
    BY <1>2, <2>1, EnterBegins DEF CallApi, IInv
  <2>3. LockHeld'
    BY <2>1, <2>2 DEF XInv, LockHeld, HasLock, Begun
  <2>4. OnlyMainOpens'
    <3>1. \A i \in 1..Len(stack'[t]) : stack'[t][i].api # "init"
      BY <2>1, <2>2 DEF Begun
    <3>2. \A u \in Threads \ {t} : stack'[u] = stack[u]
      BY <2>2 DEF Begun
    <3>3. db' = db
      BY <2>1
    <3>4. QED
      BY <3>1, <3>2, <3>3 DEF XInv, OnlyMainOpens
  <2>5. FirstCall'
    <3>1. stack'[t][1].api \in Calls
      BY <2>2 DEF Begun
    <3>2. QED
      BY <2>2, <3>1 DEF XInv, FirstCall, Begun
  <2>6. QED
    BY <2>3, <2>4, <2>5 DEF XInv
<1>3. ASSUME NEW t \in Threads, NEW p \in Parts \cup {NoPart}, Open(t, p) PROVE XInv'
  <2>1. Begun(t, "init", "geometry") /\ UNCHANGED <<db, holder>>
    BY <1>3, OpenBegins DEF Open, IInv
  <2>2. LockHeld'
    BY <2>1 DEF XInv, LockHeld, HasLock, Begun
  <2>3. db.type = KV => t = Main /\ ~db.init_ok
    BY <1>3 DEF Open
  <2>4. QED
    BY <2>1, <2>2, <2>3 DEF XInv, OnlyMainOpens, FirstCall, Begun
<1>4. CASE (Close \/ (\E n \in SecSizes : SetSecSize(n)) \/ (\E b \in BOOLEAN : SetNotFormat(b)))
  <2>1. \A t \in Threads : stack'[t] = <<>> /\ Len(stack'[t]) = 0
    BY <1>4, EmptySeq DEF Close, SetSecSize, SetNotFormat, Quiet, Idle
  <2>2. QED
    BY <2>1 DEF XInv, LockHeld, OnlyMainOpens, FirstCall
<1>5. CASE UNCHANGED vars
  BY <1>5 DEF vars, XInv, LockHeld, OnlyMainOpens, FirstCall
<1>6. QED
  BY <1>1, <1>2, <1>3, <1>4, <1>5 DEF Next, Acts

\* A thread that works on the flash has the lock, or is the one that opens the
\* database; a callback works under the lock of the iteration that calls it.
LEMMA WorkerIsSafe ==
    ASSUME IInv, XInv, \A c \in Calls : Api[c].locks, NEW t \in Threads, Working(t)
    PROVE  holder = t \/ (t = Main /\ ~db.init_ok)
<1>1. stack[t] \in Seq(Frame) /\ Len(stack[t]) \in Nat /\ NestOk(stack[t])
  BY StackOfThread DEF IInv, TypeOK, Nesting
<1>2. PICK i \in 1..Len(stack[t]) : stack[t][i].pc \in {"body", "back", "settings", "load", "update"}
  BY <1>1, LenProperties DEF Working, Range
<1>3. FrameOk(stack[t][i]) /\ stack[t][i] \in Frame
  BY <1>1, <1>2, ElementOfSeq DEF NestOk
<1>4. ASSUME NEW j \in 1..Len(stack[t]), HasLock(stack[t][j]) PROVE holder = t
  BY <1>4 DEF XInv, LockHeld
<1>5. CASE stack[t][i].pc \in {"settings", "update"}
  BY <1>2, <1>4, <1>5 DEF HasLock
<1>6. CASE stack[t][i].pc = "load"
  BY <1>2, <1>3, <1>6 DEF XInv, OnlyMainOpens, FrameOk, OpenPcs
<1>7. CASE stack[t][i].pc \in {"body", "back"} /\ Api[stack[t][i].api].locks
  BY <1>2, <1>4, <1>7 DEF HasLock
<1>8. CASE stack[t][i].pc \in {"body", "back"} /\ ~Api[stack[t][i].api].locks
  <2>1. stack[t][i].api # "init"
    BY <1>3, <1>8 DEF FrameOk, CallPcs
  <2>2. i # 1
    BY <1>1, <1>2, <1>8, <2>1, EmptySeq DEF XInv, FirstCall
  <2>3. i - 1 \in 1..Len(stack[t]) - 1 /\ i - 1 \in 1..Len(stack[t]) /\ (i - 1) + 1 = i
    BY <1>1, <1>2, <2>2
  <2>4. stack[t][i - 1].pc = "back"
    BY <1>1, <1>8, <2>3, ApiFacts DEF NestOk
  <2>5. FrameOk(stack[t][i - 1]) /\ stack[t][i - 1] \in Frame
    BY <1>1, <2>3, ElementOfSeq DEF NestOk
  <2>6. Api[stack[t][i - 1].api].locks
    BY <2>4, <2>5, ApiFacts DEF FrameOk, CallPcs, Frame
  <2>7. QED
    BY <1>4, <2>3, <2>4, <2>6 DEF HasLock
<1>9. QED
  BY <1>2, <1>5, <1>6, <1>7, <1>8

\* While one thread writes the flash of a database no other works on it: for calls
\* that take the lock themselves (kv_iterate and tsl_set_status do not; the callback
\* of an iteration may call either), and a KVDB that is not opened while it is open.
THEOREM WritersAreAlone ==
    ASSUME \A c \in Early : Api[c].refuses,
           \A c \in Calls : Api[c].locks,
           KV \notin Again
    PROVE  Spec => []Exclusive
<1>1. Init => XInv
  <2> SUFFICES ASSUME Init PROVE XInv
    OBVIOUS
  <2>1. \A t \in Threads : stack[t] = <<>> /\ Len(stack[t]) = 0
    BY DEF Init
  <2>2. QED
    BY <2>1 DEF XInv, LockHeld, OnlyMainOpens, FirstCall
<1>2. IInv /\ XInv => Exclusive
  <2> SUFFICES ASSUME IInv, XInv, NEW t \in Threads, NEW u \in Threads, t # u, Writing(t), Working(u)
               PROVE  FALSE
    BY DEF Exclusive
  <2>1. Working(t)
    BY DEF Writing, Working
  <2>2. ASSUME NEW v \in Threads, Working(v) PROVE ~Refused(stack[v])
    <3>1. PICK i \in 1..Len(stack[v]) : stack[v][i].pc # "enter"
      <4>1. PICK f \in Range(stack[v]) : f.pc \in {"body", "back", "settings", "load", "update"}
        BY <2>2 DEF Working
      <4>2. stack[v] \in Seq(Frame) /\ DOMAIN stack[v] = 1..Len(stack[v])
        BY LenProperties DEF IInv, TypeOK
      <4>3. QED
        BY <4>1, <4>2 DEF Range
    <3>2. QED
      BY <3>1 DEF Refused
  <2>3. db.init_ok
    BY <2>1, <2>2 DEF IInv, Opening
  <2>4. QED
    BY <2>1, <2>3, WorkerIsSafe
<1>3. QED
  BY <1>1, <1>2, CallsInductive, StepKeepsX, PTL DEF Spec

=============================================================================
