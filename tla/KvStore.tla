------------------------------ MODULE KvStore ------------------------------
(***************************************************************************)
(* What the key-value database promises its caller: a map from keys to     *)
(* values in which every set and delete takes effect at one instant        *)
(* between its call and its return, and which a power cut leaves exactly   *)
(* as it was.  Kvdb, the flash-level model, is checked to implement it.    *)
(***************************************************************************)
CONSTANTS Keys, Values, NoValue, NoOp

\* The requests: fdb_kv_set_blob, fdb_kv_del and fdb_kv_set_default.
Ops == [kind : {"set"}, key : Keys, val : Values]
       \cup [kind : {"del"}, key : Keys]
       \cup [kind : {"reset"}]

VARIABLES
    kv,       \* the stored value of every key, NoValue when it has none
    op,       \* the request being served, NoOp when there is none
    done,     \* the request has taken effect
    result    \* "ok", "full" or "missing": what the last request returned;
              \* "none" while one is being served

vars == <<kv, op, done, result>>

Init == /\ kv = [k \in Keys |-> NoValue]
        /\ op = NoOp
        /\ done = FALSE
        /\ result = "none"

Request == /\ op = NoOp
           /\ op' \in Ops
           /\ result' = "none"
           /\ UNCHANGED <<kv, done>>

\* The one instant at which a set or a delete changes the store.
Apply == /\ op # NoOp
         /\ ~done
         /\ done' = TRUE
         /\ \/ /\ op.kind = "set"
               /\ kv' = [kv EXCEPT ![op.key] = op.val]
            \/ /\ op.kind = "del"
               /\ kv[op.key] # NoValue
               /\ kv' = [kv EXCEPT ![op.key] = NoValue]
            \/ /\ op.kind = "reset"
               /\ kv' = [k \in Keys |-> NoValue]
         /\ UNCHANGED <<op, result>>

\* A reset erases the sectors one after the other: keys disappear one group at
\* a time, and a power cut may leave some of them.
ResetSome == /\ op # NoOp
             /\ op.kind = "reset"
             /\ kv' \in {f \in [Keys -> Values \cup {NoValue}] :
                            \A k \in Keys : f[k] \in {kv[k], NoValue}}
             /\ UNCHANGED <<op, done, result>>

\* "full" means that nothing was changed; "missing" that there was nothing to
\* delete.
Return == /\ op # NoOp
          /\ \/ done /\ result' = "ok"
             \/ ~done /\ op.kind = "set" /\ result' = "full"
             \/ ~done /\ op.kind = "del" /\ kv[op.key] = NoValue /\ result' = "missing"
          /\ op' = NoOp
          /\ done' = FALSE
          /\ UNCHANGED kv

\* Losing power, or closing the database, drops the request and keeps the map.
Off == /\ op' = NoOp
       /\ done' = FALSE
       /\ result' = "none"
       /\ UNCHANGED kv

Next == Request \/ Apply \/ ResetSome \/ Return \/ Off

Spec == Init /\ [][Next]_vars
=============================================================================
