-------------------------------- MODULE TsLog --------------------------------
(***************************************************************************)
(* What the time series database promises its callers: a set of logs with  *)
(* distinct times.  A log that is accepted is newer than all others; a     *)
(* database that rolls over may drop its oldest logs, and only those, to   *)
(* make room for it; a user status only rises; nothing else changes.       *)
(***************************************************************************)
EXTENDS Integers

CONSTANTS
    Logs,         \* payloads
    Times,        \* timestamps
    Statuses,     \* statuses of a stored log
    Cuts          \* power may fail

VARIABLES
    logs,         \* the stored logs, records [time, log, st]
    busy,         \* the call being served
    roll          \* the rollover option

vars == <<logs, busy, roll>>

Record == [time : Times, log : Logs, st : Statuses]
Newer(t) == {r \in logs : r.time > t}

Init == /\ logs = {}
        /\ busy = "no"
        /\ roll \in BOOLEAN

Begin == /\ busy = "no"
         /\ busy' \in {"append", "clean"}
         /\ UNCHANGED <<logs, roll>>

\* An append may end without effect, the log is refused; a power cut ends any
\* call.
End == /\ busy = "append" \/ (Cuts /\ busy = "clean")
       /\ busy' = "no"
       /\ UNCHANGED <<logs, roll>>

\* Room for the log being appended: only logs older than all that stay go.
Drop == /\ busy = "append"
        /\ roll
        /\ \E t \in Times : logs' = Newer(t)
        /\ UNCHANGED <<busy, roll>>

Append == /\ busy = "append"
          /\ \E r \in Record : /\ \A q \in logs : q.time < r.time
                               /\ logs' = logs \cup {r}
          /\ busy' = "no"
          /\ UNCHANGED roll

\* fdb_tsl_clean works sector by sector; when it is over nothing is left.
Clean == /\ busy = "clean"
         /\ logs' \in SUBSET logs
         /\ UNCHANGED <<busy, roll>>

CleanEnd == /\ busy = "clean"
            /\ logs' = {}
            /\ busy' = "no"
            /\ UNCHANGED roll

Mark == /\ \E r \in logs, s \in Statuses :
              /\ s > r.st
              /\ logs' = (logs \ {r}) \cup {[r EXCEPT !.st = s]}
        /\ UNCHANGED <<busy, roll>>

SetRollover == /\ roll' \in BOOLEAN
               /\ UNCHANGED <<logs, busy>>

Next == Begin \/ End \/ Drop \/ Append \/ Clean \/ CleanEnd \/ Mark \/ SetRollover

Spec == Init /\ [][Next]_vars
=============================================================================
