------------------------------- MODULE JobLife -------------------------------
(***************************************************************************)
(* What automation/mcp/jobs.py promises of a job to those who poll it: it  *)
(* runs once; what became of it is settled once, by its own wrapper; only  *)
(* a cancel, and only once the wrapper is out of the way, may write over   *)
(* that; and it never looks as if it had ended well after that.  A cancel  *)
(* that is killed may leave the job without a code or without a record.    *)
(***************************************************************************)
CONSTANT Ids

VARIABLES
    life,       \* life[j]: what has become of the job
    record      \* record[j]: what status, running_jobs and cancel know of it

vars == <<life, record>>

\* While it is "ending" the code is being written.  "vanished": it died without
\* one; "stopped": the code is a cancel's signal.  A code cut short is "failed".
Life == {"none", "running", "ending", "ok", "failed", "vanished", "stopped"}

Init == life = [j \in Ids |-> "none"] /\ record = [j \in Ids |-> "none"]

Becomes(j, from, to) == life[j] \in from /\ life' = [life EXCEPT ![j] = to]
Says(j, from, to) == record[j] \in from /\ record' = [record EXCEPT ![j] = to]

Launch(j) == Becomes(j, {"none"}, "running") /\ record[j] = "none" /\ UNCHANGED record

\* Its id is given out: from now on it can be polled and cancelled.
List(j) == life[j] # "none" /\ Says(j, {"none"}, "written") /\ UNCHANGED life

End(j) == Becomes(j, {"running"}, "ending") /\ UNCHANGED record

Settle(j) == /\ \E s \in {"ok", "failed"} : Becomes(j, {"ending"}, s)
             /\ UNCHANGED record

Vanish(j) == Becomes(j, {"running"}, "vanished") /\ UNCHANGED record

\* A cancel takes away the code it had ...
Clear(j) == /\ record[j] # "none"
            /\ Becomes(j, {"ok", "vanished", "stopped"}, "failed")
            /\ UNCHANGED record

\* ... gives it the signal's ...
Stop(j) == /\ record[j] # "none"
           /\ Becomes(j, {"failed"}, "stopped")
           /\ UNCHANGED record

\* ... loses the record ...
Lose(j) == /\ life[j] \in {"failed", "stopped"}
           /\ Says(j, {"written", "cancelled"}, "empty")
           /\ UNCHANGED life

\* ... and writes it again, with the flag.
Flag(j) == /\ life[j] \in {"failed", "stopped"}
           /\ Says(j, {"empty"}, "cancelled")
           /\ UNCHANGED life

Next == \E j \in Ids : \/ Launch(j) \/ List(j) \/ End(j) \/ Settle(j) \/ Vanish(j)
                       \/ Clear(j) \/ Stop(j) \/ Lose(j) \/ Flag(j)

Spec == Init /\ [][Next]_vars
=============================================================================
