----------------------------- MODULE AtomicQueue -----------------------------
(***************************************************************************)
(* What automation/scheduler.py promises its callers about the queue file: *)
(* every command that changes the queue is one transaction, a transaction  *)
(* takes effect all at once or not at all, its effect is never undone by   *)
(* another one, and a command that returns has taken effect.  The file's   *)
(* contents are abstracted to the set of transactions it reflects.         *)
(***************************************************************************)
CONSTANT Proc   \* command processes; each runs one transaction

VARIABLES
    applied,    \* the transactions the queue file reflects
    acked       \* the transactions whose command has returned

vars == <<applied, acked>>

Init == applied = {} /\ acked = {}

\* The transaction of p takes effect.
Apply(p) == /\ p \notin applied
            /\ applied' = applied \cup {p}
            /\ UNCHANGED acked

\* The command of p returns to its caller.
Ack(p) == /\ p \in applied \ acked
          /\ acked' = acked \cup {p}
          /\ UNCHANGED applied

Next == \E p \in Proc : Apply(p) \/ Ack(p)

Spec == Init /\ [][Next]_vars
=============================================================================
