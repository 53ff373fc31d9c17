------------------------------ MODULE WorkQueue ------------------------------
(***************************************************************************)
(* The work queue of automation/scheduler.py with its clients: the fleet's *)
(* workers that claim and report, and an operator who seeds, names, prunes,*)
(* reclaims, snapshots and restores.  One transaction is one step (module  *)
(* QueueFile shows why it may be); a command that reads outside its        *)
(* transaction takes two.                                                  *)
(***************************************************************************)
EXTENDS QueueRecords, FiniteSets

CONSTANTS
    Ids,            \* the ids of the functions to decompile
    Workers,        \* the workers of the fleet
    MaxClaims,      \* MAX_CLAIMS, the limit of the circuit breaker
    Limit,          \* Limit[w]: the --max-func-chars of w, 0 when not given
    TakesDeferred,  \* the workers that pass --include-deferred
    Allowlist,      \* Allowlist[w]: the --allowlist of w, {} when not given
    Rank,           \* Rank[id]: the claim order hint (smaller is earlier)
    Blocked,        \* the ids whose hint says blocked
    Files,          \* the files init and restore may be given: for each id a record,
                    \* complete or bare, or none
    MaxOps          \* bound: how many commands the operator runs

ASSUME WorkQueueAssumption ==
    /\ None \notin Ids \cup Status
    /\ MaxClaims \in Nat \ {0}
    /\ Limit \in [Workers -> Nat]
    /\ TakesDeferred \subseteq Workers
    /\ Allowlist \in [Workers -> SUBSET Ids]
    /\ Rank \in [Ids -> Nat]
    /\ Blocked \subseteq Ids
    /\ Files \subseteq [Ids -> {r \in Record : r.claimed_from # "claimed"}]
    /\ MaxOps \in Nat

VARIABLES
    queue,      \* queue[id]: the record of id, or Absent
    holding,    \* holding[w]: the claim w works on, as `next` printed it
    command,    \* what the operator's command has read and not yet acted on
    snapshot,   \* the saved copy the operator would restore
    ops,        \* how many commands the operator has run
    home,       \* history: home[id] is the last status that was not "claimed"
    named,      \* history: the ids the operator has claimed by name, or brought in
                \* with more than MaxClaims claims
    foreign     \* history: the ids whose record came from a file that the scheduler
                \* did not write, and on which nobody has reported since

vars == <<queue, holding, command, snapshot, ops, home, named, foreign>>
histories == <<home, named, foreign>>

Queues == [Ids -> Record]
NoClaim == [id |-> None, from |-> None]
Claim == [id: Ids, from: Verdict] \cup {NoClaim}
NoCommand == [kind |-> "none", ids |-> {}, saved |-> <<>>]

Present(q) == {id \in Ids : q[id].status # "absent"}
Free(w) == holding[w] = NoClaim

\* There is no queue file yet, which reads as an empty queue, and the repository
\* holds a snapshot of the queue as it was once seeded.
Init == /\ queue = [id \in Ids |-> Absent]
        /\ holding = [w \in Workers |-> NoClaim]
        /\ command = NoCommand
        /\ snapshot = [queue |-> [id \in Ids |-> NewRecord],
                       home |-> [id \in Ids |-> "todo"], foreign |-> {}]
        /\ ops = 0
        /\ home = [id \in Ids |-> "todo"]
        /\ named = {}
        /\ foreign = {}

-----------------------------------------------------------------------------
(* The fleet *)

TodoPool(w) == {id \in Ids : /\ queue[id].status = "todo"
                             /\ Allowlist[w] # {} => id \in Allowlist[w]}

\* A handed-off record goes to a tier that can read more than the one that
\* gave up; one without a recorded limit goes to a caller that declares one.
DeferredPool(w) ==
    IF w \in TakesDeferred /\ Allowlist[w] = {}
    THEN {id \in Ids : /\ queue[id].status = "deferred"
                       /\ queue[id].handoff
                       /\ IF queue[id].handoff_limit # 0
                          THEN queue[id].handoff_limit < Limit[w]
                          ELSE Limit[w] # 0}
    ELSE {}

\* The circuit breaker counting one claim too many.
BurnedLate(w) == {id \in TodoPool(w) \cup DeferredPool(w) : queue[id].claims > MaxClaims}

\* The records `next` gives up on: claimed MaxClaims times without a verdict.
Burned(w) == {id \in TodoPool(w) \cup DeferredPool(w) : queue[id].claims >= MaxClaims}

Eligible(w) == (TodoPool(w) \cup DeferredPool(w)) \ Burned(w)

\* a comes before b in the order of `key`, blocked left out.
Before(a, b) == IF (queue[a].status = "deferred") # (queue[b].status = "deferred")
                THEN queue[a].status # "deferred"
                ELSE Rank[a] < Rank[b]

\* The record `next` chooses.  Blocked records wait until nothing else is
\* left; ties are broken by the order of the file, which is left open here.
Choices(w) ==
    LET workable == Eligible(w) \ Blocked
        pool == IF workable # {} THEN workable ELSE Eligible(w)
    IN {id \in pool : \A other \in pool : ~Before(other, id)}

\* cmd_next for a worker of the fleet, pool path: trips the breaker and claims
\* the best record left, if any.
Next_Pool(w) ==
    /\ Free(w)
    /\ Burned(w) \cup Eligible(w) # {}
    /\ LET broken == [id \in Ids |-> IF id \in Burned(w) THEN Break(queue[id])
                                                         ELSE queue[id]]
           homes == [id \in Ids |-> IF id \in Burned(w) THEN "escalated" ELSE home[id]]
       IN /\ home' = homes
          /\ \/ /\ Eligible(w) = {}
                /\ queue' = broken
                /\ UNCHANGED holding
             \/ \E id \in Choices(w) :
                  /\ queue' = [broken EXCEPT ![id] = Take(queue[id])]
                  /\ holding' = [holding EXCEPT ![w] =
                                   [id |-> id, from |-> queue[id].status]]
    /\ UNCHANGED <<command, snapshot, ops, named, foreign>>

\* The outcomes a worker reports for the claim it holds: a verdict, a deferral
\* without a limit, a release to where the claim came from, or a size handoff
\* stamped with its own limit.  Every report of a worker keeps the older notes.
Outcomes(w) ==
    {[status |-> s, note |-> "keep", limit |-> 0, verdict |-> FALSE, proof |-> s = "matched"]
        : s \in Verdict}
    \cup {[status |-> "deferred", note |-> "handoff", limit |-> Limit[w],
           verdict |-> FALSE, proof |-> FALSE]}

\* cmd_report on an id that has no record exits non-zero and changes nothing.
Reported(id, m) ==
    IF queue[id].status = "absent" THEN UNCHANGED <<queue, home, foreign>>
    ELSE /\ queue' = [queue EXCEPT ![id] = ReportRec(@, m)]
         /\ home' = [home EXCEPT ![id] = m.status]
         /\ foreign' = foreign \ {id}

\* A worker reports on its claim and forgets it.  The report lands whether or
\* not the record is still claimed, by it or by anyone.
WorkerReport(w) ==
    /\ ~Free(w)
    /\ \E m \in Outcomes(w) : Accepted(m) /\ Reported(holding[w].id, m)
    /\ holding' = [holding EXCEPT ![w] = NoClaim]
    /\ UNCHANGED <<command, snapshot, ops, named>>

\* A worker dies without a report: its record stays claimed.
WorkerDies(w) ==
    /\ ~Free(w)
    /\ holding' = [holding EXCEPT ![w] = NoClaim]
    /\ UNCHANGED <<queue, command, snapshot, ops, histories>>

-----------------------------------------------------------------------------
(* The operator *)

Idle == command = NoCommand
Spend == ops < MaxOps /\ ops' = ops + 1

\* cmd_next --only: a named record is claimed whatever the pool, the ranking
\* and the circuit breaker say, unless it is claimed or matched.
Next_Only(w, id) ==
    /\ Spend /\ Free(w)
    /\ queue[id].status \notin {"absent", "claimed", "matched"}
    /\ queue' = [queue EXCEPT ![id] = Take(@)]
    /\ holding' = [holding EXCEPT ![w] = [id |-> id, from |-> queue[id].status]]
    /\ named' = named \cup {id}
    /\ UNCHANGED <<command, snapshot, home, foreign>>

\* What an operator or the permuter supervisor reports about any record: a
\* hand-made status (with a proof string nobody checks), a structured search
\* verdict, or a match landed by the supervisor.
OperatorReports ==
    {[status |-> s, note |-> "plain", limit |-> 0, verdict |-> FALSE, proof |-> s = "near"]
        : s \in {"todo", "near", "deferred"}}
    \cup {[status |-> s, note |-> "keep", limit |-> 0, verdict |-> s = "deferred",
           proof |-> s = "matched"] : s \in {"matched", "deferred"}}

OperatorReport(id) ==
    /\ Spend
    /\ queue[id].status # "absent"
    /\ \E m \in OperatorReports : Accepted(m) /\ Reported(id, m)
    /\ UNCHANGED <<holding, command, snapshot, named>>

\* The records of `given` enter the queue for the ids in S, and nobody has checked
\* what they claim to be.
Admit(S, given) ==
    /\ queue' = [id \in Ids |-> IF id \in S THEN given[id] ELSE queue[id]]
    /\ home' = [id \in Ids |-> IF id \in S THEN HomeOf(given[id]) ELSE home[id]]
    /\ named' = named \cup {id \in S : given[id].claims > MaxClaims}
    /\ foreign' = (foreign \ S) \cup {id \in S : given[id] \notin {Absent, NewRecord}}

\* cmd_init: the ids of the seed file that have no record get one, with the
\* status, proof and claims that a full record brings along.
Seed ==
    \E file \in Files :
        LET added == {id \in Ids \ Present(queue) : file[id] # Absent}
        IN /\ added # {}
           /\ Admit(added, file)
           /\ IF \A id \in added : file[id] = NewRecord THEN UNCHANGED ops ELSE Spend
           /\ UNCHANGED <<holding, command, snapshot>>

\* cmd_reclaim: every claim older than the cutoff goes back where it came from.
Reclaim ==
    \E old \in SUBSET {id \in Ids : queue[id].status = "claimed"} :
        /\ old # {}
        /\ queue' = [id \in Ids |-> IF id \in old THEN ReclaimRec(queue[id]) ELSE queue[id]]
        /\ UNCHANGED <<holding, command, snapshot, ops, histories>>

\* cmd_prune, first half: without the lock, list the todo records that match.
PruneRead ==
    /\ Idle /\ Spend
    /\ \E matching \in SUBSET Ids :
         LET doomed == {id \in matching : queue[id].status = "todo"}
         IN /\ doomed # {}
            /\ command' = [kind |-> "prune", ids |-> doomed, saved |-> <<>>]
    /\ UNCHANGED <<queue, holding, snapshot, histories>>

\* cmd_prune, second half: the transaction deletes what was listed.
PruneCommit ==
    /\ command.kind = "prune"
    /\ queue' = [id \in Ids |-> IF id \in command.ids THEN Absent ELSE queue[id]]
    /\ foreign' = foreign \ command.ids
    /\ command' = NoCommand
    /\ UNCHANGED <<holding, snapshot, ops, home, named>>

\* cmd_snapshot: a copy taken under the lock.
Snapshot == /\ Idle /\ Spend
            /\ snapshot' = [queue |-> queue, home |-> home, foreign |-> foreign]
            /\ UNCHANGED <<queue, holding, command, histories>>

\* cmd_restore, first half: without the lock, read what is about to be
\* replaced and save it as the pre-restore snapshot.
RestoreRead ==
    /\ Idle /\ Spend
    /\ command' = [kind |-> "restore", ids |-> {}, saved |-> queue]
    /\ UNCHANGED <<queue, holding, snapshot, histories>>

\* cmd_restore, second half: the transaction replaces everything, with the copy
\* the scheduler took or with any other file that parses as records.
RestoreCommit ==
    /\ command.kind = "restore"
    /\ \/ /\ queue' = snapshot.queue
          /\ home' = snapshot.home
          /\ foreign' = snapshot.foreign
          /\ UNCHANGED named
       \/ \E file \in Files : Admit(Ids, file)
    /\ command' = NoCommand
    /\ UNCHANGED <<holding, snapshot, ops>>

Next == \/ \E w \in Workers : \/ Next_Pool(w) \/ WorkerReport(w) \/ WorkerDies(w)
                             \/ \E id \in Ids : Next_Only(w, id)
        \/ \E id \in Ids : OperatorReport(id)
        \/ Seed \/ Reclaim \/ Snapshot
        \/ PruneRead \/ PruneCommit \/ RestoreRead \/ RestoreCommit

\* A worker of the fleet keeps asking for work, and an attempt ends, with a
\* report or without.  Nothing is assumed of the operator.
Fairness == \A w \in Workers : /\ WF_vars(Next_Pool(w))
                               /\ WF_vars(WorkerReport(w) \/ WorkerDies(w))

Spec == Init /\ [][Next]_vars /\ Fairness

-----------------------------------------------------------------------------
TypeOK == /\ queue \in Queues
          /\ holding \in [Workers -> Claim]
          /\ command \in [kind: {"none", "prune", "restore"}, ids: SUBSET Ids,
                          saved: Queues \cup {<<>>}]
          /\ snapshot \in [queue: Queues, home: [Ids -> Verdict], foreign: SUBSET Ids]
          /\ ops \in 0..MaxOps
          /\ home \in [Ids -> Verdict]
          /\ named \subseteq Ids
          /\ foreign \subseteq Ids

\* The structural trust invariant of cmd_report: a record is matched only with
\* a proof the scheduler verified itself, never with a string that came with an
\* earlier report or in a record from elsewhere, however the record is reported
\* on, claimed, reclaimed, saved and restored afterwards.  What it does not cover
\* is a record that came from elsewhere and was not reported on since: init and
\* restore take its status and its proof as they are.
TrustInvariant ==
    \A id \in Ids \ foreign : queue[id].status = "matched" => queue[id].proof = "verified"

\* A record that is claimed can always be sent back to its last verdict: a
\* stranded handoff never leaks into the todo pool, however often it was
\* claimed, reported by a worker that no longer owned it, and restored, and
\* wherever the record comes from.
StrandedGoesHome ==
    \A id \in Present(queue) :
        home[id] = IF queue[id].status = "claimed" THEN ReclaimRec(queue[id]).status
                                                   ELSE queue[id].status

\* The circuit breaker bounds what the fleet can waste on one record: unless
\* the operator has named it, or brought it in with more claims than that, it is
\* handed out at most MAX_CLAIMS times.
BreakerBoundsClaims ==
    \A id \in Ids \ named : queue[id].claims <= MaxClaims

\* A structured search verdict controls the deferral it was recorded for: no
\* record carries one while it is todo, near or matched, so nothing can take
\* the exhaustion of an old seed for a statement about later work.  A record from
\* elsewhere may say so until it is reported on.
VerdictOnlyOnDeferral ==
    \A id \in Ids \ foreign : queue[id].search_verdict =>
        queue[id].status \in {"deferred", "claimed", "escalated"}

\* No record starves: one that is todo is eventually handed out or given up,
\* even behind a better ranked record that every worker keeps releasing.
NoStarvation ==
    \A id \in Ids : queue[id].status = "todo" ~> queue[id].status # "todo"

\* cmd_prune "refuses to touch anything not in todo: a matched, near or
\* escalated record represents work already done".
PruneOnlyTodo ==
    [][command.kind = "prune" =>
         \A id \in Ids : queue'[id].status = "absent" =>
                           queue[id].status \in {"todo", "absent"}]_vars

\* While a prune stands between its look at the queue and its transaction,
\* nobody else writes the file.  The code does not see to it.
PruneIsUndisturbed ==
    [][command.kind = "prune" /\ queue' # queue => command' = NoCommand]_vars
=============================================================================
