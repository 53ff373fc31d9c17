-------------------------------- MODULE Fleet --------------------------------
(***************************************************************************)
(* The fleet's workers of automation/win/worker_direct.py on one source    *)
(* tree: process_one from the claim to the report, the restore journal,    *)
(* the SIGTERM and Ctrl-C handlers, the replay of the journals of the dead,*)
(* and fleet_stop of automation/mcp/commands_client.py.                    *)
(*                                                                         *)
(* The queue is reduced to statuses and the fleet to its todo pool (module *)
(* WorkQueue has the rest), and the lock to what module BuildLock shows it *)
(* to be: exclusive, and taken over from an owner that is dead.            *)
(***************************************************************************)
EXTENDS Naturals

CONSTANTS
    Funcs,          \* the functions to decompile, each with its queue record
    FileOf,         \* FileOf[f]: the source file that holds the stub of f
    Workers,        \* the WORKER_NAMEs of the fleet
    Foreground,     \* the workers started by hand in a terminal, which Ctrl-C reaches
    Gated,          \* the functions whose shim gate says "blocked", not "defer"
    Bodies,         \* the kinds of candidates that the model writes
    MaxAttempts,    \* MAX_ATTEMPTS
    BadFiles,       \* the source files whose writes, or their journals', may fail
    PromptWorkers,  \* no operator reclaims the record of a worker that lives
    Stop,           \* the replay process that fleet_stop runs
    None

ASSUME FleetAssumption ==
    /\ Foreground \subseteq Workers
    /\ Gated \subseteq Funcs
    /\ Bodies \subseteq {"good", "differs", "broken"}
    /\ MaxAttempts \in Nat \ {0}
    /\ PromptWorkers \in BOOLEAN
    /\ Stop \notin Workers /\ None \notin Workers \cup Funcs \cup Bodies \cup {Stop}

\* "parked" stands for escalated and deferred: no worker of this fleet takes it.
Status == {"todo", "claimed", "near", "matched", "parked"}

(***************************************************************************)
(* What stands in the source for a function: its INCLUDE_ASM stub, whose   *)
(* bytes are right by construction, or a body, which matches, or compiles  *)
(* to other bytes, or does not compile, or nothing whole: the file was cut *)
(* short while it was written.                                             *)
(***************************************************************************)
Content == {"stub", "torn"} \cup Bodies

\* The text of a source file, or of none: the content of the functions in it.
Texts == UNION {[S -> Content] : S \in SUBSET Funcs}
NoText == [f \in {} |-> "stub"]

VARIABLES
    queue,      \* queue[f]: the status of the record of f
    tree,       \* tree[f]: what stands in the source for f
    lock,       \* the living process that created automation/.build.lock
    journal,    \* journal[w]: the text that pending/<w>.json would restore
    landing,    \* the bodies archived as verified landings
    pc,         \* pc[w]: how far w is
    job,        \* job[w]: the locals of process_one
    held,       \* held[w]: _CURRENT_CLAIM is set (to the id of the job)
    seed,       \* seed[w]: whose seed file _CURRENT_SEED names
    stop,       \* how far fleet_stop is
    overlooked  \* a fleet_stop has gone on while a worker it cannot see was alive

vars == <<queue, tree, lock, journal, landing, pc, job, held, seed, stop, overlooked>>

(***************************************************************************)
(* A worker is off, starts up, is idle, works on its job, or is on its way *)
(* out.                                                                    *)
(***************************************************************************)
PC == {"off", "start", "restart", "idle", "taken", "claimed", "generate", "wait",
       "edit", "journaled", "writing", "applied", "judged", "restored", "landed",
       "cleared", "matched", "undo", "undone", "abandoned", "failed",
       "interrupted", "reverted", "leaving", "rescue", "release"}

\* Where a worker is inside a `with BuildLock`.
InLock == {"edit", "journaled", "writing", "applied", "judged", "restored", "landed",
           "cleared", "matched", "undo", "undone", "restart", "rescue"}

NoJob == [id |-> None, body |-> None, tries |-> 0, best |-> "none",
          verdict |-> "none", original |-> NoText]
Job == [id: Funcs \cup {None}, body: Bodies \cup {None}, tries: 0..MaxAttempts,
        best: {"none", "differs", "failed"},
        verdict: {"none", "ok", "differs", "failed"}, original: Texts]

Init == /\ queue = [f \in Funcs |-> "todo"]
        /\ tree = [f \in Funcs |-> "stub"]
        /\ lock = None
        /\ journal = [w \in Workers |-> NoText]
        /\ landing = {}
        /\ pc = [w \in Workers |-> "off"]
        /\ job = [w \in Workers |-> NoJob]
        /\ held = [w \in Workers |-> FALSE]
        /\ seed = [w \in Workers |-> None]
        /\ stop = "no" /\ overlooked = FALSE

Step(w, from, to) == pc[w] = from /\ pc' = [pc EXCEPT ![w] = to]
SetJob(w, j) == job' = [job EXCEPT ![w] = j]
SetJournal(w, text) == journal' = [journal EXCEPT ![w] = text]

\* A lock whose owner is dead is as good as free.
Acquire(p) == lock = None /\ lock' = p
Release == lock' = None

\* The tree after the whole file of that text is written.
WriteBack(text) == tree' = [f \in Funcs |-> IF f \in DOMAIN text THEN text[f] ELSE tree[f]]

\* The same write fails: the file is as it was, or cut short.
Cut(S) == [f \in Funcs |-> IF f \in S THEN "torn" ELSE tree[f]]
Unwritable(S) == \E f \in S : FileOf[f] \in BadFiles
WriteFails(text) == Unwritable(DOMAIN text) /\ tree' \in {tree, Cut(DOMAIN text)}

\* journal_clear(), whose answer restore_many does not look at.
Disarm(w) == \/ SetJournal(w, NoText)
             \/ Unwritable(DOMAIN journal[w]) /\ UNCHANGED journal

\* sched("report", ...): the status lands whatever the record says by now, and
\* the worker no longer holds a claim on it.
Report(w, s) == /\ queue' = [queue EXCEPT ![job[w].id] = s]
                /\ held' = [held EXCEPT ![w] = FALSE]

\* The end of process_one: its locals are gone, the globals are not.
Finished(w, from) == Step(w, from, "idle") /\ SetJob(w, NoJob)

-----------------------------------------------------------------------------
(* Replaying journals *)

\* The owner of the journal of v, a pid, is not running: a worker that starts
\* up has a new one.
OwnerGone(v) == pc[v] \in {"off", "start", "restart"}

Pending(p) == {v \in Workers : journal[v] # NoText /\ (OwnerGone(v) \/ v = p)}

\* Replaying every journal there is, without the lock.
ReplayAnytime(p, v) ==
    /\ journal[v] # NoText
    /\ p \in Workers /\ pc[p] = "start"
    /\ WriteBack(journal[v])
    /\ SetJournal(v, NoText)
    /\ UNCHANGED <<queue, lock, landing, pc, job, held, seed, stop, overlooked>>

\* replay_pending_journals, for one journal: the file goes back to what it was
\* before the edit, and the journal is removed.
ReplayOne(p, v) ==
    /\ v \in Pending(p)
    /\ \/ p = Stop /\ stop = "replay"
       \/ p \in Workers /\ pc[p] \in {"restart", "rescue"}
    /\ WriteBack(journal[v])
    /\ SetJournal(v, NoText)
    /\ UNCHANGED <<queue, lock, landing, pc, job, held, seed, stop, overlooked>>

\* A worker is started: fleet_start, or by hand.  Nobody does while a stop is
\* under way.
Start(w) == /\ stop \in {"no", "done"} /\ stop' = "no"
            /\ Step(w, "off", "start")
            /\ UNCHANGED <<queue, tree, lock, journal, landing, job, held, seed, overlooked>>

\* main() replays before it claims anything.
StartLock(w) == /\ Step(w, "start", "restart") /\ Acquire(w)
                /\ UNCHANGED <<queue, tree, journal, landing, job, held, seed, stop, overlooked>>

StartDone(w) == /\ Step(w, "restart", "idle")
                /\ Pending(w) = {}
                /\ Release
                /\ UNCHANGED <<queue, tree, journal, landing, job, held, seed, stop, overlooked>>

-----------------------------------------------------------------------------
(* process_one, outside the lock *)

\* claim_next(): the record is claimed in the queue ...
Claim(w) == /\ Step(w, "idle", "taken")
            /\ \E f \in Funcs : /\ queue[f] = "todo"
                                /\ queue' = [queue EXCEPT ![f] = "claimed"]
                                /\ SetJob(w, [NoJob EXCEPT !.id = f])
            /\ UNCHANGED <<tree, lock, journal, landing, held, seed, stop, overlooked>>

\* ... and _CURRENT_CLAIM is set, by which the handlers know of it.
Hold(w) == /\ Step(w, "taken", "claimed")
           /\ held' = [held EXCEPT ![w] = TRUE]
           /\ UNCHANGED <<queue, tree, lock, journal, landing, job, seed, stop, overlooked>>

\* The queue is empty, or --max is reached: the process ends.
Exit(w) == /\ Step(w, "idle", "off")
           /\ seed' = [seed EXCEPT ![w] = None]
           /\ UNCHANGED <<queue, tree, lock, journal, landing, job, held, stop, overlooked>>

\* find_source does not find the stub.
Unlocated(w) == /\ Finished(w, "claimed")
                /\ tree[job[w].id] # "stub"
                /\ Report(w, "parked")
                /\ UNCHANGED <<tree, lock, journal, landing, seed, stop, overlooked>>

\* Too large for the model, or a shim is the answer: no attempt is made.
Defer(w) == /\ Finished(w, "claimed")
            /\ tree[job[w].id] = "stub"
            /\ Report(w, "parked")
            /\ UNCHANGED <<tree, lock, journal, landing, seed, stop, overlooked>>

\* Every record reported as blocked before its attempt.
ShimBlockedAlways(f) == TRUE

\* shim_gate has a reason not to decompile f, and the shim is not possible yet.
ShimBlocked(f) == f \in Gated

\* The gates let the record through.  A shim that is called for and blocked is
\* reported, with status todo, and the attempt goes on.
Proceed(w) == /\ Step(w, "claimed", "generate")
              /\ tree[job[w].id] = "stub"
              /\ IF ShimBlocked(job[w].id) THEN Report(w, "todo")
                                           ELSE UNCHANGED <<queue, held>>
              /\ UNCHANGED <<tree, lock, journal, landing, job, seed, stop, overlooked>>

\* The model writes a candidate; the worker queues for the lock.
Generate(w) == /\ Step(w, "generate", "wait")
               /\ job[w].tries < MaxAttempts
               /\ \E b \in Bodies :
                    SetJob(w, [job[w] EXCEPT !.body = b, !.tries = @ + 1])
               /\ UNCHANGED <<queue, tree, lock, journal, landing, held, seed, stop, overlooked>>

\* What is remembered of an attempt: that one compiled is never forgotten.
Best(b, result) == IF b = "differs" THEN b ELSE result

\* The attempt is spent without a build: the model writes nothing, or the
\* review rejects what it wrote.
Reject(w) ==
    /\ Step(w, "generate", "generate")
    /\ job[w].tries < MaxAttempts
    /\ \E b \in {job[w].best, Best(job[w].best, "failed")} :
         SetJob(w, [job[w] EXCEPT !.tries = @ + 1, !.best = b])
    /\ UNCHANGED <<queue, tree, lock, journal, landing, held, seed, stop, overlooked>>

\* The verdict of the loop when its attempts, or its budget, run out: near if
\* an attempt compiled; todo if the model produced nothing; else escalated, or
\* deferred.
LoopVerdict(w) == CASE job[w].best = "differs" -> "near"
                    [] job[w].best = "none"    -> "todo"
                    [] job[w].best = "failed"  -> "parked"

Finish(w) == /\ Finished(w, "generate")
             /\ Report(w, LoopVerdict(w))
             /\ seed' = [seed EXCEPT ![w] = None]
             /\ UNCHANGED <<tree, lock, journal, landing, stop, overlooked>>

\* except Exception: _CURRENT_SEED stays as it is.
Failed(w) == /\ Finished(w, "failed")
             /\ Report(w, "parked")
             /\ UNCHANGED <<tree, lock, journal, landing, seed, stop, overlooked>>

-----------------------------------------------------------------------------
(* process_one, the critical section *)

Lock(w) == /\ Step(w, "wait", "edit") /\ Acquire(w)
           /\ UNCHANGED <<queue, tree, journal, landing, job, held, seed, stop, overlooked>>

\* The file of f as it stands.
FileText(f) == [g \in {h \in Funcs : FileOf[h] = FileOf[f]} |-> tree[g]]

\* Editing first, with the journal still to be written.
EditFirst(w) == /\ Step(w, "edit", "applied")
                /\ tree[job[w].id] = "stub"
                /\ WriteBack([FileText(job[w].id) EXCEPT ![job[w].id] = job[w].body])
                /\ SetJob(w, [job[w] EXCEPT !.original = FileText(job[w].id)])
                /\ UNCHANGED <<queue, lock, journal, landing, held, seed, stop, overlooked>>

\* apply_code, first half: the stub is there, and the journal is written.
Journal(w) == /\ Step(w, "edit", "journaled")
              /\ tree[job[w].id] = "stub"
              /\ SetJournal(w, FileText(job[w].id))
              /\ UNCHANGED <<queue, tree, lock, landing, job, held, seed, stop, overlooked>>

\* apply_code raises: no stub any more, or no journal could be written.
EditRefused(w) == /\ Step(w, "edit", "failed") /\ Release
                  /\ UNCHANGED <<queue, tree, journal, landing, job, held, seed, stop, overlooked>>

\* apply_code, second half: opening the file for writing empties it ...
Truncate(w) == /\ Step(w, "journaled", "writing")
               /\ tree' = Cut(DOMAIN journal[w])
               /\ UNCHANGED <<queue, lock, journal, landing, job, held, seed, stop, overlooked>>

\* ... and it is written, from the text read before.
Apply(w) == /\ Step(w, "writing", "applied")
            /\ WriteBack([journal[w] EXCEPT ![job[w].id] = job[w].body])
            /\ SetJob(w, [job[w] EXCEPT !.original = journal[w]])
            /\ UNCHANGED <<queue, lock, journal, landing, held, seed, stop, overlooked>>

\* apply_code raises at the open or in the write: process_one has no original
\* to restore, and the journal stays until the worker's next edit.
ApplyFails(w) == /\ Step(w, "journaled", "failed") \/ Step(w, "writing", "failed")
                 /\ Unwritable(DOMAIN journal[w])
                 /\ Release
                 /\ UNCHANGED <<queue, tree, journal, landing, job, held, seed, stop, overlooked>>

\* build_and_check builds the whole tree and checks all its bytes.  A build that
\* takes too long is this candidate's failure, and so is an error, unless another
\* body is to blame: that is a dirty tree, which the loop treats like a mismatch.
Broken == {f \in Funcs : tree[f] \in {"broken", "torn"}}
Verdicts(w) ==
    {"failed"} \cup (IF \A f \in Funcs : tree[f] \in {"stub", "good"} THEN {"ok"}
                     ELSE IF Broken = {job[w].id} THEN {} ELSE {"differs"})

Build(w) == /\ Step(w, "applied", "judged")
            /\ \E v \in Verdicts(w) : SetJob(w, [job[w] EXCEPT !.verdict = v])
            /\ UNCHANGED <<queue, tree, lock, journal, landing, held, seed, stop, overlooked>>

\* Not a match: restore() writes the file back, still under the lock ...
Restore(w) == /\ Step(w, "judged", "restored")
              /\ job[w].verdict # "ok"
              /\ WriteBack(job[w].original)
              /\ UNCHANGED <<queue, lock, journal, landing, job, held, seed, stop, overlooked>>

\* save_candidate: an attempt that compiled leaves a seed.
SaveCandidate(w) ==
    seed' = IF job[w].verdict = "differs" THEN [seed EXCEPT ![w] = job[w].id] ELSE seed

\* ... and disarms the journal; the lock is released.
Retry(w) ==
    /\ Step(w, "restored", "generate")
    /\ Disarm(w) /\ Release
    /\ SetJob(w, [job[w] EXCEPT !.body = None, !.verdict = "none", !.original = NoText,
                                !.best = Best(@, job[w].verdict)])
    /\ SaveCandidate(w)
    /\ UNCHANGED <<queue, tree, landing, held, stop, overlooked>>

\* A match: the body is archived before the queue may claim that it exists.
SaveLanding(w) == /\ Step(w, "judged", "landed")
                  /\ job[w].verdict = "ok"
                  /\ landing' = landing \cup {<<job[w].id, job[w].body>>}
                  /\ UNCHANGED <<queue, tree, lock, journal, job, held, seed, stop, overlooked>>

\* journal_clear().
ClearJournal(w) == /\ Step(w, "landed", "cleared")
                   /\ SetJournal(w, NoText)
                   /\ UNCHANGED <<queue, tree, lock, landing, job, held, seed, stop, overlooked>>

\* Reporting the match as soon as the build says so.
ReportEarly(w) == /\ Step(w, "judged", "matched")
                  /\ job[w].verdict = "ok"
                  /\ Report(w, "matched")
                  /\ UNCHANGED <<tree, lock, journal, landing, job, seed, stop, overlooked>>

\* The report, inside the lock, so that the scheduler sees the tree that was built.
ReportMatched(w) == /\ Step(w, "cleared", "matched")
                    /\ Report(w, "matched")
                    /\ UNCHANGED <<tree, lock, journal, landing, job, seed, stop, overlooked>>

Unlock(w) == /\ Finished(w, "matched") /\ Release
             /\ UNCHANGED <<queue, tree, journal, landing, held, seed, stop, overlooked>>

\* The landing cannot be saved, the journal not disarmed, or the scheduler
\* rejects the report.
LandingFails(w) ==
    /\ \/ Step(w, "judged", "undo") /\ job[w].verdict = "ok"
       \/ Step(w, "landed", "undo")
       \/ Step(w, "cleared", "undo")
    /\ UNCHANGED <<queue, tree, lock, journal, landing, job, held, seed, stop, overlooked>>

Undo(w) == /\ Step(w, "undo", "undone")
           /\ WriteBack(job[w].original)
           /\ UNCHANGED <<queue, lock, journal, landing, job, held, seed, stop, overlooked>>

Undone(w) == /\ Step(w, "undone", "failed")
             /\ Disarm(w) /\ Release
             /\ SetJob(w, [job[w] EXCEPT !.body = None, !.verdict = "none", !.original = NoText])
             /\ UNCHANGED <<queue, tree, landing, held, seed, stop, overlooked>>

\* restore() itself raises, which leaves the `with` ...
RestoreFails(w) ==
    /\ \/ Step(w, "judged", "abandoned") /\ job[w].verdict # "ok"
       \/ Step(w, "undo", "abandoned")
    /\ WriteFails(job[w].original)
    /\ Release
    /\ UNCHANGED <<queue, journal, landing, job, held, seed, stop, overlooked>>

\* ... and is tried again by `except Exception`, without the lock, in vain or not.
Salvage(w) ==
    /\ Step(w, "abandoned", "failed")
    /\ \/ WriteBack(job[w].original) /\ Disarm(w)
       \/ WriteFails(job[w].original) /\ UNCHANGED journal
    /\ SetJob(w, [job[w] EXCEPT !.body = None, !.verdict = "none", !.original = NoText])
    /\ UNCHANGED <<queue, lock, landing, held, seed, stop, overlooked>>

-----------------------------------------------------------------------------
(* Ctrl-C, SIGTERM, SIGKILL *)

Inside(w) == pc[w] \in InLock

\* Where the `except KeyboardInterrupt` of process_one catches it.
Guarded == {"generate", "wait", "edit", "journaled", "writing", "applied", "judged",
            "restored", "landed", "cleared", "matched", "undo", "undone"}

\* A handler never returns to process_one: of the job only the claim matters.
ClaimOnly(w) == IF held[w] THEN [NoJob EXCEPT !.id = job[w].id] ELSE NoJob

\* Ctrl-C: the exception leaves the `with` first, which releases the lock.
Interrupt(w) ==
    /\ w \in Foreground
    /\ pc[w] \in Guarded \cup {"idle", "taken", "claimed", "abandoned", "failed"}
    /\ pc' = [pc EXCEPT ![w] = IF @ \notin Guarded THEN "leaving"
                               ELSE IF job[w].original # NoText THEN "interrupted"
                               ELSE "reverted"]
    /\ IF pc[w] \in Guarded THEN UNCHANGED job ELSE SetJob(w, ClaimOnly(w))
    /\ IF Inside(w) THEN Release ELSE UNCHANGED lock
    /\ UNCHANGED <<queue, tree, journal, landing, held, seed, stop, overlooked>>

\* ... then restores the file, without the lock, if it can, ...
Revert(w) == /\ Step(w, "interrupted", "reverted")
             /\ \/ WriteBack(job[w].original) /\ Disarm(w)
                \/ WriteFails(job[w].original) /\ UNCHANGED journal
             /\ UNCHANGED <<queue, lock, landing, job, held, seed, stop, overlooked>>

\* ... and reports the record as todo.
ReportInterrupted(w) == /\ Step(w, "reverted", "leaving")
                        /\ Report(w, "todo") /\ SetJob(w, NoJob)
                        /\ UNCHANGED <<tree, lock, journal, landing, seed, stop, overlooked>>

\* The handlers of main() for Ctrl-C and SIGTERM: replay_pending_journals under
\* the lock, even when w holds it already, and then ...
LeaveLock(w) == /\ Step(w, "leaving", "rescue") /\ Acquire(w)
                /\ UNCHANGED <<queue, tree, journal, landing, job, held, seed, stop, overlooked>>

LeaveUnlock(w) == /\ Step(w, "rescue", "release")
                  /\ Pending(w) = {}
                  /\ Release
                  /\ UNCHANGED <<queue, tree, journal, landing, job, held, seed, stop, overlooked>>

\* release_claim_if_held: to near if an attempt compiled, else to where the
\* record was claimed from.
ReleaseStatus(w) == IF seed[w] # None THEN "near" ELSE "todo"

\* The processes are gone, with all they remember, and their lock is a dead one.
Gone(S) == /\ pc' = [w \in Workers |-> IF w \in S THEN "off" ELSE pc[w]]
           /\ job' = [w \in Workers |-> IF w \in S THEN NoJob ELSE job[w]]
           /\ held' = [w \in Workers |-> held[w] /\ w \notin S]
           /\ seed' = [w \in Workers |-> IF w \in S THEN None ELSE seed[w]]
           /\ lock' = IF lock \in S THEN None ELSE lock

\* ... release_claim_if_held, and the process ends.
Leave(w) == /\ pc[w] = "release"
            /\ queue' = IF held[w] THEN [queue EXCEPT ![job[w].id] = ReleaseStatus(w)]
                                   ELSE queue
            /\ Gone({w})
            /\ UNCHANGED <<tree, journal, landing, stop, overlooked>>

\* A crash, or the out-of-memory killer.
Kill(w) == /\ pc[w] # "off"
           /\ Gone({w})
           /\ UNCHANGED <<queue, tree, journal, landing, stop, overlooked>>

-----------------------------------------------------------------------------
(* fleet_stop *)

\* The workers that fleet_stop finds: the launcher lists those it starts, one
\* started by hand writes its pid file after the replay of its start.
Running == {w \in Workers : pc[w] # "off"}
Seen == {w \in Running : w \in Foreground => pc[w] \notin {"start", "restart"}}

\* kill: _on_sigterm takes over wherever each worker is.
StopTerm ==
    /\ stop \in {"no", "done"} /\ stop' = "kill"
    /\ pc' = [w \in Workers |-> IF w \in Seen THEN "leaving" ELSE pc[w]]
    /\ job' = [w \in Workers |-> IF w \in Seen THEN ClaimOnly(w) ELSE job[w]]
    /\ UNCHANGED <<queue, tree, lock, journal, landing, held, seed, overlooked>>

\* No kill -9: the handlers are trusted to end.
StopTrusting == /\ stop = "kill" /\ stop' = "clear"
                /\ UNCHANGED <<queue, tree, lock, journal, landing, pc, job, held, seed,
                               overlooked>>

\* One second later, kill -9.
StopKill == /\ stop = "kill" /\ stop' = "clear"
            /\ Gone(Seen)
            /\ overlooked' = (overlooked \/ Running # Seen)
            /\ UNCHANGED <<queue, tree, journal, landing>>

\* reclaim --older-than-min 0, and the lock file is removed.
StopClear == /\ stop = "clear" /\ stop' = "cleared"
             /\ queue' = [f \in Funcs |-> IF queue[f] = "claimed" THEN "todo" ELSE queue[f]]
             /\ Release
             /\ UNCHANGED <<tree, journal, landing, pc, job, held, seed, overlooked>>

\* The replay in a process of its own.
StopLock == /\ stop = "cleared" /\ stop' = "replay"
            /\ Acquire(Stop)
            /\ UNCHANGED <<queue, tree, journal, landing, pc, job, held, seed, overlooked>>

StopDone == /\ stop = "replay" /\ stop' = "done"
            /\ Pending(Stop) = {}
            /\ Release
            /\ UNCHANGED <<queue, tree, journal, landing, pc, job, held, seed, overlooked>>

-----------------------------------------------------------------------------
(* The operator *)

\* scheduler.py reclaim, on a fleet that may be running: the claim is old, and
\* whether its worker is dead nobody asks.
Reclaim(f) == /\ queue[f] = "claimed"
              /\ PromptWorkers => \A w \in Workers : job[w].id # f
              /\ queue' = [queue EXCEPT ![f] = "todo"]
              /\ UNCHANGED <<tree, lock, journal, landing, pc, job, held, seed, stop, overlooked>>

-----------------------------------------------------------------------------
Work(w) == \/ Start(w) \/ StartLock(w) \/ StartDone(w)
           \/ Claim(w) \/ Hold(w) \/ Exit(w) \/ Unlocated(w) \/ Defer(w) \/ Proceed(w)
           \/ Generate(w) \/ Reject(w) \/ Finish(w) \/ Failed(w)

Section(w) == \/ Lock(w) \/ Journal(w) \/ EditRefused(w) \/ Truncate(w) \/ Apply(w)
              \/ ApplyFails(w) \/ Build(w) \/ Restore(w) \/ Retry(w) \/ RestoreFails(w)
              \/ SaveLanding(w) \/ ClearJournal(w) \/ ReportMatched(w) \/ Unlock(w)
              \/ LandingFails(w) \/ Undo(w) \/ Undone(w)

Ending(w) == \/ Salvage(w) \/ Interrupt(w) \/ Revert(w) \/ ReportInterrupted(w)
             \/ LeaveLock(w) \/ LeaveUnlock(w) \/ Leave(w) \/ Kill(w)

Next == \/ \E w \in Workers : Work(w) \/ Section(w) \/ Ending(w)
        \/ \E p \in Workers \cup {Stop}, v \in Workers : ReplayOne(p, v)
        \/ \E f \in Funcs : Reclaim(f)
        \/ StopTerm \/ StopKill \/ StopClear \/ StopLock \/ StopDone

Spec == Init /\ [][Next]_vars

-----------------------------------------------------------------------------
TypeOK == /\ queue \in [Funcs -> Status]
          /\ tree \in [Funcs -> Content]
          /\ lock \in Workers \cup {Stop, None}
          /\ journal \in [Workers -> Texts]
          /\ landing \subseteq Funcs \X Bodies
          /\ pc \in [Workers -> PC]
          /\ job \in [Workers -> Job]
          /\ held \in [Workers -> BOOLEAN]
          /\ seed \in [Workers -> Funcs \cup {None}]
          /\ stop \in {"no", "kill", "clear", "cleared", "replay", "done"}
          /\ overlooked \in BOOLEAN

\* The body is archived "before the queue can claim it exists": wherever the
\* worker is killed, interrupted or refused, a record is matched only if the
\* body that matched can be recovered.
MatchedIsArchived == \A f \in Funcs : queue[f] = "matched" => \E b \in Bodies : <<f, b>> \in landing

(***************************************************************************)
(* What is said of the tree below is said of a function that has its file  *)
(* to itself, and as long as no fleet_stop has overlooked a worker in the  *)
(* replay of its start.  Of the rest it is false.  In a file of two, the   *)
(* text that one worker remembers or journals holds the other's candidate, *)
(* or its stub, and puts it back: after a Ctrl-C without the lock, while   *)
(* the other builds; or as what is left when the journals of two dead      *)
(* workers are replayed in the order of their names.  And a replay that    *)
(* was overlooked goes on without its lock, next to anybody's edit.        *)
(***************************************************************************)
Alone(f) == \A g \in Funcs : FileOf[g] = FileOf[f] => g = f

\* What is archived as verified for a function with a file of its own did match:
\* no build is judged while somebody else's restore or replay has taken its
\* candidate out of the tree, which would verify the stub instead.  (Of a gated
\* function there may be two workers at once, see ClaimIsExclusive.)
LandingIsVerified ==
    ~overlooked => \A f \in Funcs \ Gated, b \in Bodies :
                      Alone(f) /\ <<f, b>> \in landing => b = "good"

\* A body in the tree that is not archived, in a file of its own that can be
\* written, can always be taken out again: some journal holds the stub, through
\* kills, interrupts, replays and restarts.  (Where a write fails after the
\* journal was written, nothing is restored and the worker's next journal
\* replaces the only copy.)
Restorable(f) == Alone(f) /\ FileOf[f] \notin BadFiles
EditIsRecoverable ==
    ~overlooked => \A f \in Funcs :
        Restorable(f) /\ tree[f] # "stub" /\ <<f, tree[f]>> \notin landing =>
            \E w \in Workers : f \in DOMAIN journal[w] /\ journal[w][f] = "stub"

\* After a fleet_stop that has overlooked nobody, a file of its own that can be
\* written holds no candidate: "after every worker is dead", the replay "makes
\* the restore unconditional".
StopLeavesCleanTree ==
    stop = "done" /\ ~overlooked => \A f \in Funcs :
        Restorable(f) => tree[f] = "stub" \/ <<f, tree[f]>> \in landing

\* A record that is being worked on is claimed by nobody else: "stealing the
\* claim would let two workers edit the same source file".
Working(w, f) == job[w].id = f /\ pc[w] \in Guarded
ClaimIsExclusive == \A f \in Funcs, v, w \in Workers : Working(v, f) /\ Working(w, f) => v = w

\* ... and is not, if its gate does not give the record back, no fleet_stop has
\* reclaimed it from a worker that it overlooked, and (PromptWorkers) no operator
\* from one that was slow.
UngatedClaimIsExclusive ==
    ~overlooked => \A f \in Funcs \ Gated, v, w \in Workers :
                      Working(v, f) /\ Working(w, f) => v = w

\* A matched record keeps its body in the tree: no journal "would write that
\* stub back over the matched function while the queue still recorded matched".
MatchedStaysInTree == \A f \in Funcs : queue[f] = "matched" => tree[f] # "stub"

-----------------------------------------------------------------------------
\* Who is inside a `with BuildLock`.
Critical == {w \in Workers : pc[w] \in InLock} \cup (IF stop = "replay" THEN {Stop} ELSE {})

Promised == INSTANCE ExclusiveLock WITH
                Proc <- Workers \cup {Stop},
                owner <- IF overlooked THEN None ELSE lock,
                inside <- IF overlooked THEN {} ELSE Critical

\* The fleet relies on no more of the lock than BuildLock provides, and takes
\* it away from nobody.  fleet_stop removes the lock file whoever it belongs to:
\* that is never the file of somebody inside, except of a worker in the replay
\* of its start that the stop overlooked, after which nothing is claimed.
LockIsExclusive == Promised!Spec
=============================================================================
