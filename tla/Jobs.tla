-------------------------------- MODULE Jobs --------------------------------
(***************************************************************************)
(* Detached jobs of automation/mcp/jobs.py.  A job is a shell that runs    *)
(* the command and then writes its exit code to <id>.done; callers in      *)
(* different processes (the connector, the permuter supervisor, its stop   *)
(* command) start, poll and cancel it through two files and a pid, and     *)
(* nobody waits for the shell: once dead it stays in the process table.    *)
(*                                                                         *)
(* What a job must have for itself, its action or its work directory, is   *)
(* its key.  An id is used once (the code makes them from the clock).      *)
(***************************************************************************)
EXTENDS Naturals

CONSTANTS
    Ids,        \* job ids
    Callers,    \* the processes that import the module
    Keys,       \* exclusive actions and permuter work directories
    None

ASSUME JobsAssumption == None \notin Ids \cup Keys

VARIABLES
    key,        \* key[j]: what the job uses, None before it is started
    shell,      \* shell[j]: the wrapper, the process whose pid is recorded
    command,    \* command[j]: the command it runs, with all its processes
    meta,       \* meta[j]: <id>.json
    done,       \* done[j]: <id>.done
    call,       \* call[p]: what p is doing, and to which job or key
    cancels     \* cancels[j]: the calls of cancel that have signalled j: 0, 1, or 2
                \* for more.  History: no step reads it

vars == <<key, shell, command, meta, done, call, cancels>>
os == <<key, shell, command>>
files == <<meta, done>>

Idle == [at |-> "idle", of |-> None, flagged |-> FALSE]

Init == /\ key = [j \in Ids |-> None]
        /\ shell = [j \in Ids |-> "none"]
        /\ command = [j \in Ids |-> "none"]
        /\ meta = [j \in Ids |-> "none"]
        /\ done = [j \in Ids |-> "none"]
        /\ call = [p \in Callers |-> Idle]
        /\ cancels = [j \in Ids |-> 0]

At(p, s) == call[p].at = s
Enter(p, s, x, f) == call' = [call EXCEPT ![p] = [at |-> s, of |-> x, flagged |-> f]]
Begin(p, s, x, f) == At(p, "idle") /\ Enter(p, s, x, f)
Continue(p, s) == call' = [call EXCEPT ![p].at = s]
Return(p) == call' = [call EXCEPT ![p] = Idle]

\* Asking the kernel whether the pid exists, which it does for a zombie.
AliveOrZombie(j) == shell[j] \in {"running", "writing", "dead"}

\* _alive(pid): the state in /proc is neither zombie nor dead.
Alive(j) == shell[j] \in {"running", "writing"}

\* _read_meta: an empty file reads like one that does not exist.
Recorded(j) == meta[j] \in {"written", "cancelled"}

\* running_jobs: recorded, without a sentinel, and alive.
Running(k) == {j \in Ids : key[j] = k /\ Recorded(j) /\ done[j] = "none" /\ Alive(j)}

-----------------------------------------------------------------------------
(* start() *)

\* No job with that key is running; otherwise start refuses and returns.
StartCheck(p, k) == /\ Running(k) = {}
                    /\ Begin(p, "checked", k, FALSE)
                    /\ UNCHANGED <<os, files, cancels>>

\* Popen, in a session of its own.
Spawn(p) == /\ At(p, "checked")
            /\ \E j \in Ids :
                 /\ key[j] = None
                 /\ key' = [key EXCEPT ![j] = call[p].of]
                 /\ shell' = [shell EXCEPT ![j] = "running"]
                 /\ command' = [command EXCEPT ![j] = "running"]
                 /\ Enter(p, "spawned", j, FALSE)
            /\ UNCHANGED <<files, cancels>>

\* Only now is the job on record.  (Until the text is in it the file is empty,
\* and nobody can tell that from "none".)
WriteMeta(p) == /\ At(p, "spawned")
                /\ meta' = [meta EXCEPT ![call[p].of] = "written"]
                /\ Return(p)
                /\ UNCHANGED <<os, done, cancels>>

-----------------------------------------------------------------------------
(* The job *)

CommandEnds(j) == /\ command[j] = "running"
                  /\ \E c \in {"ok", "failed"} : command' = [command EXCEPT ![j] = c]
                  /\ UNCHANGED <<key, shell, files, call, cancels>>

\* printf '%s' "$?" > <id>.done: the shell creates the file ...
OpenDone(j) == /\ shell[j] = "running" /\ command[j] # "running"
               /\ shell' = [shell EXCEPT ![j] = "writing"]
               /\ done' = [done EXCEPT ![j] = "empty"]
               /\ UNCHANGED <<key, command, meta, call, cancels>>

\* ... writes into it, and is done.
WriteDone(j) == /\ shell[j] = "writing"
                /\ done' = [done EXCEPT ![j] = command[j]]
                /\ shell' = [shell EXCEPT ![j] = "dead"]
                /\ UNCHANGED <<key, command, meta, call, cancels>>

\* The shell dies of cancel's SIGTERM, or is killed by anybody else; its
\* command may go on without it.
ShellDies(j) == /\ Alive(j)
                /\ shell' = [shell EXCEPT ![j] = "dead"]
                /\ UNCHANGED <<key, command, files, call, cancels>>

\* The caller's process ends: a connector restart, a Ctrl-C.
CallerDies(p) == /\ ~At(p, "idle")
                 /\ Return(p)
                 /\ UNCHANGED <<os, files, cancels>>

-----------------------------------------------------------------------------
(* status() *)

\* The metadata is read first, and the flag in it is what will be returned.
StatusBegin(p, j) == /\ Recorded(j)
                     /\ Begin(p, "polling", j, meta[j] = "cancelled")
                     /\ UNCHANGED <<os, files, cancels>>

\* An empty sentinel taken for success.
CodeOrZero(d) == IF d = "empty" THEN "ok" ELSE d

\* int(text or "1"): an empty sentinel is a failure.
Code(d) == IF d = "empty" THEN "failed" ELSE d

\* What status() of p says of a job with a sentinel.
Answer(p) == [code |-> Code(done[call[p].of]), cancelled |-> call[p].flagged]

\* There is a sentinel: p is told Answer(p).
StatusDone(p) == /\ At(p, "polling") /\ done[call[p].of] # "none"
                 /\ Return(p)
                 /\ UNCHANGED <<os, files, cancels>>

\* There is none by the deadline ...
StatusLate(p) == /\ At(p, "polling") /\ done[call[p].of] = "none"
                 /\ Continue(p, "late")
                 /\ UNCHANGED <<os, files, cancels>>

\* ... so p is told "running" or "vanished", as Alive now is.
StatusAlive(p) == /\ At(p, "late")
                  /\ Return(p)
                  /\ UNCHANGED <<os, files, cancels>>

-----------------------------------------------------------------------------
(* cancel() *)

\* killpg(SIGTERM).  A pid that was reaped is an error that changes nothing.
Cancel(p, j) == /\ Recorded(j)
                /\ Begin(p, "termed", j, FALSE)
                /\ cancels' = [cancels EXCEPT ![j] = IF @ = 0 THEN 1 ELSE 2]
                /\ UNCHANGED <<os, files>>

\* A cancel that trusts its SIGTERM.
CancelTrustsTerm(p) == /\ At(p, "termed")
                       /\ Continue(p, "ended")
                       /\ UNCHANGED <<os, files, cancels>>

\* Within two seconds the pid is no longer alive ...
CancelSeesDead(p) == /\ At(p, "termed") /\ ~Alive(call[p].of)
                     /\ Continue(p, "ended")
                     /\ UNCHANGED <<os, files, cancels>>

\* ... or it still is, at the last look ...
CancelSeesAlive(p) == /\ At(p, "termed") /\ Alive(call[p].of)
                      /\ Continue(p, "survived")
                      /\ UNCHANGED <<os, files, cancels>>

\* ... and the whole group gets SIGKILL.
CancelKills(p) ==
    LET j == call[p].of
    IN /\ At(p, "survived")
       /\ shell' = [shell EXCEPT ![j] = "dead"]
       /\ command' = [command EXCEPT ![j] = IF @ = "running" THEN "failed" ELSE @]
       /\ Continue(p, "ended")
       /\ UNCHANGED <<key, files, cancels>>

\* Going on without a sentinel, which a killed shell never writes.
LeaveSentinel(p) == /\ At(p, "ended")
                    /\ Continue(p, "signed")
                    /\ UNCHANGED <<os, files, cancels>>

\* Whatever the sentinel says, write_text empties it ...
EmptySentinel(p) == /\ At(p, "ended")
                    /\ done' = [done EXCEPT ![call[p].of] = "empty"]
                    /\ Continue(p, "emptied")
                    /\ UNCHANGED <<os, meta, cancels>>

\* ... and then writes 143 or 137.
WriteSentinel(p) == /\ At(p, "emptied")
                    /\ done' = [done EXCEPT ![call[p].of] = "signal"]
                    /\ Continue(p, "signed")
                    /\ UNCHANGED <<os, meta, cancels>>

\* The metadata is emptied likewise ...
EmptyMeta(p) == /\ At(p, "signed")
                /\ meta' = [meta EXCEPT ![call[p].of] = "empty"]
                /\ Continue(p, "flagging")
                /\ UNCHANGED <<os, done, cancels>>

\* ... and written with the flag.  A write that fails leaves the files as they
\* are and ends the call, which CallerDies does too.
WriteFlag(p) == /\ At(p, "flagging")
                /\ meta' = [meta EXCEPT ![call[p].of] = "cancelled"]
                /\ Return(p)
                /\ UNCHANGED <<os, done, cancels>>

-----------------------------------------------------------------------------
Shell(j) == OpenDone(j) \/ WriteDone(j)

Advance(p) == \/ Spawn(p) \/ WriteMeta(p)
              \/ StatusDone(p) \/ StatusLate(p) \/ StatusAlive(p)
              \/ CancelSeesDead(p) \/ CancelSeesAlive(p) \/ CancelKills(p)
              \/ EmptySentinel(p) \/ WriteSentinel(p) \/ EmptyMeta(p) \/ WriteFlag(p)

Next == \/ \E p \in Callers : \/ \E k \in Keys : StartCheck(p, k)
                              \/ \E j \in Ids : StatusBegin(p, j) \/ Cancel(p, j)
                              \/ Advance(p) \/ CallerDies(p)
        \/ \E j \in Ids : CommandEnds(j) \/ Shell(j) \/ ShellDies(j)

\* Commands end, and the shell goes on after them.  Nothing makes a caller
\* poll or cancel.
Fairness == \A j \in Ids : WF_vars(CommandEnds(j)) /\ WF_vars(Shell(j))

Spec == Init /\ [][Next]_vars /\ Fairness

-----------------------------------------------------------------------------
\* The type of the state.  A job has a process once it has a key, and files only then.
TypeOK == /\ key \in [Ids -> Keys \cup {None}]
          /\ shell \in [Ids -> {"none", "running", "writing", "dead"}]
          /\ command \in [Ids -> {"none", "running", "ok", "failed"}]
          /\ meta \in [Ids -> {"none", "written", "empty", "cancelled"}]
          /\ done \in [Ids -> {"none", "empty", "ok", "failed", "signal"}]
          /\ cancels \in [Ids -> 0..2]
          /\ call \in [Callers -> [at: {"idle", "checked", "spawned", "polling", "late",
                                        "termed", "survived", "ended", "emptied",
                                        "signed", "flagging"},
                                   of: Ids \cup Keys \cup {None}, flagged: BOOLEAN]]
          /\ \A j \in Ids : /\ key[j] = None <=> shell[j] = "none"
                            /\ meta[j] # "none" \/ done[j] # "none" => key[j] # None

\* What the caller of status() acts on: ok means that the command ended with
\* code 0, though the sentinel is written in two steps, the shell may be killed
\* between them, and a cancel may write over it.
OkIsReal == [][\A p \in Callers : StatusDone(p) /\ Answer(p).code = "ok"
                                    => command[call[p].of] = "ok"]_vars

\* A job that says that it was cancelled has a sentinel with the signal that
\* stopped it, whatever the shell does late and whoever dies: it is never called
\* vanished, and never has the code of its command.  Only a second cancel of the
\* job takes the signal's code out of it again, until it has written its own, and
\* for good if it is killed before: the empty sentinel then counts as code 1.
CancelIsNotACrash ==
    \A j \in Ids : meta[j] = "cancelled" => \/ done[j] = "signal"
                                             \/ (done[j] = "empty" /\ cancels[j] > 1)

\* p is in the middle of starting a job with the key k.
Starting(p, k) == \/ At(p, "checked") /\ call[p].of = k
                  \/ At(p, "spawned") /\ key[call[p].of] = k

\* No two callers start a job of one key at once: nothing in start() sees to it.
StartsAreSerial ==
    \A p, q \in Callers, k \in Keys : Starting(p, k) /\ Starting(q, k) => p = q

\* Of the jobs that are listed as running no two have the same key: a start
\* "refuses to launch when another job of the same action is still running".
KeyIsExclusive == \A k \in Keys : \A i, j \in Running(k) : i = j

\* A job does not occupy its key for ever: it stops being listed as running,
\* though nobody polls, cancels or reaps it, and its shell may have been killed.
KeyIsFreed == \A j \in Ids : j \in Running(key[j]) ~> j \notin Running(key[j])

-----------------------------------------------------------------------------
\* What has become of j, by its files and, as long as they do not say, by its
\* wrapper: what status() tells, but for the code that is still being written.
BySentinel(j) == CASE done[j] = "none"   -> IF Alive(j) THEN "running" ELSE "vanished"
                   [] done[j] = "empty"  -> IF Alive(j) THEN "ending" ELSE "failed"
                   [] done[j] = "signal" -> "stopped"
                   [] OTHER              -> done[j]
LifeOf(j) == IF key[j] = None THEN "none" ELSE BySentinel(j)

Lives == [j \in Ids |-> LifeOf(j)]

Promised == INSTANCE JobLife WITH life <- Lives, record <- meta

\* Two processes that start, poll and cancel jobs, and die, give each job one
\* life: it is never taken back to running, its own code is written once and only
\* by its wrapper, nothing but a cancel writes over that, and never with an ok;
\* and no job is flagged, or lost from the record, but by a cancel that has left
\* the signal's code there, or an empty one.
ImplementsJobLife == Promised!Spec
=============================================================================
