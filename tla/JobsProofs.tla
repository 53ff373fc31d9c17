----------------------------- MODULE JobsProofs -----------------------------
(***************************************************************************)
(* Theorems about Jobs, for any jobs, callers and keys.                    *)
(*                                                                         *)
(* What makes the sentinel trustworthy is who can still write it: the      *)
(* shell while it is alive, and cancel only after it has seen the shell    *)
(* dead or has killed it.  So a cancel is always the last writer.          *)
(***************************************************************************)
EXTENDS Jobs, TLAPS

\* The names of a call's job are those of a job that was started.
CallInv == \A p \in Callers :
             /\ At(p, "checked") => call[p].of \in Keys
             /\ call[p].at \notin {"idle", "checked"} => /\ call[p].of \in Ids
                                                         /\ key[call[p].of] # None

\* A sentinel that says ok was written by the shell of a command that ended so.
SentinelInv == \A j \in Ids :
                 /\ done[j] = "ok" => command[j] = "ok"
                 /\ shell[j] = "writing" => command[j] \in {"ok", "failed"}
                 /\ shell[j] # "none" => command[j] # "none"

\* The places in cancel, from its signal on.
Cancelling == {"termed", "survived", "ended", "emptied", "signed", "flagging"}

\* The sentinel of a job that a cancel has seen dead and signed.
Signed(j) == done[j] = "signal" \/ (done[j] = "empty" /\ cancels[j] > 1)

\* From the moment cancel goes on, nobody but a cancel writes the sentinel; and
\* what two of them can do to each other, both have been counted.
CancelInv == /\ \A j \in Ids : meta[j] \in {"empty", "cancelled"}
                                 => shell[j] = "dead" /\ cancels[j] > 0 /\ Signed(j)
             /\ \A p \in Callers : call[p].at \in Cancelling
                   => /\ cancels[call[p].of] > 0
                      /\ meta[call[p].of] # "none"
                      /\ meta[call[p].of] \in {"empty", "cancelled"} /\ ~At(p, "flagging")
                           => cancels[call[p].of] > 1
             /\ \A p, q \in Callers : /\ call[p].at \in Cancelling /\ call[q].at \in Cancelling
                                       /\ call[p].of = call[q].of /\ p # q
                                       => cancels[call[p].of] > 1
             /\ \A p \in Callers :
                  /\ call[p].at \in {"ended", "emptied", "signed", "flagging"}
                       => shell[call[p].of] = "dead"
                  /\ At(p, "emptied") => done[call[p].of] \in {"empty", "signal"}
                  /\ call[p].at \in {"signed", "flagging"} => Signed(call[p].of)

IInv == TypeOK /\ CallInv /\ SentinelInv /\ CancelInv

-----------------------------------------------------------------------------
\* The initial states satisfy the invariant.
LEMMA InitInv == Init => IInv
BY JobsAssumption DEF Init, IInv, TypeOK, CallInv, SentinelInv, CancelInv, Cancelling, Idle, At

\* Every step keeps it.
LEMMA StepInv == IInv /\ [Next]_vars => IInv'
<1> SUFFICES ASSUME IInv, [Next]_vars PROVE IInv'
    OBVIOUS
<1> USE JobsAssumption DEF IInv, TypeOK, CallInv, SentinelInv, CancelInv, Cancelling, Signed,
                          At, os, files
<1>1. ASSUME NEW p \in Callers, NEW k \in Keys, StartCheck(p, k) PROVE IInv'
  BY <1>1 DEF StartCheck, Begin, Enter
<1>2. ASSUME NEW p \in Callers, NEW j \in Ids, StatusBegin(p, j) PROVE IInv'
  BY <1>2 DEF StatusBegin, Recorded, Begin, Enter
<1>3. ASSUME NEW p \in Callers, NEW j \in Ids, Cancel(p, j) PROVE IInv'
  <2>1. /\ UNCHANGED <<os, files>> /\ Recorded(j) /\ At(p, "idle")
        /\ call' = [call EXCEPT ![p] = [at |-> "termed", of |-> j, flagged |-> FALSE]]
        /\ cancels' = [cancels EXCEPT ![j] = IF @ = 0 THEN 1 ELSE 2]
    BY <1>3 DEF Cancel, Begin, Enter
  <2>2. cancels'[j] > 0 /\ (cancels[j] > 0 => cancels'[j] > 1)
    BY <2>1
  <2>3. \A i \in Ids : cancels'[i] \in 0..2 /\ cancels'[i] >= cancels[i]
    BY <2>1
  <2>4. TypeOK' /\ CallInv' /\ SentinelInv'
    BY <2>1 DEF Recorded
  <2>5. CancelInv'
    BY <2>1, <2>2, <2>3 DEF Recorded
  <2> QED BY <2>4, <2>5
<1>4. ASSUME NEW p \in Callers, Spawn(p) PROVE IInv'
  <2>1. PICK j \in Ids : /\ key[j] = None
                         /\ key' = [key EXCEPT ![j] = call[p].of]
                         /\ shell' = [shell EXCEPT ![j] = "running"]
                         /\ command' = [command EXCEPT ![j] = "running"]
                         /\ call' = [call EXCEPT ![p] = [at |-> "spawned", of |-> j, flagged |-> FALSE]]
    BY <1>4 DEF Spawn, Enter
  <2>2. call[p].of \in Keys /\ meta' = meta /\ done' = done /\ cancels' = cancels
    BY <1>4 DEF Spawn
  <2>3. meta[j] = "none" /\ done[j] = "none" /\ shell[j] = "none"
    BY <2>1
  <2>4. TypeOK'
    BY <2>1, <2>2, <2>3
  <2>5. CallInv'
    BY <2>1, <2>2
  <2>6. SentinelInv'
    BY <2>1, <2>2, <2>3
  <2>7. CancelInv'
    BY <2>1, <2>2, <2>3
  <2> QED BY <2>4, <2>5, <2>6, <2>7
<1>5. ASSUME NEW p \in Callers, WriteMeta(p) PROVE IInv'
  BY <1>5 DEF WriteMeta, Return, Idle
<1>6. ASSUME NEW p \in Callers, StatusDone(p) \/ StatusAlive(p) \/ CallerDies(p) PROVE IInv'
  <2>1. UNCHANGED <<os, files, cancels>> /\ call' = [call EXCEPT ![p] = Idle]
    BY <1>6 DEF StatusDone, StatusAlive, CallerDies, Return
  <2> QED BY <2>1 DEF Idle
<1>7. ASSUME NEW p \in Callers, StatusLate(p) PROVE IInv'
  BY <1>7 DEF StatusLate, Continue
<1>19. ASSUME NEW p \in Callers, CancelSeesAlive(p) PROVE IInv'
  BY <1>19 DEF CancelSeesAlive, Continue
<1>8. ASSUME NEW p \in Callers, CancelSeesDead(p) PROVE IInv'
  BY <1>8 DEF CancelSeesDead, Continue, Alive
<1>9. ASSUME NEW p \in Callers, CancelKills(p) PROVE IInv'
  BY <1>9 DEF CancelKills, Continue
<1>10. ASSUME NEW p \in Callers, EmptySentinel(p) PROVE IInv'
  BY <1>10 DEF EmptySentinel, Continue
<1>17. ASSUME NEW p \in Callers, WriteSentinel(p) PROVE IInv'
  BY <1>17 DEF WriteSentinel, Continue
<1>18. ASSUME NEW p \in Callers, EmptyMeta(p) PROVE IInv'
  BY <1>18 DEF EmptyMeta, Continue
<1>11. ASSUME NEW p \in Callers, WriteFlag(p) PROVE IInv'
  BY <1>11 DEF WriteFlag, Return, Idle
<1>12. ASSUME NEW j \in Ids, CommandEnds(j) PROVE IInv'
  BY <1>12 DEF CommandEnds
<1>13. ASSUME NEW j \in Ids, OpenDone(j) PROVE IInv'
  BY <1>13 DEF OpenDone
<1>14. ASSUME NEW j \in Ids, WriteDone(j) PROVE IInv'
  BY <1>14 DEF WriteDone
<1>15. ASSUME NEW j \in Ids, ShellDies(j) PROVE IInv'
  BY <1>15 DEF ShellDies, Alive
<1>16. ASSUME UNCHANGED vars PROVE IInv'
  BY <1>16 DEF vars
<1> QED
  BY <1>1, <1>2, <1>3, <1>4, <1>5, <1>6, <1>7, <1>8, <1>9, <1>10, <1>11, <1>12, <1>13,
     <1>14, <1>15, <1>16, <1>17, <1>18, <1>19 DEF Next, Advance, Shell

-----------------------------------------------------------------------------
\* The invariant that says who may still write a job's sentinel holds always.
THEOREM JobsInvariant == Spec => []IInv
<1> QED BY InitInv, StepInv, PTL DEF Spec

\* The types of the jobs, their files and the calls under way.
THEOREM JobsTypeOK == Spec => []TypeOK
<1>1. IInv => TypeOK
  BY DEF IInv
<1> QED BY <1>1, JobsInvariant, PTL

\* cancel() of any callers, any of which may die: a job that is flagged has the
\* signal's code, unless a second cancel of it emptied the sentinel again.
THEOREM CancelledJobsAreNotCrashes == Spec => []CancelIsNotACrash
<1>1. IInv => CancelIsNotACrash
  BY DEF IInv, CancelInv, Signed, CancelIsNotACrash
<1> QED BY <1>1, JobsInvariant, PTL

\* status() of any caller: it says ok only of a command that ended with code 0.
THEOREM OkIsTheCommands == Spec => OkIsReal
<1> DEFINE Told == \A p \in Callers : StatusDone(p) /\ Answer(p).code = "ok"
                                        => command[call[p].of] = "ok"
<1>1. IInv /\ [Next]_vars => [Told]_vars
  <2> SUFFICES ASSUME IInv, NEW p \in Callers, StatusDone(p), Answer(p).code = "ok"
               PROVE command[call[p].of] = "ok"
      OBVIOUS
  <2>1. call[p].of \in Ids
    BY DEF IInv, CallInv, StatusDone, At
  <2>2. done[call[p].of] = "ok"
    BY DEF Answer, Code
  <2> QED BY <2>1, <2>2 DEF IInv, SentinelInv
<1> QED BY <1>1, JobsInvariant, PTL DEF Spec, OkIsReal
-----------------------------------------------------------------------------
(* The life of a job *)

\* The sentinel while the wrapper has not ended.
WrapperInv == \A j \in Ids : /\ shell[j] = "running" => done[j] = "none"
                             /\ shell[j] = "writing" => done[j] = "empty"

\* A job is listed by the one caller that launched it, and cancelled only then.
ListInv == /\ \A p \in Callers : At(p, "spawned") => meta[call[p].of] = "none"
           /\ \A p, q \in Callers : At(p, "spawned") /\ At(q, "spawned")
                                      /\ call[p].of = call[q].of => p = q
           /\ \A p \in Callers : At(p, "flagging")
                                  => meta[call[p].of] \in {"empty", "cancelled"}

LifeInv == IInv /\ WrapperInv /\ ListInv

\* The wrapper's part is kept by every step.
LEMMA WrapperStep == ASSUME IInv, WrapperInv, [Next]_vars PROVE WrapperInv'
<1> USE DEF IInv, TypeOK, CallInv, CancelInv, WrapperInv, At, os, files
<1>1. ASSUME NEW p \in Callers, Spawn(p) PROVE WrapperInv'
  BY <1>1 DEF Spawn
<1>2. ASSUME NEW p \in Callers, EmptySentinel(p) \/ WriteSentinel(p) PROVE WrapperInv'
  BY <1>2 DEF EmptySentinel, WriteSentinel
<1>3. ASSUME NEW p \in Callers, CancelKills(p) PROVE WrapperInv'
  BY <1>3 DEF CancelKills
<1>4. ASSUME NEW j \in Ids, Shell(j) \/ ShellDies(j) PROVE WrapperInv'
  BY <1>4 DEF Shell, OpenDone, WriteDone, ShellDies
<1>5. CASE UNCHANGED <<shell, done>>
  BY <1>5
<1> QED
  BY <1>1, <1>2, <1>3, <1>4, <1>5
  DEF Next, Advance, StartCheck, StatusBegin, Cancel, WriteMeta, StatusDone, StatusLate,
      StatusAlive, CancelSeesDead, CancelSeesAlive, EmptyMeta, WriteFlag, CallerDies,
      CommandEnds, vars

\* Who has launched a job, and who cancels one.
LEMMA ListStep == ASSUME IInv, ListInv, [Next]_vars PROVE ListInv'
<1> USE DEF IInv, TypeOK, CallInv, CancelInv, Cancelling, ListInv, At, os, files
<1>1. ASSUME NEW p \in Callers, NEW k \in Keys, StartCheck(p, k) PROVE ListInv'
  BY <1>1 DEF StartCheck, Begin, Enter
<1>2. ASSUME NEW p \in Callers, NEW j \in Ids, StatusBegin(p, j) PROVE ListInv'
  BY <1>2 DEF StatusBegin, Begin, Enter
<1>3. ASSUME NEW p \in Callers, Spawn(p) PROVE ListInv'
  <2>1. PICK j \in Ids : /\ key[j] = None
                         /\ call' = [call EXCEPT ![p] = [at |-> "spawned", of |-> j, flagged |-> FALSE]]
    BY <1>3 DEF Spawn, Enter
  <2>2. meta' = meta /\ meta[j] = "none"
    BY <1>3, <2>1 DEF Spawn
  <2>3. \A q \in Callers : At(q, "spawned") => call[q].of # j
    BY <2>1
  <2> QED BY <2>1, <2>2, <2>3
<1>4. ASSUME NEW p \in Callers, WriteMeta(p) PROVE ListInv'
  BY <1>4 DEF WriteMeta, Return, Idle
<1>5. ASSUME NEW p \in Callers, StatusDone(p) \/ StatusAlive(p) \/ CallerDies(p) PROVE ListInv'
  <2>1. UNCHANGED meta /\ call' = [call EXCEPT ![p] = Idle]
    BY <1>5 DEF StatusDone, StatusAlive, CallerDies, Return
  <2> QED BY <2>1 DEF Idle
<1>6. ASSUME NEW p \in Callers, StatusLate(p) \/ CancelSeesAlive(p) \/ CancelSeesDead(p)
      PROVE  ListInv'
  BY <1>6 DEF StatusLate, CancelSeesAlive, CancelSeesDead, Continue
<1>7. ASSUME NEW p \in Callers, CancelKills(p) \/ EmptySentinel(p) \/ WriteSentinel(p)
      PROVE  ListInv'
  <2>1. /\ UNCHANGED meta /\ call[p].at \in {"survived", "ended", "emptied"}
        /\ \E s \in {"ended", "emptied", "signed"} : call' = [call EXCEPT ![p].at = s]
    BY <1>7 DEF CancelKills, EmptySentinel, WriteSentinel, Continue
  <2> QED BY <2>1
<1>11. ASSUME NEW p \in Callers, EmptyMeta(p) PROVE ListInv'
  BY <1>11 DEF EmptyMeta, Continue, Cancelling
<1>8. ASSUME NEW p \in Callers, WriteFlag(p) PROVE ListInv'
  BY <1>8 DEF WriteFlag, Return, Idle
<1>9. CASE UNCHANGED <<meta, call>>
  BY <1>9
<1>10. ASSUME NEW p \in Callers, NEW j \in Ids, Cancel(p, j) PROVE ListInv'
  BY <1>10 DEF Cancel, Begin, Enter
<1> QED
  BY <1>1, <1>2, <1>3, <1>4, <1>5, <1>6, <1>7, <1>8, <1>9, <1>10, <1>11
  DEF Next, Advance, Shell, CommandEnds, OpenDone, WriteDone, ShellDies, vars

\* A step that touches one job changes one life.
LEMMA OneLife ==
  ASSUME NEW j \in Ids, NEW s, LifeOf(j)' = s,
         \A i \in Ids \ {j} : LifeOf(i)' = LifeOf(i)
  PROVE  Lives' = [Lives EXCEPT ![j] = s]
BY DEF Lives

\* What the wrapper does to the life of its job.
LEMMA ShellRefines ==
  ASSUME LifeInv, NEW j \in Ids, Shell(j) \/ ShellDies(j)
  PROVE  Promised!Next
<1> USE DEF LifeInv, IInv, TypeOK, CancelInv, SentinelInv, WrapperInv
<1>1. UNCHANGED <<key, meta>> /\ key[j] # None
  BY DEF Shell, OpenDone, WriteDone, ShellDies, Alive, files
<1>2. \A i \in Ids \ {j} : LifeOf(i)' = LifeOf(i)
  BY <1>1 DEF Shell, OpenDone, WriteDone, ShellDies, LifeOf, BySentinel, Alive, files
<1>3. Lives[j] = LifeOf(j)
  BY DEF Lives
<1>4. CASE OpenDone(j)
  <2>1. LifeOf(j) = "running" /\ LifeOf(j)' = "ending"
    BY <1>1, <1>4 DEF OpenDone, LifeOf, BySentinel, Alive
  <2>2. Promised!End(j)
    BY <1>1, <1>2, <1>3, <2>1, OneLife DEF Promised!End, Promised!Becomes
  <2> QED BY <2>2 DEF Promised!Next
<1>5. CASE WriteDone(j)
  <2>1. LifeOf(j) = "ending" /\ LifeOf(j)' \in {"ok", "failed"}
    BY <1>1, <1>5 DEF WriteDone, LifeOf, BySentinel, Alive
  <2>2. Promised!Settle(j)
    BY <1>1, <1>2, <1>3, <2>1, OneLife DEF Promised!Settle, Promised!Becomes
  <2> QED BY <2>2 DEF Promised!Next
<1>6. CASE ShellDies(j) /\ shell[j] = "running"
  <2>1. LifeOf(j) = "running" /\ LifeOf(j)' = "vanished"
    BY <1>1, <1>6 DEF ShellDies, LifeOf, BySentinel, Alive, files
  <2>2. Promised!Vanish(j)
    BY <1>1, <1>2, <1>3, <2>1, OneLife DEF Promised!Vanish, Promised!Becomes
  <2> QED BY <2>2 DEF Promised!Next
<1>7. CASE ShellDies(j) /\ shell[j] = "writing"
  <2>1. LifeOf(j) = "ending" /\ LifeOf(j)' = "failed"
    BY <1>1, <1>7 DEF ShellDies, LifeOf, BySentinel, Alive, files
  <2>2. Promised!Settle(j)
    BY <1>1, <1>2, <1>3, <2>1, OneLife DEF Promised!Settle, Promised!Becomes
  <2> QED BY <2>2 DEF Promised!Next
<1> QED BY <1>4, <1>5, <1>6, <1>7 DEF Shell, ShellDies, Alive

\* What a start does: the job is launched, and then listed.
LEMMA StartRefines ==
  ASSUME LifeInv, NEW p \in Callers, Spawn(p) \/ WriteMeta(p)
  PROVE  Promised!Next
<1> USE DEF LifeInv, IInv, TypeOK, CallInv, WrapperInv, ListInv, At
<1>1. CASE Spawn(p)
  <2>1. PICK j \in Ids : /\ key[j] = None
                         /\ key' = [key EXCEPT ![j] = call[p].of]
                         /\ shell' = [shell EXCEPT ![j] = "running"]
    BY <1>1 DEF Spawn
  <2>2. /\ UNCHANGED <<meta, done>> /\ call[p].of # None
        /\ meta[j] = "none" /\ done[j] = "none"
    BY <1>1, <2>1, JobsAssumption DEF Spawn, files
  <2>3. LifeOf(j) = "none" /\ LifeOf(j)' = "running"
    BY <2>1, <2>2 DEF LifeOf, BySentinel, Alive
  <2>4. \A i \in Ids \ {j} : LifeOf(i)' = LifeOf(i)
    BY <2>1, <2>2 DEF LifeOf, BySentinel, Alive
  <2>5. Promised!Launch(j)
    BY <2>2, <2>3, <2>4, OneLife DEF Promised!Launch, Promised!Becomes, Lives
  <2> QED BY <2>5 DEF Promised!Next
<1>2. CASE WriteMeta(p)
  <2> DEFINE j == call[p].of
  <2>1. /\ j \in Ids /\ key[j] # None /\ meta[j] = "none"
        /\ meta' = [meta EXCEPT ![j] = "written"]
        /\ UNCHANGED <<key, shell, done>>
    BY <1>2 DEF WriteMeta, os
  <2>2. Lives' = Lives
    BY <2>1 DEF Lives, LifeOf, BySentinel, Alive
  <2>3. Lives[j] # "none"
    BY <2>1 DEF Lives, LifeOf, BySentinel
  <2>4. Promised!List(j)
    BY <2>1, <2>2, <2>3 DEF Promised!List, Promised!Says
  <2> QED BY <2>1, <2>4 DEF Promised!Next
<1> QED BY <1>1, <1>2

\* What a cancel does to the processes and to the sentinel.
LEMMA StopRefines ==
  ASSUME LifeInv, NEW p \in Callers, CancelKills(p) \/ EmptySentinel(p) \/ WriteSentinel(p)
  PROVE  [Promised!Next]_(Promised!vars)
<1> USE DEF LifeInv, IInv, TypeOK, CallInv, CancelInv, Cancelling, SentinelInv, WrapperInv, At
<1>1. PICK j \in Ids : /\ j = call[p].of
                       /\ key[j] # None /\ meta[j] # "none" /\ UNCHANGED <<key, meta>>
                       /\ Lives[j] = LifeOf(j)
  BY DEF CancelKills, EmptySentinel, WriteSentinel, Lives, os, files
<1>3. \A i \in Ids \ {j} : LifeOf(i)' = LifeOf(i)
  BY <1>1 DEF CancelKills, EmptySentinel, WriteSentinel, LifeOf, BySentinel, Alive, os, files
<1>4. CASE LifeOf(j)' = LifeOf(j)
  BY <1>1, <1>3, <1>4 DEF Lives, Promised!vars
<1>5. CASE CancelKills(p)
  <2>1. shell'[j] = "dead" /\ UNCHANGED done
    BY <1>1, <1>5 DEF CancelKills, files
  <2>2. CASE shell[j] = "running"
    <3>1. LifeOf(j) = "running" /\ LifeOf(j)' = "vanished"
      BY <1>1, <2>1, <2>2 DEF LifeOf, BySentinel, Alive
    <3>2. Promised!Vanish(j)
      BY <1>1, <1>3, <3>1, OneLife DEF Promised!Vanish, Promised!Becomes
    <3> QED BY <1>1, <3>2 DEF Promised!Next
  <2>3. CASE shell[j] = "writing"
    <3>1. LifeOf(j) = "ending" /\ LifeOf(j)' = "failed"
      BY <1>1, <2>1, <2>3 DEF LifeOf, BySentinel, Alive
    <3>2. Promised!Settle(j)
      BY <1>1, <1>3, <3>1, OneLife DEF Promised!Settle, Promised!Becomes
    <3> QED BY <1>1, <3>2 DEF Promised!Next
  <2>4. CASE shell[j] = "dead"
    <3>1. LifeOf(j)' = LifeOf(j)
      BY <1>1, <2>1, <2>4 DEF LifeOf, BySentinel, Alive
    <3> QED BY <1>4, <3>1
  <2> QED BY <1>1, <2>2, <2>3, <2>4
<1>6. CASE EmptySentinel(p)
  <2>1. shell[j] = "dead" /\ done'[j] = "empty" /\ UNCHANGED shell
    BY <1>1, <1>6 DEF EmptySentinel, os
  <2>2. LifeOf(j) \in {"ok", "failed", "vanished", "stopped"} /\ LifeOf(j)' = "failed"
    BY <1>1, <2>1 DEF LifeOf, BySentinel, Alive
  <2>3. CASE LifeOf(j) # "failed"
    <3>1. Promised!Clear(j)
      BY <1>1, <1>3, <2>2, <2>3, OneLife DEF Promised!Clear, Promised!Becomes
    <3> QED BY <1>1, <3>1 DEF Promised!Next
  <2> QED BY <1>4, <2>2, <2>3
<1>7. CASE WriteSentinel(p)
  <2>1. /\ shell[j] = "dead" /\ done'[j] = "signal" /\ UNCHANGED shell
        /\ done[j] \in {"empty", "signal"}
    BY <1>1, <1>7 DEF WriteSentinel, os
  <2>2. LifeOf(j) \in {"failed", "stopped"} /\ LifeOf(j)' = "stopped"
    BY <1>1, <2>1 DEF LifeOf, BySentinel, Alive
  <2>3. CASE LifeOf(j) # "stopped"
    <3>1. Promised!Stop(j)
      BY <1>1, <1>3, <2>2, <2>3, OneLife DEF Promised!Stop, Promised!Becomes
    <3> QED BY <1>1, <3>1 DEF Promised!Next
  <2> QED BY <1>4, <2>2, <2>3
<1> QED BY <1>5, <1>6, <1>7

\* What a cancel does to the metadata.
LEMMA FlagRefines ==
  ASSUME LifeInv, NEW p \in Callers, EmptyMeta(p) \/ WriteFlag(p)
  PROVE  [Promised!Next]_(Promised!vars)
<1> USE DEF LifeInv, IInv, TypeOK, CallInv, CancelInv, Cancelling, Signed, ListInv, At
<1>1. PICK j \in Ids : /\ j = call[p].of
                       /\ key[j] # None /\ meta[j] # "none" /\ UNCHANGED <<key, shell, done>>
                       /\ shell[j] = "dead" /\ done[j] \in {"empty", "signal"}
  BY DEF EmptyMeta, WriteFlag, os
<1>2. Lives' = Lives /\ Lives[j] \in {"failed", "stopped"}
  BY <1>1 DEF Lives, LifeOf, BySentinel, Alive
<1>3. CASE meta' = meta
  BY <1>2, <1>3 DEF Promised!vars
<1>4. CASE EmptyMeta(p) /\ meta[j] # "empty"
  <2>1. Promised!Lose(j)
    BY <1>1, <1>2, <1>4 DEF EmptyMeta, Promised!Lose, Promised!Says
  <2> QED BY <1>1, <2>1 DEF Promised!Next
<1>5. CASE WriteFlag(p) /\ meta[j] # "cancelled"
  <2>1. Promised!Flag(j)
    BY <1>1, <1>2, <1>5 DEF WriteFlag, Promised!Flag, Promised!Says
  <2> QED BY <1>1, <2>1 DEF Promised!Next
<1> QED BY <1>1, <1>3, <1>4, <1>5 DEF EmptyMeta, WriteFlag

\* Every step is one of the promised life, or none.
LEMMA LifeRefines == ASSUME LifeInv, [Next]_vars PROVE [Promised!Next]_(Promised!vars)
<1>1. CASE UNCHANGED <<key, shell, meta, done>>
  BY <1>1 DEF Promised!vars, Lives, LifeOf, BySentinel, Alive
<1> QED
  BY <1>1, ShellRefines, StartRefines, StopRefines, FlagRefines
  DEF Next, Advance, StartCheck, StatusBegin, Cancel, StatusDone, StatusLate, StatusAlive,
      CancelSeesDead, CancelSeesAlive, CallerDies, CommandEnds, vars, os, files

\* start, its wrapper, status and cancel, in any number of processes any of
\* which may die, give each job the one life that JobLife promises.
THEOREM JobsHaveOneLife == Spec => ImplementsJobLife
<1>1. Init => LifeInv
  BY InitInv DEF Init, LifeInv, WrapperInv, ListInv, Idle, At
<1>2. LifeInv /\ [Next]_vars => LifeInv'
  BY StepInv, WrapperStep, ListStep DEF LifeInv
<1>3. LifeInv /\ [Next]_vars => [Promised!Next]_(Promised!vars)
  BY LifeRefines
<1>4. Init => Promised!Init
  BY DEF Init, Promised!Init, Lives, LifeOf
<1> QED BY <1>1, <1>2, <1>3, <1>4, PTL DEF Spec, ImplementsJobLife, Promised!Spec
-----------------------------------------------------------------------------
(* One job per key *)

\* Nothing with that key runs while a job of it is started.
KeyInv == KeyIsExclusive /\ \A p \in Callers, k \in Keys : Starting(p, k) => Running(k) = {}

\* Only a start adds to what is listed as running.
LEMMA RunningShrinks ==
  ASSUME LifeInv, NEW k \in Keys, [Next]_vars, \A p \in Callers : ~WriteMeta(p)
  PROVE  Running(k)' \subseteq Running(k)
<1> USE DEF LifeInv, IInv, TypeOK, CallInv, CancelInv, Running, Recorded, Alive, At, os, files
<1>1. ASSUME NEW p \in Callers, Spawn(p) PROVE Running(k)' \subseteq Running(k)
  BY <1>1 DEF Spawn
<1>2. ASSUME NEW p \in Callers, \/ CancelKills(p) \/ EmptySentinel(p) \/ WriteSentinel(p)
                                \/ EmptyMeta(p) \/ WriteFlag(p)
      PROVE  Running(k)' \subseteq Running(k)
  BY <1>2 DEF CancelKills, EmptySentinel, WriteSentinel, EmptyMeta, WriteFlag, Cancelling
<1>3. ASSUME NEW j \in Ids, Shell(j) \/ ShellDies(j) PROVE Running(k)' \subseteq Running(k)
  BY <1>3 DEF Shell, OpenDone, WriteDone, ShellDies
<1>4. CASE UNCHANGED <<key, shell, meta, done>>
  BY <1>4
<1> QED
  BY <1>1, <1>2, <1>3, <1>4
  DEF Next, Advance, StartCheck, StatusBegin, Cancel, StatusDone, StatusLate, StatusAlive,
      CancelSeesDead, CancelSeesAlive, CallerDies, CommandEnds, vars

\* Who is starting a job has been, or has just looked.
LEMMA StartingStep ==
  ASSUME LifeInv, [Next]_vars, NEW p \in Callers, NEW k \in Keys, Starting(p, k)'
  PROVE  Starting(p, k) \/ Running(k) = {}
<1> USE DEF LifeInv, IInv, TypeOK, CallInv, Starting, At, os, files
<1>1. ASSUME NEW q \in Callers, NEW l \in Keys, StartCheck(q, l)
      PROVE  Starting(p, k) \/ Running(k) = {}
  BY <1>1 DEF StartCheck, Begin, Enter
<1>2. ASSUME NEW q \in Callers, Spawn(q) PROVE Starting(p, k)
  BY <1>2 DEF Spawn, Enter
<1>3. ASSUME NEW q \in Callers, WriteMeta(q) PROVE Starting(p, k)
  BY <1>3 DEF WriteMeta, Return, Idle
<1>4. ASSUME NEW q \in Callers, NEW j \in Ids, StatusBegin(q, j) \/ Cancel(q, j)
      PROVE  Starting(p, k)
  <2>1. UNCHANGED key /\ \E s, f : s \in {"polling", "termed"}
                                  /\ call' = [call EXCEPT ![q] = [at |-> s, of |-> j, flagged |-> f]]
    BY <1>4 DEF StatusBegin, Cancel, Begin, Enter
  <2> QED BY <2>1
<1>5. ASSUME NEW q \in Callers, StatusDone(q) \/ StatusAlive(q) \/ CallerDies(q) \/ WriteFlag(q)
      PROVE  Starting(p, k)
  <2>1. UNCHANGED key /\ call' = [call EXCEPT ![q] = Idle]
    BY <1>5 DEF StatusDone, StatusAlive, CallerDies, WriteFlag, Return
  <2> QED BY <2>1 DEF Idle
<1>6. ASSUME NEW q \in Callers, \/ StatusLate(q) \/ CancelSeesDead(q) \/ CancelSeesAlive(q)
                               \/ CancelKills(q) \/ EmptySentinel(q) \/ WriteSentinel(q)
                               \/ EmptyMeta(q)
      PROVE  Starting(p, k)
  <2>1. UNCHANGED key /\ \E s \in {"late", "ended", "survived", "emptied", "signed", "flagging"} :
                           call' = [call EXCEPT ![q].at = s]
    BY <1>6 DEF StatusLate, CancelSeesDead, CancelSeesAlive, CancelKills, EmptySentinel,
                WriteSentinel, EmptyMeta, Continue
  <2> QED BY <2>1
<1>7. CASE UNCHANGED <<key, call>>
  BY <1>7
<1> QED
  BY <1>1, <1>2, <1>3, <1>4, <1>5, <1>6, <1>7
  DEF Next, Advance, Shell, OpenDone, WriteDone, ShellDies, CommandEnds, vars

\* As long as starts of a key do not overlap, every step keeps keys exclusive.
LEMMA KeyStep == ASSUME LifeInv, KeyInv, StartsAreSerial, [Next]_vars PROVE KeyInv'
<1>1. CASE \A p \in Callers : ~WriteMeta(p)
  <2>1. \A k \in Keys : Running(k)' \subseteq Running(k)
    BY <1>1, RunningShrinks
  <2>2. KeyIsExclusive'
    BY <2>1 DEF KeyInv, KeyIsExclusive
  <2>3. ASSUME NEW p \in Callers, NEW k \in Keys, Starting(p, k)' PROVE Running(k)' = {}
    BY <2>1, <2>3, StartingStep DEF KeyInv
  <2> QED BY <2>2, <2>3 DEF KeyInv
<1>2. ASSUME NEW p \in Callers, WriteMeta(p) PROVE KeyInv'
  <2>1. call[p].of \in Ids /\ key[call[p].of] \in Keys
    BY <1>2 DEF WriteMeta, At, LifeInv, IInv, TypeOK, CallInv
  <2>2. PICK j \in Ids, k \in Keys : j = call[p].of /\ k = key[j]
    BY <2>1
  <2>3. /\ meta' = [meta EXCEPT ![j] = "written"]
        /\ call' = [call EXCEPT ![p] = Idle]
        /\ UNCHANGED <<key, shell, done>>
    BY <1>2, <2>2 DEF WriteMeta, Return, os
  <2>4. Starting(p, k)
    BY <1>2, <2>2 DEF WriteMeta, Starting
  <2>5. Running(k)' \subseteq {j}
    <3>1. Running(k) = {}
      BY <2>4 DEF KeyInv
    <3> QED BY <2>3, <3>1 DEF Running, Recorded, Alive, LifeInv, IInv, TypeOK
  <2>6. \A l \in Keys \ {k} : Running(l)' = Running(l)
    BY <2>2, <2>3 DEF Running, Recorded, Alive, LifeInv, IInv, TypeOK
  <2>7. KeyIsExclusive'
    BY <2>5, <2>6 DEF KeyInv, KeyIsExclusive
  <2>8. ASSUME NEW q \in Callers, NEW l \in Keys, Starting(q, l)' PROVE Running(l)' = {}
    <3>1. q # p /\ Starting(q, l)
      BY <2>3, <2>8 DEF Starting, At, Idle, LifeInv, IInv, TypeOK
    <3>2. l # k
      BY <2>4, <3>1 DEF StartsAreSerial
    <3> QED BY <2>6, <3>1, <3>2 DEF KeyInv
  <2> QED BY <2>7, <2>8 DEF KeyInv
<1> QED BY <1>1, <1>2

\* What start() promises of a key it keeps if no two starts of that key overlap,
\* however jobs end, are cancelled and callers die: the check before the launch
\* is the only way for two running jobs of one key to be listed.
THEOREM SerialStartsExclude == Spec /\ []StartsAreSerial => []KeyIsExclusive
<1>1. Init => LifeInv /\ KeyInv
  <2> SUFFICES ASSUME Init PROVE LifeInv /\ KeyInv
    OBVIOUS
  <2>1. LifeInv
    BY InitInv DEF Init, LifeInv, WrapperInv, ListInv, Idle, At
  <2>2. KeyInv
    BY DEF Init, KeyInv, KeyIsExclusive, Running, Recorded, Starting, At, Idle
  <2> QED BY <2>1, <2>2
<1>2. LifeInv /\ [Next]_vars => LifeInv'
  BY StepInv, WrapperStep, ListStep DEF LifeInv
<1>3. LifeInv /\ KeyInv /\ StartsAreSerial /\ [Next]_vars => KeyInv'
  BY KeyStep
<1>4. KeyInv => KeyIsExclusive
  BY DEF KeyInv
<1> QED BY <1>1, <1>2, <1>3, <1>4, PTL DEF Spec
=============================================================================
