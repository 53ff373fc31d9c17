----------------------------- MODULE FleetProofs -----------------------------
(***************************************************************************)
(* What the order of the steps of process_one guarantees, for every set of *)
(* workers, functions and files: a matched record has an archived body, a  *)
(* record has one worker, and, in a file that holds one of the functions   *)
(* and can be written, a body that is not archived has a journal that      *)
(* takes it out, fleet_stop does, and what is archived did match.          *)
(***************************************************************************)
EXTENDS Fleet, TLAPS

\* The locals of process_one are those of a claim, and then of a candidate.
OnJob == Guarded \cup {"taken", "claimed", "abandoned", "failed", "interrupted", "reverted"}
OnBody == {"wait", "edit", "journaled", "writing", "applied", "judged", "restored",
           "landed", "cleared", "matched", "undo", "undone"}

JobInv == \A w \in Workers :
            /\ pc[w] \in OnJob \/ held[w] => job[w].id \in Funcs
            /\ pc[w] \in OnBody => job[w].body \in Bodies
            /\ pc[w] = "judged" => job[w].verdict # "none"
            /\ pc[w] = "restored" => job[w].verdict \in {"differs", "failed"}
            /\ pc[w] = "matched" => ~held[w]

TypeInv == TypeOK /\ JobInv

-----------------------------------------------------------------------------
(* Texts *)

\* What a text is.
LEMMA TextsAre ==
  ASSUME NEW t
  PROVE  t \in Texts <=> /\ DOMAIN t \subseteq Funcs
                         /\ t = [f \in DOMAIN t |-> t[f]]
                         /\ \A f \in DOMAIN t : t[f] \in Content
<1>1. ASSUME t \in Texts
      PROVE  /\ DOMAIN t \subseteq Funcs
             /\ t = [f \in DOMAIN t |-> t[f]]
             /\ \A f \in DOMAIN t : t[f] \in Content
  <2>1. PICK S \in SUBSET Funcs : t \in [S -> Content]
    BY <1>1 DEF Texts
  <2> QED BY <2>1
<1>2. ASSUME DOMAIN t \subseteq Funcs, t = [f \in DOMAIN t |-> t[f]],
             \A f \in DOMAIN t : t[f] \in Content
      PROVE  t \in Texts
  <2>1. t \in [DOMAIN t -> Content]
    BY <1>2
  <2> QED BY <1>2, <2>1 DEF Texts
<1> QED BY <1>1, <1>2

\* The empty text, which stands for no journal, is a text.
LEMMA NoTextIsText == NoText \in Texts
<1>1. NoText \in [{} -> Content]
  BY DEF NoText
<1> QED BY <1>1 DEF Texts

\* The file of a function is a text.
LEMMA FileTextIsText ==
  ASSUME tree \in [Funcs -> Content], NEW f \in Funcs
  PROVE  FileText(f) \in Texts
<1> DEFINE S == {h \in Funcs : FileOf[h] = FileOf[f]}
<1>1. S \in SUBSET Funcs /\ FileText(f) \in [S -> Content]
  BY DEF FileText
<1> QED BY <1>1 DEF Texts

\* With one of its functions replaced, a text is a text.
LEMMA EditedIsText ==
  ASSUME NEW t \in Texts, NEW f, NEW b \in Bodies
  PROVE  [t EXCEPT ![f] = b] \in Texts
<1>1. PICK S \in SUBSET Funcs : t \in [S -> Content]
  BY DEF Texts
<1>2. b \in Content
  BY DEF Content
<1>3. [t EXCEPT ![f] = b] \in [S -> Content]
  BY <1>1, <1>2
<1> QED BY <1>1, <1>3 DEF Texts

\* Writing a text gives a tree.
LEMMA WriteBackType ==
  ASSUME tree \in [Funcs -> Content], NEW t \in Texts, WriteBack(t)
  PROVE  tree' \in [Funcs -> Content]
<1>1. \A f \in Funcs : (IF f \in DOMAIN t THEN t[f] ELSE tree[f]) \in Content
  BY TextsAre
<1> QED BY <1>1 DEF WriteBack

\* So does a file that is cut short, and a write that fails.
LEMMA CutType ==
  ASSUME tree \in [Funcs -> Content], NEW t
  PROVE  /\ Cut(DOMAIN t) \in [Funcs -> Content]
         /\ WriteFails(t) => tree' \in [Funcs -> Content]
<1>1. \A f \in Funcs : (IF f \in DOMAIN t THEN "torn" ELSE tree[f]) \in Content
  BY DEF Content
<1>2. Cut(DOMAIN t) \in [Funcs -> Content]
  BY <1>1 DEF Cut
<1>3. WriteFails(t) => tree' \in [Funcs -> Content]
  BY <1>2 DEF WriteFails
<1> QED BY <1>2, <1>3

\* A journal that is removed, or cannot be, is a text.
LEMMA DisarmType ==
  ASSUME journal \in [Workers -> Texts], NEW w \in Workers, Disarm(w)
  PROVE  journal' \in [Workers -> Texts]
<1>1. CASE SetJournal(w, NoText)
  BY <1>1, NoTextIsText DEF SetJournal
<1>2. CASE UNCHANGED journal
  BY <1>2
<1> QED BY <1>1, <1>2 DEF Disarm

-----------------------------------------------------------------------------
(* Types *)

\* The locals of a worker between two records are well typed.
LEMMA NoJobType == NoJob \in Job /\ NoJob.id = None
<1>1. 0 \in 0..MaxAttempts
  BY FleetAssumption
<1> QED BY <1>1, NoTextIsText DEF NoJob, Job

\* So are those of a worker that has just claimed f.
LEMMA ClaimJob ==
  ASSUME NEW f \in Funcs
  PROVE  [NoJob EXCEPT !.id = f] \in Job /\ [NoJob EXCEPT !.id = f].id = f
<1>1. [NoJob EXCEPT !.id = f] =
        [id |-> f, body |-> None, tries |-> 0, best |-> "none",
         verdict |-> "none", original |-> NoText]
  BY DEF NoJob
<1>2. 0 \in 0..MaxAttempts
  BY FleetAssumption
<1> QED BY <1>1, <1>2, NoTextIsText DEF Job

\* A candidate is added to them, one more try, and the claim stays the same.
LEMMA CandidateJob ==
  ASSUME NEW j \in Job, NEW b \in Bodies, j.tries < MaxAttempts
  PROVE  /\ [j EXCEPT !.body = b, !.tries = @ + 1] \in Job
         /\ [j EXCEPT !.body = b, !.tries = @ + 1].id = j.id
         /\ [j EXCEPT !.body = b, !.tries = @ + 1].body = b
         /\ [j EXCEPT !.body = b, !.tries = @ + 1].original = j.original
<1> DEFINE k == [j EXCEPT !.body = b, !.tries = @ + 1]
<1>1. j.tries + 1 \in 0..MaxAttempts
  BY FleetAssumption DEF Job
<1>2. k \in Job
  BY <1>1 DEF Job
<1> QED BY <1>2 DEF Job

\* An attempt that came to nothing is counted, and the claim stays the same.
LEMMA RejectedJob ==
  ASSUME NEW j \in Job, NEW b \in {j.best, Best(j.best, "failed")}, j.tries < MaxAttempts
  PROVE  /\ [j EXCEPT !.tries = @ + 1, !.best = b] \in Job
         /\ [j EXCEPT !.tries = @ + 1, !.best = b].id = j.id
         /\ [j EXCEPT !.tries = @ + 1, !.best = b].body = j.body
         /\ [j EXCEPT !.tries = @ + 1, !.best = b].original = j.original
<1> DEFINE k == [j EXCEPT !.tries = @ + 1, !.best = b]
<1>1. j.tries + 1 \in 0..MaxAttempts
  BY FleetAssumption DEF Job
<1>2. b \in {"none", "differs", "failed"}
  BY DEF Job, Best
<1>3. k \in Job
  BY <1>1, <1>2 DEF Job
<1> QED BY <1>3 DEF Job

\* What the critical section does to the locals.
LEMMA AppliedJob ==
  ASSUME NEW j \in Job, NEW t \in Texts
  PROVE  /\ [j EXCEPT !.original = t] \in Job
         /\ [j EXCEPT !.original = t].id = j.id
         /\ [j EXCEPT !.original = t].body = j.body
         /\ [j EXCEPT !.original = t].original = t
  BY DEF Job

\* The verdict of a build changes nothing but the verdict.
LEMMA JudgedJob ==
  ASSUME NEW j \in Job, NEW v \in {"ok", "differs", "failed"}
  PROVE  /\ [j EXCEPT !.verdict = v] \in Job
         /\ [j EXCEPT !.verdict = v].id = j.id
         /\ [j EXCEPT !.verdict = v].body = j.body
         /\ [j EXCEPT !.verdict = v].verdict = v
         /\ [j EXCEPT !.verdict = v].original = j.original
  BY DEF Job

\* At the end of an attempt the candidate and the original text are forgotten,
\* the claim and the best verdict are kept.
LEMMA AttemptEndJobs ==
  ASSUME NEW j \in Job
  PROVE  /\ [j EXCEPT !.body = None, !.verdict = "none", !.original = NoText] \in Job
         /\ [j EXCEPT !.body = None, !.verdict = "none", !.original = NoText].id = j.id
         /\ [j EXCEPT !.body = None, !.verdict = "none", !.original = NoText].original = NoText
         /\ j.verdict \in {"differs", "failed"} =>
              LET k == [j EXCEPT !.body = None, !.verdict = "none", !.original = NoText,
                                 !.best = Best(@, j.verdict)]
              IN k \in Job /\ k.id = j.id /\ k.original = NoText
<1>1. j.verdict \in {"differs", "failed"} =>
        Best(j.best, j.verdict) \in {"none", "differs", "failed"}
  BY DEF Job, Best
<1> QED BY <1>1, NoTextIsText DEF Job

\* The initial state is well typed.
LEMMA InitType == Init => TypeInv
<1> SUFFICES ASSUME Init PROVE TypeInv
  OBVIOUS
<1>1. TypeOK
  BY NoJobType, NoTextIsText DEF Init, TypeOK, Status, Content, PC
<1>2. JobInv
  BY DEF Init, JobInv, OnJob, OnBody, Guarded
<1> QED BY <1>1, <1>2 DEF TypeInv

\* The steps outside the critical section keep the types.
LEMMA WorkType ==
  ASSUME TypeInv, NEW w \in Workers, Work(w)
  PROVE  TypeInv'
<1> USE NoJobType DEF TypeInv, TypeOK, JobInv, Step, OnJob, OnBody, Guarded, PC
<1>1. CASE Start(w)
  BY <1>1 DEF Start
<1>2. CASE StartLock(w)
  BY <1>2 DEF StartLock, Acquire
<1>3. CASE StartDone(w)
  BY <1>3 DEF StartDone, Release
<1>4. CASE Claim(w)
  BY <1>4, ClaimJob DEF Claim, SetJob, Status
<1>5. CASE Exit(w)
  BY <1>5 DEF Exit
<1>6. CASE Unlocated(w)
  BY <1>6 DEF Unlocated, Finished, SetJob, Report, Status
<1>7. CASE Defer(w)
  BY <1>7 DEF Defer, Finished, SetJob, Report, Status
<1>8. CASE Proceed(w)
  BY <1>8 DEF Proceed, Report, Status
<1>9. CASE Generate(w)
  <2>1. PICK b \in Bodies :
          SetJob(w, [job[w] EXCEPT !.body = b, !.tries = @ + 1])
    BY <1>9 DEF Generate
  <2> DEFINE k == [job[w] EXCEPT !.body = b, !.tries = @ + 1]
  <2>2. k \in Job /\ k.id = job[w].id /\ k.body = b
    <3>1. job[w] \in Job /\ job[w].tries < MaxAttempts
      BY <1>9 DEF Generate
    <3> HIDE DEF TypeOK, JobInv
    <3> QED BY <3>1, CandidateJob
  <2> HIDE DEF k
  <2>3. job' = [job EXCEPT ![w] = k]
    BY <2>1 DEF k, SetJob
  <2> QED BY <1>9, <2>2, <2>3 DEF Generate
<1>10. CASE Reject(w)
  <2>1. PICK b \in {job[w].best, Best(job[w].best, "failed")} :
          SetJob(w, [job[w] EXCEPT !.tries = @ + 1, !.best = b])
    BY <1>10 DEF Reject
  <2> DEFINE k == [job[w] EXCEPT !.tries = @ + 1, !.best = b]
  <2>2. k \in Job /\ k.id = job[w].id /\ k.body = job[w].body
    <3>1. job[w] \in Job /\ job[w].tries < MaxAttempts
      BY <1>10 DEF Reject
    <3> HIDE DEF TypeOK, JobInv
    <3> QED BY <3>1, RejectedJob
  <2> HIDE DEF k
  <2>3. job' = [job EXCEPT ![w] = k]
    BY <2>1 DEF k, SetJob
  <2> QED BY <1>10, <2>2, <2>3 DEF Reject
<1>11. CASE Finish(w)
  <2>1. LoopVerdict(w) \in Status
    BY DEF LoopVerdict, Status, Job
  <2> QED BY <1>11, <2>1 DEF Finish, Finished, SetJob, Report
<1>12. CASE Failed(w)
  BY <1>12 DEF Failed, Finished, SetJob, Report, Status
<1>13. CASE Hold(w)
  BY <1>13 DEF Hold
<1> QED BY <1>1, <1>2, <1>3, <1>4, <1>5, <1>6, <1>7, <1>8, <1>9, <1>10, <1>11, <1>12, <1>13
   DEF Work

\* The steps of the critical section keep the types.
LEMMA SectionType ==
  ASSUME TypeInv, NEW w \in Workers, Section(w)
  PROVE  TypeInv'
<1> USE DEF TypeInv, TypeOK, JobInv, Step, OnJob, OnBody, Guarded, PC
<1>1. CASE Lock(w)
  BY <1>1 DEF Lock, Acquire
<1>2. CASE Journal(w)
  BY <1>2, FileTextIsText DEF Journal, SetJournal
<1>3. CASE EditRefused(w)
  BY <1>3 DEF EditRefused, Release
<1>4. CASE Apply(w)
  <2>1. /\ [journal[w] EXCEPT ![job[w].id] = job[w].body] \in Texts
        /\ job[w].body \in Bodies
    BY <1>4, EditedIsText DEF Apply
  <2>2. tree' \in [Funcs -> Content]
    BY <1>4, <2>1, WriteBackType DEF Apply
  <2> DEFINE k == [job[w] EXCEPT !.original = journal[w]]
  <2>3. k \in Job /\ k.id = job[w].id /\ k.body = job[w].body
    <3>1. job[w] \in Job /\ journal[w] \in Texts
      OBVIOUS
    <3> QED BY <3>1, AppliedJob
  <2> HIDE DEF k
  <2>4. job' = [job EXCEPT ![w] = k]
    BY <1>4 DEF Apply, SetJob, k
  <2> QED BY <1>4, <2>2, <2>3, <2>4 DEF Apply
<1>5. CASE Build(w)
  <2>1. PICK v \in {"ok", "differs", "failed"} : SetJob(w, [job[w] EXCEPT !.verdict = v])
    BY <1>5 DEF Build, Verdicts
  <2> DEFINE k == [job[w] EXCEPT !.verdict = v]
  <2>2. k \in Job /\ k.id = job[w].id /\ k.body = job[w].body /\ k.verdict = v
    <3>1. job[w] \in Job
      OBVIOUS
    <3>2. v \in {"ok", "differs", "failed"}
      BY <2>1
    <3> HIDE DEF TypeOK, JobInv
    <3> QED BY <3>1, <3>2, JudgedJob
  <2> HIDE DEF k
  <2>3. job' = [job EXCEPT ![w] = k]
    BY <2>1 DEF SetJob, k
  <2> QED BY <1>5, <2>2, <2>3 DEF Build
<1>6. CASE Restore(w)
  <2>1. job[w].original \in Texts
    BY DEF Job
  <2>2. tree' \in [Funcs -> Content]
    BY <1>6, <2>1, WriteBackType DEF Restore
  <2>3. job[w].verdict \in {"differs", "failed"}
    BY <1>6 DEF Restore, Job
  <2> QED BY <1>6, <2>2, <2>3 DEF Restore
<1>7. CASE Retry(w)
  <2> DEFINE k == [job[w] EXCEPT !.body = None, !.verdict = "none", !.original = NoText,
                                 !.best = Best(@, job[w].verdict)]
  <2>1. k \in Job /\ k.id = job[w].id
    BY <1>7, AttemptEndJobs DEF Retry
  <2> HIDE DEF k
  <2>2. job' = [job EXCEPT ![w] = k]
    BY <1>7 DEF Retry, SetJob, k
  <2>3. journal' \in [Workers -> Texts]
    BY <1>7, DisarmType DEF Retry
  <2> QED BY <1>7, <2>1, <2>2, <2>3 DEF Retry, SaveCandidate, Release
<1>8. CASE SaveLanding(w)
  BY <1>8 DEF SaveLanding
<1>9. CASE ClearJournal(w)
  BY <1>9, NoTextIsText DEF ClearJournal, SetJournal
<1>10. CASE ReportMatched(w)
  BY <1>10 DEF ReportMatched, Report, Status
<1>11. CASE Unlock(w)
  BY <1>11, NoJobType DEF Unlock, Finished, SetJob, Release
<1>12. CASE LandingFails(w)
  BY <1>12 DEF LandingFails
<1>13. CASE Undo(w)
  <2>1. job[w].original \in Texts
    BY DEF Job
  <2>2. tree' \in [Funcs -> Content]
    BY <1>13, <2>1, WriteBackType DEF Undo
  <2> QED BY <1>13, <2>2 DEF Undo
<1>14. CASE Undone(w)
  <2> DEFINE k == [job[w] EXCEPT !.body = None, !.verdict = "none", !.original = NoText]
  <2>1. k \in Job /\ k.id = job[w].id
    BY AttemptEndJobs
  <2> HIDE DEF k
  <2>2. job' = [job EXCEPT ![w] = k]
    BY <1>14 DEF Undone, SetJob, k
  <2>3. journal' \in [Workers -> Texts]
    BY <1>14, DisarmType DEF Undone
  <2> QED BY <1>14, <2>1, <2>2, <2>3 DEF Undone, Release
<1>15. CASE Truncate(w)
  BY <1>15, CutType DEF Truncate
<1>16. CASE ApplyFails(w)
  BY <1>16 DEF ApplyFails, Release
<1>17. CASE RestoreFails(w)
  <2>1. tree' \in [Funcs -> Content]
    BY <1>17, CutType DEF RestoreFails
  <2>2. CASE pc[w] = "judged"
    BY <1>17, <2>1, <2>2 DEF RestoreFails, Release
  <2>3. CASE pc[w] = "undo"
    BY <1>17, <2>1, <2>3 DEF RestoreFails, Release
  <2> QED BY <1>17, <2>2, <2>3 DEF RestoreFails
<1> QED BY <1>1, <1>2, <1>3, <1>4, <1>5, <1>6, <1>7, <1>8, <1>9, <1>10, <1>11,
           <1>12, <1>13, <1>14, <1>15, <1>16, <1>17 DEF Section

\* What a handler remembers of the job is well typed, and names the claim it holds.
LEMMA ClaimOnlyType ==
  ASSUME TypeInv, NEW w \in Workers
  PROVE  ClaimOnly(w) \in Job /\ (held[w] => ClaimOnly(w).id = job[w].id)
<1>1. held[w] => job[w].id \in Funcs
  BY DEF TypeInv, JobInv
<1> QED BY <1>1, ClaimJob, NoJobType DEF ClaimOnly

\* Processes that are gone leave nothing that is not well typed.
LEMMA GoneType ==
  ASSUME TypeInv, NEW S \in SUBSET Workers, Gone(S)
  PROVE  /\ pc' \in [Workers -> PC] /\ job' \in [Workers -> Job]
         /\ held' \in [Workers -> BOOLEAN] /\ seed' \in [Workers -> Funcs \cup {None}]
         /\ lock' \in Workers \cup {Stop, None} /\ JobInv'
<1>1. /\ pc' \in [Workers -> PC] /\ job' \in [Workers -> Job]
      /\ seed' \in [Workers -> Funcs \cup {None}] /\ lock' \in Workers \cup {Stop, None}
  BY NoJobType DEF TypeInv, TypeOK, Gone, PC
<1>2. held' \in [Workers -> BOOLEAN]
  BY DEF TypeInv, TypeOK, Gone
<1>3. ASSUME NEW w \in Workers, w \in S
      PROVE  pc'[w] = "off" /\ ~held'[w]
  BY <1>3 DEF Gone
<1>4. ASSUME NEW w \in Workers, w \notin S
      PROVE  pc'[w] = pc[w] /\ job'[w] = job[w] /\ (held'[w] <=> held[w])
  BY <1>4 DEF Gone
<1>5. JobInv'
  BY <1>3, <1>4 DEF TypeInv, JobInv, OnJob, OnBody, Guarded
<1> QED BY <1>1, <1>2, <1>5

\* Interrupts, handlers and kills keep the types.
LEMMA EndingType ==
  ASSUME TypeInv, NEW w \in Workers, Ending(w)
  PROVE  TypeInv'
<1> USE DEF TypeInv, TypeOK, JobInv, Step, OnJob, OnBody, Guarded, PC
<1>1. CASE Interrupt(w)
  <2>1. ClaimOnly(w) \in Job /\ (held[w] => ClaimOnly(w).id = job[w].id)
    BY ClaimOnlyType
  <2> QED BY <1>1, <2>1 DEF Interrupt, SetJob, Release
<1>2. CASE Revert(w)
  <2>1. job[w].original \in Texts
    BY DEF Job
  <2>2. tree' \in [Funcs -> Content] /\ journal' \in [Workers -> Texts]
    BY <1>2, <2>1, WriteBackType, CutType, DisarmType DEF Revert
  <2> QED BY <1>2, <2>2 DEF Revert
<1>3. CASE ReportInterrupted(w)
  BY <1>3, NoJobType DEF ReportInterrupted, Report, SetJob, Status
<1>4. CASE LeaveLock(w)
  BY <1>4 DEF LeaveLock, Acquire
<1>5. CASE LeaveUnlock(w)
  BY <1>5 DEF LeaveUnlock, Release
<1>6. CASE Leave(w)
  <2>1. queue' \in [Funcs -> Status]
    BY <1>6 DEF Leave, ReleaseStatus, Status
  <2>2. Gone({w}) /\ {w} \in SUBSET Workers
    BY <1>6 DEF Leave
  <2> HIDE DEF JobInv, PC
  <2> QED BY <1>6, <2>1, <2>2, GoneType DEF Leave
<1>7. CASE Kill(w)
  <2>1. Gone({w}) /\ {w} \in SUBSET Workers
    BY <1>7 DEF Kill
  <2> HIDE DEF JobInv, PC
  <2> QED BY <1>7, <2>1, GoneType DEF Kill
<1>8. CASE Salvage(w)
  <2>1. job[w].original \in Texts
    BY DEF Job
  <2>2. tree' \in [Funcs -> Content] /\ journal' \in [Workers -> Texts]
    BY <1>8, <2>1, WriteBackType, CutType, DisarmType DEF Salvage
  <2> DEFINE k == [job[w] EXCEPT !.body = None, !.verdict = "none", !.original = NoText]
  <2>3. k \in Job /\ k.id = job[w].id
    BY AttemptEndJobs
  <2> HIDE DEF k
  <2>4. job' = [job EXCEPT ![w] = k]
    BY <1>8 DEF Salvage, SetJob, k
  <2> QED BY <1>8, <2>2, <2>3, <2>4 DEF Salvage
<1> QED BY <1>1, <1>2, <1>3, <1>4, <1>5, <1>6, <1>7, <1>8 DEF Ending

\* The steps of fleet_stop.
StopStep == StopTerm \/ StopKill \/ StopClear \/ StopLock \/ StopDone

\* The steps of fleet_stop keep the types.
LEMMA StopType == TypeInv /\ StopStep => TypeInv'
<1> SUFFICES ASSUME TypeInv, StopStep PROVE TypeInv'
  OBVIOUS
<1> USE DEF TypeInv, TypeOK, JobInv, OnJob, OnBody, Guarded, PC
<1>1. CASE StopTerm
  <2>1. \A w \in Workers : ClaimOnly(w) \in Job /\ (held[w] => ClaimOnly(w).id = job[w].id)
    BY ClaimOnlyType
  <2>2. pc' \in [Workers -> PC] /\ job' \in [Workers -> Job]
    BY <1>1, <2>1 DEF StopTerm
  <2>3. \A w \in Workers : pc'[w] # "leaving" => pc'[w] = pc[w] /\ job'[w] = job[w]
    BY <1>1 DEF StopTerm
  <2>4. \A w \in Workers : held[w] => job'[w].id = job[w].id
    BY <1>1, <2>1 DEF StopTerm
  <2>5. JobInv'
    BY <1>1, <2>3, <2>4 DEF StopTerm
  <2> QED BY <1>1, <2>2, <2>5 DEF StopTerm
<1>2. CASE StopKill
  <2>1. Gone(Seen) /\ Seen \in SUBSET Workers
    BY <1>2 DEF StopKill, Seen, Running
  <2>2. overlooked' \in BOOLEAN
    BY <1>2 DEF StopKill
  <2> HIDE DEF JobInv, PC
  <2> QED BY <1>2, <2>1, <2>2, GoneType DEF StopKill
<1>3. CASE StopClear
  BY <1>3 DEF StopClear, Release, Status
<1>4. CASE StopLock
  BY <1>4 DEF StopLock, Acquire
<1>5. CASE StopDone
  BY <1>5 DEF StopDone, Release
<1> QED BY <1>1, <1>2, <1>3, <1>4, <1>5 DEF StopStep

\* A replayed journal keeps the types.
LEMMA ReplayType ==
  ASSUME TypeInv, NEW p \in Workers \cup {Stop}, NEW v \in Workers, ReplayOne(p, v)
  PROVE  TypeInv'
<1>1. journal[v] \in Texts /\ tree \in [Funcs -> Content]
  BY DEF TypeInv, TypeOK
<1>2. tree' \in [Funcs -> Content]
  BY <1>1, WriteBackType DEF ReplayOne
<1> QED BY <1>2, NoTextIsText DEF ReplayOne, SetJournal, TypeInv, TypeOK, JobInv

\* Types are preserved by every step.
LEMMA NextType == TypeInv /\ [Next]_vars => TypeInv'
<1> SUFFICES ASSUME TypeInv, [Next]_vars PROVE TypeInv'
  OBVIOUS
<1>1. CASE UNCHANGED vars
  BY <1>1 DEF vars, TypeInv, TypeOK, JobInv
<1>2. CASE Next
  <2>1. ASSUME NEW f \in Funcs, Reclaim(f) PROVE TypeInv'
    BY <2>1 DEF Reclaim, TypeInv, TypeOK, JobInv, Status
  <2> QED BY <1>2, <2>1, WorkType, SectionType, EndingType, ReplayType, StopType
          DEF Next, StopStep
<1> QED BY <1>1, <1>2

-----------------------------------------------------------------------------
(* Matched records are archived *)

\* Between SaveLanding and ReportMatched the body of the job is in the archive.
ArchiveInv == \A w \in Workers :
                pc[w] \in {"landed", "cleared"} => <<job[w].id, job[w].body>> \in landing

MatchInv == TypeInv /\ ArchiveInv /\ MatchedIsArchived

\* Outside the critical section nobody reports a match.
LEMMA MatchWork ==
  ASSUME MatchInv, NEW w \in Workers, Work(w)
  PROVE  ArchiveInv' /\ MatchedIsArchived'
<1>1. /\ landing' = landing
      /\ \A v \in Workers : pc'[v] \in {"landed", "cleared"} =>
            pc[v] = pc'[v] /\ job'[v] = job[v]
  BY DEF MatchInv, TypeInv, TypeOK, Work, Step, SetJob, Finished, Start, StartLock, StartDone,
         Claim, Hold, Exit, Unlocated, Defer, Proceed, Generate, Reject, Finish, Failed
<1>2. \A f \in Funcs : queue'[f] = "matched" => queue[f] = "matched"
  BY DEF MatchInv, TypeInv, TypeOK, Work, Report, LoopVerdict, Start, StartLock, StartDone,
         Claim, Hold, Exit, Unlocated, Defer, Proceed, Generate, Reject, Finish, Failed, Job
<1> QED BY <1>1, <1>2 DEF MatchInv, ArchiveInv, MatchedIsArchived

\* ReportMatched comes after SaveLanding, and the job is the same in between.
LEMMA MatchSection ==
  ASSUME MatchInv, NEW w \in Workers, Section(w)
  PROVE  ArchiveInv' /\ MatchedIsArchived'
<1> USE DEF MatchInv, TypeInv, TypeOK, ArchiveInv, MatchedIsArchived, Step
<1>1. CASE SaveLanding(w)
  BY <1>1 DEF SaveLanding
<1>2. CASE ClearJournal(w)
  BY <1>2 DEF ClearJournal
<1>3. CASE ReportMatched(w)
  <2>1. job[w].body \in Bodies /\ <<job[w].id, job[w].body>> \in landing
    BY <1>3 DEF ReportMatched, JobInv, OnBody
  <2> QED BY <1>3, <2>1 DEF ReportMatched, Report
<1>4. CASE ~(SaveLanding(w) \/ ClearJournal(w) \/ ReportMatched(w))
  <2>1. /\ landing' = landing /\ queue' = queue
        /\ \A v \in Workers : pc'[v] \in {"landed", "cleared"} =>
              pc[v] = pc'[v] /\ job'[v] = job[v]
    BY <1>4 DEF Section, Lock, Journal, EditRefused, Truncate, Apply, ApplyFails, Build, Restore,
                Retry, RestoreFails, Unlock, LandingFails, Undo, Undone, Finished, SetJob
  <2> QED BY <2>1
<1> QED BY <1>1, <1>2, <1>3, <1>4

\* No handler reports a match, or archives one.
LEMMA MatchEnding ==
  ASSUME MatchInv, NEW w \in Workers, Ending(w)
  PROVE  ArchiveInv' /\ MatchedIsArchived'
<1>1. /\ landing' = landing
      /\ \A v \in Workers : pc'[v] \in {"landed", "cleared"} =>
            pc[v] = pc'[v] /\ job'[v] = job[v]
  BY DEF MatchInv, TypeInv, TypeOK, Ending, Step, SetJob, Interrupt, Revert,
         ReportInterrupted, LeaveLock, LeaveUnlock, Leave, Kill, Gone, Guarded, Salvage
<1>2. \A f \in Funcs : queue'[f] = "matched" => queue[f] = "matched"
  BY DEF MatchInv, TypeInv, TypeOK, Ending, Report, Interrupt, Revert, ReportInterrupted,
         LeaveLock, LeaveUnlock, Leave, Kill, ReleaseStatus, Salvage
<1> QED BY <1>1, <1>2 DEF MatchInv, ArchiveInv, MatchedIsArchived

\* fleet_stop leaves matched records and the archive alone.
LEMMA MatchStop == MatchInv /\ StopStep => ArchiveInv' /\ MatchedIsArchived'
<1> SUFFICES ASSUME MatchInv, StopStep PROVE ArchiveInv' /\ MatchedIsArchived'
  OBVIOUS
<1>1. /\ landing' = landing
      /\ \A v \in Workers : pc'[v] \in {"landed", "cleared"} =>
            pc[v] = pc'[v] /\ job'[v] = job[v]
  BY DEF MatchInv, TypeInv, TypeOK, StopStep, StopTerm, StopKill, StopClear, StopLock,
         StopDone, Gone
<1>2. \A f \in Funcs : queue'[f] = "matched" => queue[f] = "matched"
  BY DEF MatchInv, TypeInv, TypeOK, StopStep, StopTerm, StopKill, StopClear, StopLock, StopDone
<1> QED BY <1>1, <1>2 DEF MatchInv, ArchiveInv, MatchedIsArchived

\* The order of landing and report is preserved by every step.
LEMMA MatchNext == MatchInv /\ [Next]_vars => MatchInv'
<1> SUFFICES ASSUME MatchInv, [Next]_vars PROVE MatchInv'
  OBVIOUS
<1>1. TypeInv'
  BY NextType DEF MatchInv
<1>2. CASE UNCHANGED vars
  BY <1>1, <1>2 DEF vars, MatchInv, ArchiveInv, MatchedIsArchived
<1>3. ASSUME NEW p \in Workers \cup {Stop}, NEW v \in Workers, ReplayOne(p, v)
      PROVE  ArchiveInv' /\ MatchedIsArchived'
  BY <1>3 DEF ReplayOne, MatchInv, ArchiveInv, MatchedIsArchived
<1>5. ASSUME NEW f \in Funcs, Reclaim(f) PROVE ArchiveInv' /\ MatchedIsArchived'
  BY <1>5 DEF Reclaim, MatchInv, TypeInv, TypeOK, ArchiveInv, MatchedIsArchived
<1>4. CASE Next
  BY <1>1, <1>3, <1>4, <1>5, MatchWork, MatchSection, MatchEnding, MatchStop
  DEF Next, StopStep, MatchInv
<1> QED BY <1>2, <1>4

\* Every reachable state is well typed, and wherever a worker is killed,
\* interrupted or refused, a matched record has an archived body.
THEOREM FleetInvariant == Spec => []MatchInv
<1>1. Init => MatchInv
  BY InitType DEF Init, MatchInv, ArchiveInv, MatchedIsArchived
<1>2. MatchInv /\ [Next]_vars => MatchInv'
  BY MatchNext
<1> QED BY <1>1, <1>2, PTL DEF Spec

\* The type invariant of the fleet.
THEOREM FleetTypeOK == Spec => []TypeOK
<1>1. MatchInv => TypeOK
  BY DEF MatchInv, TypeInv
<1> QED BY <1>1, FleetInvariant, PTL

\* No record is matched without an archived body, for any number of workers,
\* attempts, kills and stops.
THEOREM MatchesAreArchived == Spec => []MatchedIsArchived
<1>1. MatchInv => MatchedIsArchived
  BY DEF MatchInv
<1> QED BY <1>1, FleetInvariant, PTL

-----------------------------------------------------------------------------
(* What a step of a worker does *)

WorkerStep(w) == Work(w) \/ Section(w) \/ Ending(w)

\* It leaves the locals, the claim and the journal of the others alone.
LEMMA OwnLocals ==
  ASSUME TypeInv, NEW w \in Workers, WorkerStep(w)
  PROVE  \A v \in Workers \ {w} : pc'[v] = pc[v] /\ job'[v] = job[v] /\ journal'[v] = journal[v]
<1> USE DEF TypeInv, TypeOK, Step, Finished, SetJob, SetJournal, Disarm
<1>1. CASE Work(w)
  BY <1>1 DEF Work, Start, StartLock, StartDone, Claim, Hold, Exit, Unlocated, Defer, Proceed,
              Generate, Reject, Finish, Failed
<1>2. CASE Section(w)
  BY <1>2 DEF Section, Lock, Journal, EditRefused, Truncate, Apply, ApplyFails, Build, Restore,
              Retry, RestoreFails, SaveLanding, ClearJournal, ReportMatched, Unlock,
              LandingFails, Undo, Undone
<1>3. CASE Ending(w)
  <2>1. CASE Leave(w) \/ Kill(w)
    BY <2>1 DEF Leave, Kill, Gone
  <2>2. CASE ~(Leave(w) \/ Kill(w))
    BY <1>3, <2>2 DEF Ending, Salvage, Interrupt, Revert, ReportInterrupted, LeaveLock, LeaveUnlock
  <2> QED BY <2>1, <2>2
<1> QED BY <1>1, <1>2, <1>3 DEF WorkerStep

\* It gives up no claim but its own.
LEMMA OwnHold ==
  ASSUME TypeInv, NEW w \in Workers, WorkerStep(w)
  PROVE  \A v \in Workers \ {w} : held'[v] = held[v]
<1> USE DEF TypeInv, TypeOK, Report
<1>1. \A v \in Workers \ {w} : held[v] \in BOOLEAN
  OBVIOUS
<1>2. CASE Work(w)
  BY <1>2 DEF Work, Start, StartLock, StartDone, Claim, Hold, Exit, Unlocated, Defer, Proceed,
              Generate, Reject, Finish, Failed
<1>3. CASE Section(w)
  BY <1>3 DEF Section, Lock, Journal, EditRefused, Truncate, Apply, ApplyFails, Build, Restore,
              Retry, RestoreFails, SaveLanding, ClearJournal, ReportMatched, Unlock,
              LandingFails, Undo, Undone
<1>4. CASE Ending(w)
  BY <1>1, <1>4 DEF Ending, Salvage, Interrupt, Revert, ReportInterrupted, LeaveLock,
                    LeaveUnlock, Leave, Kill, Gone
<1> QED BY <1>2, <1>3, <1>4 DEF WorkerStep

\* The worker's job stays that of its claim, and the text that it restores is
\* the one that it journaled.
LEMMA JobStep ==
  ASSUME TypeInv, NEW w \in Workers, WorkerStep(w)
  PROVE  /\ Claim(w) \/ job'[w].id \in {job[w].id, None}
         /\ Apply(w) => /\ job'[w].id = job[w].id /\ job'[w].body = job[w].body
                        /\ job'[w].original = journal[w]
         /\ Build(w) => /\ job'[w].id = job[w].id /\ job'[w].body = job[w].body
                        /\ job'[w].original = job[w].original
         /\ ~Apply(w) => job'[w].original \in {job[w].original, NoText}
         /\ Retry(w) \/ Undone(w) \/ Salvage(w) => job'[w].original = NoText
<1>1. job \in [Workers -> Job] /\ job[w] \in Job /\ journal[w] \in Texts
  BY DEF TypeInv, TypeOK
<1>11. job[w] \in Job
  BY <1>1
<1>2. NoJob.original = NoText /\ NoJob.id = None /\ \A i : [NoJob EXCEPT !.id = i].original = NoText
  BY DEF NoJob
<1>0. /\ Apply(w) => pc[w] = "writing"
      /\ Build(w) => pc[w] = "applied"
      /\ Retry(w) => pc[w] = "restored"
      /\ Undone(w) \/ Salvage(w) => pc[w] \in {"undone", "abandoned"}
  BY DEF Apply, Build, Retry, Undone, Salvage, Step
<1>3. CASE Apply(w)
  <2> DEFINE k == [job[w] EXCEPT !.original = journal[w]]
  <2>1. k.id = job[w].id /\ k.body = job[w].body /\ k.original = journal[w]
    BY <1>1, AppliedJob
  <2> HIDE DEF k
  <2>2. job'[w] = k
    BY <1>1, <1>3 DEF Apply, SetJob, k
  <2> QED BY <1>0, <1>3, <2>1, <2>2
<1>4. CASE Build(w)
  <2>1. PICK v \in {"ok", "differs", "failed"} : SetJob(w, [job[w] EXCEPT !.verdict = v])
    BY <1>4 DEF Build, Verdicts
  <2> DEFINE k == [job[w] EXCEPT !.verdict = v]
  <2>2. k.id = job[w].id /\ k.body = job[w].body /\ k.original = job[w].original
    BY <1>11, JudgedJob
  <2> HIDE DEF k
  <2>3. job'[w] = k
    BY <1>1, <2>1 DEF SetJob, k
  <2> QED BY <1>0, <1>4, <2>2, <2>3
<1>5. CASE Retry(w)
  <2> DEFINE k == [job[w] EXCEPT !.body = None, !.verdict = "none", !.original = NoText,
                                 !.best = Best(@, job[w].verdict)]
  <2>1. job[w].verdict \in {"differs", "failed"}
    BY <1>0, <1>5 DEF TypeInv, JobInv
  <2>2. k.id = job[w].id /\ k.original = NoText
    BY <1>11, <2>1, AttemptEndJobs
  <2> HIDE DEF k
  <2>3. job'[w] = k
    BY <1>1, <1>5 DEF Retry, SetJob, k
  <2> QED BY <1>0, <1>5, <2>2, <2>3
<1>6. CASE Undone(w) \/ Salvage(w)
  <2> DEFINE k == [job[w] EXCEPT !.body = None, !.verdict = "none", !.original = NoText]
  <2>1. k.id = job[w].id /\ k.original = NoText
    BY <1>11, AttemptEndJobs
  <2> HIDE DEF k
  <2>2. job'[w] = k
    BY <1>1, <1>6 DEF Undone, Salvage, SetJob, k
  <2> QED BY <1>0, <1>6, <2>1, <2>2
<1>7. CASE Generate(w)
  <2>1. PICK b \in Bodies : SetJob(w, [job[w] EXCEPT !.body = b, !.tries = @ + 1])
    BY <1>7, Zenon DEF Generate
  <2> DEFINE k == [job[w] EXCEPT !.body = b, !.tries = @ + 1]
  <2>2. pc[w] = "generate" /\ job[w].tries < MaxAttempts
    BY <1>7 DEF Generate, Step
  <2>3. k.id = job[w].id /\ k.original = job[w].original
    BY <1>11, <2>2, CandidateJob
  <2> HIDE DEF k
  <2>4. job'[w] = k
    BY <1>1, <2>1 DEF SetJob, k
  <2> QED BY <1>0, <2>2, <2>3, <2>4
<1>8. CASE Reject(w)
  <2>1. PICK b \in {job[w].best, Best(job[w].best, "failed")} :
          SetJob(w, [job[w] EXCEPT !.tries = @ + 1, !.best = b])
    BY <1>8, Zenon DEF Reject
  <2> DEFINE k == [job[w] EXCEPT !.tries = @ + 1, !.best = b]
  <2>2. pc[w] = "generate" /\ job[w].tries < MaxAttempts
    BY <1>8 DEF Reject, Step
  <2>3. k.id = job[w].id /\ k.original = job[w].original
    BY <1>11, <2>2, RejectedJob
  <2> HIDE DEF k
  <2>4. job'[w] = k
    BY <1>1, <2>1 DEF SetJob, k
  <2> QED BY <1>0, <2>2, <2>3, <2>4
<1>9. CASE Claim(w)
  <2>1. PICK f \in Funcs : SetJob(w, [NoJob EXCEPT !.id = f])
    BY <1>9 DEF Claim
  <2>2. job'[w] = [NoJob EXCEPT !.id = f]
    BY <1>1, <2>1 DEF SetJob
  <2>3. pc[w] = "idle"
    BY <1>9 DEF Claim, Step
  <2> QED BY <1>0, <1>2, <1>9, <2>2, <2>3
<1>10. CASE ~(\/ Apply(w) \/ Build(w) \/ Retry(w) \/ Undone(w) \/ Salvage(w) \/ Generate(w)
              \/ Reject(w) \/ Claim(w))
  <2>1. ClaimOnly(w) \in {NoJob, [NoJob EXCEPT !.id = job[w].id]}
    BY DEF ClaimOnly
  <2>2. [NoJob EXCEPT !.id = job[w].id].id = job[w].id
    BY DEF NoJob
  <2>3. job'[w] \in {job[w], NoJob, ClaimOnly(w)}
    <3>1. CASE Work(w)
      BY <1>1, <1>10, <3>1 DEF Work, Start, StartLock, StartDone, Hold, Exit, Unlocated, Defer,
                          Proceed, Finish, Failed, Finished, SetJob
    <3>2. CASE Section(w)
      BY <1>1, <1>10, <3>2 DEF Section, Lock, Journal, EditRefused, Truncate, ApplyFails, Restore,
                          RestoreFails, SaveLanding, ClearJournal, ReportMatched, Unlock,
                          LandingFails, Undo, Finished, SetJob
    <3>3. CASE Ending(w)
      BY <1>1, <1>10, <3>3 DEF Ending, Interrupt, Revert, ReportInterrupted, LeaveLock,
                          LeaveUnlock, Leave, Kill, Gone, SetJob
    <3> QED BY <3>1, <3>2, <3>3 DEF WorkerStep
  <2> QED BY <1>2, <1>10, <2>1, <2>2, <2>3
<1> QED BY <1>3, <1>4, <1>5, <1>6, <1>7, <1>8, <1>9, <1>10

-----------------------------------------------------------------------------
(* A function with a file of its own is in no text but that of its own job *)

Unedited == {"generate", "wait", "edit", "journaled", "writing"}
Edited == {"applied", "judged", "restored", "landed", "cleared", "matched", "undo",
           "undone", "interrupted"}

OwnText(w, f) ==
    /\ f \in DOMAIN journal[w] => DOMAIN journal[w] = {f}
    /\ f \in DOMAIN job[w].original => DOMAIN job[w].original = {f}
    /\ pc[w] \in Unedited \cup {"taken", "claimed"} => job[w].original = NoText
    /\ pc[w] \in {"journaled", "writing"} => (f \in DOMAIN journal[w] <=> job[w].id = f)
    /\ pc[w] \in Edited \cup {"abandoned"} => (f \in DOMAIN job[w].original => job[w].id = f)

TextInv == TypeInv /\ \A f \in Funcs, w \in Workers : Alone(f) => OwnText(w, f)

\* The journal of a job on g has f in it only if g is f.
LEMMA AloneText ==
  ASSUME NEW f \in Funcs, Alone(f), NEW g \in Funcs
  PROVE  /\ f \in DOMAIN FileText(g) <=> g = f
         /\ f \in DOMAIN FileText(g) => DOMAIN FileText(g) = {f}
  BY DEF Alone, FileText

\* A worker journals, and restores, the file of its own function.
LEMMA TextWorker ==
  ASSUME TypeInv, NEW f \in Funcs, Alone(f), NEW w \in Workers, OwnText(w, f), WorkerStep(w)
  PROVE  OwnText(w, f)'
<1> USE DEF Step, Unedited, Edited
<1>1. /\ pc \in [Workers -> PC] /\ job \in [Workers -> Job] /\ journal \in [Workers -> Texts]
      /\ DOMAIN NoText = {} /\ NoJob.original = NoText
  BY DEF TypeInv, TypeOK, NoText, NoJob
<1>2. CASE Journal(w)
  <2>1. /\ pc'[w] = "journaled" /\ job' = job /\ job[w].original = NoText
        /\ journal'[w] = FileText(job[w].id)
    BY <1>1, <1>2 DEF Journal, SetJournal, OwnText
  <2>2. job[w].id \in Funcs
    BY <1>2 DEF Journal, TypeInv, JobInv, OnJob, Guarded
  <2> QED BY <2>1, <2>2, AloneText DEF OwnText
<1>3. CASE Apply(w)
  <2>1. /\ pc[w] = "writing" /\ pc'[w] = "applied" /\ journal' = journal
        /\ job'[w].id = job[w].id /\ job'[w].original = journal[w]
    BY <1>1, <1>3, JobStep DEF Apply
  <2> QED BY <2>1 DEF OwnText
<1>4. CASE Build(w)
  <2>1. /\ pc[w] = "applied" /\ pc'[w] = "judged" /\ journal' = journal
        /\ job'[w].id = job[w].id /\ job'[w].original = job[w].original
    BY <1>1, <1>4, JobStep DEF Build
  <2> QED BY <2>1 DEF OwnText
<1>5. CASE ~(Journal(w) \/ Apply(w) \/ Build(w))
  <2>1. journal'[w] \in {journal[w], NoText}
    <3>1. CASE Work(w)
      BY <3>1 DEF Work, Start, StartLock, StartDone, Claim, Hold, Exit, Unlocated, Defer,
                  Proceed, Generate, Reject, Finish, Failed
    <3>2. CASE Section(w)
      BY <1>1, <1>5, <3>2 DEF Section, Lock, EditRefused, Truncate, ApplyFails, Restore, Retry,
              RestoreFails, SaveLanding, ClearJournal, ReportMatched, Unlock, LandingFails, Undo,
              Undone, SetJournal, Disarm
    <3>3. CASE Ending(w)
      BY <1>1, <3>3 DEF Ending, Salvage, Interrupt, Revert, ReportInterrupted, LeaveLock,
              LeaveUnlock, Leave, Kill, SetJournal, Disarm
    <3> QED BY <3>1, <3>2, <3>3 DEF WorkerStep
  <2>2. job'[w].original \in {job[w].original, NoText}
    BY <1>5, JobStep
  <2>3. pc'[w] \in {"journaled", "writing"} =>
          /\ pc[w] \in {"journaled", "writing"} /\ journal' = journal /\ job' = job
    <3>1. CASE Work(w)
      BY <1>1, <3>1 DEF Work, Start, StartLock, StartDone, Claim, Hold, Exit, Unlocated, Defer,
                  Proceed, Generate, Reject, Finish, Failed, Finished
    <3>2. CASE Section(w)
      BY <1>1, <1>5, <3>2 DEF Section, Lock, EditRefused, Truncate, ApplyFails, Restore, Retry,
              RestoreFails, SaveLanding, ClearJournal, ReportMatched, Unlock, LandingFails, Undo,
              Undone, Finished
    <3>3. CASE Ending(w)
      BY <1>1, <3>3 DEF Ending, Salvage, Interrupt, Revert, ReportInterrupted, LeaveLock,
              LeaveUnlock, Leave, Kill, Gone
    <3> QED BY <3>1, <3>2, <3>3 DEF WorkerStep
  <2>4. pc'[w] \in Edited \cup {"abandoned"} =>
          pc[w] \in Unedited \cup Edited \cup {"abandoned"} /\ job' = job
    <3>1. CASE Work(w)
      BY <1>1, <3>1 DEF Work, Start, StartLock, StartDone, Claim, Hold, Exit, Unlocated, Defer,
                  Proceed, Generate, Reject, Finish, Failed, Finished
    <3>2. CASE Section(w)
      BY <1>1, <1>5, <3>2 DEF Section, Lock, EditRefused, Truncate, ApplyFails, Restore, Retry,
              RestoreFails, SaveLanding, ClearJournal, ReportMatched, Unlock, LandingFails, Undo,
              Undone, Finished
    <3>3. CASE Ending(w)
      BY <1>1, <3>3 DEF Ending, Salvage, Interrupt, Revert, ReportInterrupted, LeaveLock,
              LeaveUnlock, Leave, Kill, Gone, Guarded
    <3> QED BY <3>1, <3>2, <3>3 DEF WorkerStep
  <2>5. pc'[w] \in Unedited \cup {"taken", "claimed"} => job'[w].original = NoText
    <3>1. pc'[w] \in Unedited \cup {"taken", "claimed"} =>
            \/ pc[w] \in Unedited \cup {"taken", "claimed"}
            \/ Claim(w) \/ Retry(w)
      <4>1. CASE Work(w)
        BY <1>1, <4>1 DEF Work, Start, StartLock, StartDone, Hold, Exit, Unlocated, Defer,
                  Proceed, Generate, Reject, Finish, Failed, Finished
      <4>2. CASE Section(w)
        BY <1>1, <1>5, <4>2 DEF Section, Lock, EditRefused, Truncate, ApplyFails, Restore,
              RestoreFails, SaveLanding, ClearJournal, ReportMatched, Unlock, LandingFails, Undo,
              Undone, Finished
      <4>3. CASE Ending(w)
        BY <1>1, <4>3 DEF Ending, Salvage, Interrupt, Revert, ReportInterrupted, LeaveLock,
              LeaveUnlock, Leave, Kill, Gone
      <4> QED BY <4>1, <4>2, <4>3 DEF WorkerStep
    <3>2. CASE Claim(w)
      <4>1. PICK g \in Funcs : SetJob(w, [NoJob EXCEPT !.id = g])
        BY <3>2 DEF Claim
      <4> QED BY <1>1, <4>1 DEF SetJob, NoJob
    <3> QED BY <2>2, <3>1, <3>2, JobStep DEF OwnText
  <2> QED BY <1>1, <2>1, <2>2, <2>3, <2>4, <2>5 DEF OwnText
<1> QED BY <1>2, <1>3, <1>4, <1>5

\* This is preserved by every step.
LEMMA TextNext == TextInv /\ [Next]_vars => TextInv'
<1> SUFFICES ASSUME TextInv, [Next]_vars, NEW f \in Funcs, NEW w \in Workers, Alone(f)
             PROVE  OwnText(w, f)'
  BY NextType DEF TextInv, Alone
<1> USE DEF Unedited, Edited
<1>1. TypeInv /\ OwnText(w, f) /\ DOMAIN NoText = {} /\ NoJob.original = NoText
  BY DEF TextInv, NoText, NoJob
<1>2. CASE UNCHANGED vars
  BY <1>1, <1>2 DEF vars, OwnText
<1>3. ASSUME NEW v \in Workers, WorkerStep(v) PROVE OwnText(w, f)'
  <2>1. CASE v = w
    BY <1>1, <1>3, <2>1, TextWorker
  <2>2. CASE v # w
    BY <1>1, <1>3, <2>2, OwnLocals DEF OwnText
  <2> QED BY <2>1, <2>2
<1>4. ASSUME NEW p \in Workers \cup {Stop}, NEW v \in Workers, ReplayOne(p, v)
      PROVE  OwnText(w, f)'
  <2>1. pc' = pc /\ job' = job /\ journal' = [journal EXCEPT ![v] = NoText]
    BY <1>4 DEF ReplayOne, SetJournal
  <2>2. pc[v] \notin {"journaled", "writing"}
    BY <1>4, FleetAssumption DEF ReplayOne, Pending, OwnerGone
  <2>3. journal \in [Workers -> Texts]
    BY <1>1 DEF TypeInv, TypeOK
  <2> QED BY <1>1, <2>1, <2>2, <2>3 DEF OwnText
<1>5. CASE StopTerm \/ StopKill
  <2>1. ClaimOnly(w).original = NoText
    BY DEF ClaimOnly, NoJob
  <2>2. /\ journal' = journal
        /\ \/ job'[w] = job[w] /\ pc'[w] = pc[w]
           \/ pc'[w] = "leaving" /\ job'[w] = ClaimOnly(w)
           \/ pc'[w] = "off" /\ job'[w] = NoJob
    BY <1>5 DEF StopTerm, StopKill, Gone
  <2> QED BY <1>1, <2>1, <2>2 DEF OwnText
<1>6. CASE StopClear \/ StopLock \/ StopDone
  BY <1>1, <1>6 DEF StopClear, StopLock, StopDone, OwnText
<1>7. ASSUME NEW g \in Funcs, Reclaim(g) PROVE OwnText(w, f)'
  BY <1>1, <1>7 DEF Reclaim, OwnText
<1> QED BY <1>2, <1>3, <1>4, <1>5, <1>6, <1>7 DEF Next, WorkerStep

\* In the initial state there are no texts.
LEMMA InitText == Init => TextInv
<1> SUFFICES ASSUME Init PROVE TextInv
  OBVIOUS
<1>1. \A f \in Funcs, w \in Workers : OwnText(w, f)
  BY DEF Init, OwnText, NoText, NoJob, Unedited, Edited
<1> QED BY <1>1, InitType DEF TextInv

-----------------------------------------------------------------------------
(* The lock *)

\* From the kill of fleet_stop to the end of its replay no worker runs.
StoppedInv == stop \in {"clear", "cleared", "replay", "done"} => \A w \in Workers : pc[w] = "off"

\* Whoever is inside a section owns the lock.
LockInv == /\ \A w \in Workers : pc[w] \in InLock => lock = w
           /\ stop = "replay" => lock = Stop

OwnerInv == TypeInv /\ (~overlooked => StoppedInv /\ LockInv)

\* As long as fleet_stop overlooks nobody, it kills all who run.
LEMMA NobodyMissed ==
  ASSUME TypeInv, [Next]_vars, ~overlooked'
  PROVE  ~overlooked /\ (StopKill => Seen = Running)
<1>1. overlooked => overlooked'
  <2>1. CASE UNCHANGED vars
    BY <2>1 DEF vars
  <2>2. ASSUME NEW w \in Workers, WorkerStep(w) PROVE overlooked' = overlooked
    <3>1. CASE Work(w)
      BY <3>1 DEF Work, Start, StartLock, StartDone, Claim, Hold, Exit, Unlocated, Defer, Proceed,
                  Generate, Reject, Finish, Failed
    <3>2. CASE Section(w)
      BY <3>2 DEF Section, Lock, Journal, EditRefused, Truncate, Apply, ApplyFails, Build, Restore,
                  Retry, RestoreFails, SaveLanding, ClearJournal, ReportMatched, Unlock,
                  LandingFails, Undo, Undone
    <3>3. CASE Ending(w)
      BY <3>3 DEF Ending, Salvage, Interrupt, Revert, ReportInterrupted, LeaveLock, LeaveUnlock,
                  Leave, Kill
    <3> QED BY <2>2, <3>1, <3>2, <3>3 DEF WorkerStep
  <2>3. CASE StopStep
    BY <2>3 DEF StopStep, StopTerm, StopKill, StopClear, StopLock, StopDone, TypeInv, TypeOK
  <2> QED BY <2>1, <2>2, <2>3 DEF Next, WorkerStep, StopStep, ReplayOne, Reclaim
<1>2. StopKill => Seen = Running
  BY DEF StopKill, TypeInv, TypeOK
<1> QED BY <1>1, <1>2

\* What the step of a worker does to the lock: nothing, or it enters, leaves,
\* or removes a lock that it left behind.
LockStep(w) == \/ lock' = lock /\ (pc'[w] \in InLock <=> pc[w] \in InLock)
               \/ lock = None /\ pc[w] \notin InLock /\ lock' = w /\ pc'[w] \in InLock
               \/ lock = w /\ lock' = None /\ pc'[w] \notin InLock

\* Every worker uses the lock so.
LEMMA WorkerLock ==
  ASSUME TypeInv, StoppedInv, LockInv, NEW w \in Workers, WorkerStep(w)
  PROVE  LockStep(w) /\ stop # "replay" /\ stop' # "replay"
<1>1. /\ pc \in [Workers -> PC]
      /\ pc[w] \in InLock => lock = w
  BY DEF TypeInv, TypeOK, LockInv
<1>2. stop # "replay" /\ stop' # "replay"
  <2>1. CASE Work(w)
    BY <2>1 DEF StoppedInv, Work, Start, StartLock, StartDone, Claim, Hold, Exit, Unlocated,
         Defer, Proceed, Generate, Reject, Finish, Failed, Step, Finished
  <2>2. CASE Section(w)
    BY <2>2 DEF StoppedInv, Section, Lock, Journal, EditRefused, Truncate, Apply, ApplyFails,
         Build, Restore, Retry, RestoreFails, SaveLanding, ClearJournal, ReportMatched, Unlock,
         LandingFails, Undo, Undone, Step, Finished
  <2>3. CASE Ending(w)
    BY <2>3 DEF StoppedInv, Ending, Salvage, Interrupt, Revert, ReportInterrupted, LeaveLock,
         LeaveUnlock, Leave, Kill, Step, Guarded
  <2> QED BY <2>1, <2>2, <2>3 DEF WorkerStep
<1>3. ASSUME Work(w) PROVE LockStep(w)
  <2>1. CASE StartLock(w)
    BY <1>1, <2>1 DEF StartLock, Step, Acquire, LockStep, InLock
  <2>2. CASE StartDone(w)
    BY <1>1, <2>2 DEF StartDone, Step, Release, LockStep, InLock
  <2>3. CASE ~StartLock(w) /\ ~StartDone(w)
    <3>1. lock' = lock
      BY <1>3, <2>3 DEF Work, Start, Claim, Hold, Exit, Unlocated, Defer, Proceed, Generate,
                        Reject, Finish, Failed
    <3>2. pc[w] \notin InLock /\ pc'[w] \notin InLock
      BY <1>1, <1>3, <2>3 DEF Work, Start, Claim, Hold, Exit, Unlocated, Defer, Proceed,
                              Generate, Reject, Finish, Failed, Step, Finished, InLock
    <3> QED BY <3>1, <3>2 DEF LockStep
  <2> QED BY <2>1, <2>2, <2>3
<1>4. ASSUME Section(w) PROVE LockStep(w)
  <2>1. CASE Lock(w)
    BY <1>1, <2>1 DEF Lock, Step, Acquire, LockStep, InLock
  <2>2. CASE EditRefused(w) \/ Retry(w) \/ Unlock(w) \/ Undone(w)
    BY <1>1, <2>2 DEF EditRefused, Retry, Unlock, Undone, Step, Finished, Release, LockStep,
                      InLock
  <2>3. CASE ApplyFails(w) \/ RestoreFails(w)
    BY <1>1, <2>3 DEF ApplyFails, RestoreFails, Step, Release, LockStep, InLock
  <2>4. CASE ~(\/ Lock(w) \/ EditRefused(w) \/ Retry(w) \/ Unlock(w) \/ Undone(w)
               \/ ApplyFails(w) \/ RestoreFails(w))
    <3>1. lock' = lock
      BY <1>4, <2>4 DEF Section, Journal, Truncate, Apply, Build, Restore, SaveLanding,
                        ClearJournal, ReportMatched, LandingFails, Undo
    <3>2. pc[w] \in InLock /\ pc'[w] \in InLock
      BY <1>1, <1>4, <2>4 DEF Section, Journal, Truncate, Apply, Build, Restore, SaveLanding,
                              ClearJournal, ReportMatched, LandingFails, Undo, Step, InLock
    <3> QED BY <3>1, <3>2 DEF LockStep
  <2> QED BY <2>1, <2>2, <2>3, <2>4
<1>5. ASSUME Ending(w) PROVE LockStep(w)
  <2>1. CASE LeaveLock(w)
    BY <1>1, <2>1 DEF LeaveLock, Step, Acquire, LockStep, InLock
  <2>2. CASE LeaveUnlock(w)
    BY <1>1, <2>2 DEF LeaveUnlock, Step, Release, LockStep, InLock
  <2>3. CASE Salvage(w) \/ Revert(w) \/ ReportInterrupted(w)
    BY <1>1, <2>3 DEF Salvage, Revert, ReportInterrupted, Step, LockStep, InLock
  <2>4. CASE Interrupt(w)
    <3>1. pc'[w] \notin InLock
      BY <1>1, <2>4 DEF Interrupt, InLock
    <3>2. lock' = IF pc[w] \in InLock THEN None ELSE lock
      BY <2>4 DEF Interrupt, Inside, Release
    <3> QED BY <1>1, <3>1, <3>2 DEF LockStep
  <2>5. CASE Leave(w) \/ Kill(w)
    <3>1. pc'[w] \notin InLock /\ lock' = IF lock = w THEN None ELSE lock
      BY <1>1, <2>5 DEF Leave, Kill, Gone, InLock
    <3> QED BY <1>1, <3>1 DEF LockStep
  <2> QED BY <1>5, <2>1, <2>2, <2>3, <2>4, <2>5 DEF Ending
<1> QED BY <1>2, <1>3, <1>4, <1>5 DEF WorkerStep

\* Nobody starts a worker while a stop is under way.
LEMMA StoppedNext ==
  ASSUME TypeInv, StoppedInv, [Next]_vars, ~overlooked'
  PROVE  StoppedInv'
<1>1. CASE UNCHANGED vars
  BY <1>1 DEF vars, StoppedInv
<1>2. ASSUME NEW w \in Workers, Work(w) PROVE StoppedInv'
  BY <1>2 DEF StoppedInv, Work, Start, StartLock, StartDone, Claim, Hold, Exit, Unlocated, Defer,
              Proceed, Generate, Reject, Finish, Failed, Step, Finished
<1>3. ASSUME NEW w \in Workers, Section(w) PROVE StoppedInv'
  BY <1>3 DEF StoppedInv, Section, Lock, Journal, EditRefused, Truncate, Apply, ApplyFails, Build,
              Restore, Retry, RestoreFails, SaveLanding, ClearJournal, ReportMatched, Unlock,
              LandingFails, Undo, Undone, Step, Finished
<1>4. ASSUME NEW w \in Workers, Ending(w) PROVE StoppedInv'
  BY <1>4 DEF StoppedInv, Ending, Salvage, Interrupt, Revert, ReportInterrupted, LeaveLock,
              LeaveUnlock, Leave, Kill, Gone, Step, Guarded
<1>5. ASSUME NEW p \in Workers \cup {Stop}, NEW v \in Workers, ReplayOne(p, v) PROVE StoppedInv'
  BY <1>5 DEF StoppedInv, ReplayOne
<1>6. CASE StopKill
  BY <1>6, NobodyMissed DEF StoppedInv, StopKill, Gone, Running
<1>7. CASE StopTerm \/ StopClear \/ StopLock \/ StopDone
  BY <1>7 DEF StoppedInv, StopTerm, StopClear, StopLock, StopDone
<1>8. ASSUME NEW f \in Funcs, Reclaim(f) PROVE StoppedInv'
  BY <1>8 DEF StoppedInv, Reclaim
<1> QED BY <1>1, <1>2, <1>3, <1>4, <1>5, <1>6, <1>7, <1>8 DEF Next

\* Nobody loses the lock to somebody else's step.
LEMMA LockNext ==
  ASSUME TypeInv, StoppedInv, LockInv, [Next]_vars, ~overlooked'
  PROVE  LockInv'
<1>1. CASE UNCHANGED vars
  BY <1>1 DEF vars, LockInv
<1>2. ASSUME NEW w \in Workers, WorkerStep(w) PROVE LockInv'
  BY <1>2, WorkerLock, OwnLocals, FleetAssumption DEF LockStep, LockInv
<1>3. ASSUME NEW p \in Workers \cup {Stop}, NEW v \in Workers, ReplayOne(p, v) PROVE LockInv'
  BY <1>3 DEF ReplayOne, LockInv
<1>4. CASE StopKill
  BY <1>4, NobodyMissed DEF StopKill, Gone, Running, LockInv, InLock
<1>5. CASE StopTerm \/ StopClear \/ StopLock \/ StopDone
  BY <1>5, FleetAssumption DEF StopTerm, StopClear, StopLock, StopDone, Acquire, Release,
       LockInv, StoppedInv, InLock
<1>6. ASSUME NEW f \in Funcs, Reclaim(f) PROVE LockInv'
  BY <1>6 DEF Reclaim, LockInv
<1> QED BY <1>1, <1>2, <1>3, <1>4, <1>5, <1>6 DEF Next, WorkerStep

\* So the owner of the lock is known until a stop overlooks somebody.
LEMMA OwnerNext == OwnerInv /\ [Next]_vars => OwnerInv'
  BY NextType, StoppedNext, LockNext, NobodyMissed DEF OwnerInv

\* In the initial state nobody is inside.
LEMMA InitOwner == Init => OwnerInv
<1> SUFFICES ASSUME Init PROVE OwnerInv
  OBVIOUS
<1>1. StoppedInv /\ LockInv
  BY DEF Init, StoppedInv, LockInv, InLock
<1> QED BY <1>1, InitType DEF OwnerInv

\* As long as no stop overlooks anybody, every step is one of the promised lock,
\* or none.
LEMMA LockRefines ==
  ASSUME TypeInv, StoppedInv, LockInv, LockInv', [Next]_vars, ~overlooked, ~overlooked'
  PROVE  [Promised!Next]_(Promised!vars)
<1> USE DEF Promised!Next, Promised!vars
<1>1. Critical \subseteq {lock} /\ Critical' \subseteq {lock'}
  BY DEF LockInv, Critical
<1>2. CASE UNCHANGED vars
  BY <1>2 DEF vars, Critical
<1>3. ASSUME NEW w \in Workers, WorkerStep(w)
      PROVE  [Promised!Next]_(Promised!vars)
  <2>1. /\ LockStep(w) /\ stop # "replay" /\ stop' # "replay"
        /\ \A v \in Workers \ {w} : pc'[v] = pc[v]
    BY <1>3, WorkerLock, OwnLocals
  <2>2. /\ w \in Critical <=> pc[w] \in InLock
        /\ w \in Critical' <=> pc'[w] \in InLock
        /\ w # None
    BY <2>1, FleetAssumption DEF Critical
  <2>3. CASE lock' = lock /\ (pc'[w] \in InLock <=> pc[w] \in InLock)
    <3>1. Critical' = Critical
      BY <2>1, <2>3 DEF Critical
    <3> QED BY <2>3, <3>1
  <2>4. CASE lock = None /\ pc[w] \notin InLock /\ lock' = w /\ pc'[w] \in InLock
    <3>1. Critical' = {w}
      BY <1>1, <2>2, <2>4
    <3>2. Promised!Acquire(w)
      BY <2>4, <3>1 DEF Promised!Acquire
    <3> QED BY <3>2
  <2>5. CASE lock = w /\ lock' = None /\ pc'[w] \notin InLock
    <3>1. Critical' = {}
      <4>1. \A v \in Workers \ {w} : pc[v] \notin InLock
        BY <2>5 DEF LockInv
      <4> QED BY <2>1, <2>5, <4>1 DEF Critical
    <3>2. CASE pc[w] \in InLock
      <4>1. Promised!Release(w)
        BY <1>1, <2>2, <2>5, <3>1, <3>2 DEF Promised!Release
      <4> QED BY <4>1
    <3>3. CASE pc[w] \notin InLock
      <4>1. Promised!Break
        BY <1>1, <2>2, <2>5, <3>1, <3>3 DEF Promised!Break
      <4> QED BY <4>1
    <3> QED BY <3>2, <3>3
  <2> QED BY <2>1, <2>3, <2>4, <2>5 DEF LockStep
<1>4. ASSUME NEW p \in Workers \cup {Stop}, NEW v \in Workers, ReplayOne(p, v)
      PROVE  [Promised!Next]_(Promised!vars)
  BY <1>4 DEF ReplayOne, Critical
<1>5. CASE StopTerm
  <2>1. lock' = lock /\ Critical' \subseteq Critical
    BY <1>5 DEF StopTerm, Critical, InLock
  <2>2. CASE Critical' = Critical
    BY <2>1, <2>2
  <2>3. CASE Critical' # Critical
    <3>1. PICK w \in Critical : Critical = {w} /\ lock = w /\ Critical' = {}
      BY <1>1, <2>1, <2>3
    <3>2. w \in Workers \cup {Stop}
      BY <3>1 DEF Critical
    <3>3. Promised!Abandon(w)
      BY <2>1, <3>1 DEF Promised!Abandon
    <3> QED BY <3>2, <3>3
  <2> QED BY <2>2, <2>3
<1>6. CASE StopKill
  <2>1. Critical' = {} /\ lock' = IF lock \in Running THEN None ELSE lock
    BY <1>6, NobodyMissed DEF StopKill, Critical, Gone, Running, InLock
  <2>2. CASE lock \notin Running
    <3>1. Critical = {}
      BY <1>6, <2>2 DEF StopKill, Critical, LockInv, Running, InLock
    <3> QED BY <2>1, <2>2, <3>1
  <2>3. CASE lock \in Running /\ Critical = {}
    <3>1. lock # None
      BY <2>3, FleetAssumption DEF Running
    <3>2. Promised!Break
      BY <2>1, <2>3, <3>1 DEF Promised!Break
    <3> QED BY <3>2
  <2>4. CASE lock \in Running /\ Critical # {}
    <3>1. Promised!Release(lock) /\ lock \in Workers
      BY <1>1, <2>1, <2>4 DEF Promised!Release, Running
    <3> QED BY <3>1
  <2> QED BY <2>2, <2>3, <2>4
<1>7. CASE StopClear
  <2>1. Critical = {} /\ Critical' = {} /\ lock' = None
    BY <1>7 DEF StopClear, StoppedInv, Critical, InLock, Release
  <2>2. CASE lock = None
    BY <2>1, <2>2
  <2>3. CASE lock # None
    <3>1. Promised!Break
      BY <2>1, <2>3 DEF Promised!Break
    <3> QED BY <3>1
  <2> QED BY <2>2, <2>3
<1>8. CASE StopLock
  <2>1. Critical' = {Stop}
    BY <1>8 DEF StopLock, StoppedInv, Critical, InLock
  <2>2. Promised!Acquire(Stop)
    BY <1>8, <2>1 DEF StopLock, Acquire, Promised!Acquire
  <2> QED BY <2>2
<1>9. CASE StopDone
  <2>1. Critical = {Stop} /\ Critical' = {} /\ lock = Stop
    BY <1>9 DEF StopDone, StoppedInv, LockInv, Critical, InLock
  <2>2. Promised!Release(Stop)
    BY <1>9, <2>1 DEF StopDone, Release, Promised!Release
  <2> QED BY <2>2
<1>10. ASSUME NEW f \in Funcs, Reclaim(f) PROVE [Promised!Next]_(Promised!vars)
  BY <1>10 DEF Reclaim, Critical
<1> QED BY <1>2, <1>3, <1>4, <1>5, <1>6, <1>7, <1>8, <1>9, <1>10 DEF Next, WorkerStep

\* When a stop overlooks somebody, the lock is as good as gone.
LEMMA LockForgotten ==
  ASSUME TypeInv, ~overlooked => LockInv, [Next]_vars, overlooked'
  PROVE  [Promised!Next]_(Promised!vars)
<1> USE DEF Promised!Next, Promised!vars
<1>1. CASE overlooked
  BY <1>1
<1>2. CASE ~overlooked
  <2>1. Critical \subseteq {lock} /\ Critical \subseteq Workers \cup {Stop}
    BY <1>2 DEF LockInv, Critical
  <2>2. CASE Critical = {} /\ lock = None
    BY <1>2, <2>2
  <2>3. CASE Critical = {} /\ lock # None
    <3>1. Promised!Break
      BY <1>2, <2>3 DEF Promised!Break
    <3> QED BY <3>1
  <2>4. CASE Critical # {}
    <3>1. Promised!Release(lock) /\ lock \in Workers \cup {Stop}
      BY <1>2, <2>1, <2>4 DEF Promised!Release
    <3> QED BY <3>1
  <2> QED BY <2>2, <2>3, <2>4
<1> QED BY <1>1, <1>2

\* process_one, the handlers and fleet_stop use the build lock as class BuildLock
\* promises it (theorem BuildLockIsExclusive): a section is entered when there
\* is no lock, and no step, fleet_stop's removal of the file included, takes the
\* lock of somebody else who is inside; until a stop has overlooked a worker.
THEOREM FleetLockIsExclusive == Spec => LockIsExclusive
<1>1. Init => OwnerInv
  BY InitOwner
<1>2. OwnerInv /\ [Next]_vars => OwnerInv'
  BY OwnerNext
<1>3. OwnerInv /\ OwnerInv' /\ [Next]_vars => [Promised!Next]_(Promised!vars)
  BY LockRefines, LockForgotten, NobodyMissed DEF OwnerInv
<1>4. Init => Promised!Init
  BY DEF Init, Promised!Init, Critical, InLock
<1> QED BY <1>1, <1>2, <1>3, <1>4, PTL DEF Spec, LockIsExclusive, Promised!Spec

-----------------------------------------------------------------------------
(* A claim has one owner, when no worker is slow *)

\* A function whose gate does not give its record back has one owner: the
\* worker that has it for a job, or has the claim still to release.
Owns(w, f) == job[w].id = f /\ (pc[w] \in OnJob \/ held[w])
OneOwner == \A f \in Funcs \ Gated, w \in Workers :
              Owns(w, f) => queue[f] # "todo" /\ \A v \in Workers : Owns(v, f) => v = w
HeldInv == \A w \in Workers : pc[w] \in {"off", "start", "restart", "idle", "taken"} => ~held[w]
ClaimInv == OneOwner /\ HeldInv

ExclusiveInv == OwnerInv /\ (~overlooked => ClaimInv)

\* What a worker's step does to claims: it takes none, and the record it frees
\* was its own.
OwnClaimOnly(w) ==
    /\ \A v \in Workers \ {w} : pc'[v] = pc[v] /\ job'[v] = job[v] /\ held'[v] = held[v]
    /\ \A f \in Funcs \ Gated : Owns(w, f)' => Owns(w, f) /\ queue'[f] # "todo"
    /\ \A f \in Funcs \ Gated : queue'[f] = "todo" => queue[f] = "todo" \/ Owns(w, f)

\* A step of w in which it takes no function, and a record becomes free only
\* when its owner gives it up, leaves every function with one owner.
LEMMA KeepOwner ==
  ASSUME OneOwner, NEW w \in Workers, OwnClaimOnly(w)
  PROVE  OneOwner'
<1> USE DEF OwnClaimOnly
<1>1. \A v \in Workers \ {w}, f \in Funcs : Owns(v, f)' <=> Owns(v, f)
  BY DEF Owns
<1> SUFFICES ASSUME NEW f \in Funcs \ Gated, NEW u \in Workers, Owns(u, f)'
             PROVE  queue'[f] # "todo" /\ \A v \in Workers : Owns(v, f)' => v = u
  BY DEF OneOwner
<1>2. Owns(u, f) /\ queue[f] # "todo" /\ \A v \in Workers : Owns(v, f) => v = u
  BY <1>1 DEF OneOwner
<1>3. \A v \in Workers : Owns(v, f)' => v = u
  BY <1>1, <1>2
<1>4. queue'[f] # "todo"
  BY <1>2
<1> QED BY <1>3, <1>4

\* Only an unowned record is claimed, and a record is given back by its owner.
LEMMA ClaimWork ==
  ASSUME TypeInv, ClaimInv, NEW w \in Workers, Work(w)
  PROVE  ClaimInv' /\ (~Claim(w) => OwnClaimOnly(w))
<1>1. \A v \in Workers \ {w} : pc'[v] = pc[v] /\ job'[v] = job[v] /\ held'[v] = held[v]
  BY OwnLocals, OwnHold DEF WorkerStep
<1>2. pc'[w] \in {"off", "start", "restart", "idle", "taken"} => ~held'[w]
  BY DEF TypeInv, TypeOK, Step, Finished, Report, ClaimInv, HeldInv, Work, Start, Hold,
         StartLock, StartDone, Claim, Exit, Unlocated, Defer, Proceed, Generate, Reject, Finish,
         Failed
<1>3. HeldInv'
  BY <1>1, <1>2 DEF ClaimInv, HeldInv
<1>4. CASE Claim(w)
  <2>1. PICK f \in Funcs : /\ queue[f] = "todo" /\ queue' = [queue EXCEPT ![f] = "claimed"]
                           /\ job' = [job EXCEPT ![w] = [NoJob EXCEPT !.id = f]]
    BY <1>4 DEF Claim, SetJob
  <2>2. job'[w].id = f
    BY <2>1, ClaimJob DEF TypeInv, TypeOK
  <2>3. \A v \in Workers : f \notin Gated => ~Owns(v, f)
    BY <2>1 DEF ClaimInv, OneOwner
  <2>4. \A v \in Workers \ {w}, g \in Funcs : Owns(v, g)' <=> Owns(v, g)
    BY <1>1 DEF Owns
  <2>5. \A g \in Funcs : Owns(w, g)' => g = f
    BY <2>2 DEF Owns
  <2>6. \A g \in Funcs : queue'[g] = "todo" => queue[g] = "todo"
    BY <2>1 DEF TypeInv, TypeOK
  <2>7. queue'[f] # "todo"
    BY <2>1 DEF TypeInv, TypeOK
  <2>8. OneOwner'
    BY <2>3, <2>4, <2>5, <2>6, <2>7 DEF ClaimInv, OneOwner
  <2> QED BY <1>3, <1>4, <2>8 DEF ClaimInv
<1>5. CASE ~Claim(w)
  <2>1. \A f \in Funcs \ Gated : Owns(w, f)' => Owns(w, f) /\ queue'[f] = queue[f]
    <3> SUFFICES ASSUME NEW f \in Funcs \ Gated, Owns(w, f)'
                 PROVE  Owns(w, f) /\ queue'[f] = queue[f]
      OBVIOUS
    <3>1. job[w].id = f
      BY <1>5, JobStep, FleetAssumption DEF WorkerStep, Owns
    <3> USE DEF Owns, OnJob, Guarded, TypeInv, TypeOK, Step, Finished, Report
    <3>2. CASE Start(w) \/ StartLock(w) \/ StartDone(w) \/ Hold(w) \/ Exit(w)
      BY <3>1, <3>2 DEF Start, StartLock, StartDone, Hold, Exit
    <3>3. CASE Unlocated(w) \/ Defer(w) \/ Finish(w) \/ Failed(w)
      BY <3>3 DEF Unlocated, Defer, Finish, Failed
    <3>4. CASE Proceed(w)
      BY <3>1, <3>4 DEF Proceed, ShimBlocked
    <3>5. CASE Generate(w) \/ Reject(w)
      BY <3>1, <3>5 DEF Generate, Reject
    <3> QED BY <1>5, <3>2, <3>3, <3>4, <3>5 DEF Work
  <2>2. \A f \in Funcs \ Gated : queue'[f] = "todo" => queue[f] = "todo" \/ Owns(w, f)
    BY <1>5 DEF Owns, OnJob, Guarded, Work, Start, StartLock, StartDone, Hold, Exit, Unlocated,
                Defer, Proceed, ShimBlocked, Generate, Reject, Finish, Failed, TypeInv, TypeOK,
                Step, Finished, Report
  <2>3. \A f \in Funcs \ Gated : Owns(w, f)' => Owns(w, f) /\ queue'[f] # "todo"
    BY <2>1 DEF ClaimInv, OneOwner
  <2>4. OwnClaimOnly(w)
    BY <1>1, <2>2, <2>3 DEF OwnClaimOnly
  <2> QED BY <1>3, <2>4, KeepOwner DEF ClaimInv
<1> QED BY <1>4, <1>5

\* In the critical section a worker works on the same function throughout.
LEMMA ClaimSection ==
  ASSUME TypeInv, ClaimInv, NEW w \in Workers, Section(w)
  PROVE  ClaimInv' /\ OwnClaimOnly(w)
<1> USE DEF TypeInv, TypeOK, Step, Finished
<1>1. \A v \in Workers \ {w} : pc'[v] = pc[v] /\ job'[v] = job[v] /\ held'[v] = held[v]
  BY OwnLocals, OwnHold DEF WorkerStep
<1>2. pc'[w] \in {"off", "start", "restart", "idle", "taken"} => ~held'[w]
  BY DEF JobInv, Section, Lock, Journal, EditRefused, Truncate, Apply, ApplyFails, Build,
         Restore, Retry, RestoreFails, SaveLanding, ClearJournal, ReportMatched, Unlock,
         LandingFails, Undo, Undone
<1>3. HeldInv'
  BY <1>1, <1>2 DEF ClaimInv, HeldInv
<1>4. pc[w] \in OnJob
  BY DEF Section, Lock, Journal, EditRefused, Truncate, Apply, ApplyFails, Build, Restore, Retry,
         RestoreFails, SaveLanding, ClearJournal, ReportMatched, Unlock, LandingFails, Undo,
         Undone, OnJob, Guarded
<1>5. job'[w].id \in {job[w].id, None}
  <2>1. ~Claim(w)
    BY <1>4 DEF Claim, OnJob, Guarded
  <2> HIDE DEF TypeInv
  <2> QED BY <2>1, JobStep DEF WorkerStep
<1>6. \A f \in Funcs : Owns(w, f)' => Owns(w, f)
  BY <1>4, <1>5, FleetAssumption DEF Owns
<1>7. \A f \in Funcs : queue'[f] = "todo" => queue[f] = "todo"
  BY DEF Section, Lock, Journal, EditRefused, Truncate, Apply, ApplyFails, Build, Restore, Retry,
         RestoreFails, SaveLanding, ClearJournal, ReportMatched, Unlock, LandingFails, Undo,
         Undone, Report
<1>8. OwnClaimOnly(w)
  <2>1. \A f \in Funcs \ Gated : Owns(w, f)' => Owns(w, f) /\ queue'[f] # "todo"
    BY <1>6, <1>7 DEF ClaimInv, OneOwner
  <2> QED BY <1>1, <1>7, <2>1 DEF OwnClaimOnly
<1> QED BY <1>3, <1>8, KeepOwner DEF ClaimInv

\* A worker that ends gives its function up before its record is free.
LEMMA ClaimEnding ==
  ASSUME TypeInv, ClaimInv, NEW w \in Workers, Ending(w)
  PROVE  ClaimInv' /\ OwnClaimOnly(w)
<1> USE DEF Step
<1>1. \A v \in Workers \ {w} : pc'[v] = pc[v] /\ job'[v] = job[v] /\ held'[v] = held[v]
  BY OwnLocals, OwnHold DEF WorkerStep
<1>2. pc'[w] \in {"off", "start", "restart", "idle", "taken"} => ~held'[w]
  BY DEF Ending, Salvage, Interrupt, Revert, ReportInterrupted, LeaveLock, LeaveUnlock, Leave,
         Kill, Gone, Guarded, TypeInv, TypeOK
<1>3. HeldInv'
  BY <1>1, <1>2 DEF ClaimInv, HeldInv
<1>4. \A f \in Funcs : Owns(w, f)' => Owns(w, f) /\ queue'[f] = queue[f]
  <2> SUFFICES ASSUME NEW f \in Funcs, Owns(w, f)'
               PROVE  Owns(w, f) /\ queue'[f] = queue[f]
    OBVIOUS
  <2>1. job[w].id = f
    <3>1. ~Claim(w)
      BY DEF Claim, Ending, Salvage, Interrupt, Revert, ReportInterrupted, LeaveLock,
             LeaveUnlock, Leave, Kill, Gone, Guarded, Owns, TypeInv, TypeOK
    <3> QED BY <3>1, JobStep, FleetAssumption DEF WorkerStep, Owns
  <2> USE DEF Owns, OnJob, Guarded, TypeInv, TypeOK
  <2>2. CASE Interrupt(w)
    <3>1. CASE pc[w] \in {"idle", "taken"}
      <4>1. ~held[w]
        BY <3>1 DEF ClaimInv, HeldInv
      <4>2. pc'[w] = "leaving" /\ held' = held
        BY <2>2, <3>1 DEF Interrupt
      <4> QED BY <4>1, <4>2
    <3>2. CASE pc[w] \notin {"idle", "taken"}
      BY <2>1, <2>2, <3>2 DEF Interrupt
    <3> QED BY <3>1, <3>2
  <2>3. CASE Salvage(w) \/ Revert(w) \/ LeaveLock(w) \/ LeaveUnlock(w)
    BY <2>1, <2>3 DEF Salvage, Revert, LeaveLock, LeaveUnlock
  <2>4. CASE ReportInterrupted(w)
    BY <2>4 DEF ReportInterrupted, Report
  <2>5. CASE Leave(w) \/ Kill(w)
    BY <2>5 DEF Leave, Kill, Gone
  <2> QED BY <2>2, <2>3, <2>4, <2>5 DEF Ending
<1>5. \A f \in Funcs : queue'[f] = "todo" => queue[f] = "todo" \/ Owns(w, f)
  BY DEF Ending, Salvage, Interrupt, Revert, ReportInterrupted, LeaveLock, LeaveUnlock, Leave,
         Kill, Report, Owns, OnJob, TypeInv, TypeOK
<1>6. OwnClaimOnly(w)
  <2>1. \A f \in Funcs \ Gated : Owns(w, f)' => Owns(w, f) /\ queue'[f] # "todo"
    BY <1>4 DEF ClaimInv, OneOwner
  <2> QED BY <1>1, <1>5, <2>1 DEF OwnClaimOnly
<1> QED BY <1>3, <1>6, KeepOwner DEF ClaimInv

\* fleet_stop reclaims when no worker is left to own anything.
LEMMA ClaimStop ==
  ASSUME TypeInv, StoppedInv, ClaimInv, StopStep, ~overlooked'
  PROVE  ClaimInv'
<1>1. CASE StopTerm
  <2>1. \A w \in Workers : held[w] => ClaimOnly(w).id = job[w].id
    BY ClaimOnlyType
  <2>2. /\ queue' = queue
        /\ \A w \in Workers, f \in Funcs : Owns(w, f)' => Owns(w, f)
    BY <1>1, <2>1 DEF StopTerm, Owns, OnJob, Guarded, TypeInv, TypeOK
  <2>3. \A w \in Workers : pc'[w] = pc[w] \/ pc'[w] = "leaving"
    BY <1>1 DEF StopTerm, TypeInv, TypeOK
  <2>4. HeldInv'
    BY <1>1, <2>3 DEF StopTerm, ClaimInv, HeldInv
  <2> QED BY <2>2, <2>4 DEF ClaimInv, OneOwner
<1>2. CASE StopKill
  <2>1. /\ queue' = queue
        /\ \A w \in Workers : /\ pc'[w] = "off"
                              /\ held'[w] => w \notin Running /\ held[w]
    BY <1>2 DEF StopKill, Gone, Running, TypeInv, TypeOK
  <2>2. \A w \in Workers : ~held'[w]
    BY <2>1 DEF ClaimInv, HeldInv, Running
  <2> QED BY <2>1, <2>2 DEF ClaimInv, OneOwner, HeldInv, Owns, OnJob, Guarded
<1>3. CASE StopClear
  <2>1. \A w \in Workers : pc'[w] = "off" /\ ~held'[w]
    BY <1>3 DEF StopClear, StoppedInv, ClaimInv, HeldInv
  <2> QED BY <2>1 DEF ClaimInv, OneOwner, HeldInv, Owns, OnJob, Guarded
<1>4. CASE StopLock \/ StopDone
  BY <1>4 DEF StopLock, StopDone, ClaimInv, OneOwner, HeldInv, Owns
<1> QED BY <1>1, <1>2, <1>3, <1>4 DEF StopStep

\* A prompt worker has its record reclaimed when it is gone.
LEMMA ClaimReclaim ==
  ASSUME PromptWorkers, TypeInv, ClaimInv, NEW f \in Funcs, Reclaim(f)
  PROVE  ClaimInv'
<1>1. \A w \in Workers : ~Owns(w, f)
  BY DEF Reclaim, Owns
<1>2. \A w \in Workers, g \in Funcs : Owns(w, g)' <=> Owns(w, g)
  BY DEF Reclaim, Owns
<1>3. \A g \in Funcs \ {f} : queue'[g] = queue[g]
  BY DEF Reclaim, TypeInv, TypeOK
<1> QED BY <1>1, <1>2, <1>3 DEF Reclaim, ClaimInv, OneOwner, HeldInv

\* One owner is preserved by every step.
LEMMA ExclusiveNext ==
  ASSUME PromptWorkers, ExclusiveInv, [Next]_vars
  PROVE  ExclusiveInv'
<1>1. OwnerInv' /\ TypeInv
  BY OwnerNext DEF ExclusiveInv, OwnerInv
<1> SUFFICES ASSUME ~overlooked' PROVE ClaimInv'
  BY <1>1 DEF ExclusiveInv
<1>2. StoppedInv /\ ClaimInv /\ ~overlooked
  BY <1>1, NobodyMissed DEF ExclusiveInv, OwnerInv
<1>3. ASSUME UNCHANGED vars PROVE ClaimInv'
  BY <1>2, <1>3 DEF vars, ClaimInv, OneOwner, Owns, HeldInv
<1>4. ASSUME NEW p \in Workers \cup {Stop}, NEW v \in Workers, ReplayOne(p, v) PROVE ClaimInv'
  BY <1>2, <1>4 DEF ReplayOne, ClaimInv, OneOwner, Owns, HeldInv
<1> QED BY <1>1, <1>2, <1>3, <1>4, ClaimWork, ClaimSection, ClaimEnding, ClaimStop, ClaimReclaim
        DEF Next, StopStep

\* In the initial state nobody owns anything.
LEMMA InitExclusive == Init => ExclusiveInv
<1> SUFFICES ASSUME Init PROVE ExclusiveInv
  OBVIOUS
<1>1. ClaimInv
  BY NoJobType, FleetAssumption DEF Init, ClaimInv, OneOwner, Owns, HeldInv, OnJob, Guarded
<1> QED BY <1>1, InitOwner DEF ExclusiveInv

\* claim_next, the release of a claim and fleet_stop: a function whose gate
\* does not give its record back has one worker at most between its claim and
\* the end of its last attempt, wherever workers are interrupted or killed, as
\* long as no operator reclaims the record of a worker that lives and no stop
\* overlooks one.
THEOREM UngatedClaimsAreExclusive ==
  ASSUME PromptWorkers PROVE Spec => []UngatedClaimIsExclusive
<1>1. ExclusiveInv => UngatedClaimIsExclusive
  BY DEF ExclusiveInv, ClaimInv, OneOwner, Owns, OnJob, UngatedClaimIsExclusive, Working
<1>2. ExclusiveInv /\ [Next]_vars => ExclusiveInv'
  BY ExclusiveNext
<1> QED BY <1>1, <1>2, InitExclusive, PTL DEF Spec

-----------------------------------------------------------------------------
(* An edit of a file of its own that can be written can be taken out again *)

Disarmed == {"idle", "taken", "claimed", "generate", "wait", "edit", "cleared", "matched",
             "abandoned", "failed"}

WorkerInv(w, f) ==
    /\ f \in DOMAIN journal[w] => journal[w][f] = "stub"
    /\ f \in DOMAIN job[w].original => job[w].original[f] = "stub"
    /\ pc[w] \in Disarmed => f \notin DOMAIN journal[w]
    /\ pc[w] = "abandoned" => f \notin DOMAIN job[w].original
    /\ pc[w] \in Edited => (f \in DOMAIN journal[w] => f \in DOMAIN job[w].original)
    /\ pc[w] \in {"applied", "judged"} /\ f \in DOMAIN journal[w] =>
         tree[f] = "stub" \/ (f = job[w].id /\ tree[f] = job[w].body)
    /\ pc[w] = "landed" /\ f \in DOMAIN journal[w] =>
         tree[f] = "stub" \/ <<f, tree[f]>> \in landing
    /\ pc[w] \in {"restored", "undone"} /\ f \in DOMAIN journal[w] => tree[f] = "stub"

Recoverable(f) ==
    tree[f] # "stub" /\ <<f, tree[f]>> \notin landing =>
        \E w \in Workers : f \in DOMAIN journal[w] /\ journal[w][f] = "stub"

RestoreInv(f) == /\ \A w \in Workers : WorkerInv(w, f)
                 /\ Recoverable(f)
                 /\ stop = "done" => \A w \in Workers : f \notin DOMAIN journal[w]

CleanInv == /\ OwnerInv /\ TextInv
            /\ ~overlooked => \A f \in Funcs : Restorable(f) => RestoreInv(f)

\* In the initial state there is nothing to restore.
LEMMA InitClean == Init => CleanInv
<1> SUFFICES ASSUME Init PROVE CleanInv
  OBVIOUS
<1>1. ASSUME NEW f \in Funcs PROVE RestoreInv(f)
  BY DEF Init, RestoreInv, WorkerInv, Recoverable, NoText, NoJob, Disarmed, Edited
<1> QED BY <1>1, InitOwner, InitText DEF CleanInv

\* Writing back a text that has at most the stub of f leaves f as it is, or a stub.
LEMMA WriteStub ==
  ASSUME NEW f \in Funcs, NEW t, f \in DOMAIN t => t[f] = "stub", WriteBack(t)
  PROVE  tree'[f] \in {tree[f], "stub"} /\ (f \in DOMAIN t => tree'[f] = "stub")
  BY DEF WriteBack

\* A write that fails leaves f as it is, and so does one that cuts other files.
LEMMA OtherFile ==
  ASSUME tree \in [Funcs -> Content], NEW f \in Funcs, Restorable(f), NEW t,
         f \in DOMAIN t => DOMAIN t = {f}
  PROVE  /\ Unwritable(DOMAIN t) => f \notin DOMAIN t
         /\ WriteFails(t) => tree'[f] = tree[f] /\ f \notin DOMAIN t
<1>1. Unwritable(DOMAIN t) => f \notin DOMAIN t
  BY DEF Unwritable, Restorable
<1> QED BY <1>1 DEF WriteFails, Cut

\* A worker that does nothing keeps its invariant, as long as nobody else
\* touches the lock or edits the file while it is inside.
LEMMA Frame ==
  ASSUME NEW f \in Funcs, NEW v \in Workers, WorkerInv(v, f),
         pc'[v] = pc[v], job'[v] = job[v], journal'[v] = journal[v],
         landing \subseteq landing',
         pc[v] \in InLock => tree'[f] \in {tree[f], "stub"}
  PROVE  WorkerInv(v, f)'
  BY DEF WorkerInv, InLock

\* A step of w leaves the invariant of every other worker alone, as long as w,
\* without the lock, writes no more than the stub.
LEMMA Others ==
  ASSUME TypeInv, LockInv, NEW f \in Funcs, RestoreInv(f), NEW w \in Workers, WorkerStep(w),
         landing \subseteq landing',
         lock = w \/ tree'[f] \in {tree[f], "stub"}
  PROVE  \A v \in Workers \ {w} : WorkerInv(v, f)'
<1> SUFFICES ASSUME NEW v \in Workers \ {w} PROVE WorkerInv(v, f)'
  OBVIOUS
<1>1. WorkerInv(v, f) /\ pc'[v] = pc[v] /\ job'[v] = job[v] /\ journal'[v] = journal[v]
  BY OwnLocals DEF RestoreInv
<1>2. pc[v] \in InLock => lock = v
  BY DEF LockInv
<1> QED BY <1>1, <1>2, Frame

\* An edit stays recoverable when the file gets no more than the stub and a
\* journal is dropped only when it is needed no more.
LEMMA KeepRecoverable ==
  ASSUME NEW f \in Funcs, Recoverable(f), landing \subseteq landing',
         tree'[f] \in {tree[f], "stub"},
         \A w \in Workers : \/ journal'[w] = journal[w]
                            \/ f \in DOMAIN journal[w] =>
                                  tree'[f] = "stub" \/ <<f, tree'[f]>> \in landing'
  PROVE  Recoverable(f)'
<1> SUFFICES ASSUME tree'[f] # "stub", <<f, tree'[f]>> \notin landing'
             PROVE  \E w \in Workers : f \in DOMAIN journal'[w] /\ journal'[w][f] = "stub"
  BY DEF Recoverable
<1>1. PICK w \in Workers : f \in DOMAIN journal[w] /\ journal[w][f] = "stub"
  BY DEF Recoverable
<1>2. journal'[w] = journal[w]
  BY <1>1
<1> QED BY <1>1, <1>2

\* Only a start takes fleet_stop's work for done no more, and no worker runs then.
LEMMA NotDone ==
  ASSUME StoppedInv, NEW w \in Workers, WorkerStep(w)
  PROVE  stop' # "done"
<1>1. CASE Work(w)
  BY <1>1 DEF StoppedInv, Work, Start, StartLock, StartDone, Claim, Hold, Exit, Unlocated,
       Defer, Proceed, Generate, Reject, Finish, Failed, Step, Finished
<1>2. CASE Section(w)
  BY <1>2 DEF StoppedInv, Section, Lock, Journal, EditRefused, Truncate, Apply, ApplyFails,
       Build, Restore, Retry, RestoreFails, SaveLanding, ClearJournal, ReportMatched, Unlock,
       LandingFails, Undo, Undone, Step, Finished
<1>3. CASE Ending(w)
  BY <1>3 DEF StoppedInv, Ending, Salvage, Interrupt, Revert, ReportInterrupted, LeaveLock,
       LeaveUnlock, Leave, Kill, Step, Guarded
<1> QED BY <1>1, <1>2, <1>3 DEF WorkerStep

\* Outside the critical section a worker edits nothing and drops no journal.
LEMMA RestoreWork ==
  ASSUME TypeInv, StoppedInv, LockInv, NEW f \in Funcs, RestoreInv(f),
         NEW w \in Workers, Work(w)
  PROVE  RestoreInv(f)'
<1>1. tree' = tree /\ journal' = journal /\ landing' = landing
  BY DEF Work, Start, StartLock, StartDone, Claim, Hold, Exit, Unlocated, Defer, Proceed,
         Generate, Reject, Finish, Failed
<1>2. \A v \in Workers \ {w} : WorkerInv(v, f)'
  BY <1>1, Others DEF WorkerStep
<1>3. Recoverable(f)'
  BY <1>1, KeepRecoverable DEF RestoreInv
<1>4. job'[w].original \in {job[w].original, NoText} /\ DOMAIN NoText = {}
  <2>1. ~Apply(w)
    BY DEF Apply, Work, Start, StartLock, StartDone, Claim, Hold, Exit, Unlocated, Defer, Proceed,
           Generate, Reject, Finish, Failed, Step, Finished
  <2> QED BY <2>1, JobStep DEF WorkerStep, NoText
<1>5. /\ pc'[w] \notin Edited \cup {"abandoned"}
      /\ pc'[w] \in Disarmed => pc[w] \in Disarmed \/ StartDone(w)
  BY DEF Work, Start, StartLock, StartDone, Claim, Hold, Exit, Unlocated, Defer, Proceed,
         Generate, Reject, Finish, Failed, Step, Finished, Edited, Disarmed, TypeInv, TypeOK
<1>6. StartDone(w) => journal[w] = NoText
  BY DEF StartDone, Pending
<1>7. WorkerInv(w, f)'
  <2>1. WorkerInv(w, f)
    BY DEF RestoreInv
  <2>2. pc'[w] \notin {"applied", "judged", "landed", "restored", "undone"}
    BY <1>5 DEF Edited
  <2> QED BY <1>1, <1>4, <1>5, <1>6, <2>1, <2>2 DEF WorkerInv
<1> QED BY <1>2, <1>3, <1>7, NotDone DEF RestoreInv, WorkerStep

\* In the critical section the journal is written before the edit, and dropped
\* only when the file is restored or the body archived.
LEMMA RestoreSection ==
  ASSUME TypeInv, StoppedInv, LockInv, NEW f \in Funcs, Restorable(f), RestoreInv(f),
         NEW w \in Workers, OwnText(w, f), Section(w)
  PROVE  RestoreInv(f)'
<1> USE DEF Step, Finished
<1>1. /\ pc \in [Workers -> PC] /\ job \in [Workers -> Job] /\ tree \in [Funcs -> Content]
      /\ journal \in [Workers -> Texts]
      /\ WorkerInv(w, f) /\ Recoverable(f) /\ DOMAIN NoText = {} /\ NoJob.original = NoText
  BY DEF RestoreInv, TypeInv, TypeOK, NoText, NoJob
<1>2. landing \subseteq landing' /\ WorkerStep(w)
  BY DEF WorkerStep, Section, Lock, Journal, EditRefused, Truncate, Apply, ApplyFails, Build,
         Restore, Retry, RestoreFails, SaveLanding, ClearJournal, ReportMatched, Unlock,
         LandingFails, Undo, Undone
<1>3. lock = w \/ tree' = tree
  BY DEF LockInv, InLock, Section, Lock, Journal, EditRefused, Truncate, Apply, ApplyFails, Build,
         Restore, Retry, RestoreFails, SaveLanding, ClearJournal, ReportMatched, Unlock,
         LandingFails, Undo, Undone
<1>4. \A v \in Workers \ {w} : WorkerInv(v, f)'
  BY <1>2, <1>3, Others
<1> SUFFICES WorkerInv(w, f)' /\ Recoverable(f)'
  BY <1>2, <1>4, NotDone DEF RestoreInv
<1>5. ASSUME tree'[f] = tree[f], journal' = journal PROVE Recoverable(f)'
  BY <1>1, <1>2, <1>5, KeepRecoverable
<1>6. ASSUME WriteBack(job[w].original), journal' = journal
      PROVE  /\ Recoverable(f)'
             /\ f \in DOMAIN job[w].original => tree'[f] = "stub"
  <2>1. /\ tree'[f] \in {tree[f], "stub"}
        /\ f \in DOMAIN job[w].original => tree'[f] = "stub"
    BY <1>1, <1>6, WriteStub DEF WorkerInv
  <2> QED BY <1>1, <1>2, <1>6, <2>1, KeepRecoverable
<1>7. ASSUME tree' = tree, Disarm(w) \/ SetJournal(w, NoText),
             f \in DOMAIN journal[w] => tree[f] = "stub" \/ <<f, tree[f]>> \in landing
      PROVE  Recoverable(f)' /\ f \notin DOMAIN journal'[w]
  <2>1. CASE SetJournal(w, NoText)
    BY <1>1, <1>2, <1>7, <2>1, KeepRecoverable DEF SetJournal
  <2>2. CASE Unwritable(DOMAIN journal[w]) /\ UNCHANGED journal
    <3>1. f \notin DOMAIN journal[w]
      BY <1>1, <2>2, OtherFile DEF OwnText
    <3> QED BY <1>5, <1>7, <2>2, <3>1
  <2> QED BY <1>7, <2>1, <2>2 DEF Disarm
<1> USE DEF WorkerInv, Disarmed, Edited
<1>11. CASE Lock(w)
  BY <1>1, <1>5, <1>11 DEF Lock
<1>12. CASE Journal(w)
  <2>1. job[w].id \in Funcs /\ tree[job[w].id] = "stub"
    BY <1>1, <1>12 DEF Journal, TypeInv, JobInv, OnJob, Guarded
  <2>2. f \in DOMAIN FileText(job[w].id) => job[w].id = f /\ FileText(job[w].id)[f] = "stub"
    BY <2>1 DEF FileText, Restorable, Alone
  <2>3. journal' = [journal EXCEPT ![w] = FileText(job[w].id)] /\ tree' = tree /\ job' = job
    BY <1>12 DEF Journal, SetJournal
  <2>4. f \notin DOMAIN journal[w]
    BY <1>1, <1>12 DEF Journal
  <2>5. Recoverable(f)'
    BY <1>1, <1>2, <2>3, <2>4, KeepRecoverable
  <2> QED BY <1>1, <1>12, <2>2, <2>3, <2>5 DEF Journal
<1>13. CASE EditRefused(w)
  BY <1>1, <1>5, <1>13 DEF EditRefused
<1>14. CASE Truncate(w)
  <2>1. tree' = Cut(DOMAIN journal[w]) /\ journal' = journal /\ landing' = landing
    BY <1>14 DEF Truncate
  <2>2. CASE f \in DOMAIN journal[w]
    BY <1>1, <1>14, <2>1, <2>2 DEF Recoverable, Truncate
  <2>3. CASE f \notin DOMAIN journal[w]
    <3>1. tree'[f] = tree[f]
      BY <1>1, <2>1, <2>3 DEF Cut
    <3> QED BY <1>1, <1>5, <1>14, <2>1, <3>1 DEF Truncate
  <2> QED BY <2>2, <2>3
<1>15. CASE Apply(w)
  <2> DEFINE t == [journal[w] EXCEPT ![job[w].id] = job[w].body]
  <2>1. /\ DOMAIN t = DOMAIN journal[w] /\ pc[w] = "writing"
        /\ f \in DOMAIN journal[w] => job[w].id = f
    BY <1>1, <1>15 DEF Apply, OwnText
  <2>2. /\ f \in DOMAIN journal[w] => tree'[f] = job[w].body
        /\ f \notin DOMAIN journal[w] => tree'[f] = tree[f]
    BY <1>15, <2>1 DEF Apply, WriteBack
  <2>3. journal' = journal /\ landing' = landing /\ pc'[w] = "applied"
    BY <1>1, <1>15 DEF Apply
  <2>4. Recoverable(f)'
    <3>1. CASE f \in DOMAIN journal[w]
      BY <1>1, <2>3, <3>1 DEF Recoverable
    <3>2. CASE f \notin DOMAIN journal[w]
      BY <1>5, <2>2, <2>3, <3>2
    <3> QED BY <3>1, <3>2
  <2>5. job'[w].id = job[w].id /\ job'[w].body = job[w].body /\ job'[w].original = journal[w]
    BY <1>2, <1>15, JobStep
  <2>6. WorkerInv(w, f)'
    BY <1>1, <2>1, <2>2, <2>3, <2>5
  <2> QED BY <2>4, <2>6
<1>16. CASE ApplyFails(w)
  <2>1. f \notin DOMAIN journal[w]
    BY <1>1, <1>16, OtherFile DEF ApplyFails, OwnText
  <2> QED BY <1>1, <1>5, <1>16, <2>1 DEF ApplyFails
<1>17. CASE Build(w)
  <2>1. /\ job'[w].id = job[w].id /\ job'[w].body = job[w].body
        /\ job'[w].original = job[w].original
    BY <1>2, <1>17, JobStep
  <2>2. tree' = tree /\ journal' = journal /\ landing' = landing
    BY <1>17 DEF Build
  <2>3. pc[w] = "applied" /\ pc'[w] = "judged"
    BY <1>1, <1>17 DEF Build
  <2> QED BY <1>1, <1>5, <2>1, <2>2, <2>3
<1>18. CASE Restore(w)
  BY <1>1, <1>6, <1>18 DEF Restore
<1>19. CASE Retry(w)
  <2>1. job'[w].original = NoText
    BY <1>2, <1>19, JobStep
  <2>2. Recoverable(f)' /\ f \notin DOMAIN journal'[w]
    BY <1>1, <1>7, <1>19 DEF Retry
  <2>3. pc'[w] = "generate"
    BY <1>1, <1>19 DEF Retry
  <2> QED BY <1>1, <2>1, <2>2, <2>3
<1>20. CASE RestoreFails(w)
  <2>1. tree'[f] = tree[f] /\ f \notin DOMAIN job[w].original
    BY <1>1, <1>20, OtherFile DEF RestoreFails, OwnText
  <2>2. pc[w] \in Edited
    BY <1>20 DEF RestoreFails
  <2>3. f \notin DOMAIN journal[w]
    BY <1>1, <2>1, <2>2
  <2>4. journal' = journal /\ job' = job /\ pc'[w] = "abandoned"
    BY <1>1, <1>20 DEF RestoreFails
  <2> QED BY <1>1, <1>5, <2>1, <2>3, <2>4
<1>21. CASE SaveLanding(w)
  BY <1>1, <1>5, <1>21 DEF SaveLanding
<1>22. CASE ClearJournal(w)
  <2>1. Recoverable(f)' /\ f \notin DOMAIN journal'[w]
    BY <1>1, <1>7, <1>22 DEF ClearJournal
  <2> QED BY <1>1, <1>22, <2>1 DEF ClearJournal
<1>23. CASE ReportMatched(w)
  BY <1>1, <1>5, <1>23 DEF ReportMatched
<1>24. CASE Unlock(w)
  <2>1. job'[w].original = NoText
    BY <1>1, <1>24 DEF Unlock, SetJob
  <2> QED BY <1>1, <1>5, <1>24, <2>1 DEF Unlock
<1>25. CASE LandingFails(w)
  BY <1>1, <1>5, <1>25 DEF LandingFails
<1>26. CASE Undo(w)
  BY <1>1, <1>6, <1>26 DEF Undo
<1>27. CASE Undone(w)
  <2>1. job'[w].original = NoText
    BY <1>2, <1>27, JobStep
  <2>2. Recoverable(f)' /\ f \notin DOMAIN journal'[w]
    BY <1>1, <1>7, <1>27 DEF Undone
  <2>3. pc'[w] = "failed"
    BY <1>1, <1>27 DEF Undone
  <2> QED BY <1>1, <2>1, <2>2, <2>3
<1> QED BY <1>11, <1>12, <1>13, <1>14, <1>15, <1>16, <1>17, <1>18, <1>19, <1>20, <1>21,
           <1>22, <1>23, <1>24, <1>25, <1>26, <1>27 DEF Section

\* However a worker ends, the edit is undone or the journal stays.
LEMMA RestoreEnding ==
  ASSUME TypeInv, StoppedInv, LockInv, NEW f \in Funcs, Restorable(f), RestoreInv(f),
         NEW w \in Workers, OwnText(w, f), Ending(w)
  PROVE  RestoreInv(f)'
<1> USE DEF Step
<1>1. /\ pc \in [Workers -> PC] /\ job \in [Workers -> Job] /\ tree \in [Funcs -> Content]
      /\ journal \in [Workers -> Texts]
      /\ WorkerInv(w, f) /\ Recoverable(f) /\ DOMAIN NoText = {} /\ NoJob.original = NoText
  BY DEF RestoreInv, TypeInv, TypeOK, NoText, NoJob
<1>2. landing' = landing /\ WorkerStep(w)
  BY DEF WorkerStep, Ending, Salvage, Interrupt, Revert, ReportInterrupted, LeaveLock,
         LeaveUnlock, Leave, Kill
<1>3. ClaimOnly(w).original = NoText
  BY DEF ClaimOnly, NoJob
<1>4. ASSUME Salvage(w) \/ Revert(w)
      PROVE  /\ tree'[f] \in {tree[f], "stub"}
             /\ \/ journal' = journal
                \/ journal'[w] = NoText /\ (f \in DOMAIN journal[w] => tree'[f] = "stub")
  <2>1. f \in DOMAIN journal[w] => f \in DOMAIN job[w].original
    BY <1>1, <1>4 DEF Salvage, Revert, WorkerInv, Disarmed, Edited
  <2>2. CASE WriteBack(job[w].original) /\ Disarm(w)
    <3>1. /\ tree'[f] \in {tree[f], "stub"}
          /\ f \in DOMAIN job[w].original => tree'[f] = "stub"
      BY <1>1, <2>2, WriteStub DEF WorkerInv
    <3> QED BY <1>1, <2>1, <2>2, <3>1 DEF Disarm, SetJournal
  <2>3. CASE WriteFails(job[w].original) /\ UNCHANGED journal
    <3>1. tree'[f] = tree[f]
      BY <1>1, <2>3, OtherFile DEF OwnText
    <3> QED BY <2>3, <3>1
  <2> QED BY <1>4, <2>2, <2>3 DEF Salvage, Revert
<1>5. ASSUME ~(Salvage(w) \/ Revert(w)) PROVE tree' = tree /\ journal' = journal
  BY <1>5 DEF Ending, Interrupt, ReportInterrupted, LeaveLock, LeaveUnlock, Leave, Kill
<1>6. tree'[f] \in {tree[f], "stub"}
  BY <1>4, <1>5
<1>7. \A v \in Workers \ {w} : WorkerInv(v, f)'
  BY <1>2, <1>6, Others
<1>8. Recoverable(f)'
  <2>1. \A v \in Workers \ {w} : journal'[v] = journal[v]
    BY <1>2, OwnLocals
  <2>2. journal'[w] = journal[w] \/ (f \in DOMAIN journal[w] => tree'[f] = "stub")
    BY <1>4, <1>5
  <2> QED BY <1>1, <1>2, <1>6, <2>1, <2>2, KeepRecoverable
<1>9. WorkerInv(w, f)'
  <2> USE DEF WorkerInv, Disarmed, Edited
  <2>1. CASE Salvage(w)
    <3>1. job'[w].original = NoText /\ pc'[w] = "failed"
      BY <1>1, <1>2, <2>1, JobStep DEF Salvage
    <3>2. f \notin DOMAIN journal[w]
      BY <1>1, <2>1 DEF Salvage
    <3> QED BY <1>1, <1>4, <2>1, <3>1, <3>2
  <2>2. CASE Interrupt(w)
    <3>1. CASE pc[w] \in Guarded
      <4>1. job' = job /\ journal' = journal /\ tree' = tree
        BY <2>2, <3>1 DEF Interrupt
      <4>2. pc'[w] = IF job[w].original # NoText THEN "interrupted" ELSE "reverted"
        BY <1>1, <2>2, <3>1 DEF Interrupt
      <4>3. pc'[w] = "interrupted" => pc[w] \in Edited
        BY <3>1, <4>2 DEF OwnText, Guarded, Unedited
      <4> QED BY <1>1, <4>1, <4>2, <4>3
    <3>2. CASE pc[w] \notin Guarded
      BY <1>1, <1>3, <2>2, <3>2 DEF Interrupt, SetJob
    <3> QED BY <3>1, <3>2
  <2>3. CASE Revert(w)
    <3>1. pc'[w] = "reverted" /\ job' = job
      BY <1>1, <2>3 DEF Revert
    <3> QED BY <1>1, <1>4, <2>3, <3>1
  <2>4. CASE ReportInterrupted(w)
    BY <1>1, <2>4 DEF ReportInterrupted, SetJob
  <2>5. CASE LeaveLock(w) \/ LeaveUnlock(w)
    BY <1>1, <2>5 DEF LeaveLock, LeaveUnlock
  <2>6. CASE Leave(w) \/ Kill(w)
    BY <1>1, <2>6 DEF Leave, Kill, Gone
  <2> QED BY <2>1, <2>2, <2>3, <2>4, <2>5, <2>6 DEF Ending
<1> QED BY <1>2, <1>7, <1>8, <1>9, NotDone DEF RestoreInv

\* A replay under the lock puts back the stub of a journal that nobody relies on.
LEMMA RestoreReplay ==
  ASSUME TypeInv, StoppedInv, LockInv, NEW f \in Funcs, RestoreInv(f),
         NEW p \in Workers \cup {Stop}, NEW v \in Workers, ReplayOne(p, v)
  PROVE  RestoreInv(f)'
<1>1. /\ journal' = [journal EXCEPT ![v] = NoText] /\ journal \in [Workers -> Texts]
      /\ pc' = pc /\ job' = job /\ landing' = landing /\ stop' = stop
      /\ WorkerInv(v, f) /\ Recoverable(f) /\ DOMAIN NoText = {}
  BY DEF ReplayOne, SetJournal, RestoreInv, TypeInv, TypeOK, NoText
<1>2. /\ tree'[f] \in {tree[f], "stub"}
      /\ f \in DOMAIN journal[v] => tree'[f] = "stub"
  BY <1>1, WriteStub DEF ReplayOne, WorkerInv
<1>3. Recoverable(f)'
  BY <1>1, <1>2, KeepRecoverable
<1>4. \A w \in Workers \ {v} : WorkerInv(w, f)'
  BY <1>1, <1>2, Frame DEF RestoreInv
<1>5. pc[v] \in {"off", "start", "restart", "rescue"}
  BY FleetAssumption DEF ReplayOne, Pending, OwnerGone
<1>6. WorkerInv(v, f)'
  BY <1>1, <1>5 DEF WorkerInv, Disarmed, Edited
<1>7. stop = "done" => f \notin DOMAIN journal'[v]
  BY <1>1
<1> QED BY <1>1, <1>3, <1>4, <1>6 DEF RestoreInv

\* fleet_stop replays with every worker dead, so it leaves nothing to restore.
LEMMA RestoreStop ==
  ASSUME TypeInv, StoppedInv, LockInv, NEW f \in Funcs, RestoreInv(f), StopStep
  PROVE  RestoreInv(f)'
<1>1. tree' = tree /\ journal' = journal /\ landing' = landing
  BY DEF StopStep, StopTerm, StopKill, StopClear, StopLock, StopDone
<1>2. Recoverable(f)'
  BY <1>1, KeepRecoverable DEF RestoreInv
<1>3. ASSUME NEW w \in Workers PROVE WorkerInv(w, f)'
  <2>1. WorkerInv(w, f)
    BY DEF RestoreInv
  <2>2. /\ ClaimOnly(w).original = NoText /\ NoJob.original = NoText
        /\ DOMAIN NoText = {}
    BY DEF ClaimOnly, NoJob, NoText
  <2>3. \/ pc'[w] = pc[w] /\ job'[w] = job[w]
        \/ pc'[w] = "leaving" /\ job'[w] = ClaimOnly(w)
        \/ pc'[w] = "off" /\ job'[w] = NoJob
    <3>1. CASE StopTerm
      BY <3>1 DEF StopTerm
    <3>2. CASE StopKill
      BY <3>2 DEF StopKill, Gone
    <3>3. CASE StopClear \/ StopLock \/ StopDone
      BY <3>3 DEF StopClear, StopLock, StopDone
    <3> QED BY <3>1, <3>2, <3>3 DEF StopStep
  <2> QED BY <1>1, <2>1, <2>2, <2>3 DEF WorkerInv, Disarmed, Edited
<1>4. stop' = "done" => \A w \in Workers : f \notin DOMAIN journal'[w]
  <2> SUFFICES ASSUME stop' = "done" PROVE \A w \in Workers : f \notin DOMAIN journal[w]
    BY <1>1
  <2>1. StopDone
    BY DEF StopStep, StopTerm, StopKill, StopClear, StopLock, StopDone
  <2>2. \A w \in Workers : pc[w] = "off"
    BY <2>1 DEF StopDone, StoppedInv
  <2>3. \A w \in Workers : journal[w] = NoText
    BY <2>1, <2>2 DEF StopDone, Pending, OwnerGone
  <2> QED BY <2>3 DEF NoText
<1> QED BY <1>2, <1>3, <1>4 DEF RestoreInv

\* Recoverability is preserved by every step.
LEMMA CleanNext == CleanInv /\ [Next]_vars => CleanInv'
<1> SUFFICES ASSUME CleanInv, [Next]_vars PROVE CleanInv'
  OBVIOUS
<1>1. OwnerInv' /\ TextInv' /\ TypeInv
  BY OwnerNext, TextNext DEF CleanInv, OwnerInv
<1> SUFFICES ASSUME ~overlooked', NEW f \in Funcs, Restorable(f) PROVE RestoreInv(f)'
  BY <1>1 DEF CleanInv, Restorable, Alone
<1>2. StoppedInv /\ LockInv /\ RestoreInv(f) /\ \A w \in Workers : OwnText(w, f)
  BY <1>1, NobodyMissed DEF CleanInv, OwnerInv, TextInv, Restorable
<1>3. CASE UNCHANGED vars
  BY <1>2, <1>3 DEF vars, RestoreInv, WorkerInv, Recoverable
<1>4. ASSUME NEW g \in Funcs, Reclaim(g) PROVE RestoreInv(f)'
  BY <1>2, <1>4 DEF Reclaim, RestoreInv, WorkerInv, Recoverable
<1>5. CASE StopStep
  BY <1>1, <1>2, <1>5, RestoreStop
<1>6. ASSUME NEW w \in Workers, Work(w) \/ Section(w) \/ Ending(w) PROVE RestoreInv(f)'
  BY <1>1, <1>2, <1>6, RestoreWork, RestoreSection, RestoreEnding
<1>7. ASSUME NEW p \in Workers \cup {Stop}, NEW v \in Workers, ReplayOne(p, v)
      PROVE  RestoreInv(f)'
  BY <1>1, <1>2, <1>7, RestoreReplay
<1> QED BY <1>3, <1>4, <1>5, <1>6, <1>7 DEF Next, StopStep

\* A body in the tree that is not archived has a journal that takes it out, in
\* every file that can be written and holds no other function to decompile: the
\* journal is written before the file is opened for writing, and removed only
\* after the restore or the archive, wherever the worker is killed, interrupted
\* or terminated.
THEOREM EditsAreRecoverable == Spec => []EditIsRecoverable
<1>1. CleanInv => EditIsRecoverable
  BY DEF CleanInv, RestoreInv, Recoverable, EditIsRecoverable
<1> QED BY <1>1, InitClean, CleanNext, PTL DEF Spec

\* So a fleet_stop that overlooks nobody leaves no candidate in such a file.
THEOREM StopsLeaveCleanTree == Spec => []StopLeavesCleanTree
<1>1. CleanInv => StopLeavesCleanTree
  BY DEF CleanInv, RestoreInv, Recoverable, StopLeavesCleanTree
<1> QED BY <1>1, InitClean, CleanNext, PTL DEF Spec

-----------------------------------------------------------------------------
(* What is archived for a function with a file of its own did match *)

\* The candidate stays in the tree until it is judged, since what other workers
\* write back without the lock is the file of their own function.
InTree(w, f) == job[w].id = f =>
                  /\ pc[w] = "applied" => tree[f] = job[w].body
                  /\ pc[w] = "judged" /\ job[w].verdict = "ok" => job[w].body = "good"
Verified(f) == /\ \A w \in Workers : InTree(w, f)
               /\ \A b \in Bodies : <<f, b>> \in landing => b = "good"

VerifiedInv == /\ ExclusiveInv /\ TextInv
               /\ ~overlooked => \A f \in Funcs \ Gated : Alone(f) => Verified(f)

\* Outside the critical section there is no candidate in the tree yet.
LEMMA VerifiedWork ==
  ASSUME TypeInv, NEW f \in Funcs, Verified(f), NEW w \in Workers, Work(w)
  PROVE  Verified(f)'
<1>1. tree' = tree /\ landing' = landing
  BY DEF Work, Start, StartLock, StartDone, Claim, Hold, Exit, Unlocated, Defer, Proceed,
         Generate, Reject, Finish, Failed
<1>2. \A v \in Workers \ {w} : InTree(v, f)'
  BY <1>1, OwnLocals DEF Verified, InTree, WorkerStep
<1>3. pc'[w] \notin {"applied", "judged"}
  BY DEF Work, Start, StartLock, StartDone, Claim, Hold, Exit, Unlocated, Defer, Proceed,
         Generate, Reject, Finish, Failed, Step, Finished, TypeInv, TypeOK
<1> QED BY <1>1, <1>2, <1>3 DEF Verified, InTree

\* The candidate that is judged is the one in the tree, and a tree with another
\* text than stubs and matching bodies is no match.
LEMMA VerifiedSection ==
  ASSUME TypeInv, LockInv, NEW f \in Funcs, Verified(f),
         NEW w \in Workers, OwnText(w, f), Section(w)
  PROVE  Verified(f)'
<1> USE DEF Step, Finished
<1>1. /\ pc \in [Workers -> PC] /\ job \in [Workers -> Job] /\ InTree(w, f)
  BY DEF TypeInv, TypeOK, Verified
<1>2. lock = w \/ tree' = tree
  BY DEF LockInv, InLock, Section, Lock, Journal, EditRefused, Truncate, Apply, ApplyFails, Build,
         Restore, Retry, RestoreFails, SaveLanding, ClearJournal, ReportMatched, Unlock,
         LandingFails, Undo, Undone
<1>3. \A v \in Workers \ {w} : InTree(v, f)'
  <2> SUFFICES ASSUME NEW v \in Workers \ {w} PROVE InTree(v, f)'
    OBVIOUS
  <2>1. InTree(v, f) /\ pc'[v] = pc[v] /\ job'[v] = job[v]
    BY OwnLocals DEF Verified, WorkerStep
  <2>2. pc[v] = "applied" => tree' = tree
    BY <1>2 DEF LockInv, InLock
  <2> QED BY <2>1, <2>2 DEF InTree
<1>4. CASE Apply(w)
  <2>1. /\ job'[w].id = job[w].id /\ job'[w].body = job[w].body /\ pc'[w] = "applied"
        /\ landing' = landing /\ pc[w] = "writing"
    BY <1>1, <1>4, JobStep DEF WorkerStep, Apply
  <2>2. job[w].id = f => tree'[f] = job[w].body
    BY <1>4, <2>1 DEF OwnText, Apply, WriteBack
  <2> QED BY <1>3, <2>1, <2>2 DEF Verified, InTree
<1>5. CASE Build(w)
  <2>1. PICK v \in Verdicts(w) : SetJob(w, [job[w] EXCEPT !.verdict = v])
    BY <1>5 DEF Build
  <2> DEFINE k == [job[w] EXCEPT !.verdict = v]
  <2>2. k.id = job[w].id /\ k.body = job[w].body /\ k.verdict = v
    <3>1. job[w] \in Job
      BY <1>1
    <3>2. v \in {"ok", "differs", "failed"}
      BY <2>1 DEF Verdicts
    <3> QED BY <3>1, <3>2, JudgedJob
  <2> HIDE DEF k
  <2>3. job'[w] = k /\ pc[w] = "applied" /\ pc'[w] = "judged" /\ landing' = landing
    BY <1>1, <1>5, <2>1 DEF Build, SetJob, k
  <2>4. v = "ok" => tree[f] \in {"stub", "good"}
    BY <2>1 DEF Verdicts
  <2>5. job[w].body \in Bodies
    BY <2>3 DEF TypeInv, JobInv, OnBody
  <2>6. job[w].id = f /\ v = "ok" => job[w].body = "good"
    BY <1>1, <2>3, <2>4, <2>5, FleetAssumption DEF InTree
  <2> QED BY <1>3, <2>2, <2>3, <2>6 DEF Verified, InTree
<1>6. CASE SaveLanding(w)
  <2>1. pc'[w] = "landed" /\ landing' = landing \cup {<<job[w].id, job[w].body>>}
    BY <1>1, <1>6 DEF SaveLanding
  <2>2. job[w].id = f => job[w].body = "good"
    BY <1>1, <1>6 DEF SaveLanding, InTree
  <2> QED BY <1>3, <2>1, <2>2 DEF Verified, InTree
<1>7. CASE ~(Apply(w) \/ Build(w) \/ SaveLanding(w))
  <2>1. pc'[w] \notin {"applied", "judged"} /\ landing' = landing
    BY <1>1, <1>7 DEF Section, Lock, Journal, EditRefused, Truncate, ApplyFails, Restore, Retry,
         RestoreFails, ClearJournal, ReportMatched, Unlock, LandingFails, Undo, Undone
  <2> QED BY <1>3, <2>1 DEF Verified, InTree
<1> QED BY <1>4, <1>5, <1>6, <1>7

\* What an interrupted worker writes back is the file of its own function, which
\* nobody else works on.
LEMMA VerifiedEnding ==
  ASSUME TypeInv, ClaimInv, NEW f \in Funcs \ Gated, Verified(f),
         NEW w \in Workers, OwnText(w, f), Ending(w)
  PROVE  Verified(f)'
<1> USE DEF Step
<1>1. pc \in [Workers -> PC] /\ landing' = landing /\ tree \in [Funcs -> Content]
  BY DEF TypeInv, TypeOK, Ending, Salvage, Interrupt, Revert, ReportInterrupted, LeaveLock,
         LeaveUnlock, Leave, Kill
<1>2. tree'[f] = tree[f] \/ Owns(w, f)
  <2>1. CASE Salvage(w) \/ Revert(w)
    <3>1. f \notin DOMAIN job[w].original => tree'[f] = tree[f]
      BY <1>1, <2>1 DEF Salvage, Revert, WriteBack, WriteFails, Cut
    <3>2. pc[w] \in {"abandoned", "interrupted"}
      BY <2>1 DEF Salvage, Revert
    <3> QED BY <3>1, <3>2 DEF OwnText, Edited, Owns, OnJob
  <2>2. CASE ~(Salvage(w) \/ Revert(w))
    BY <2>2 DEF Ending, Interrupt, ReportInterrupted, LeaveLock, LeaveUnlock, Leave, Kill
  <2> QED BY <2>1, <2>2
<1>3. \A v \in Workers \ {w} : InTree(v, f)'
  <2> SUFFICES ASSUME NEW v \in Workers \ {w} PROVE InTree(v, f)'
    OBVIOUS
  <2>1. InTree(v, f) /\ pc'[v] = pc[v] /\ job'[v] = job[v]
    BY OwnLocals DEF Verified, WorkerStep
  <2>2. pc[v] = "applied" /\ job[v].id = f => tree'[f] = tree[f]
    BY <1>2 DEF ClaimInv, OneOwner, Owns, OnJob, Guarded
  <2> QED BY <2>1, <2>2 DEF InTree
<1>4. pc'[w] \notin {"applied", "judged"}
  BY <1>1 DEF Ending, Salvage, Interrupt, Revert, ReportInterrupted, LeaveLock, LeaveUnlock,
         Leave, Kill, Gone
<1> QED BY <1>1, <1>3, <1>4 DEF Verified, InTree

\* Who replays has the lock, so nobody's candidate is waiting for its build.
LEMMA VerifiedReplay ==
  ASSUME LockInv, NEW f \in Funcs, Verified(f),
         NEW p \in Workers \cup {Stop}, NEW v \in Workers, ReplayOne(p, v)
  PROVE  Verified(f)'
<1>1. /\ pc' = pc /\ job' = job /\ landing' = landing /\ lock = p
      /\ p \in Workers => pc[p] # "applied"
  BY FleetAssumption DEF ReplayOne, LockInv, InLock
<1>2. \A w \in Workers : pc[w] # "applied"
  BY <1>1 DEF LockInv, InLock
<1> QED BY <1>1, <1>2 DEF Verified, InTree

\* fleet_stop writes nothing, and takes every worker out of its section or
\* leaves it where it is.
LEMMA VerifiedStop ==
  ASSUME NEW f \in Funcs, Verified(f), StopStep
  PROVE  Verified(f)'
<1>1. tree' = tree /\ landing' = landing
  BY DEF StopStep, StopTerm, StopKill, StopClear, StopLock, StopDone
<1>2. ASSUME NEW w \in Workers
      PROVE  (pc'[w] = pc[w] /\ job'[w] = job[w]) \/ pc'[w] \in {"off", "leaving"}
  <2>1. CASE StopTerm
    BY <2>1 DEF StopTerm
  <2>2. CASE StopKill
    BY <2>2 DEF StopKill, Gone
  <2>3. CASE StopClear \/ StopLock \/ StopDone
    BY <2>3 DEF StopClear, StopLock, StopDone
  <2> QED BY <2>1, <2>2, <2>3 DEF StopStep
<1> QED BY <1>1, <1>2 DEF Verified, InTree

\* Genuine landings are preserved by every step.
LEMMA VerifiedNext ==
  ASSUME PromptWorkers, VerifiedInv, [Next]_vars
  PROVE  VerifiedInv'
<1>1. ExclusiveInv' /\ TextInv' /\ TypeInv
  BY ExclusiveNext, TextNext DEF VerifiedInv, TextInv
<1> SUFFICES ASSUME ~overlooked', NEW f \in Funcs \ Gated, Alone(f) PROVE Verified(f)'
  BY <1>1 DEF VerifiedInv, Alone
<1>2. LockInv /\ ClaimInv /\ Verified(f) /\ \A w \in Workers : OwnText(w, f)
  BY <1>1, NobodyMissed DEF VerifiedInv, ExclusiveInv, OwnerInv, TextInv
<1>3. CASE UNCHANGED vars
  BY <1>2, <1>3 DEF vars, Verified, InTree
<1>4. ASSUME NEW g \in Funcs, Reclaim(g) PROVE Verified(f)'
  BY <1>2, <1>4 DEF Reclaim, Verified, InTree
<1>5. CASE StopStep
  BY <1>2, <1>5, VerifiedStop
<1>6. ASSUME NEW w \in Workers, Work(w) \/ Section(w) \/ Ending(w) PROVE Verified(f)'
  BY <1>1, <1>2, <1>6, VerifiedWork, VerifiedSection, VerifiedEnding
<1>7. ASSUME NEW p \in Workers \cup {Stop}, NEW v \in Workers, ReplayOne(p, v) PROVE Verified(f)'
  BY <1>2, <1>7, VerifiedReplay
<1> QED BY <1>3, <1>4, <1>5, <1>6, <1>7 DEF Next, StopStep

\* In the initial state there is no candidate and no landing.
LEMMA InitVerified == Init => VerifiedInv
<1> SUFFICES ASSUME Init PROVE VerifiedInv
  OBVIOUS
<1>1. \A f \in Funcs : Verified(f)
  BY DEF Init, Verified, InTree
<1> QED BY <1>1, InitExclusive, InitText DEF VerifiedInv

\* What is archived as a verified landing of a function with a file of its own
\* did match, whatever becomes of the other workers' files and writes: no
\* worker's build judges a tree out of which somebody else's restore, replay or
\* stop has taken its candidate.
THEOREM LandingsAreVerified ==
  ASSUME PromptWorkers PROVE Spec => []LandingIsVerified
<1>1. VerifiedInv /\ [Next]_vars => VerifiedInv'
  BY VerifiedNext
<1>2. VerifiedInv => LandingIsVerified
  BY DEF VerifiedInv, Verified, LandingIsVerified
<1> QED BY <1>1, <1>2, InitVerified, PTL DEF Spec
=============================================================================
