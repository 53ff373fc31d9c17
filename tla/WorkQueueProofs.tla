--------------------------- MODULE WorkQueueProofs ---------------------------
(***************************************************************************)
(* The safety invariants of the work queue, for every set of functions,    *)
(* workers, limits and rankings and any number of operator commands.  The  *)
(* argument is per record: each operator of QueueRecords turns a good      *)
(* record into a good one, and a saved copy holds only good ones.  Of what *)
(* comes from elsewhere nothing is asked until it is reported on.          *)
(***************************************************************************)
EXTENDS WorkQueue, TLAPS

\* Reclaiming r, if it is claimed, leads back to its last verdict h.
Homed(r, h) == /\ r.status = "claimed" => ReclaimRec(r).status = h
               /\ r.status \notin {"claimed", "absent"} => r.status = h

\* A record r that the scheduler made itself and whose last verdict was h is sound.
Sound(r, h) ==
    /\ r.status = "matched" => r.proof = "verified"
    /\ r.status = "claimed" => r.claimed_from = h /\ h # "matched"
    /\ r.status \notin {"claimed", "absent"} => r.status = h
    /\ r.search_verdict => /\ r.status \in {"deferred", "claimed", "escalated"}
                           /\ h \in {"deferred", "escalated"}

\* What holds of the record r of id, when the ids in F came from elsewhere.
Good(r, h, id, F) == Homed(r, h) /\ (id \notin F => Sound(r, h))

\* Every record of the queue q is good, and within the circuit breaker's bound
\* unless the operator has named it or brought it in beyond that.
AllGood(q, h, F) ==
    \A id \in Ids : /\ Good(q[id], h[id], id, F)
                    /\ id \notin named => q[id].claims <= MaxClaims

IInv == /\ TypeOK
        /\ AllGood(queue, home, foreign)
        /\ AllGood(snapshot.queue, snapshot.home, snapshot.foreign)

-----------------------------------------------------------------------------
(* What the operators on records preserve. *)

\* A new record, and the absence of one, is good.
LEMMA NewGood == /\ NewRecord \in Record /\ Absent \in Record
                 /\ NewRecord.claims = 0 /\ Absent.claims = 0
                 /\ HomeOf(NewRecord) = "todo"
                 /\ \A id, F : Good(NewRecord, "todo", id, F)
                 /\ \A h, id, F : Good(Absent, h, id, F)
  BY DEF NewRecord, Absent, Record, Good, Homed, HomeOf, ReclaimRec, Sound, Status, Verdict

\* A record from elsewhere has a home.
LEMMA FileHomed ==
  ASSUME NEW r \in Record, r.claimed_from # "claimed"
  PROVE  HomeOf(r) \in Verdict /\ Homed(r, HomeOf(r))
  BY WorkQueueAssumption DEF Record, HomeOf, Homed, ReclaimRec, Status, Verdict

\* _take: a claim remembers the last verdict, and counts.
LEMMA TakeGood ==
  ASSUME NEW r \in Record, NEW h \in Verdict, NEW id, NEW F, Good(r, h, id, F),
         r.status \notin {"absent", "claimed", "matched"}
  PROVE  /\ Take(r) \in Record /\ Good(Take(r), h, id, F)
         /\ Take(r).claims = r.claims + 1
<1>1. /\ Take(r).status = "claimed" /\ Take(r).claimed_from = r.status
      /\ Take(r).claims = r.claims + 1
      /\ Take(r).search_verdict = r.search_verdict
  BY DEF Take, Record
<1>2. Take(r) \in Record
  <2>1. r.claims + 1 \in Nat /\ r.status \in Status /\ "claimed" \in Status
    BY DEF Record, Status
  <2> QED BY <2>1 DEF Take, Record
<1>3. r.status = h
  BY DEF Good, Homed
<1>4. Homed(Take(r), h)
  BY <1>1, <1>2, <1>3, WorkQueueAssumption DEF Homed, ReclaimRec, Record, Status, Verdict
<1>5. Sound(r, h) => Sound(Take(r), h)
  BY <1>1, <1>3 DEF Sound
<1> QED BY <1>1, <1>2, <1>4, <1>5 DEF Good

\* The circuit breaker's escalation is a verdict like any other.
LEMMA BreakGood ==
  ASSUME NEW r \in Record, NEW h \in Verdict, NEW id, NEW F, Good(r, h, id, F),
         r.status \in {"todo", "deferred"}
  PROVE  /\ Break(r) \in Record /\ Good(Break(r), "escalated", id, F)
         /\ Break(r).claims = r.claims
  BY DEF Break, Record, Good, Homed, Sound, Status, Verdict

\* cmd_report: an accepted report makes its status the last verdict, and the
\* record sound, wherever it came from.
LEMMA ReportGood ==
  ASSUME NEW r \in Record, NEW m \in Report, Accepted(m), NEW id, NEW F
  PROVE  /\ ReportRec(r, m) \in Record /\ Good(ReportRec(r, m), m.status, id, F)
         /\ ReportRec(r, m).claims = r.claims
<1>1. /\ NewVerdict(r, m) \in BOOLEAN /\ NewHandoff(r, m) \in BOOLEAN
      /\ NewProof(r, m) \in {"none", "testimony", "verified"}
  BY DEF NewVerdict, NewHandoff, NewProof, Record, Report
<1>2. m.status = "matched" => NewProof(r, m) = "verified"
  BY DEF Accepted, NewProof
<1>3. NewVerdict(r, m) => m.status = "deferred"
  BY DEF Accepted, NewVerdict
<1>4. m.status \in Verdict /\ m.limit \in Nat
  BY DEF Report
<1>5. /\ ReportRec(r, m).status = m.status
      /\ ReportRec(r, m).search_verdict = NewVerdict(r, m)
      /\ ReportRec(r, m).proof = NewProof(r, m)
      /\ ReportRec(r, m).claims = r.claims
  BY DEF ReportRec, Record
<1>6. ReportRec(r, m) \in Record
  <2>1. (IF m.limit # 0 THEN m.limit ELSE r.handoff_limit) \in Nat
    BY <1>4 DEF Record
  <2> QED BY <1>1, <1>4, <2>1 DEF ReportRec, Record, Status
<1>7. m.status \notin {"claimed", "absent"}
  BY <1>4 DEF Verdict
<1> QED BY <1>2, <1>3, <1>5, <1>6, <1>7 DEF Good, Homed, Sound

\* cmd_reclaim: a stranded record goes back to its last verdict.
LEMMA ReclaimGood ==
  ASSUME NEW r \in Record, NEW h \in Verdict, NEW id, NEW F, Good(r, h, id, F),
         r.status = "claimed"
  PROVE  /\ ReclaimRec(r) \in Record /\ Good(ReclaimRec(r), h, id, F)
         /\ ReclaimRec(r).claims = r.claims
<1>1. /\ ReclaimRec(r).status = h /\ h \notin {"claimed", "absent"}
      /\ ReclaimRec(r).claims = r.claims
      /\ ReclaimRec(r).search_verdict = r.search_verdict
  BY DEF Good, Homed, ReclaimRec, Record, Verdict
<1>2. ReclaimRec(r) \in Record
  BY WorkQueueAssumption DEF ReclaimRec, Record, Status, Verdict
<1>3. Sound(r, h) => Sound(ReclaimRec(r), h)
  BY <1>1 DEF Sound
<1> QED BY <1>1, <1>2, <1>3 DEF Good, Homed

\* What workers and operators send is a report.
LEMMA OutcomesAreReports ==
  ASSUME TypeOK, NEW w \in Workers, ~Free(w)
  PROVE  Outcomes(w) \subseteq Report /\ holding[w].id \in Ids
<1>1. holding[w].id \in Ids
  BY DEF TypeOK, Claim, Free
<1>2. Limit[w] \in Nat
  BY WorkQueueAssumption
<1>3. ASSUME NEW s \in Verdict
      PROVE  [status |-> s, note |-> "keep", limit |-> 0, verdict |-> FALSE,
              proof |-> s = "matched"] \in Report
  <2>1. (s = "matched") \in BOOLEAN
    OBVIOUS
  <2> QED BY <2>1 DEF Report
<1>4. [status |-> "deferred", note |-> "handoff", limit |-> Limit[w],
       verdict |-> FALSE, proof |-> FALSE] \in Report
  BY <1>2 DEF Report, Verdict
<1> QED BY <1>1, <1>3, <1>4 DEF Outcomes

\* Likewise the reports of operators.
LEMMA OperatorReportsAreReports == OperatorReports \subseteq Report
<1>1. ASSUME NEW s \in Verdict
      PROVE  [status |-> s, note |-> "plain", limit |-> 0, verdict |-> FALSE,
              proof |-> s = "near"] \in Report
  <2>1. (s = "near") \in BOOLEAN
    OBVIOUS
  <2> QED BY <2>1 DEF Report
<1>2. ASSUME NEW s \in Verdict
      PROVE  [status |-> s, note |-> "keep", limit |-> 0, verdict |-> s = "deferred",
              proof |-> s = "matched"] \in Report
  <2>1. (s = "deferred") \in BOOLEAN /\ (s = "matched") \in BOOLEAN
    OBVIOUS
  <2> QED BY <2>1 DEF Report
<1>3. {"todo", "near", "deferred", "matched"} \subseteq Verdict
  BY DEF Verdict
<1> QED BY <1>1, <1>2, <1>3 DEF OperatorReports

\* Recording a report keeps the queue good.
LEMMA ReportedGood ==
  ASSUME IInv, NEW id \in Ids, NEW m \in Report, Accepted(m), Reported(id, m)
  PROVE  /\ queue' \in Queues /\ home' \in [Ids -> Verdict] /\ foreign' \subseteq Ids
         /\ \A i \in Ids : /\ Good(queue'[i], home'[i], i, foreign')
                           /\ queue'[i].claims = queue[i].claims
<1>1. m.status \in Verdict
  BY DEF Report
<1>2. queue[id] \in Record
  BY DEF IInv, TypeOK, Queues
<1>3. /\ ReportRec(queue[id], m) \in Record
      /\ \A F : Good(ReportRec(queue[id], m), m.status, id, F)
      /\ ReportRec(queue[id], m).claims = queue[id].claims
  BY <1>2, ReportGood
<1>4. \A i \in Ids : Good(queue[i], home[i], i, foreign)
  BY DEF IInv, AllGood
<1>5. CASE UNCHANGED <<queue, home, foreign>>
  BY <1>4, <1>5 DEF IInv, TypeOK
<1>6. CASE /\ queue' = [queue EXCEPT ![id] = ReportRec(@, m)]
           /\ home' = [home EXCEPT ![id] = m.status]
           /\ foreign' = foreign \ {id}
  <2>1. \A i \in Ids \ {id} : Good(queue[i], home[i], i, foreign')
    BY <1>4, <1>6 DEF Good
  <2> QED BY <1>1, <1>3, <1>6, <2>1 DEF IInv, TypeOK, Queues
<1> QED BY <1>5, <1>6 DEF Reported

\* Records from elsewhere keep the queue good, since nothing is asked of them
\* until they are reported on.
LEMMA AdmitGood ==
  ASSUME IInv, NEW S \in SUBSET Ids, NEW file \in Files, Admit(S, file)
  PROVE  /\ queue' \in Queues /\ home' \in [Ids -> Verdict]
         /\ named' \subseteq Ids /\ foreign' \subseteq Ids
         /\ named \subseteq named'
         /\ \A i \in Ids : /\ Good(queue'[i], home'[i], i, foreign')
                           /\ i \notin named' => queue'[i].claims <= MaxClaims
<1>1. \A i \in Ids : /\ file[i] \in Record /\ HomeOf(file[i]) \in Verdict
                     /\ Homed(file[i], HomeOf(file[i]))
  BY FileHomed, WorkQueueAssumption
<1>2. /\ queue' = [i \in Ids |-> IF i \in S THEN file[i] ELSE queue[i]]
      /\ home' = [i \in Ids |-> IF i \in S THEN HomeOf(file[i]) ELSE home[i]]
      /\ named' = named \cup {i \in S : file[i].claims > MaxClaims}
      /\ foreign' = (foreign \ S) \cup {i \in S : file[i] \notin {Absent, NewRecord}}
  BY DEF Admit
<1>3. queue' \in Queues /\ home' \in [Ids -> Verdict]
  BY <1>1, <1>2 DEF IInv, TypeOK, Queues
<1>4. named' \subseteq Ids /\ foreign' \subseteq Ids /\ named \subseteq named'
  BY <1>2 DEF IInv, TypeOK
<1>5. ASSUME NEW i \in S
      PROVE  /\ Good(queue'[i], home'[i], i, foreign')
             /\ i \notin named' => queue'[i].claims <= MaxClaims
  <2>1. queue'[i] = file[i] /\ home'[i] = HomeOf(file[i]) /\ file[i].claims \in Nat
    BY <1>1, <1>2 DEF Record
  <2>2. i \notin named' => queue'[i].claims <= MaxClaims
    BY <1>2, <2>1, WorkQueueAssumption
  <2>3. CASE i \in foreign'
    BY <1>1, <2>1, <2>2, <2>3 DEF Good
  <2>4. CASE i \notin foreign'
    <3>1. file[i] \in {Absent, NewRecord}
      BY <1>2, <2>4
    <3>2. Good(queue'[i], home'[i], i, foreign')
      BY <2>1, <3>1, NewGood
    <3> QED BY <2>2, <3>2
  <2> QED BY <2>3, <2>4
<1>6. ASSUME NEW i \in Ids \ S
      PROVE  /\ Good(queue'[i], home'[i], i, foreign')
             /\ i \notin named' => queue'[i].claims <= MaxClaims
  <2>1. /\ queue'[i] = queue[i] /\ home'[i] = home[i]
        /\ i \in named => i \in named'
        /\ i \in foreign' <=> i \in foreign
    BY <1>2
  <2>2. /\ Good(queue[i], home[i], i, foreign)
        /\ i \notin named => queue[i].claims <= MaxClaims
    BY DEF IInv, AllGood
  <2> QED BY <2>1, <2>2 DEF Good
<1> QED BY <1>3, <1>4, <1>5, <1>6

-----------------------------------------------------------------------------
\* The first queue is good.
LEMMA InitIInv == Init => IInv
  BY NewGood, WorkQueueAssumption
     DEF Init, IInv, TypeOK, AllGood, Queues, Claim, NoClaim, NoCommand, Verdict

\* The pool path of next: breaker trips and one claim below the limit.
LEMMA NextPoolIInv == ASSUME IInv, NEW w \in Workers, Next_Pool(w) PROVE IInv'
<1> DEFINE broken == [id \in Ids |-> IF id \in Burned(w) THEN Break(queue[id]) ELSE queue[id]]
           homes == [id \in Ids |-> IF id \in Burned(w) THEN "escalated" ELSE home[id]]
<1>1. \A id \in TodoPool(w) \cup DeferredPool(w) :
          id \in Ids /\ queue[id].status \in {"todo", "deferred"}
  BY DEF TodoPool, DeferredPool
<1>2. \A id \in Ids : /\ queue[id] \in Record /\ home[id] \in Verdict
                      /\ Good(queue[id], home[id], id, foreign)
  BY DEF IInv, TypeOK, Queues, AllGood
<1>3. \A id \in Ids : /\ broken[id] \in Record /\ homes[id] \in Verdict
                      /\ Good(broken[id], homes[id], id, foreign)
                      /\ broken[id].claims = queue[id].claims
  <2> SUFFICES ASSUME NEW id \in Ids
               PROVE  /\ broken[id] \in Record /\ homes[id] \in Verdict
                      /\ Good(broken[id], homes[id], id, foreign)
                      /\ broken[id].claims = queue[id].claims
    OBVIOUS
  <2>1. CASE id \in Burned(w)
    BY <1>1, <1>2, <2>1, BreakGood DEF Burned, Verdict
  <2>2. CASE id \notin Burned(w)
    BY <1>2, <2>2
  <2> QED BY <2>1, <2>2
<1>4. home' = homes /\ UNCHANGED <<command, snapshot, ops, named, foreign>>
  BY DEF Next_Pool
<1>5. CASE queue' = broken /\ UNCHANGED holding
  BY <1>3, <1>4, <1>5 DEF IInv, TypeOK, Queues, AllGood
<1>6. ASSUME NEW id \in Choices(w),
             queue' = [broken EXCEPT ![id] = Take(queue[id])],
             holding' = [holding EXCEPT ![w] = [id |-> id, from |-> queue[id].status]]
      PROVE  IInv'
  <2>1. /\ id \in Ids /\ id \notin Burned(w)
        /\ id \in TodoPool(w) \cup DeferredPool(w)
    BY <1>1 DEF Choices, Eligible
  <2>2. queue[id].status \in {"todo", "deferred"}
    BY <1>1, <2>1
  <2>3. /\ Take(queue[id]) \in Record /\ Good(Take(queue[id]), home[id], id, foreign)
        /\ Take(queue[id]).claims = queue[id].claims + 1
    BY <1>2, <2>1, <2>2, TakeGood
  <2>4. queue[id].claims < MaxClaims
    BY <2>1, <1>2, WorkQueueAssumption DEF Burned, Record
  <2>5. queue' \in Queues /\ home' \in [Ids -> Verdict]
    BY <1>3, <1>4, <1>6, <2>1, <2>3 DEF Queues
  <2>6. holding' \in [Workers -> Claim]
    BY <1>6, <2>1, <2>2 DEF IInv, TypeOK, Claim, Verdict
  <2>7. AllGood(queue', home', foreign')
    <3> SUFFICES ASSUME NEW i \in Ids
                 PROVE  /\ Good(queue'[i], home'[i], i, foreign')
                        /\ i \notin named => queue'[i].claims <= MaxClaims
      BY <1>4 DEF AllGood
    <3>1. CASE i = id
      BY <1>4, <1>6, <2>1, <2>3, <2>4, <3>1, <1>2, WorkQueueAssumption DEF Record
    <3>2. CASE i # id
      BY <1>3, <1>4, <1>6, <3>2 DEF IInv, AllGood
    <3> QED BY <3>1, <3>2
  <2> QED BY <1>4, <2>5, <2>6, <2>7 DEF IInv, TypeOK, AllGood
<1> QED BY <1>5, <1>6 DEF Next_Pool

\* A named claim may exceed the breaker's bound, and then the id is in named.
LEMMA NextOnlyIInv ==
  ASSUME IInv, NEW w \in Workers, NEW id \in Ids, Next_Only(w, id) PROVE IInv'
<1>1. queue[id] \in Record /\ home[id] \in Verdict /\ Good(queue[id], home[id], id, foreign)
  BY DEF IInv, TypeOK, Queues, AllGood
<1>2. queue[id].status \notin {"absent", "claimed", "matched"} /\ queue[id].status \in Verdict
  BY <1>1 DEF Next_Only, Record, Status
<1>3. Take(queue[id]) \in Record /\ Good(Take(queue[id]), home[id], id, foreign)
  BY <1>1, <1>2, TakeGood
<1>4. ops' \in 0..MaxOps
  BY WorkQueueAssumption DEF Next_Only, Spend, IInv, TypeOK
<1> QED BY <1>2, <1>3, <1>4 DEF Next_Only, IInv, TypeOK, Queues, AllGood, Claim

\* A worker's report keeps the queue good.
LEMMA WorkerReportIInv == ASSUME IInv, NEW w \in Workers, WorkerReport(w) PROVE IInv'
<1>1. PICK m \in Outcomes(w) : Accepted(m) /\ Reported(holding[w].id, m)
  BY DEF WorkerReport
<1>2. m \in Report /\ holding[w].id \in Ids
  BY <1>1, OutcomesAreReports DEF WorkerReport, IInv
<1> QED BY <1>1, <1>2, ReportedGood DEF WorkerReport, IInv, TypeOK, AllGood, Claim

\* So does an operator's.
LEMMA OperatorReportIInv == ASSUME IInv, NEW id \in Ids, OperatorReport(id) PROVE IInv'
<1>1. PICK m \in OperatorReports : Accepted(m) /\ Reported(id, m)
  BY DEF OperatorReport
<1>2. ops' \in 0..MaxOps
  BY WorkQueueAssumption DEF OperatorReport, Spend, IInv, TypeOK
<1> QED BY <1>1, <1>2, OperatorReportsAreReports, ReportedGood
        DEF OperatorReport, IInv, TypeOK, AllGood

\* cmd_init adds records for ids that had none.
LEMMA SeedIInv == ASSUME IInv, Seed PROVE IInv'
<1>1. PICK file \in Files :
        /\ Admit({id \in Ids \ Present(queue) : file[id] # Absent}, file)
        /\ ops' = ops \/ Spend
        /\ UNCHANGED <<holding, command, snapshot>>
  BY DEF Seed
<1>2. ops' \in 0..MaxOps
  BY <1>1, WorkQueueAssumption DEF Spend, IInv, TypeOK
<1> QED BY <1>1, <1>2, AdmitGood DEF IInv, TypeOK, AllGood

\* cmd_reclaim sends stranded records home.
LEMMA ReclaimIInv == ASSUME IInv, Reclaim PROVE IInv'
<1>1. PICK old \in SUBSET {id \in Ids : queue[id].status = "claimed"} :
         queue' = [id \in Ids |-> IF id \in old THEN ReclaimRec(queue[id]) ELSE queue[id]]
  BY DEF Reclaim
<1>2. \A id \in Ids : /\ queue'[id] \in Record /\ Good(queue'[id], home[id], id, foreign)
                      /\ queue'[id].claims = queue[id].claims
  BY <1>1, ReclaimGood DEF IInv, TypeOK, Queues, AllGood
<1> QED BY <1>1, <1>2 DEF Reclaim, histories, IInv, TypeOK, Queues, AllGood

\* cmd_prune takes records out, and changes none that stays.
LEMMA PruneIInv == ASSUME IInv, PruneRead \/ PruneCommit PROVE IInv'
<1>1. CASE PruneRead
  BY <1>1, WorkQueueAssumption
     DEF PruneRead, Spend, Idle, NoCommand, histories, IInv, TypeOK, AllGood
<1>2. CASE PruneCommit
  <2>1. \A id \in Ids : /\ queue'[id] \in Record
                        /\ id \notin named => queue'[id].claims <= MaxClaims
    BY <1>2, NewGood, WorkQueueAssumption DEF PruneCommit, IInv, TypeOK, Queues, AllGood
  <2>2. \A id \in Ids : Good(queue'[id], home[id], id, foreign')
    <3> SUFFICES ASSUME NEW id \in Ids PROVE Good(queue'[id], home[id], id, foreign')
      OBVIOUS
    <3>1. CASE id \in command.ids
      BY <1>2, <3>1, NewGood DEF PruneCommit
    <3>2. CASE id \notin command.ids
      BY <1>2, <3>2 DEF PruneCommit, IInv, AllGood, Good
    <3> QED BY <3>1, <3>2
  <2> QED BY <1>2, <2>1, <2>2 DEF PruneCommit, NoCommand, IInv, TypeOK, Queues, AllGood
<1> QED BY <1>1, <1>2

\* The saved copy was good when it was saved, and named only grows.
LEMMA SnapshotIInv == ASSUME IInv, Snapshot PROVE IInv'
  BY WorkQueueAssumption DEF Snapshot, Spend, histories, IInv, TypeOK, AllGood

\* cmd_restore puts back a copy that is good, or brings in records from elsewhere.
LEMMA RestoreIInv == ASSUME IInv, RestoreRead \/ RestoreCommit PROVE IInv'
<1>1. CASE RestoreRead
  BY <1>1, WorkQueueAssumption
     DEF RestoreRead, Spend, Idle, NoCommand, histories, IInv, TypeOK, AllGood
<1>2. CASE RestoreCommit
  <2>1. command' = NoCommand /\ UNCHANGED <<holding, snapshot, ops>>
    BY <1>2 DEF RestoreCommit
  <2>2. CASE /\ queue' = snapshot.queue /\ home' = snapshot.home
             /\ foreign' = snapshot.foreign /\ UNCHANGED named
    BY <2>1, <2>2 DEF NoCommand, IInv, TypeOK, AllGood
  <2>3. ASSUME NEW file \in Files, Admit(Ids, file) PROVE IInv'
    BY <2>1, <2>3, AdmitGood DEF NoCommand, IInv, TypeOK, AllGood
  <2> QED BY <1>2, <2>2, <2>3 DEF RestoreCommit
<1> QED BY <1>1, <1>2

\* Every command keeps the records good.
LEMMA NextIInv == IInv /\ [Next]_vars => IInv'
<1> SUFFICES ASSUME IInv, [Next]_vars PROVE IInv'
  OBVIOUS
<1>1. CASE UNCHANGED vars
  BY <1>1 DEF vars, IInv, TypeOK, AllGood
<1>2. ASSUME NEW w \in Workers, WorkerDies(w) PROVE IInv'
  BY <1>2 DEF WorkerDies, histories, IInv, TypeOK, AllGood, Claim
<1> QED BY <1>1, <1>2, NextPoolIInv, NextOnlyIInv, WorkerReportIInv, OperatorReportIInv,
           SeedIInv, ReclaimIInv, PruneIInv, SnapshotIInv, RestoreIInv DEF Next

\* Every record of the queue and of a snapshot is good in every reachable state.
THEOREM WorkQueueInvariant == Spec => []IInv
  BY InitIInv, NextIInv, PTL DEF Spec

\* The fields of every record, saved copy and client keep their types.
THEOREM WorkQueueTypeOK == Spec => []TypeOK
<1>1. IInv => TypeOK
  BY DEF IInv
<1> QED BY <1>1, WorkQueueInvariant, PTL

\* cmd_report: a matched record carries a proof the scheduler verified, unless it
\* came with a file from elsewhere and nobody has reported on it since.
THEOREM MatchedIsProved == Spec => []TrustInvariant
<1>1. IInv => TrustInvariant
  BY DEF IInv, AllGood, Good, Sound, TrustInvariant
<1> QED BY <1>1, WorkQueueInvariant, PTL

\* _take and cmd_reclaim: a stranded record can return to its last verdict.
THEOREM ClaimsRememberHome == Spec => []StrandedGoesHome
<1>1. IInv => StrandedGoesHome
  BY DEF IInv, AllGood, Good, Homed, StrandedGoesHome, Present
<1> QED BY <1>1, WorkQueueInvariant, PTL

\* cmd_next: the fleet never claims a record more than MAX_CLAIMS times, unless it
\* was named, or came from elsewhere with more claims than that.
THEOREM CircuitBreakerBounds == Spec => []BreakerBoundsClaims
<1>1. IInv => BreakerBoundsClaims
  BY DEF IInv, AllGood, BreakerBoundsClaims
<1> QED BY <1>1, WorkQueueInvariant, PTL

\* cmd_report: a search verdict never outlives its deferral.
THEOREM VerdictsStayOnDeferrals == Spec => []VerdictOnlyOnDeferral
<1>1. IInv => VerdictOnlyOnDeferral
  BY DEF IInv, AllGood, Good, Sound, VerdictOnlyOnDeferral
<1> QED BY <1>1, WorkQueueInvariant, PTL

(***************************************************************************)
(* cmd_prune between its two halves.                                       *)
(***************************************************************************)
\* What a prune has listed is still todo.
ListedIsTodo ==
    command.kind = "prune" => \A id \in command.ids : queue[id].status = "todo"

\* One step, if it is not somebody else's write during a prune.
LEMMA NextListed ==
    ASSUME TypeOK, ListedIsTodo, [Next]_vars,
           [command.kind = "prune" /\ queue' # queue => command' = NoCommand]_vars
    PROVE  ListedIsTodo'
<1>1. CASE UNCHANGED vars
  BY <1>1 DEF vars, ListedIsTodo
<1>2. CASE command' = NoCommand
  BY <1>2 DEF NoCommand, ListedIsTodo
<1>3. CASE PruneRead
  BY <1>3 DEF PruneRead, ListedIsTodo
<1>4. CASE RestoreRead
  BY <1>4 DEF RestoreRead, ListedIsTodo
<1>5. ASSUME UNCHANGED command, command' # NoCommand PROVE ListedIsTodo'
  <2>1. command.kind = "prune" => queue' = queue
    BY <1>5 DEF vars
  <2> QED BY <1>5, <2>1 DEF ListedIsTodo
<1>6. ASSUME NEW w \in Workers,
             \/ Next_Pool(w) \/ WorkerReport(w) \/ WorkerDies(w)
             \/ \E id \in Ids : Next_Only(w, id)
      PROVE  UNCHANGED command
  BY <1>6 DEF Next_Pool, WorkerReport, WorkerDies, Next_Only
<1>7. ASSUME NEW id \in Ids, OperatorReport(id) PROVE UNCHANGED command
  BY <1>7 DEF OperatorReport
<1>8. ASSUME Seed \/ Reclaim \/ Snapshot PROVE UNCHANGED command
  BY <1>8 DEF Seed, Reclaim, Snapshot
<1>9. ASSUME PruneCommit \/ RestoreCommit PROVE command' = NoCommand
  BY <1>9 DEF PruneCommit, RestoreCommit
<1> QED BY <1>1, <1>2, <1>3, <1>4, <1>5, <1>6, <1>7, <1>8, <1>9 DEF Next

\* What a prune that is undisturbed deletes is todo.
LEMMA NextPrunes ==
    ASSUME TypeOK, ListedIsTodo, [Next]_vars,
           [command.kind = "prune" /\ queue' # queue => command' = NoCommand]_vars
    PROVE  [command.kind = "prune" =>
              \A id \in Ids : queue'[id].status = "absent" =>
                                queue[id].status \in {"todo", "absent"}]_vars
<1> SUFFICES ASSUME command.kind = "prune", NEW id \in Ids, queue'[id].status = "absent"
             PROVE  queue[id].status \in {"todo", "absent"} \/ UNCHANGED vars
  OBVIOUS
<1>1. CASE UNCHANGED queue
  BY <1>1
<1>2. CASE PruneCommit
  BY <1>2 DEF PruneCommit, ListedIsTodo, TypeOK, Queues
<1>3. ASSUME command' = NoCommand PROVE UNCHANGED queue \/ PruneCommit
  <2>1. command # NoCommand
    BY DEF NoCommand
  <2>2. ASSUME NEW w \in Workers,
               \/ Next_Pool(w) \/ WorkerReport(w) \/ WorkerDies(w)
               \/ \E i \in Ids : Next_Only(w, i)
        PROVE  UNCHANGED command
    BY <2>2 DEF Next_Pool, WorkerReport, WorkerDies, Next_Only
  <2>3. ASSUME NEW i \in Ids, OperatorReport(i) PROVE UNCHANGED command
    BY <2>3 DEF OperatorReport
  <2>4. ASSUME Seed \/ Reclaim \/ Snapshot PROVE UNCHANGED command
    BY <2>4 DEF Seed, Reclaim, Snapshot
  <2>5. ~RestoreCommit /\ ~PruneRead /\ ~RestoreRead
    BY DEF RestoreCommit, PruneRead, RestoreRead, Idle, NoCommand
  <2> QED BY <1>3, <2>1, <2>2, <2>3, <2>4, <2>5 DEF Next, vars
<1> QED BY <1>1, <1>2, <1>3 DEF vars

\* cmd_prune keeps its promise, never to delete work that is done, whenever
\* nobody writes the queue between its look and its transaction: the read
\* outside the lock is the only way to break it.
THEOREM UndisturbedPruneIsSafe == Spec /\ PruneIsUndisturbed => PruneOnlyTodo
<1>1. Init => ListedIsTodo
  BY DEF Init, NoCommand, ListedIsTodo
<1>2. /\ TypeOK /\ ListedIsTodo /\ [Next]_vars
      /\ [command.kind = "prune" /\ queue' # queue => command' = NoCommand]_vars
      => ListedIsTodo'
  BY NextListed
<1>3. /\ TypeOK /\ ListedIsTodo /\ [Next]_vars
      /\ [command.kind = "prune" /\ queue' # queue => command' = NoCommand]_vars
      => [command.kind = "prune" =>
            \A id \in Ids : queue'[id].status = "absent" =>
                              queue[id].status \in {"todo", "absent"}]_vars
  BY NextPrunes
<1> QED BY <1>1, <1>2, <1>3, WorkQueueTypeOK, PTL DEF Spec, PruneIsUndisturbed, PruneOnlyTodo
=============================================================================
