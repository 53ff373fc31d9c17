---------------------------- MODULE QueueRecords ----------------------------
(***************************************************************************)
(* The records of the work queue and what the commands of                  *)
(* automation/scheduler.py do to one of them.  Every operator here is the  *)
(* body of the loop inside one transaction.                                *)
(***************************************************************************)
EXTENDS Naturals

CONSTANT None   \* no status

Verdict == {"todo", "near", "matched", "escalated", "deferred"}
Status == Verdict \cup {"claimed"}

(***************************************************************************)
(* The fields of the JSON record that the scheduler reads.  handoff stands *)
(* for the marker TIER_HANDOFF_TOO_LARGE inside its notes, the only part of*)
(* them the scheduler looks at; proof keeps apart a string the caller sent *)
(* and one that cmd_report itself verified.  claimed_by and the dates are  *)
(* left out: nothing reads the former, and how old a claim is when a       *)
(* reclaim runs is left open.  An id with no record has status "absent".   *)
(***************************************************************************)
Record == [status: Status \cup {"absent"},
           claimed_from: Status \cup {None},
           claims: Nat,
           handoff: BOOLEAN,
           handoff_limit: Nat,
           search_verdict: BOOLEAN,
           proof: {"none", "testimony", "verified"}]

\* cmd_init on a bare id: the defaults it sets.  (A full record keeps its fields:
\* see WorkQueue.Seed.)
NewRecord == [status |-> "todo", claimed_from |-> None,
              claims |-> 0, handoff |-> FALSE, handoff_limit |-> 0,
              search_verdict |-> FALSE, proof |-> "none"]

Absent == [NewRecord EXCEPT !.status = "absent"]

\* A claim that remembers only the first status the record was claimed from.
TakeKeepHome(r) ==
    [r EXCEPT !.claimed_from = IF @ = None THEN r.status ELSE @,
              !.status = "claimed", !.claims = @ + 1]

\* A claim that is not counted.
TakeUncounted(r) == [r EXCEPT !.claimed_from = r.status, !.status = "claimed"]

\* _take: the only place a claim is written.
Take(r) ==
    [r EXCEPT !.claimed_from = r.status, !.status = "claimed", !.claims = @ + 1]

\* The circuit breaker of cmd_next; the old notes, marker included, are kept.
Break(r) == [r EXCEPT !.status = "escalated"]

(***************************************************************************)
(* What the caller of `report` sends: the new status; its note ("none"     *)
(* when absent, "plain", "handoff" when it holds the marker, "keep" for a  *)
(* plain note with --keep-note); --handoff-limit; whether a structured     *)
(* search verdict comes with it; and whether a --proof string does.        *)
(***************************************************************************)
Report == [status: Verdict, note: {"none", "plain", "handoff", "keep"},
           limit: Nat, verdict: BOOLEAN, proof: BOOLEAN]

\* The checks of cmd_report before its transaction: a verdict comes with
\* "deferred" only, "matched" with a proof only.
Accepted(m) == /\ m.verdict => m.status = "deferred"
               /\ m.status = "matched" => m.proof

\* Keeping the first proof a record was ever given.
FirstProof(r, m) ==
    IF m.proof /\ r.proof = "none"
    THEN IF m.status = "matched" THEN "verified" ELSE "testimony"
    ELSE r.proof

\* args.proof is verified against the tree for "matched" only; for any other
\* status the caller's string is stored as it came.
NewProof(r, m) ==
    IF m.proof THEN IF m.status = "matched" THEN "verified" ELSE "testimony"
    ELSE r.proof

\* A verdict that survives whatever is reported about a deferred record.
StickyVerdict(r, m) == m.verdict \/ (r.search_verdict /\ r.status = "deferred")

\* The verdict is dropped unless the record was deferred and stays deferred.
NewVerdict(r, m) ==
    m.verdict \/ (r.search_verdict /\ m.status = "deferred" /\ r.status = "deferred")

\* --keep-note prepends, so the old marker survives; another note replaces it.
NewHandoff(r, m) == \/ m.note = "handoff"
                    \/ m.note \in {"none", "keep"} /\ r.handoff

\* The transaction of cmd_report.  It asks neither who claimed the record nor
\* what its status is, and leaves claimed_from alone.
ReportRec(r, m) ==
    [r EXCEPT !.status = m.status,
              !.search_verdict = NewVerdict(r, m),
              !.handoff = NewHandoff(r, m),
              !.proof = NewProof(r, m),
              !.handoff_limit = IF m.limit # 0 THEN m.limit ELSE @]

\* cmd_reclaim: back to where the record was claimed from.
ReclaimRec(r) ==
    [r EXCEPT !.status = IF r.claimed_from = None THEN "todo" ELSE r.claimed_from,
              !.claimed_from = None]

\* The last status of r that was not "claimed", as reclaim would find it.
HomeOf(r) == IF r.status \in {"claimed", "absent"} THEN ReclaimRec(r).status ELSE r.status
=============================================================================
