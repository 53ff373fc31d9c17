---------------------------- MODULE MCWorkQueue ----------------------------
(***************************************************************************)
(* A fleet of two tiers over two functions: w1, which can read little,     *)
(* hands off to w2, which can read more.  One of the functions is blocked. *)
(* A file names both, or it comes from elsewhere and holds a claim on a    *)
(* todo record, with a verdict and more claims than allowed, and a match   *)
(* that nobody verified.                                                   *)
(***************************************************************************)
EXTENDS WorkQueue, TLC

CONSTANTS w1, w2, a, b

MCIds == {a, b}
MCWorkers == {w1, w2}
MCLimit == w1 :> 1 @@ w2 :> 2
MCTakesDeferred == {w2}
MCAllowlist == w1 :> {a} @@ w2 :> {}
MCRank == a :> 0 @@ b :> 1
MCBlocked == {b}
Bare == [id \in MCIds |-> NewRecord]
Matched == [NewRecord EXCEPT !.status = "matched", !.proof = "testimony"]
Claimed == [NewRecord EXCEPT !.status = "claimed", !.claimed_from = "todo",
                             !.search_verdict = TRUE, !.claims = 3]
MCFiles == {Bare, [Bare EXCEPT ![a] = Claimed, ![b] = Matched]}
=============================================================================
