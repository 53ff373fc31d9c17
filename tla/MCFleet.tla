------------------------------ MODULE MCFleet ------------------------------
(***************************************************************************)
(* Two workers on two functions, in files of their own or in one file.     *)
(***************************************************************************)
EXTENDS Fleet, TLC

CONSTANTS w1, w2, f1, f2

MCFuncs == {f1, f2}
MCWorkers == {w1, w2}
OwnFiles == f1 :> "a.c" @@ f2 :> "b.c"
OneFile == f1 :> "a.c" @@ f2 :> "a.c"
Nobody == {}
OneByHand == {w1}
GatedFuncs == {f2}
FullDisk == {"a.c"}
TwoBodies == {"good", "broken"}
AllBodies == TwoBodies \cup {"differs"}

\* What follows a stop that has overlooked a worker is not explored: all that is
\* claimed of it is that matches are archived, which a theorem shows.
NobodyOverlooked == ~overlooked
=============================================================================
