---------------------------- MODULE MCStageChange ----------------------------
(***************************************************************************)
(* Two stages, one with a sequence file and one HandlePlay loads the       *)
(* graphics of; files of one to three sectors.                              *)
(***************************************************************************)
EXTENDS StageChange
CONSTANTS s1, s2
MCStages == {s1, s2}
MCSeqStages == {s1}
MCChrStages == {s2}
MCBlocks == [f \in Files |-> IF f = "StageSfx" THEN 3 ELSE IF f = "StageChr" THEN 2 ELSE 1]
=============================================================================
