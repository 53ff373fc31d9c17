----------------------------- MODULE MCCdSound -----------------------------
(* Two tracks: music with an intro and a loop, and a line of dialogue.     *)
EXTENDS CdSound

CONSTANTS m, v

MCMusic == {m}
MCVoice == {v}
MCXaMode == [t \in {m, v} |-> IF t = m THEN 1 ELSE 2]
MCXaNextMode == [t \in {m, v} |-> IF t = m THEN 0 ELSE 2]
=============================================================================
