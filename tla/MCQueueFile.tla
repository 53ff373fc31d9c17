----------------------------- MODULE MCQueueFile -----------------------------
(***************************************************************************)
(* Three command processes run one transaction each on the queue file: two *)
(* that race, and a third whose read must see what they both wrote.        *)
(***************************************************************************)
EXTENDS QueueFile, TLC
=============================================================================
