---------------------------- MODULE ExclusiveLock ----------------------------
(***************************************************************************)
(* What class BuildLock of automation/win/worker_direct.py promises to the *)
(* processes that share the tree: a lock is taken only when there is none, *)
(* whoever is inside its critical section owns the lock, nobody else takes *)
(* it away, and the lock of an owner that left without releasing it, dead  *)
(* or terminated, is broken before it is taken again.                      *)
(***************************************************************************)
CONSTANTS Proc, None

VARIABLES
    owner,      \* who took the lock that exists, None if there is none
    inside      \* the processes inside apply -> build -> verify -> restore

vars == <<owner, inside>>

Init == owner = None /\ inside = {}

\* p finds no lock and enters.
Acquire(p) == /\ owner = None
              /\ owner' = p /\ inside' = {p}

\* The owner leaves and the lock is gone.
Release(p) == /\ owner = p /\ inside = {p}
              /\ owner' = None /\ inside' = {}

\* The owner dies, or its SIGTERM handler takes over: the lock stays behind.
Abandon(p) == /\ owner = p /\ inside = {p}
              /\ inside' = {} /\ UNCHANGED owner

\* A lock that its owner left behind is removed.
Break == /\ owner # None /\ inside = {}
         /\ owner' = None /\ UNCHANGED inside

Next == Break \/ \E p \in Proc : Acquire(p) \/ Release(p) \/ Abandon(p)

Spec == Init /\ [][Next]_vars
=============================================================================
