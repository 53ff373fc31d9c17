--------------------------- MODULE BuildLockProofs ---------------------------
(***************************************************************************)
(* The build lock excludes, for any number of processes, crashing and      *)
(* terminated anywhere, as long as stealers are prompt.                    *)
(***************************************************************************)
EXTENDS BuildLock, TLAPS

\* A process inside owns the file at the path; a file that somebody is about
\* to remove, or that is too old, belongs to nobody inside.
OwnInv == /\ \A p \in Proc : Holds(p) => by = p
          /\ \A p \in Proc : pc[p] = "steal" /\ by # None => ~Holds(by)
          /\ by # None /\ age = Stale => ~Holds(by)

IInv == TypeOK /\ OwnInv

\* The initial state, in which there is no lock file, satisfies the invariant.
LEMMA InitIInv == Init => IInv
<1> SUFFICES ASSUME Init PROVE IInv
  OBVIOUS
<1>1. published \in BOOLEAN
  BY DEF Init
<1>3. age \in Ages
  BY DEF Init, Ages, Fresh, Old, Stale
<1>2. OwnInv
  BY BuildLockAssumption DEF Init, OwnInv, Holds
<1> QED BY <1>1, <1>2, <1>3 DEF Init, IInv, TypeOK

\* Breakable files belong to nobody inside: the age check is the timing
\* assumption of Tick, the pid check is about a dead process.
LEMMA BreakableIsAbandoned == IInv /\ Breakable => by # None /\ ~Holds(by)
  BY DEF IInv, TypeOK, OwnInv, Breakable, OwnerIsDead, Holds, Ages, Fresh, Old, Stale

\* The steps of acquire() that create and fill the file.
LEMMA CreateIInv ==
  ASSUME IInv, PromptStealers, NEW p \in Proc, Create(p) \/ Publish(p)
  PROVE  IInv'
<1>1. CASE Create(p)
  <2>1. published' \in BOOLEAN
    BY <1>1 DEF Create
  <2>3. age' \in Ages
    BY <1>1 DEF Create, Ages, Fresh, Old, Stale
  <2>2. OwnInv'
    BY <1>1, BuildLockAssumption
       DEF Create, Goto, IInv, TypeOK, OwnInv, Holds, Fresh, Old, Stale
  <2> QED BY <1>1, <2>1, <2>2, <2>3 DEF Create, Goto, IInv, TypeOK
<1>2. CASE Publish(p)
  <2>1. published' \in BOOLEAN
    BY <1>2 DEF Publish, IInv, TypeOK
  <2>2. OwnInv'
    BY <1>2 DEF Publish, Goto, IInv, TypeOK, OwnInv, Holds
  <2> QED BY <1>2, <2>1, <2>2 DEF Publish, Goto, IInv, TypeOK
<1> QED BY <1>1, <1>2

\* The steps that break a lock.
LEMMA StealIInv ==
  ASSUME IInv, NEW p \in Proc, Judge(p) \/ Rename(p) PROVE IInv'
<1>1. CASE Judge(p)
  BY <1>1, BreakableIsAbandoned
     DEF Judge, Goto, file, IInv, TypeOK, OwnInv, Holds, Ages, Fresh, Old, Stale
<1>2. CASE Rename(p)
  <2>1. \A q \in Proc : ~Holds(q)
    BY <1>2, BuildLockAssumption DEF Rename, IInv, TypeOK, OwnInv, Holds
  <2>2. by' = None
    BY <1>2 DEF Rename, NoFile, file
  <2>3. published' \in BOOLEAN
    BY <1>2 DEF Rename, NoFile, file, IInv, TypeOK
  <2>5. age' \in Ages
    BY <1>2 DEF Rename, NoFile, file, IInv, TypeOK, Ages, Fresh, Old, Stale
  <2>4. \A q \in Proc : ~Holds(q)'
    BY <1>2, <2>1 DEF Rename, Goto, IInv, TypeOK, Holds
  <2> QED BY <1>2, <2>2, <2>3, <2>4, <2>5 DEF Rename, Goto, IInv, TypeOK, OwnInv
<1> QED BY <1>1, <1>2

\* release() removes the file of p and of nobody else.
LEMMA ReleaseIInv == ASSUME IInv, NEW p \in Proc, Release(p) PROVE IInv'
<1>1. \A q \in Proc : Holds(q) => q = p
  BY BuildLockAssumption DEF Release, IInv, TypeOK, OwnInv, Holds
<1>2. pc[p] = "in" /\ by = p /\ by # None /\ NoFile
  BY BuildLockAssumption DEF Release, IInv, OwnInv, Holds
<1>3. \A q \in Proc : pc'[q] \notin {"created", "in"}
  BY <1>1 DEF Release, Goto, IInv, TypeOK, Holds
<1>4. TypeOK'
  <2>1. published' \in BOOLEAN
    BY <1>2 DEF NoFile
  <2>2. age' \in Ages
    BY <1>2 DEF NoFile, Ages, Fresh, Old, Stale
  <2> QED BY <1>2, <2>1, <2>2 DEF Release, Goto, NoFile, IInv, TypeOK
<1> QED BY <1>2, <1>3, <1>4 DEF NoFile, IInv, OwnInv, Holds

\* The steps that take p out of the protocol, or only start polling.
LEMMA LeaveIInv ==
  ASSUME IInv, NEW p \in Proc, Want(p) \/ Sigterm(p) \/ Die(p) \/ ReusePid(p)
  PROVE  IInv'
  BY DEF Want, Sigterm, Die, ReusePid, Goto, file, IInv, TypeOK, OwnInv, Holds,
         Ages, Fresh, Old, Stale

\* A lock grows older than stale_after only after its owner has left.
LEMMA TickIInv == ASSUME IInv, Tick PROVE IInv'
  BY DEF Tick, Older, IInv, TypeOK, OwnInv, Holds, Ages, Fresh, Old, Stale

\* The invariant is preserved by every step.
LEMMA NextIInv == PromptStealers /\ IInv /\ [Next]_vars => IInv'
<1> SUFFICES ASSUME PromptStealers, IInv, [Next]_vars PROVE IInv'
  OBVIOUS
<1>1. CASE UNCHANGED vars
  BY <1>1 DEF vars, IInv, TypeOK, OwnInv, Holds
<1> QED BY <1>1, CreateIInv, StealIInv, ReleaseIInv, LeaveIInv, TickIInv DEF Next, Poll

\* The state components keep their types.
THEOREM BuildLockTypeOK == ASSUME PromptStealers PROVE Spec => []TypeOK
<1>1. IInv => TypeOK
  BY DEF IInv
<1> QED BY <1>1, InitIInv, NextIInv, PTL DEF Spec

\* class BuildLock: at most one process is inside apply -> build -> verify ->
\* restore, if nobody is delayed between judging a lock and renaming it.
THEOREM BuildLockExcludes == ASSUME PromptStealers PROVE Spec => []MutualExclusion
<1>1. IInv => MutualExclusion
  BY DEF IInv, OwnInv, MutualExclusion
<1> QED BY <1>1, InitIInv, NextIInv, PTL DEF Spec

-----------------------------------------------------------------------------
(* The promise of the lock *)

Inside == {p \in Proc : Holds(p)}

\* Whoever is inside is the one who owns the lock.
LEMMA InsideIsOwner == IInv => Inside \subseteq {by}
  BY DEF IInv, OwnInv, Inside

\* acquire() enters when there is no lock, and breaks one that was left behind.
LEMMA AcquireRefines ==
  ASSUME IInv, NEW p \in Proc, Want(p) \/ Poll(p) \/ Publish(p)
  PROVE  [Promised!Next]_(Promised!vars)
<1> USE DEF Promised!Next, Promised!vars
<1>1. pc \in [Proc -> {"idle", "trying", "created", "in", "steal", "dead"}]
  BY DEF IInv, TypeOK
<1>2. CASE Create(p)
  <2>1. Inside = {} /\ by = None /\ by' = p
    BY <1>2, InsideIsOwner, BuildLockAssumption DEF Create, Inside
  <2>2. Inside' = {p}
    BY <1>1, <1>2, <2>1 DEF Create, Goto, Inside, Holds
  <2>3. Promised!Acquire(p)
    BY <2>1, <2>2 DEF Promised!Acquire, Inside
  <2> QED BY <2>3
<1>3. CASE Rename(p) /\ by # None
  <2>1. Inside = {}
    BY <1>3, InsideIsOwner DEF Rename, IInv, OwnInv, Inside
  <2>2. Inside' = {} /\ by' = None
    BY <1>1, <1>3, <2>1 DEF Rename, NoFile, Goto, Inside, Holds
  <2>3. Promised!Break
    BY <1>3, <2>1, <2>2 DEF Promised!Break, Inside
  <2> QED BY <2>3
<1>4. CASE Want(p) \/ Judge(p) \/ Publish(p) \/ (Rename(p) /\ by = None)
  <2>1. by' = by
    BY <1>4 DEF Want, Judge, Publish, Rename, file
  <2>2. Inside' = Inside
    BY <1>1, <1>4 DEF Want, Judge, Publish, Rename, Goto, Inside, Holds
  <2> QED BY <2>1, <2>2 DEF Inside
<1> QED BY <1>2, <1>3, <1>4 DEF Poll

\* Whoever leaves its section releases the lock or leaves it behind.
LEMMA LeaveRefines ==
  ASSUME IInv, NEW p \in Proc, Release(p) \/ Sigterm(p) \/ Die(p) \/ ReusePid(p)
  PROVE  [Promised!Next]_(Promised!vars)
<1> USE DEF Promised!Next, Promised!vars
<1>1. pc \in [Proc -> {"idle", "trying", "created", "in", "steal", "dead"}]
  BY DEF IInv, TypeOK
<1>2. CASE Holds(p) /\ ~ReusePid(p)
  <2>1. by = p /\ by # None /\ Inside = {p}
    BY <1>2, InsideIsOwner, BuildLockAssumption DEF IInv, OwnInv, Inside
  <2>2. Inside' = {}
    BY <1>1, <1>2, <2>1 DEF Release, Sigterm, Die, Goto, Inside, Holds
  <2>3. CASE Release(p)
    <3>1. Promised!Release(p)
      BY <2>1, <2>2, <2>3 DEF Release, NoFile, Promised!Release, Inside
    <3> QED BY <3>1
  <2>4. CASE Sigterm(p) \/ Die(p)
    <3>1. Promised!Abandon(p)
      BY <2>1, <2>2, <2>4 DEF Sigterm, Die, file, Promised!Abandon, Inside
    <3> QED BY <3>1
  <2> QED BY <1>2, <2>3, <2>4
<1>3. CASE ~Holds(p) \/ ReusePid(p)
  <2>1. ~Release(p)
    BY <1>3 DEF Release, ReusePid, Holds
  <2>2. by' = by /\ Inside' = Inside
    BY <1>1, <1>3, <2>1 DEF Sigterm, Die, ReusePid, Goto, file, Inside, Holds
  <2> QED BY <2>2 DEF Inside
<1> QED BY <1>2, <1>3

\* Every step of the lock file is a step of the promised lock or none.
LEMMA StepRefines == IInv /\ [Next]_vars => [Promised!Next]_(Promised!vars)
<1> SUFFICES ASSUME IInv, [Next]_vars PROVE [Promised!Next]_(Promised!vars)
  OBVIOUS
<1>1. CASE UNCHANGED vars \/ Tick
  BY <1>1 DEF vars, Tick, Promised!vars, Holds
<1> QED BY <1>1, AcquireRefines, LeaveRefines DEF Next

\* class BuildLock: as long as nobody is delayed between judging a lock and
\* renaming it, the lock file, with its empty moment, its age, its pid and its
\* thieves, is the promised lock: only the lock of nobody inside is broken.
THEOREM BuildLockIsExclusive == ASSUME PromptStealers PROVE Spec => ImplementsExclusiveLock
<1>1. Init => Promised!Init
  BY BuildLockAssumption DEF Init, Promised!Init, Holds
<1> QED BY <1>1, InitIInv, NextIInv, StepRefines, PTL
        DEF Spec, ImplementsExclusiveLock, Promised!Spec
=============================================================================
