------------------------------ MODULE BuildLock ------------------------------
(***************************************************************************)
(* class BuildLock of automation/win/worker_direct.py: the lock file that  *)
(* the fleet's workers, the permuter supervisor and the dashboard take     *)
(* around apply -> build -> verify -> restore.  A process is a pid: it may *)
(* be killed at any point, and its number may then be used again.  SIGTERM *)
(* abandons whatever the process does for a handler that takes the lock    *)
(* itself, replays the journals and exits.                                 *)
(***************************************************************************)
EXTENDS Naturals

CONSTANTS
    Proc,               \* the pids of the processes that use the lock
    None,
    PromptStealers      \* timing: nobody creates the file while another process
                        \* has judged the old one and not yet renamed it

ASSUME BuildLockAssumption == None \notin Proc /\ PromptStealers \in BOOLEAN

(***************************************************************************)
(* Ages of the file: 0, fresh; 1, above 10 seconds; 2, above stale_after.  *)
(***************************************************************************)
Fresh == 0
Old == 1
Stale == 2
Ages == Fresh..Stale

VARIABLES
    pc,         \* pc[p]: "idle", "trying", "created", "in", "steal", "dead"
    term,       \* the processes whose SIGTERM handler has started
    by,         \* who created the file at the lock's path, None if there is none
    published,  \* the creator has written its pid into that file
    age,        \* the age of that file
    reused      \* dead processes whose pid another program has now

vars == <<pc, term, by, published, age, reused>>
file == <<by, published, age>>

Init == /\ pc = [p \in Proc |-> "idle"]
        /\ term = {}
        /\ by = None /\ published = FALSE /\ age = Fresh
        /\ reused = {}

Goto(p, s) == pc' = [pc EXCEPT ![p] = s]
NoFile == by' = None /\ published' = FALSE /\ age' = Fresh

\* The sections of p that must not overlap with another process's: from the
\* moment the file is its own until it lets go.
Holds(p) == pc[p] \in {"created", "in"}

\* _build_lock_owner_alive(path) is False: there is a pid to read, and no
\* process has that number.
OwnerIsDead == published /\ pc[by] = "dead" /\ by \notin reused

\* Breaking any lock that is 10 seconds old.
BreakableWhenOld == by # None /\ age >= Old

\* Trusting the owner's pid alone.
BreakableWhenDead == by # None /\ age >= Old /\ OwnerIsDead

\* The two reasons to break a lock: dead owner, stale age.
Breakable == /\ by # None
             /\ age = Stale \/ (age >= Old /\ OwnerIsDead)

\* acquire(): the process starts to poll.
Want(p) == /\ pc[p] = "idle"
           /\ Goto(p, "trying")
           /\ UNCHANGED <<term, file, reused>>

\* os.open(O_CREAT | O_EXCL) succeeds: the file is there, still empty.
Create(p) == /\ pc[p] = "trying" /\ by = None
             /\ PromptStealers => \A q \in Proc \ {p} : pc[q] # "steal"
             /\ by' = p /\ published' = FALSE /\ age' = Fresh
             /\ Goto(p, "created")
             /\ UNCHANGED <<term, reused>>

\* os.write(self.fd, pid): into the file p created, wherever it is by now.
Publish(p) == /\ pc[p] = "created"
              /\ published' = (published \/ by = p)
              /\ Goto(p, "in")
              /\ UNCHANGED <<term, by, age, reused>>

\* FileExistsError, and the file's age and owner say it may be broken.
Judge(p) == /\ pc[p] = "trying"
            /\ Breakable
            /\ Goto(p, "steal")
            /\ UNCHANGED <<term, file, reused>>

\* os.rename(path, steal) and os.unlink(steal): whatever file is at the path
\* now is gone.  With no file there the rename fails, and p polls again.
Rename(p) == /\ pc[p] = "steal"
             /\ IF by = None THEN UNCHANGED file ELSE NoFile
             /\ Goto(p, "trying")
             /\ UNCHANGED <<term, reused>>

\* A release that does not ask whether the process has the lock.
ReleaseUnheld(p) == /\ pc[p] \in {"in", "trying"}
                    /\ IF by = None THEN UNCHANGED file ELSE NoFile
                    /\ Goto(p, IF p \in term THEN "dead" ELSE "idle")
                    /\ UNCHANGED <<term, reused>>

\* release(): unlink the path.  The SIGTERM handler exits after it.
Release(p) == /\ pc[p] = "in"
              /\ IF by = None THEN UNCHANGED file ELSE NoFile
              /\ Goto(p, IF p \in term THEN "dead" ELSE "idle")
              /\ UNCHANGED <<term, reused>>

\* SIGTERM: _on_sigterm runs on top of whatever p was doing, which never
\* resumes, and polls for the lock, even for one that p holds itself.
Sigterm(p) == /\ pc[p] # "dead" /\ p \notin term
              /\ term' = term \cup {p}
              /\ Goto(p, "trying")
              /\ UNCHANGED <<file, reused>>

\* A crash, or SIGKILL.
Die(p) == /\ pc[p] # "dead"
          /\ Goto(p, "dead")
          /\ UNCHANGED <<term, file, reused>>

\* Another program gets the pid of a dead process.
ReusePid(p) == /\ pc[p] = "dead" /\ p \notin reused
               /\ reused' = reused \cup {p}
               /\ UNCHANGED <<pc, term, file>>

Older == IF age < Stale THEN age + 1 ELSE age

\* The file grows older.  A process that is inside its critical section leaves
\* it before stale_after: a build is given 900 seconds, the lock 3600.
Tick == /\ by # None /\ Older # age
        /\ Older = Stale => ~Holds(by)
        /\ age' = Older
        /\ UNCHANGED <<pc, term, by, published, reused>>

Poll(p) == Create(p) \/ Judge(p) \/ Rename(p)
Next == \/ \E p \in Proc : \/ Want(p) \/ Poll(p) \/ Publish(p) \/ Release(p)
                           \/ Sigterm(p) \/ Die(p) \/ ReusePid(p)
        \/ Tick

\* Time passes, a process that polls keeps polling, and one that is inside
\* gets out.  Nobody is obliged to want the lock, or to die.
Fairness == /\ WF_vars(Tick)
            /\ \A p \in Proc : WF_vars(Poll(p)) /\ WF_vars(Publish(p) \/ Release(p))

Spec == Init /\ [][Next]_vars /\ Fairness

-----------------------------------------------------------------------------
TypeOK == /\ pc \in [Proc -> {"idle", "trying", "created", "in", "steal", "dead"}]
          /\ term \subseteq Proc
          /\ by \in Proc \cup {None}
          /\ published \in BOOLEAN
          /\ age \in Ages
          /\ reused \subseteq Proc

\* What the lock exists to prevent: two processes inside apply/build/verify at
\* once.  The code argues that "of two racing stealers only one can move that
\* inode, and the loser gets an error and re-loops to find the winner's fresh
\* lock"; it holds when stealers are prompt.
MutualExclusion == \A p, q \in Proc : Holds(p) /\ Holds(q) => p = q

\* The lock at the path is one that nobody will ever release.
Wedged == by # None /\ ~Holds(by)

\* "A crashed worker cannot wedge the fleet forever": while some process polls,
\* an abandoned lock is broken, even if its creator died before it wrote its
\* pid, or its pid belongs to another program by now.
AbandonedLockIsBroken ==
    \A p \in Proc : Wedged /\ pc[p] \in {"trying", "steal"} ~> ~Wedged \/ pc[p] = "dead"

-----------------------------------------------------------------------------
Promised == INSTANCE ExclusiveLock WITH owner <- by, inside <- {p \in Proc : Holds(p)}

\* "What this lock exists to prevent" and "cannot wedge": among prompt stealers
\* the lock of a process that is inside is removed by nobody but itself.
ImplementsExclusiveLock == Promised!Spec
=============================================================================
