------------------------------ MODULE QueueFile ------------------------------
(***************************************************************************)
(* Queue.transaction of automation/scheduler.py, step by step: the lock    *)
(* file, the unlocked window between opening a file and locking it, the    *)
(* read, the temporary file and os.replace.  A path names an inode, and    *)
(* os.replace makes queue.jsonl name another one; flock locks the inode    *)
(* that was opened, not the path.  A process may be killed between any two *)
(* steps, which closes its files and so drops its lock.                    *)
(***************************************************************************)
EXTENDS Naturals

CONSTANTS
    Proc,       \* command processes; each runs one transaction
    Orig,       \* the inode queue.jsonl names at the start
    LockFile,   \* the inode of queue.jsonl.lock, which nothing ever replaces
    None

ASSUME InodesDiffer == /\ Orig \notin Proc /\ LockFile \notin Proc /\ None \notin Proc
                       /\ LockFile # Orig

\* The temporary file is named after its writer's pid (one inode per process).
Inode == Proc \cup {Orig, LockFile}

Step == {"start", "opened", "locked", "read", "created", "written",
         "published", "done", "dead"}

VARIABLES
    pc,         \* pc[p]: how far p's transaction has got
    current,    \* the inode that the path queue.jsonl names
    data,       \* data[i]: the transactions the contents of inode i reflect
    fd,         \* fd[p]: the inode p opened as its lock file
    owner,      \* owner[i]: the process that holds the flock on inode i
    mem         \* mem[p]: the records p has read

vars == <<pc, current, data, fd, owner, mem>>

Init == /\ pc = [p \in Proc |-> "start"]
        /\ current = Orig
        /\ data = [i \in Inode |-> {}]
        /\ fd = [p \in Proc |-> None]
        /\ owner = [i \in Inode |-> None]
        /\ mem = [p \in Proc |-> {}]

\* Locking the queue file itself, as the code did before the lock file.
LockTargetIsQueue == current

LockTarget == LockFile

\* with self.lock_path.open("a+")
Open(p) == /\ pc[p] = "start"
           /\ fd' = [fd EXCEPT ![p] = LockTarget]
           /\ pc' = [pc EXCEPT ![p] = "opened"]
           /\ UNCHANGED <<current, data, owner, mem>>

\* fcntl.flock(lock, LOCK_EX) returns: it waits while another process has it.
Lock(p) == /\ pc[p] = "opened"
           /\ owner[fd[p]] = None
           /\ owner' = [owner EXCEPT ![fd[p]] = p]
           /\ pc' = [pc EXCEPT ![p] = "locked"]
           /\ UNCHANGED <<current, data, fd, mem>>

\* self._read(): open the path and read whatever it names now.
Read(p) == /\ pc[p] = "locked"
           /\ mem' = [mem EXCEPT ![p] = data[current]]
           /\ pc' = [pc EXCEPT ![p] = "read"]
           /\ UNCHANGED <<current, data, fd, owner>>

\* tmp.open("w"): the temporary file exists and is empty.
Create(p) == /\ pc[p] = "read"
             /\ data' = [data EXCEPT ![p] = {}]
             /\ pc' = [pc EXCEPT ![p] = "created"]
             /\ UNCHANGED <<current, fd, owner, mem>>

\* The temporary file is written and closed: fn(records) on what was read.
Write(p) == /\ pc[p] = "created"
            /\ data' = [data EXCEPT ![p] = mem[p] \cup {p}]
            /\ pc' = [pc EXCEPT ![p] = "written"]
            /\ UNCHANGED <<current, fd, owner, mem>>

\* Publishing the temporary file as soon as it exists.
ReplaceEarly(p) == /\ pc[p] \in {"created", "written"}
                   /\ current' = p
                   /\ pc' = [pc EXCEPT ![p] = "published"]
                   /\ UNCHANGED <<data, fd, owner, mem>>

\* os.replace(tmp, self.path)
Replace(p) == /\ pc[p] = "written"
              /\ current' = p
              /\ pc' = [pc EXCEPT ![p] = "published"]
              /\ UNCHANGED <<data, fd, owner, mem>>

\* Returning with the lock still held.
ReturnLocked(p) == /\ pc[p] = "published"
                   /\ pc' = [pc EXCEPT ![p] = "done"]
                   /\ UNCHANGED <<current, data, fd, owner, mem>>

\* The finally clause unlocks, the file closes and the command returns.
Return(p) == /\ pc[p] = "published"
             /\ owner' = [owner EXCEPT ![fd[p]] = None]
             /\ pc' = [pc EXCEPT ![p] = "done"]
             /\ UNCHANGED <<current, data, fd, mem>>

\* A signal or an exception ends p: the kernel, or the finally clause, drops
\* its lock.  A temporary file that stays behind is never read by anyone.
Die(p) == /\ pc[p] \notin {"start", "done", "dead"}
          /\ owner' = [i \in Inode |-> IF owner[i] = p THEN None ELSE owner[i]]
          /\ pc' = [pc EXCEPT ![p] = "dead"]
          /\ UNCHANGED <<current, data, fd, mem>>

Advance(p) == \/ Lock(p) \/ Read(p) \/ Create(p) \/ Write(p)
              \/ Replace(p) \/ Return(p)

Finished == \A p \in Proc : pc[p] \in {"done", "dead"}

\* Every command has ended: nothing is left to do.
Idle == Finished /\ UNCHANGED vars

Next == \/ \E p \in Proc : Open(p) \/ Advance(p) \/ Die(p)
        \/ Idle

\* A process that has opened the lock file is scheduled until it ends.  Weak
\* fairness is enough for the lock: every holder gives it up and never returns.
Spec == Init /\ [][Next]_vars /\ \A p \in Proc : WF_vars(Advance(p))

-----------------------------------------------------------------------------
TypeOK == /\ pc \in [Proc -> Step]
          /\ current \in Proc \cup {Orig}
          /\ data \in [Inode -> SUBSET Proc]
          /\ fd \in [Proc -> Inode \cup {None}]
          /\ owner \in [Inode -> Proc \cup {None}]
          /\ mem \in [Proc -> SUBSET Proc]

\* No update is lost: whatever a command that returned has written is in the
\* file, however the transactions of the others interleaved with it or died
\* (the reason the lock is not taken on the file that os.replace replaces).
NoLostUpdate == \A p \in Proc : pc[p] = "done" => p \in data[current]

\* A reader that takes no lock (prune, annotate, restore and list call _read
\* directly) never sees a truncated or partial queue: whatever process put the
\* current file there had written it completely first.
ReaderSeesWholeFile == current # Orig => current \in data[current]

\* A command that starts is never stuck behind a process that was killed while
\* it held the lock: it runs to its end, or is killed itself.
CommandsEnd == \A p \in Proc : pc[p] = "opened" ~> pc[p] \in {"done", "dead"}

-----------------------------------------------------------------------------
Abstract == INSTANCE AtomicQueue WITH
                applied <- data[current],
                acked <- {p \in Proc : pc[p] = "done"}

\* The protocol implements atomic, durable transactions.
ImplementsAtomicQueue == Abstract!Spec
=============================================================================
