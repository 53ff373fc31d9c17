--------------------------- MODULE QueueFileProofs ---------------------------
(***************************************************************************)
(* The transaction protocol of scheduler.py loses no update and implements *)
(* atomic transactions, for any number of processes, dying anywhere.       *)
(***************************************************************************)
EXTENDS QueueFile, TLAPS

Critical == {"locked", "read", "created", "written", "published"}
Before == {"start", "opened", "locked", "read", "created", "written"}

\* Every process that has opened a lock file has opened the same one, and the
\* processes between lock and unlock are the owners of its lock.
LockInv == /\ \A p \in Proc : pc[p] \in {"opened"} \cup Critical => fd[p] = LockFile
           /\ \A p \in Proc : pc[p] \in Critical <=> owner[LockFile] = p

\* What the lock holder has in memory, and then in its temporary file, is the
\* current contents; nobody's update is in the file before it is published,
\* and a published update stays.
DataInv == /\ \A p \in Proc : pc[p] \in {"read", "created", "written"}
                                => mem[p] = data[current]
           /\ \A p \in Proc : pc[p] = "written" => data[p] = data[current] \cup {p}
           /\ \A p \in Proc : pc[p] \in Before => p \notin data[current] /\ current # p
           /\ \A p \in Proc : pc[p] \in {"published", "done"} => p \in data[current]
           /\ ReaderSeesWholeFile

IInv == TypeOK /\ LockInv /\ DataInv

\* The initial state satisfies the inductive invariant.
LEMMA InitIInv == Init => IInv
  BY InodesDiffer DEF Init, IInv, TypeOK, LockInv, DataInv, ReaderSeesWholeFile,
     Inode, Step, Critical, Before

\* Steps that only move p forward without touching lock or data.
LEMMA OpenIInv == ASSUME IInv, NEW p \in Proc, Open(p) PROVE IInv'
  BY InodesDiffer DEF Open, LockTarget, IInv, TypeOK, LockInv, DataInv,
     ReaderSeesWholeFile, Inode, Step, Critical, Before

\* Taking the lock makes p the only process in its critical section.
LEMMA LockIInv == ASSUME IInv, NEW p \in Proc, Lock(p) PROVE IInv'
  BY InodesDiffer DEF Lock, IInv, TypeOK, LockInv, DataInv,
     ReaderSeesWholeFile, Inode, Step, Critical, Before

\* Reading under the lock sees the current contents.
LEMMA ReadIInv == ASSUME IInv, NEW p \in Proc, Read(p) PROVE IInv'
  BY InodesDiffer DEF Read, IInv, TypeOK, LockInv, DataInv,
     ReaderSeesWholeFile, Inode, Step, Critical, Before

\* The temporary file of p is not the current file, so filling it changes
\* nothing that anyone reads.
LEMMA CreateIInv == ASSUME IInv, NEW p \in Proc, Create(p) PROVE IInv'
  BY InodesDiffer DEF Create, IInv, TypeOK, LockInv, DataInv,
     ReaderSeesWholeFile, Inode, Step, Critical, Before

\* Writing the temporary file changes nothing that a reader sees.
LEMMA WriteIInv == ASSUME IInv, NEW p \in Proc, Write(p) PROVE IInv'
  BY InodesDiffer DEF Write, IInv, TypeOK, LockInv, DataInv,
     ReaderSeesWholeFile, Inode, Step, Critical, Before

\* os.replace adds the update of p to what the file reflected and removes none.
LEMMA ReplaceIInv == ASSUME IInv, NEW p \in Proc, Replace(p) PROVE IInv'
  BY InodesDiffer DEF Replace, IInv, TypeOK, LockInv, DataInv,
     ReaderSeesWholeFile, Inode, Step, Critical, Before

\* A command that returns leaves lock and file alone.
LEMMA ReturnIInv == ASSUME IInv, NEW p \in Proc, Return(p) PROVE IInv'
  BY InodesDiffer DEF Return, IInv, TypeOK, LockInv, DataInv,
     ReaderSeesWholeFile, Inode, Step, Critical, Before

\* A death releases the lock and leaves the current file alone.
LEMMA DieIInv == ASSUME IInv, NEW p \in Proc, Die(p) PROVE IInv'
  BY InodesDiffer DEF Die, IInv, TypeOK, LockInv, DataInv,
     ReaderSeesWholeFile, Inode, Step, Critical, Before

\* The invariant is inductive: one case per action.
LEMMA NextIInv == IInv /\ [Next]_vars => IInv'
<1> SUFFICES ASSUME IInv, [Next]_vars PROVE IInv'
  OBVIOUS
<1>1. CASE UNCHANGED vars
  BY <1>1 DEF vars, IInv, TypeOK, LockInv, DataInv, ReaderSeesWholeFile
<1>2. ASSUME NEW p \in Proc, Open(p) \/ Advance(p) \/ Die(p) PROVE IInv'
  BY <1>2, OpenIInv, LockIInv, ReadIInv, CreateIInv, WriteIInv, ReplaceIInv,
     ReturnIInv, DieIInv DEF Advance
<1> QED BY <1>1, <1>2 DEF Next, Idle

\* The strengthened invariant holds of every reachable state.
THEOREM QueueFileInvariant == Spec => []IInv
  BY InitIInv, NextIInv, PTL DEF Spec

\* Transaction: the state components keep their types.
THEOREM QueueFileTypeOK == Spec => []TypeOK
<1>1. IInv => TypeOK
  BY DEF IInv
<1> QED BY <1>1, QueueFileInvariant, PTL

\* Queue.transaction: a command that returned is reflected in the file for
\* ever, whatever the other processes do and wherever they die.
THEOREM TransactionsLoseNoUpdate == Spec => []NoLostUpdate
<1>1. IInv => NoLostUpdate
  BY DEF IInv, DataInv, NoLostUpdate
<1> QED BY <1>1, QueueFileInvariant, PTL

\* Queue._read without the lock never sees a partial file.
THEOREM ReadersSeeWholeFiles == Spec => []ReaderSeesWholeFile
<1>1. IInv => ReaderSeesWholeFile
  BY DEF IInv, DataInv
<1> QED BY <1>1, QueueFileInvariant, PTL

\* Every step of the protocol is an abstract step or changes nothing abstract.
LEMMA StepRefines == IInv /\ IInv' /\ [Next]_vars => [Abstract!Next]_(Abstract!vars)
<1> SUFFICES ASSUME IInv, IInv', [Next]_vars PROVE [Abstract!Next]_(Abstract!vars)
  OBVIOUS
<1> USE DEF Abstract!Next, Abstract!vars, Abstract!Apply, Abstract!Ack
<1>1. CASE UNCHANGED vars
  BY <1>1 DEF vars
<1>2. ASSUME NEW p \in Proc, Replace(p) PROVE Abstract!Apply(p)
  <2>1. data[p] = data[current] \cup {p} /\ p \notin data[current]
    BY <1>2 DEF IInv, DataInv, Replace, Before
  <2>2. data'[current'] = data[current] \cup {p}
    BY <1>2, <2>1 DEF Replace
  <2>3. {q \in Proc : pc'[q] = "done"} = {q \in Proc : pc[q] = "done"}
    BY <1>2 DEF Replace, IInv, TypeOK
  <2> QED BY <2>1, <2>2, <2>3
<1>3. ASSUME NEW p \in Proc, Return(p) PROVE Abstract!Ack(p)
  <2>1. p \in data[current] /\ pc[p] # "done"
    BY <1>3 DEF IInv, DataInv, Return
  <2>2. {q \in Proc : pc'[q] = "done"} = {q \in Proc : pc[q] = "done"} \cup {p}
    BY <1>3 DEF Return, IInv, TypeOK
  <2>3. data'[current'] = data[current]
    BY <1>3 DEF Return
  <2> QED BY <2>1, <2>2, <2>3
<1>4. ASSUME NEW p \in Proc, Open(p) \/ Lock(p) \/ Read(p) \/ Create(p) \/ Write(p) \/ Die(p)
      PROVE UNCHANGED Abstract!vars
  <2>1. data'[current'] = data[current]
    BY <1>4 DEF Open, Lock, Read, Create, Write, Die, IInv, TypeOK, DataInv, Before, Inode
  <2>2. {q \in Proc : pc'[q] = "done"} = {q \in Proc : pc[q] = "done"}
    BY <1>4 DEF Open, Lock, Read, Create, Write, Die, IInv, TypeOK
  <2> QED BY <2>1, <2>2
<1> QED BY <1>1, <1>2, <1>3, <1>4 DEF Next, Advance, Idle

\* Queue.transaction implements atomic transactions: at every step the file
\* either keeps its contents or gains exactly one command's update, and only a
\* command whose update is in the file returns.
THEOREM TransactionsAreAtomic == Spec => ImplementsAtomicQueue
<1>1. Init => Abstract!Init
  BY InodesDiffer DEF Init, Abstract!Init, Inode
<1> QED BY <1>1, StepRefines, QueueFileInvariant, PTL
        DEF Spec, ImplementsAtomicQueue, Abstract!Spec
=============================================================================
