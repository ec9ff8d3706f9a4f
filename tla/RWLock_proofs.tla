---------------------------- MODULE RWLock_proofs ----------------------------
(* CThreadRWLock excludes writers, never loses a wake-up and implements the  *)
(* abstract readers-writer lock, for any finite set of threads.              *)
EXTENDS RWLock, FiniteSetTheorems, TLAPS

\* The threads of S-labelled places, when p says where each thread is.
Among(p, S) == {t \in Threads : p[t] \in S}

Labels == {"idle", "waitRead", "wokenRead", "reading", "waitWrite", "writing"}

(* A count of threads is a number, and 0 exactly when there is none.         *)
LEMMA CountZero ==
    ASSUME NEW p, NEW S
    PROVE  /\ Cardinality(Among(p, S)) \in Nat
           /\ Cardinality(Among(p, S)) = 0 <=> \A t \in Threads : p[t] \notin S
<1> DEFINE A == Among(p, S)
<1>1. IsFiniteSet(A)
    BY ThreadsAssumption, FS_Subset DEF Among
<1>2. Cardinality(A) \in Nat /\ (Cardinality(A) = 0 <=> A = {})
    BY <1>1, FS_CardinalityType, FS_EmptySet
<1> QED
    BY <1>2 DEF Among
-----------------------------------------------------------------------------
Writers == {"waitWrite", "writing"}
Readers == {"reading"}
Pending == {"waitRead", "wokenRead"}

(* The counters count the threads they are named for.                        *)
Counts ==
    /\ nWriters = Cardinality(Among(pc, Writers))
    /\ nActiveReaders = Cardinality(Among(pc, Readers))
    /\ nPendingReaders = Cardinality(Among(pc, Pending))

(* Nobody reads or writes beside a writer.                                   *)
Exclusion ==
    \A t, u \in Threads :
        pc[t] = "writing" /\ pc[u] \in {"reading", "writing"} => t = u

IInv == TypeOK /\ Counts /\ Exclusion /\ WriteSignalExact /\ ReadSignalKept

(* A counter is 0 exactly when nobody it counts is there.                    *)
Zeros(p, writers, readers, pending) ==
    /\ writers \in Nat /\ (writers = 0 <=> \A t \in Threads : p[t] \notin Writers)
    /\ readers \in Nat /\ (readers = 0 <=> \A t \in Threads : p[t] \notin Readers)
    /\ pending \in Nat /\ (pending = 0 <=> \A t \in Threads : p[t] \notin Pending)

LEMMA CountsZero == Counts => Zeros(pc, nWriters, nActiveReaders, nPendingReaders)
BY CountZero DEF Counts, Zeros

LEMMA CountsZeroNext == Counts' => Zeros(pc', nWriters', nActiveReaders', nPendingReaders')
BY CountZero DEF Counts, Zeros

(* A thread that comes to a place, leaves it or stays changes the count so.  *)
LEMMA Moved ==
    ASSUME TypeOK, NEW t \in Threads, NEW l, Goto(t, l)
    PROVE  \A S \in {Writers, Readers, Pending} :
                /\ pc[t] \notin S /\ l \in S =>
                    Cardinality(Among(pc', S)) = Cardinality(Among(pc, S)) + 1
                /\ pc[t] \in S /\ l \notin S =>
                    Cardinality(Among(pc', S)) = Cardinality(Among(pc, S)) - 1
                /\ (pc[t] \in S <=> l \in S) =>
                    Cardinality(Among(pc', S)) = Cardinality(Among(pc, S))
<1>1. pc \in [Threads -> Labels] /\ pc' = [pc EXCEPT ![t] = l]
    BY DEF TypeOK, Labels, Goto
<1> TAKE S \in {Writers, Readers, Pending}
<1>2. IsFiniteSet(Among(pc, S))
    BY ThreadsAssumption, FS_Subset DEF Among
<1>3. ASSUME pc[t] \notin S, l \in S
      PROVE  Cardinality(Among(pc', S)) = Cardinality(Among(pc, S)) + 1
    <2>1. Among(pc', S) = Among(pc, S) \cup {t} /\ t \notin Among(pc, S)
        BY <1>1, <1>3 DEF Among
    <2> QED
        BY <1>2, <2>1, FS_AddElement
<1>4. ASSUME pc[t] \in S, l \notin S
      PROVE  Cardinality(Among(pc', S)) = Cardinality(Among(pc, S)) - 1
    <2>1. Among(pc', S) = Among(pc, S) \ {t} /\ t \in Among(pc, S)
        BY <1>1, <1>4 DEF Among
    <2> QED
        BY <1>2, <2>1, FS_RemoveElement
<1>5. ASSUME pc[t] \in S <=> l \in S
      PROVE  Among(pc', S) = Among(pc, S)
    BY <1>1, <1>5 DEF Among
<1> QED
    BY <1>3, <1>4, <1>5

LEMMA Initially == Init => IInv
<1> SUFFICES ASSUME Init PROVE IInv
    OBVIOUS
<1>1. TypeOK /\ Exclusion /\ WriteSignalExact /\ ReadSignalKept
    BY DEF Init, TypeOK, Exclusion, WriteSignalExact, ReadSignalKept, At
<1>2. Counts
    BY CountZero DEF Init, Counts, Writers, Readers, Pending
<1> QED
    BY <1>1, <1>2 DEF IInv
-----------------------------------------------------------------------------
(* Every step keeps the counts, one lemma for the four counters' moves.      *)
LEMMA CountsKept ==
    ASSUME IInv, NEW t \in Threads, Call(t) \/ Proceed(t)
    PROVE  Counts'
<1> USE DEF IInv, Counts, Writers, Readers, Pending
<1>1. CASE LockForRead(t)
    BY <1>1, Moved DEF LockForRead
<1>2. CASE LockForReadWait(t)
    BY <1>2, Moved DEF LockForReadWait
<1>3. CASE LockForWrite(t)
    BY <1>3, Moved DEF LockForWrite
<1>4. CASE WakeReader(t)
    BY <1>4, Moved DEF WakeReader
<1>5. CASE WaitAgain(t)
    BY <1>5, Moved DEF WaitAgain
<1>6. CASE EnterRead(t)
    BY <1>6, Moved DEF EnterRead
<1>7. CASE UnlockRead(t)
    BY <1>7, Moved DEF UnlockRead
<1>8. CASE WakeWriter(t)
    BY <1>8, Moved DEF WakeWriter
<1>9. CASE UnlockWrite(t)
    BY <1>9, Moved DEF UnlockWrite
<1> QED
    BY <1>1, <1>2, <1>3, <1>4, <1>5, <1>6, <1>7, <1>8, <1>9 DEF Call, Proceed

(* What the counters, the signals and the places are after a step: the other *)
(* parts of the invariant follow from these, action by action.               *)
LEMMA SignalsKept ==
    ASSUME IInv, NEW t \in Threads, Call(t) \/ Proceed(t)
    PROVE  TypeOK' /\ Exclusion' /\ WriteSignalExact' /\ ReadSignalKept'
<1>1. /\ Zeros(pc, nWriters, nActiveReaders, nPendingReaders)
      /\ Zeros(pc', nWriters', nActiveReaders', nPendingReaders')
    BY CountsKept, CountsZero, CountsZeroNext DEF IInv
<1>2. TypeOK'
    BY <1>1 DEF IInv, TypeOK, Zeros, Call, Proceed, LockForRead, LockForReadWait,
        LockForWrite, WakeReader, WaitAgain, EnterRead, UnlockRead, WakeWriter,
        UnlockWrite, Goto
<1> USE <1>1 DEF IInv, TypeOK, Exclusion, WriteSignalExact, ReadSignalKept, At, Goto,
        Zeros, Writers, Readers, Pending
<1>3. CASE LockForRead(t)
    BY <1>2, <1>3 DEF LockForRead
<1>4. CASE LockForReadWait(t)
    BY <1>2, <1>4 DEF LockForReadWait
<1>5. CASE LockForWrite(t)
    BY <1>2, <1>5 DEF LockForWrite
<1>6. CASE WakeReader(t)
    BY <1>2, <1>6 DEF WakeReader
<1>7. CASE WaitAgain(t)
    BY <1>2, <1>7 DEF WaitAgain
<1>8. CASE EnterRead(t)
    BY <1>2, <1>8 DEF EnterRead
<1>9. CASE UnlockRead(t)
    <2>1. Exclusion' /\ ReadSignalKept'
        BY <1>2, <1>9 DEF UnlockRead
    <2>2. ~canWrite
        BY <1>9 DEF UnlockRead
    <2>3. At({"writing"})' = {} /\ (nActiveReaders' = 0 <=> At({"reading"})' = {})
        BY <1>2, <1>9 DEF UnlockRead
    <2>4. nWriters # 0 <=> At({"waitWrite"})' # {}
        BY <1>2, <1>9 DEF UnlockRead
    <2>5. WriteSignalExact'
        BY <1>9, <2>2, <2>3, <2>4 DEF UnlockRead
    <2> QED
        BY <1>2, <2>1, <2>5
<1>10. CASE WakeWriter(t)
    BY <1>2, <1>10 DEF WakeWriter
<1>11. CASE UnlockWrite(t)
    <2>1. Exclusion'
        BY <1>2, <1>11 DEF UnlockWrite
    <2>2. At({"reading", "writing"})' = {} /\ ~canWrite
        BY <1>2, <1>11 DEF UnlockWrite
    <2>3. nWriters' # 0 <=> At({"waitWrite"})' # {}
        BY <1>2, <1>11, <2>2 DEF UnlockWrite
    <2>4. WriteSignalExact'
        BY <1>11, <2>2, <2>3 DEF UnlockWrite
    <2>5. nPendingReaders = 0 => At({"waitRead"})' = {}
        BY <1>2, <1>11 DEF UnlockWrite
    <2>6. ReadSignalKept'
        BY <1>11, <2>5 DEF UnlockWrite
    <2> QED
        BY <1>2, <2>1, <2>4, <2>6
<1> QED
    BY <1>3, <1>4, <1>5, <1>6, <1>7, <1>8, <1>9, <1>10, <1>11 DEF Call, Proceed

LEMMA Stutters == IInv /\ UNCHANGED vars => IInv'
BY DEF IInv, TypeOK, Counts, Among, Exclusion, WriteSignalExact, ReadSignalKept, At, vars

(* The inductive invariant.                                                  *)
LEMMA Invariance == Spec => []IInv
<1>1. IInv /\ [Next]_vars => IInv'
    BY CountsKept, SignalsKept, Stutters DEF Next, IInv
<1> QED
    BY Initially, <1>1, PTL DEF Spec
-----------------------------------------------------------------------------
(* The variables of a lock in use by any number of threads have their types. *)
THEOREM TypeCorrect == Spec => []TypeOK
BY Invariance, PTL DEF IInv

(* The write signal is raised exactly when a writer waits and nobody is in,  *)
(* whatever the number of readers and writers that come and go.              *)
THEOREM WriteSignal == Spec => []WriteSignalExact
BY Invariance, PTL DEF IInv

(* A reader that waits while there is no writer has its signal.              *)
THEOREM ReadSignal == Spec => []ReadSignalKept
BY Invariance, PTL DEF IInv
-----------------------------------------------------------------------------
LEMMA RefinesInit == Init => RW!Init
BY DEF Init, RW!Init, At

(* A step takes or releases the abstract lock, or does nothing to it.        *)
LEMMA RefinesStep ==
    ASSUME IInv, IInv', [Next]_vars
    PROVE  [RW!Next]_(RW!rwVars)
<1>1. CASE UNCHANGED vars
    BY <1>1 DEF vars, RW!rwVars, At
<1>2. ASSUME NEW t \in Threads, Call(t) \/ Proceed(t)
      PROVE  [RW!Next]_(RW!rwVars)
    <2> USE CountsZero, CountsZeroNext DEF IInv, TypeOK, Exclusion, WriteSignalExact, At, Goto,
            Zeros, Writers, Readers, RW!rwVars, RW!Next
    <2>1. CASE LockForRead(t) \/ EnterRead(t)
        <3>1. RW!AcquireRead(t)
            BY <2>1 DEF LockForRead, EnterRead, RW!AcquireRead
        <3> QED
            BY <3>1
    <2>2. CASE UnlockRead(t)
        <3>1. RW!ReleaseRead(t)
            BY <2>2 DEF UnlockRead, RW!ReleaseRead
        <3> QED
            BY <3>1
    <2>3. CASE (LockForWrite(t) /\ pc'[t] = "writing") \/ WakeWriter(t)
        <3>1. RW!AcquireWrite(t)
            BY <2>3 DEF LockForWrite, WakeWriter, RW!AcquireWrite
        <3> QED
            BY <3>1
    <2>4. CASE UnlockWrite(t)
        <3>1. RW!ReleaseWrite(t)
            BY <2>4 DEF UnlockWrite, RW!ReleaseWrite
        <3> QED
            BY <3>1
    <2>5. CASE \/ LockForReadWait(t) \/ WakeReader(t) \/ WaitAgain(t)
               \/ LockForWrite(t) /\ pc'[t] # "writing"
        <3>1. UNCHANGED RW!rwVars
            BY <2>5 DEF LockForReadWait, WakeReader, WaitAgain, LockForWrite
        <3> QED
            BY <3>1
    <2> QED
        BY <1>2, <2>1, <2>2, <2>3, <2>4, <2>5 DEF Call, Proceed
<1> QED
    BY <1>1, <1>2 DEF Next

(* CThreadRWLock implements the abstract lock: readers share, a writer is    *)
(* alone, and nobody releases what it does not hold.                         *)
THEOREM Refines == Spec => RWSpec
<1>1. IInv /\ IInv' /\ [Next]_vars => [RW!Next]_(RW!rwVars)
    BY RefinesStep
<1> QED
    BY Invariance, RefinesInit, <1>1, PTL DEF Spec, RWSpec, RW!Spec
=============================================================================
