------------------------------- MODULE RWLock -------------------------------
(* CThreadRWLock: three counters under a mutex and two events.               *)
(*   src/src/public/tier0/threadtools.h    1624-1655, 2345-2373              *)
(*   src/src/tier0/threadtools.cpp         2381-2427                         *)
(*                                                                           *)
(* A block between m_mutex.Lock and m_mutex.Unlock is one step; a wait on an *)
(* event, which happens outside the mutex, is a step of its own.  m_CanWrite *)
(* resets itself when a wait consumes it, m_CanRead stays set until Reset.   *)
(* Each thread holds the lock at most once: the lock is not reentrant.       *)
EXTENDS Naturals, FiniteSets

CONSTANT Threads      \* the threads that share the lock

ASSUME ThreadsAssumption == IsFiniteSet(Threads)

VARIABLES pc,               \* where each thread is
          nWriters,         \* m_nWriters: inside or waiting
          nActiveReaders,   \* m_nActiveReaders
          nPendingReaders,  \* m_nPendingReaders
          canWrite,         \* m_CanWrite, an auto-reset event
          canRead           \* m_CanRead, a manual-reset event

vars == <<pc, nWriters, nActiveReaders, nPendingReaders, canWrite, canRead>>

At(labels) == {t \in Threads : pc[t] \in labels}

Goto(t, label) == pc' = [pc EXCEPT ![t] = label]

Init ==
    /\ pc = [t \in Threads |-> "idle"]
    /\ nWriters = 0
    /\ nActiveReaders = 0
    /\ nPendingReaders = 0
    /\ canWrite = FALSE
    /\ canRead = FALSE
-----------------------------------------------------------------------------
\* LockForRead, when no writer is in or waiting.
LockForRead(t) ==
    /\ pc[t] = "idle"
    /\ nWriters = 0
    /\ nActiveReaders' = nActiveReaders + 1
    /\ Goto(t, "reading")
    /\ UNCHANGED <<nWriters, nPendingReaders, canWrite, canRead>>

\* LockForRead calls WaitForRead, which gives the mutex back to wait.
LockForReadWait(t) ==
    /\ pc[t] = "idle"
    /\ nWriters # 0
    /\ nPendingReaders' = nPendingReaders + 1
    /\ Goto(t, "waitRead")
    /\ UNCHANGED <<nWriters, nActiveReaders, canWrite, canRead>>

\* m_CanRead.Wait() returns; the mutex is not held yet.
WakeReader(t) ==
    /\ pc[t] = "waitRead"
    /\ canRead
    /\ Goto(t, "wokenRead")
    /\ UNCHANGED <<nWriters, nActiveReaders, nPendingReaders, canWrite, canRead>>

\* Under the mutex again: a writer came first, wait once more.
WaitAgain(t) ==
    /\ pc[t] = "wokenRead"
    /\ nWriters # 0
    /\ Goto(t, "waitRead")
    /\ UNCHANGED <<nWriters, nActiveReaders, nPendingReaders, canWrite, canRead>>

\* Under the mutex again, no writer: the end of WaitForRead and LockForRead.
EnterRead(t) ==
    /\ pc[t] = "wokenRead"
    /\ nWriters = 0
    /\ nPendingReaders' = nPendingReaders - 1
    /\ nActiveReaders' = nActiveReaders + 1
    /\ Goto(t, "reading")
    /\ UNCHANGED <<nWriters, canWrite, canRead>>

\* Mutants: the last reader signals although no writer waits (WriteSignalExact),
\* or leaves without a signal (WritersProgress).
UnlockReadSignals(t) ==
    /\ pc[t] = "reading"
    /\ nActiveReaders' = nActiveReaders - 1
    /\ canWrite' = (canWrite \/ nActiveReaders' = 0)
    /\ Goto(t, "idle")
    /\ UNCHANGED <<nWriters, nPendingReaders, canRead>>

UnlockReadSilent(t) ==
    /\ pc[t] = "reading"
    /\ nActiveReaders' = nActiveReaders - 1
    /\ Goto(t, "idle")
    /\ UNCHANGED <<nWriters, nPendingReaders, canWrite, canRead>>

UnlockRead(t) ==
    /\ pc[t] = "reading"
    /\ nActiveReaders' = nActiveReaders - 1
    /\ canWrite' = (canWrite \/ (nActiveReaders' = 0 /\ nWriters # 0))
    /\ Goto(t, "idle")
    /\ UNCHANGED <<nWriters, nPendingReaders, canRead>>

\* A mutant for RWSpec: a writer looks out for writers only.
LockForWriteOverReaders(t) ==
    /\ pc[t] = "idle"
    /\ nWriters' = nWriters + 1
    /\ canRead' = FALSE
    /\ Goto(t, IF nWriters # 0 THEN "waitWrite" ELSE "writing")
    /\ UNCHANGED <<nActiveReaders, nPendingReaders, canWrite>>

\* LockForWrite; bWait is decided under the mutex, before the writer counts.
LockForWrite(t) ==
    LET bWait == nWriters # 0 \/ nActiveReaders # 0
    IN  /\ pc[t] = "idle"
        /\ nWriters' = nWriters + 1
        /\ canRead' = FALSE
        /\ Goto(t, IF bWait THEN "waitWrite" ELSE "writing")
        /\ UNCHANGED <<nActiveReaders, nPendingReaders, canWrite>>

\* m_CanWrite.Wait() returns and resets the event.
WakeWriter(t) ==
    /\ pc[t] = "waitWrite"
    /\ canWrite
    /\ canWrite' = FALSE
    /\ Goto(t, "writing")
    /\ UNCHANGED <<nWriters, nActiveReaders, nPendingReaders, canRead>>

\* Mutants: the last writer forgets the readers (ReadSignalKept), or wakes them
\* only if there is just one (ReadersProgress).
UnlockWriteForgets(t) ==
    /\ pc[t] = "writing"
    /\ nWriters' = nWriters - 1
    /\ canWrite' = (canWrite \/ nWriters' # 0)
    /\ Goto(t, "idle")
    /\ UNCHANGED <<nActiveReaders, nPendingReaders, canRead>>

UnlockWriteForOne(t) ==
    /\ pc[t] = "writing"
    /\ nWriters' = nWriters - 1
    /\ canRead' = (canRead \/ (nWriters' = 0 /\ nPendingReaders = 1))
    /\ canWrite' = (canWrite \/ nWriters' # 0)
    /\ Goto(t, "idle")
    /\ UNCHANGED <<nActiveReaders, nPendingReaders>>

UnlockWrite(t) ==
    /\ pc[t] = "writing"
    /\ nWriters' = nWriters - 1
    /\ canRead' = (canRead \/ (nWriters' = 0 /\ nPendingReaders # 0))
    /\ canWrite' = (canWrite \/ nWriters' # 0)
    /\ Goto(t, "idle")
    /\ UNCHANGED <<nActiveReaders, nPendingReaders>>
-----------------------------------------------------------------------------
\* What a thread does once it has called: the client releases what it took.
Proceed(t) ==
    \/ WakeReader(t) \/ WaitAgain(t) \/ EnterRead(t) \/ UnlockRead(t)
    \/ WakeWriter(t) \/ UnlockWrite(t)

Call(t) == LockForRead(t) \/ LockForReadWait(t) \/ LockForWrite(t)

Next == \E t \in Threads : Call(t) \/ Proceed(t)

Spec == Init /\ [][Next]_vars

\* Every thread that has called keeps running; nobody has to call.
FairSpec == Spec /\ \A t \in Threads : WF_vars(Proceed(t))
-----------------------------------------------------------------------------
TypeOK ==
    /\ pc \in [Threads -> {"idle", "waitRead", "wokenRead", "reading",
                           "waitWrite", "writing"}]
    /\ nWriters \in Nat
    /\ nActiveReaders \in Nat
    /\ nPendingReaders \in Nat
    /\ canWrite \in BOOLEAN
    /\ canRead \in BOOLEAN

(* The write signal is raised exactly while a writer waits and nobody is in: *)
(* raised earlier it would let a writer in beside another thread, raised     *)
(* twice one of two writers would be forgotten, raised late both would wait. *)
WriteSignalExact ==
    canWrite <=> /\ At({"waitWrite"}) # {}
                 /\ At({"reading", "writing"}) = {}

(* A reader that waits while no writer is in or waiting has its signal: the  *)
(* reset in LockForWrite never swallows the wake-up of a pending reader.     *)
ReadSignalKept ==
    (nWriters = 0 /\ At({"waitRead"}) # {}) => canRead

(* CThreadRWLock implements the lock without counters and events.            *)
RW == INSTANCE ReadersWriter WITH reading <- At({"reading"}),
                                  writing <- At({"writing"})

RWSpec == RW!Spec

(* A writer that waits is not forgotten: somebody writes.                    *)
WritersProgress ==
    At({"waitWrite"}) # {} ~> At({"writing"}) # {}

(* A reader that waits reads as soon as writers stop coming.                 *)
ReadersProgress ==
    \A t \in Threads :
        <>[](nWriters = 0) => [](pc[t] = "waitRead" => <>(pc[t] = "reading"))
=============================================================================
