---------------------------- MODULE ReadersWriter ----------------------------
(* What a readers-writer lock promises, without saying how: several threads  *)
(* may read together, one may write alone.  CThreadRWLock and                *)
(* CThreadSpinRWLock (src/src/public/tier0/threadtools.h) both implement it. *)
EXTENDS FiniteSets

CONSTANT Threads      \* the threads that share the lock

VARIABLES reading,    \* the threads inside a read lock
          writing     \* the threads inside the write lock

rwVars == <<reading, writing>>

Init ==
    /\ reading = {}
    /\ writing = {}

AcquireRead(t) ==
    /\ writing = {}
    /\ t \notin reading
    /\ reading' = reading \cup {t}
    /\ UNCHANGED writing

ReleaseRead(t) ==
    /\ t \in reading
    /\ reading' = reading \ {t}
    /\ UNCHANGED writing

AcquireWrite(t) ==
    /\ reading = {}
    /\ writing = {}
    /\ writing' = {t}
    /\ UNCHANGED reading

ReleaseWrite(t) ==
    /\ t \in writing
    /\ writing' = writing \ {t}
    /\ UNCHANGED reading

Next ==
    \E t \in Threads :
        \/ AcquireRead(t) \/ ReleaseRead(t)
        \/ AcquireWrite(t) \/ ReleaseWrite(t)

Spec == Init /\ [][Next]_rwVars
=============================================================================
