------------------------------ MODULE JobQueue ------------------------------
(* CJobQueue of vstdlib (src/src/vstdlib/jobthread.cpp 57-190) on top of     *)
(* CTSQueue, at one priority: m_nItems, under a mutex, is counted after an   *)
(* item is pushed and before one is popped, so that whoever got past the     *)
(* count may rely on an item.  PushItem and PopItem recycle the nodes.       *)
EXTENDS TSQueue

VARIABLES nItems,     \* m_nItems
          inside      \* what each thread is doing in its call

jobVars == <<nItems, inside>>

JobInit ==
    /\ Init
    /\ recycle = TRUE
    /\ nItems = 0
    /\ inside = [t \in Threads |-> "none"]

Become(t, what) == inside' = [inside EXCEPT ![t] = what]

\* Push: PushItem, then the count.
Push(t) ==
    /\ inside[t] = "none"
    /\ TakeNode(t)
    /\ Become(t, "push")
    /\ UNCHANGED nItems

CountItem(t) ==
    /\ inside[t] = "push"
    /\ pc[t] = "idle"
    /\ nItems' = nItems + 1
    /\ Become(t, "none")
    /\ UNCHANGED vars

\* Pop: the count first, then PopItem.
Pop(t) ==
    /\ inside[t] = "none"
    /\ nItems > 0
    /\ nItems' = nItems - 1
    /\ Become(t, "pop")
    /\ UNCHANGED vars

PopItem(t) ==
    /\ inside[t] = "pop"
    /\ pc[t] = "idle"
    /\ BeginPop(t)
    /\ Become(t, "popItem")
    /\ UNCHANGED nItems

\* PopItem found nothing: the count goes back up.
GiveBack(t) ==
    /\ inside[t] = "popItem"
    /\ PopEmpty(t)
    /\ nItems' = nItems + 1
    /\ Become(t, "none")

Done(t) ==
    /\ inside[t] = "popItem"
    /\ FreeNode(t)
    /\ Become(t, "none")
    /\ UNCHANGED nItems

QueueStep(t) ==
    /\ PushStep(t) \/ PopStep(t)
    /\ ~PopEmpty(t) /\ ~FreeNode(t)
    /\ UNCHANGED jobVars

JobNext ==
    \E t \in Threads :
        \/ Push(t) \/ CountItem(t) \/ Pop(t) \/ PopItem(t) \/ GiveBack(t) \/ Done(t)
        \/ QueueStep(t)

JobSpec == JobInit /\ [][JobNext]_<<vars, jobVars>>

(* The assertion in Pop: "Expected at least one queue item".                 *)
ExpectedItem ==
    \A t \in Threads :
        ~(/\ inside[t] = "popItem" /\ pc[t] = "checkTail"
          /\ loc[t].link.node = tail.node /\ loc[t].nxt = End)
=============================================================================
