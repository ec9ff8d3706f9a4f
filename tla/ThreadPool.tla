----------------------------- MODULE ThreadPool -----------------------------
(* CThreadPool of vstdlib: worker threads, a queue each and one they share,  *)
(* and the master thread that adds jobs, waits for them, and suspends, stops *)
(* or empties the pool.                                                      *)
(*   src/src/vstdlib/jobthread.cpp          ServiceJobAndRelease, CJobQueue, *)
(*                                          CJobThread, CThreadPool          *)
(*   src/src/public/vstdlib/jobthread.h     CJob                             *)
(*   src/src/tier0/threadtools.cpp          CWorkerThread                    *)
(*                                                                           *)
(* A block under a mutex, a step on an atomic counter, an event and PopItem  *)
(* or PushItem of one CTSQueue are each one step.  The event of a CJobQueue  *)
(* is set exactly while its m_nItems is not 0, under the mutex, so it is no  *)
(* variable of its own.  Init is the pool after Start, every worker waiting. *)
EXTENDS Integers, SequencesExt

CONSTANTS NumThreads,     \* m_Threads.Count() after Start
          NumPriorities,  \* JP_NUM_PRIORITIES
          MaxHandles,     \* the most jobs YieldWait takes: 64 handles less 2
          OnlyPool,       \* m_bExecOnThreadPoolThreadsOnly
          MaxJobs,        \* bound: the jobs clients add
          Kinds,          \* what clients set on them, see KindType
          Calls,          \* the operations the master's clients use
          MaxCalls        \* bound: calls of the master, adding and Resume apart

AllCalls == {"Wait", "WaitFrame", "Suspend", "AbortAll", "ExecuteToPriority",
             "ChangePriority", "Execute", "TryExecute", "Abort", "Stop"}

\* queue: JF_IO or JF_QUEUE; serial: JF_SERIAL; thread: SetServiceThread;
\* frame: added by AddPerFrameJob.
KindType == [queue : BOOLEAN, serial : BOOLEAN, frame : BOOLEAN,
             thread : -1 .. NumThreads - 1]

ASSUME PoolAssumption ==
    /\ NumThreads \in Nat \ {0} /\ NumPriorities \in Nat \ {0}
    /\ MaxHandles \in Nat /\ MaxJobs \in Nat /\ MaxCalls \in Nat
    /\ OnlyPool \in BOOLEAN
    /\ Kinds \subseteq KindType
    /\ Calls \subseteq AllCalls

\* Only the file system makes serial jobs, and CFileAsyncJob has set JF_IO then.
ASSUME SerialAssumption == \A kind \in Kinds : kind.serial => OnlyPool \/ kind.queue

Workers == 0 .. NumThreads - 1
Main    == NumThreads
Shared  == NumThreads          \* m_SharedQueue; queue w is worker w's direct one
Threads == Workers \cup {Main}
Queues  == Workers \cup {Shared}
None    == -1
Jobs    == 1 .. MaxJobs        \* in the order they are added
Levels  == 0 .. NumPriorities - 1
Top     == NumPriorities - 1

VARIABLES job,        \* the CJobs: kind, status, runs, owner of m_mutex, prio, moved
          queue,      \* the priority levels of each CJobQueue
          items,      \* m_nItems of each
          nJobs,      \* m_nJobs
          nIdle,      \* m_nIdleThreads
          nSuspend,   \* m_nSuspend
          worker,     \* call: what the master asks; asleep: in Suspend; took: bTookJob
          pc,         \* where each thread is
          loc,        \* what it is scanning or holding
          master,     \* the master's call and its locals
          perFrame,   \* m_PerFrameJobs
          nAdded,     \* how many jobs were added
          uncounted   \* entries ChangePriority pushed since m_nJobs was last 0

vars == <<job, queue, items, nJobs, nIdle, nSuspend, worker, pc, loc, master,
          perFrame, nAdded, uncounted>>

\* A job nobody added yet.
NoKind == [queue |-> FALSE, serial |-> FALSE, frame |-> FALSE, thread |-> None]

\* job is the one at hand, src the queue it is taken from or pushed to, None if
\* it is executed directly.
NoLocals == [job |-> None, src |-> None, level |-> Top]

Finished(j)   == job[j].status \in {"ok", "aborted"}
CanExecute(j) == job[j].status \in {"unserviced", "pending"}
Added         == 1 .. nAdded
Stopped       == \A w \in Workers : pc[w] = "dead"

\* All entries of queue q of qs, the highest level first.
Entries(qs, q) == FlattenSeq([k \in 1 .. NumPriorities |-> qs[q][NumPriorities - k]])

Goto(t, label) == pc' = [pc EXCEPT ![t] = label]

\* The master's call is over.
Return ==
    /\ Goto(Main, "idle")
    /\ master' = [master EXCEPT !.call = "none", !.i = 0, !.await = {}]

Init ==
    /\ job = [j \in Jobs |-> [kind |-> NoKind, status |-> "none", runs |-> 0,
                              owner |-> None, prio |-> 0, moved |-> FALSE]]
    /\ queue = [q \in Queues |-> [l \in Levels |-> <<>>]]
    /\ items = [q \in Queues |-> 0]
    /\ nJobs = 0
    /\ nIdle = NumThreads
    /\ nSuspend = 0
    /\ worker = [w \in Workers |-> [call |-> "none", asleep |-> FALSE, took |-> FALSE]]
    /\ pc = [t \in Threads |-> IF t = Main THEN "idle" ELSE "wait"]
    /\ loc = [t \in Threads |-> NoLocals]
    /\ master = [call |-> "none", i |-> 0, await |-> {}, refused |-> {}, budget |-> MaxCalls]
    /\ perFrame = {}
    /\ nAdded = 0
    /\ uncounted = 0
-----------------------------------------------------------------------------
\* A mutant for ExpectedItem: the count may have reached 0.
TicketOfNone(t, q) ==
    /\ items[q] >= 0
    /\ items' = [items EXCEPT ![q] = @ - 1]
    /\ loc' = [loc EXCEPT ![t] = [NoLocals EXCEPT !.src = q]]
    /\ Goto(t, "scan")

\* CJobQueue::Pop, first half: a ticket for one item.
Ticket(t, q) ==
    /\ items[q] > 0
    /\ items' = [items EXCEPT ![q] = @ - 1]
    /\ loc' = [loc EXCEPT ![t] = [NoLocals EXCEPT !.src = q]]
    /\ Goto(t, "scan")

\* Second half: the levels from the top, each an atomic PopItem.
NextLevel(t) ==
    /\ pc[t] = "scan"
    /\ queue[loc[t].src][loc[t].level] = <<>>
    /\ loc[t].level > 0
    /\ loc' = [loc EXCEPT ![t].level = @ - 1]
    /\ UNCHANGED <<job, queue, items, nJobs, nIdle, nSuspend, worker, pc, master, perFrame, nAdded, uncounted>>

TakeJob(t) ==
    LET q == loc[t].src
        l == loc[t].level
    IN  /\ pc[t] = "scan"
        /\ queue[q][l] # <<>>
        /\ queue' = [queue EXCEPT ![q][l] = Tail(@)]
        /\ loc' = [loc EXCEPT ![t] = [job |-> Head(queue[q][l]), src |-> q, level |-> Top]]
        /\ Goto(t, IF t = Main \/ worker[t].took THEN "service" ELSE "taken")
        /\ UNCHANGED <<job, items, nJobs, nIdle, nSuspend, worker, master, perFrame, nAdded, uncounted>>

\* ServiceJobAndRelease: TryLock and, in Execute, the status under the lock.
Started(t, j) == [job[j] EXCEPT !.status = "inprogress", !.runs = @ + 1, !.owner = t]

Start(t, j) == job' = [job EXCEPT ![j] = Started(t, j)]

\* CJob::Abort and CJob::Execute of some jobs, in one step.
AbortJobs(S) ==
    job' = [j \in Jobs |-> IF j \in S /\ CanExecute(j)
                           THEN [job[j] EXCEPT !.status = "aborted"] ELSE job[j]]

ExecuteJobs(S) ==
    job' = [j \in Jobs |-> IF j \in S /\ CanExecute(j)
                           THEN [job[j] EXCEPT !.status = "ok", !.runs = @ + 1] ELSE job[j]]

\* A mutant for ExecutedOnce: the lock is not tried.
ServiceUnlocked(t) ==
    LET j == loc[t].job
    IN  /\ pc[t] = "service"
        /\ IF ~Finished(j)
           THEN Start(t, j) /\ Goto(t, "run")
           ELSE Goto(t, "released") /\ UNCHANGED job
        /\ UNCHANGED <<queue, items, nJobs, nIdle, nSuspend, worker, loc, master, perFrame, nAdded, uncounted>>

Service(t) ==
    LET j == loc[t].job
    IN  /\ pc[t] = "service"
        /\ IF CanExecute(j) /\ job[j].owner = None
           THEN Start(t, j) /\ Goto(t, "run")
           ELSE Goto(t, "released") /\ UNCHANGED job
        /\ UNCHANGED <<queue, items, nJobs, nIdle, nSuspend, worker, loc, master, perFrame, nAdded, uncounted>>

\* The end of Execute: DoExecute has returned, m_CompleteEvent is set and the
\* lock released.  Whoever looks at the status before the event would only find
\* the lock taken, so the three are one step.
Run(t) ==
    LET j == loc[t].job
    IN  /\ pc[t] = "run"
        /\ job' = [job EXCEPT ![j].status = "ok", ![j].owner = None]
        /\ IF loc[t].src = None
           THEN Return /\ loc' = [loc EXCEPT ![t] = NoLocals]
           ELSE Goto(t, "released") /\ UNCHANGED <<master, loc>>
        /\ UNCHANGED <<queue, items, nJobs, nIdle, nSuspend, worker, perFrame, nAdded, uncounted>>

\* m_nJobs--, and back to PeekCall (a worker) or the wait (YieldWait).
Released(t) ==
    /\ pc[t] = "released"
    /\ nJobs' = nJobs - 1
    /\ loc' = [loc EXCEPT ![t] = NoLocals]
    /\ Goto(t, IF t = Main THEN "yield"
               ELSE IF worker[t].call = "none" THEN "popDirect" ELSE "endTurn")
    /\ UNCHANGED <<job, queue, items, nIdle, nSuspend, worker, master, perFrame, nAdded, uncounted>>
-----------------------------------------------------------------------------
(* CJobThread::Run.                                                          *)

\* A mutant for JobsFinish: an item in the shared queue wakes nobody.
WakeForOwn(w) ==
    /\ pc[w] = "wait"
    /\ worker[w].call # "none" \/ items[w] > 0
    /\ Goto(w, IF worker[w].call # "none" THEN "called" ELSE "popDirect")
    /\ UNCHANGED <<job, queue, items, nJobs, nIdle, nSuspend, worker, loc, master, perFrame, nAdded, uncounted>>

\* Wait returns for a call or an item, and PeekCall looks for the call first.
Wake(w) ==
    /\ pc[w] = "wait"
    /\ worker[w].call # "none" \/ items[w] > 0 \/ items[Shared] > 0
    /\ Goto(w, IF worker[w].call # "none" THEN "called" ELSE "popDirect")
    /\ UNCHANGED <<job, queue, items, nJobs, nIdle, nSuspend, worker, loc, master, perFrame, nAdded, uncounted>>

PopDirect(w) ==
    /\ pc[w] = "popDirect"
    /\ \/ Ticket(w, w)
       \/ items[w] = 0 /\ Goto(w, "popShared") /\ UNCHANGED <<items, loc>>
    /\ UNCHANGED <<job, queue, nJobs, nIdle, nSuspend, worker, master, perFrame, nAdded, uncounted>>

PopShared(w) ==
    /\ pc[w] = "popShared"
    /\ \/ Ticket(w, Shared)
       \/ /\ items[Shared] = 0
          /\ Goto(w, IF worker[w].took THEN "endTurn" ELSE "wait")
          /\ UNCHANGED <<items, loc>>
    /\ UNCHANGED <<job, queue, nJobs, nIdle, nSuspend, worker, master, perFrame, nAdded, uncounted>>

\* The first job of a turn: the worker is idle no longer.
Taken(w) ==
    /\ pc[w] = "taken"
    /\ nIdle' = nIdle - 1
    /\ worker' = [worker EXCEPT ![w].took = TRUE]
    /\ Goto(w, "service")
    /\ UNCHANGED <<job, queue, items, nJobs, nSuspend, loc, master, perFrame, nAdded, uncounted>>

EndTurn(w) ==
    /\ pc[w] = "endTurn"
    /\ nIdle' = nIdle + 1
    /\ worker' = [worker EXCEPT ![w].took = FALSE]
    /\ Goto(w, "wait")
    /\ UNCHANGED <<job, queue, items, nJobs, nSuspend, loc, master, perFrame, nAdded, uncounted>>

\* Reply, which must come before the thread suspends itself or ends.
Reply(w) ==
    /\ pc[w] = "called"
    /\ worker' = [worker EXCEPT ![w].call = "none"]
    /\ Goto(w, IF worker[w].call = "exit" THEN "exiting" ELSE "suspending")
    /\ UNCHANGED <<job, queue, items, nJobs, nIdle, nSuspend, loc, master, perFrame, nAdded, uncounted>>

FallAsleep(w) ==
    /\ pc[w] = "suspending"
    /\ worker' = [worker EXCEPT ![w].asleep = TRUE]
    /\ Goto(w, "asleep")
    /\ UNCHANGED <<job, queue, items, nJobs, nIdle, nSuspend, loc, master, perFrame, nAdded, uncounted>>

Awake(w) ==
    /\ pc[w] = "asleep"
    /\ ~worker[w].asleep
    /\ Goto(w, "wait")
    /\ UNCHANGED <<job, queue, items, nJobs, nIdle, nSuspend, worker, loc, master, perFrame, nAdded, uncounted>>

Exit(w) ==
    /\ pc[w] = "exiting"
    /\ nIdle' = nIdle - 1
    /\ Goto(w, "dead")
    /\ UNCHANGED <<job, queue, items, nJobs, nSuspend, worker, loc, master, perFrame, nAdded, uncounted>>
-----------------------------------------------------------------------------
(* AddJob.                                                                   *)

\* A mutant for SerialInOrder: a serial job goes where the others go.
TargetOfAny(kind) == IF kind.thread # None THEN kind.thread ELSE Shared

\* InsertJobInQueue, for a job of this kind.
TargetOf(kind) ==
    IF kind.serial THEN 0 ELSE IF kind.thread # None THEN kind.thread ELSE Shared

Target(j) == TargetOf(job[j].kind)

\* The next job; AddPerFrameJob notes it first.
Add(j, kind) ==
    /\ pc[Main] = "idle"
    /\ j = nAdded + 1
    /\ nAdded' = j
    /\ perFrame' = IF kind.frame THEN perFrame \cup {j} ELSE perFrame

MayHelp(kind) == ~OnlyPool /\ ~kind.queue

\* No threads, or all busy: the master executes the job on the spot.
AddJobInPlace(j, kind) ==
    /\ Add(j, kind)
    /\ Stopped \/ (MayHelp(kind) /\ nIdle = 0)
    /\ job' = [job EXCEPT ![j] = [Started(Main, j) EXCEPT !.kind = kind]]
    /\ loc' = [loc EXCEPT ![Main].job = j]
    /\ Goto(Main, "run")
    /\ UNCHANGED <<queue, items, nJobs, nIdle, nSuspend, worker, master, uncounted>>

AddJob(j, kind) ==
    /\ Add(j, kind)
    /\ ~Stopped
    /\ ~MayHelp(kind) \/ nIdle # 0
    /\ job' = [job EXCEPT ![j].kind = kind, ![j].status = "pending",
                          ![j].prio = IF MayHelp(kind) THEN Top ELSE @]
    /\ loc' = [loc EXCEPT ![Main].job = j, ![Main].src = TargetOf(kind)]
    /\ Goto(Main, "pushItem")
    /\ UNCHANGED <<queue, items, nJobs, nIdle, nSuspend, worker, master, uncounted>>

\* CJobQueue::Push: the item first, then the count.
PushItem ==
    LET j == loc[Main].job
    IN  /\ pc[Main] = "pushItem"
        /\ queue' = [queue EXCEPT ![loc[Main].src][job[j].prio] = Append(@, j)]
        /\ Goto(Main, "countItem")
        /\ UNCHANGED <<job, items, nJobs, nIdle, nSuspend, worker, loc, master, perFrame, nAdded, uncounted>>

CountItem ==
    /\ pc[Main] = "countItem"
    /\ items' = [items EXCEPT ![loc[Main].src] = @ + 1]
    /\ loc' = [loc EXCEPT ![Main] = NoLocals]
    /\ IF master.call = "ChangePriority"
       THEN Return /\ uncounted' = uncounted + 1
       ELSE Goto(Main, "countJob") /\ UNCHANGED <<master, uncounted>>
    /\ UNCHANGED <<job, queue, nJobs, nIdle, nSuspend, worker, perFrame, nAdded>>

CountJob ==
    /\ pc[Main] = "countJob"
    /\ nJobs' = nJobs + 1
    /\ Return
    /\ UNCHANGED <<job, queue, items, nIdle, nSuspend, worker, loc, perFrame, nAdded, uncounted>>
-----------------------------------------------------------------------------
(* The other calls of the master.  A client that suspended the pool resumes  *)
(* it before it waits or stops; nothing but jobs is given to a stopped pool. *)

Begin(call) ==
    /\ pc[Main] = "idle"
    /\ call \in Calls
    /\ master.budget > 0
    /\ ~Stopped

Called(call) == [master EXCEPT !.call = call, !.budget = @ - 1]

Wait(j) ==
    /\ Begin("Wait")
    /\ nSuspend = 0
    /\ j \in Added /\ ~Finished(j)
    /\ master' = [Called("Wait") EXCEPT !.await = {j}]
    /\ Goto(Main, "yield")
    /\ UNCHANGED <<job, queue, items, nJobs, nIdle, nSuspend, worker, loc, perFrame, nAdded, uncounted>>

\* YieldWaitPerFrameJobs: the list is emptied before YieldWait looks at its
\* length, and its refusal to wait is only returned.
WaitFrame ==
    /\ Begin("WaitFrame")
    /\ nSuspend = 0
    /\ perFrame # {}
    /\ perFrame' = {}
    /\ IF Cardinality(perFrame) > MaxHandles
       THEN /\ master' = [master EXCEPT !.budget = @ - 1, !.refused = @ \cup perFrame]
            /\ UNCHANGED pc
       ELSE /\ master' = [Called("WaitFrame") EXCEPT !.await = perFrame]
            /\ Goto(Main, "yield")
    /\ UNCHANGED <<job, queue, items, nJobs, nIdle, nSuspend, worker, loc, nAdded, uncounted>>

AllDone == \A j \in master.await : Finished(j)

\* YieldWait: WaitForMultiple with no timeout, then Pop.
Yield ==
    /\ pc[Main] = "yield"
    /\ IF AllDone THEN Return ELSE Goto(Main, "yieldPop") /\ UNCHANGED master
    /\ UNCHANGED <<job, queue, items, nJobs, nIdle, nSuspend, worker, loc, perFrame, nAdded, uncounted>>

YieldPop ==
    /\ pc[Main] = "yieldPop"
    /\ \/ ~OnlyPool /\ Ticket(Main, Shared)
       \/ (OnlyPool \/ items[Shared] = 0) /\ Goto(Main, "block") /\ UNCHANGED <<items, loc>>
    /\ UNCHANGED <<job, queue, nJobs, nIdle, nSuspend, worker, master, perFrame, nAdded, uncounted>>

\* A mutant for FrameJobsDone: return as soon as there is nothing to help with.
BlockNot ==
    /\ pc[Main] = "block"
    /\ Return
    /\ UNCHANGED <<job, queue, items, nJobs, nIdle, nSuspend, worker, loc, perFrame, nAdded, uncounted>>

\* Nothing to help with: WaitForMultiple without end.
Block ==
    /\ pc[Main] = "block"
    /\ AllDone
    /\ Return
    /\ UNCHANGED <<job, queue, items, nJobs, nIdle, nSuspend, worker, loc, perFrame, nAdded, uncounted>>

\* ChangePriority only raises: a second entry, and no second count in m_nJobs.
ChangePriority(j, p) ==
    /\ Begin("ChangePriority")
    /\ j \in Added
    /\ job[j].prio < p
    /\ job' = [job EXCEPT ![j].prio = p, ![j].moved = TRUE]
    /\ master' = Called("ChangePriority")
    /\ loc' = [loc EXCEPT ![Main].job = j, ![Main].src = Shared]
    /\ Goto(Main, "pushItem")
    /\ UNCHANGED <<queue, items, nJobs, nIdle, nSuspend, worker, perFrame, nAdded, uncounted>>

\* CJob::Execute, TryExecute and Abort by a client, which may find the lock taken.
CallJob(call, j) ==
    /\ Begin(call)
    /\ j \in Added /\ ~Finished(j)
    /\ job' = [job EXCEPT ![j].moved = TRUE]
    /\ master' = Called(call)
    /\ loc' = [loc EXCEPT ![Main].job = j]
    /\ Goto(Main, "lockJob")
    /\ UNCHANGED <<queue, items, nJobs, nIdle, nSuspend, worker, perFrame, nAdded, uncounted>>

LockJob ==
    LET j == loc[Main].job
    IN  /\ pc[Main] = "lockJob"
        /\ job[j].owner = None
        /\ IF CanExecute(j) /\ master.call # "Abort"
           THEN Start(Main, j) /\ Goto(Main, "run") /\ UNCHANGED <<loc, master>>
           ELSE /\ job' = IF CanExecute(j) THEN [job EXCEPT ![j].status = "aborted"] ELSE job
                /\ loc' = [loc EXCEPT ![Main] = NoLocals]
                /\ Return
        /\ UNCHANGED <<queue, items, nJobs, nIdle, nSuspend, worker, perFrame, nAdded, uncounted>>

\* TryExecute does not wait for the lock.
GiveUp ==
    /\ pc[Main] = "lockJob"
    /\ master.call = "TryExecute"
    /\ job[loc[Main].job].owner # None
    /\ loc' = [loc EXCEPT ![Main] = NoLocals]
    /\ Return
    /\ UNCHANGED <<job, queue, items, nJobs, nIdle, nSuspend, worker, perFrame, nAdded, uncounted>>
-----------------------------------------------------------------------------
\* SuspendExecution, alone or as the first part of two other calls.
Suspenders == {"Suspend", "AbortAll", "ExecuteToPriority"}

SuspendExecution(call) ==
    /\ Begin(call)
    /\ master' = Called(call)
    /\ Goto(Main, IF nSuspend = 0 THEN "callSuspend" ELSE "suspended")
    /\ UNCHANGED <<job, queue, items, nJobs, nIdle, nSuspend, worker, loc, perFrame, nAdded, uncounted>>

\* CallWorker of the next thread.  What WaitForReply answers decides nothing,
\* it may time out: the caller waits until the thread sleeps, or is gone.
CallWorker(param, next) ==
    /\ worker' = [worker EXCEPT ![master.i].call = param]
    /\ master' = [master EXCEPT !.i = @ + 1]
    /\ IF master.i = NumThreads - 1 THEN Goto(Main, next) ELSE UNCHANGED pc
    /\ UNCHANGED <<job, queue, items, nJobs, nIdle, nSuspend, loc, perFrame, nAdded, uncounted>>

CallSuspend == pc[Main] = "callSuspend" /\ CallWorker("suspend", "awaitAsleep")

\* Mutants: the replies are enough (QuietWhenSuspended), or not even they are
\* awaited (OneCallAtATime).
AwaitReplies ==
    /\ pc[Main] = "awaitAsleep"
    /\ \A w \in Workers : worker[w].call = "none"
    /\ Goto(Main, "suspended")
    /\ UNCHANGED <<job, queue, items, nJobs, nIdle, nSuspend, worker, loc, master, perFrame, nAdded, uncounted>>

AwaitNothing ==
    /\ pc[Main] = "awaitAsleep"
    /\ Goto(Main, "suspended")
    /\ UNCHANGED <<job, queue, items, nJobs, nIdle, nSuspend, worker, loc, master, perFrame, nAdded, uncounted>>

AwaitAsleep ==
    /\ pc[Main] = "awaitAsleep"
    /\ \A w \in Workers : worker[w].asleep
    /\ Goto(Main, "suspended")
    /\ UNCHANGED <<job, queue, items, nJobs, nIdle, nSuspend, worker, loc, master, perFrame, nAdded, uncounted>>

\* A mutant for CallsReturn: the threads are woken one call too late.
ResumedLate(n) ==
    /\ nSuspend' = n - 1
    /\ worker' = IF n = 0 THEN [w \in Workers |-> [worker[w] EXCEPT !.asleep = FALSE]] ELSE worker

\* ResumeExecution, when m_nSuspend is n.
Resumed(n) ==
    /\ nSuspend' = n - 1
    /\ worker' = IF n = 1 THEN [w \in Workers |-> [worker[w] EXCEPT !.asleep = FALSE]] ELSE worker

Suspend ==
    /\ pc[Main] = "suspended"
    /\ master.call = "Suspend"
    /\ nSuspend' = nSuspend + 1
    /\ Return
    /\ UNCHANGED <<job, queue, items, nJobs, nIdle, worker, loc, perFrame, nAdded, uncounted>>

Resume ==
    /\ pc[Main] = "idle"
    /\ nSuspend > 0
    /\ Resumed(nSuspend)
    /\ UNCHANGED <<job, queue, items, nJobs, nIdle, pc, loc, master, perFrame, nAdded, uncounted>>

\* A mutant for CountsSettle: the jobs are aborted and still counted.
AbortAllUncounted ==
    LET entries == UNION {ToSet(Entries(queue, q)) : q \in Queues}
    IN  /\ pc[Main] = "suspended"
        /\ master.call = "AbortAll"
        /\ AbortJobs(entries)
        /\ queue' = [q \in Queues |-> [l \in Levels |-> <<>>]]
        /\ items' = [q \in Queues |-> 0]
        /\ uncounted' = 0
        /\ Resumed(nSuspend + 1)
        /\ Return
        /\ UNCHANGED <<nJobs, nIdle, loc, perFrame, nAdded>>

\* The rest of AbortAll.  No worker runs, so it is one step.
AbortAll ==
    LET entries == UNION {ToSet(Entries(queue, q)) : q \in Queues}
    IN  /\ pc[Main] = "suspended"
        /\ master.call = "AbortAll"
        /\ AbortJobs(entries)
        /\ queue' = [q \in Queues |-> [l \in Levels |-> <<>>]]
        /\ items' = [q \in Queues |-> 0]
        /\ nJobs' = 0
        /\ uncounted' = 0
        /\ Resumed(nSuspend + 1)
        /\ Return
        /\ UNCHANGED <<nIdle, loc, perFrame, nAdded>>

\* The entries of s that are in S, in their order.
Only(s, S) ==
    LET kept[k \in 0 .. Len(s)] ==
            IF k = 0 THEN <<>>
            ELSE IF s[k] \in S THEN Append(kept[k - 1], s[k]) ELSE kept[k - 1]
    IN  kept[Len(s)]

\* The rest of ExecuteToPriority, also one step.  With the filter for writes,
\* the only one in use, the other jobs are put back where they belong by now.
ExecuteToPriority(p, filtered) ==
    LET atLevel(l) == FlattenSeq([k \in 1 .. NumThreads + 1 |-> queue[k - 1][l]])
        popped   == FlattenSeq([k \in 1 .. NumPriorities - p |-> atLevel(NumPriorities - k)])
        wanted(j) == filtered => job[j].kind.serial
        putBack  == Only(popped, {j \in Jobs : ~wanted(j) /\ CanExecute(j)})
        backTo(q, l) == Only(putBack, {j \in Jobs : Target(j) = q /\ job[j].prio = l})
    IN  /\ pc[Main] = "suspended"
        /\ master.call = "ExecuteToPriority"
        /\ ExecuteJobs({j \in ToSet(popped) : wanted(j)})
        /\ queue' = [q \in Queues |-> [l \in Levels |->
                        (IF l >= p THEN <<>> ELSE queue[q][l]) \o backTo(q, l)]]
        /\ items' = [q \in Queues |-> Len(Entries(queue', q))]
        /\ nJobs' = nJobs - (Len(popped) - Len(putBack))
        /\ Resumed(nSuspend + 1)
        /\ Return
        /\ UNCHANGED <<nIdle, loc, perFrame, nAdded, uncounted>>
-----------------------------------------------------------------------------
Stop ==
    /\ Begin("Stop")
    /\ nSuspend = 0
    /\ master' = Called("Stop")
    /\ Goto(Main, "callExit")
    /\ UNCHANGED <<job, queue, items, nJobs, nIdle, nSuspend, worker, loc, perFrame, nAdded, uncounted>>

CallExit == pc[Main] = "callExit" /\ CallWorker("exit", "join")

\* Every thread has ended: Flush aborts what is left in the shared queue, and
\* the direct queues go with their threads.  The variable keeps them, to name
\* the jobs that are lost with them.
Join ==
    /\ pc[Main] = "join"
    /\ Stopped
    /\ AbortJobs(ToSet(Entries(queue, Shared)))
    /\ queue' = [queue EXCEPT ![Shared] = [l \in Levels |-> <<>>]]
    /\ items' = [items EXCEPT ![Shared] = 0]
    /\ nJobs' = 0
    /\ nIdle' = 0
    /\ uncounted' = 0
    /\ Return
    /\ UNCHANGED <<nSuspend, worker, loc, perFrame, nAdded>>
-----------------------------------------------------------------------------
WorkerStep(w) ==
    \/ Wake(w) \/ PopDirect(w) \/ PopShared(w) \/ NextLevel(w) \/ TakeJob(w)
    \/ Taken(w) \/ Service(w) \/ Run(w) \/ Released(w) \/ EndTurn(w)
    \/ Reply(w) \/ FallAsleep(w) \/ Awake(w) \/ Exit(w)

\* What the master does inside a call.
MasterStep ==
    \/ PushItem \/ CountItem \/ CountJob \/ Yield \/ YieldPop \/ Block
    \/ NextLevel(Main) \/ TakeJob(Main) \/ Service(Main) \/ Run(Main) \/ Released(Main)
    \/ LockJob \/ GiveUp \/ CallSuspend \/ AwaitAsleep \/ Suspend \/ AbortAll
    \/ \E p \in Levels, filtered \in BOOLEAN : ExecuteToPriority(p, filtered)
    \/ CallExit \/ Join

\* What its clients call.
Call ==
    \/ \E j \in Jobs :
        \/ \E kind \in Kinds : AddJobInPlace(j, kind) \/ AddJob(j, kind)
        \/ Wait(j)
        \/ \E p \in Levels : ChangePriority(j, p)
        \/ \E call \in {"Execute", "TryExecute", "Abort"} : CallJob(call, j)
    \/ WaitFrame
    \/ \E call \in Suspenders : SuspendExecution(call)
    \/ Stop

Next == (\E w \in Workers : WorkerStep(w)) \/ MasterStep \/ Call \/ Resume

Spec == Init /\ [][Next]_vars

\* Threads keep running, and who suspended the pool resumes it.
FairSpec ==
    /\ Spec
    /\ \A w \in Workers : WF_vars(WorkerStep(w))
    /\ WF_vars(MasterStep)
    /\ WF_vars(Resume)
-----------------------------------------------------------------------------
Labels == {"wait", "popDirect", "popShared", "scan", "taken", "service", "run",
           "released", "endTurn", "called", "suspending", "asleep", "exiting", "dead",
           "idle", "pushItem", "countItem", "countJob", "yield", "yieldPop", "block",
           "lockJob", "callSuspend", "awaitAsleep", "suspended", "callExit", "join"}

\* "none" is the status of a job that no client has made yet.
Statuses == {"none", "unserviced", "pending", "inprogress", "ok", "aborted"}

TypeOK ==
    /\ job \in [Jobs -> [kind : Kinds \cup {NoKind}, status : Statuses,
                         runs : Nat, owner : Threads \cup {None}, prio : Levels, moved : BOOLEAN]]
    /\ queue \in [Queues -> [Levels -> Seq(Jobs)]]
    /\ items \in [Queues -> Nat]
    /\ nJobs \in Int /\ nIdle \in 0 .. NumThreads /\ nSuspend \in Nat
    /\ worker \in [Workers -> [call : {"none", "suspend", "exit"}, asleep : BOOLEAN, took : BOOLEAN]]
    /\ pc \in [Threads -> Labels]
    /\ loc \in [Threads -> [job : Jobs \cup {None}, src : Queues \cup {None}, level : Levels]]
    /\ perFrame \subseteq Jobs
    /\ nAdded \in 0 .. MaxJobs

(* The assertion of CJobQueue::Pop, "Expected at least one queue item": who  *)
(* holds a ticket finds an item although others push and pop above the level *)
(* it has come to.  At and below each level there is an item for everyone    *)
(* who has come that far.                                                    *)
ExpectedItem ==
    \A q \in Queues, l \in Levels :
        Cardinality({t \in Threads : pc[t] = "scan" /\ loc[t].src = q /\ loc[t].level <= l})
            <= Len(FlattenSeq([k \in 1 .. l + 1 |-> queue[q][k - 1]]))

(* A job runs at most once, whatever number of entries and callers it has,   *)
(* and a job that was aborted never ran.                                     *)
ExecutedOnce ==
    \A j \in Jobs : job[j].runs = IF job[j].status \in {"inprogress", "ok"} THEN 1 ELSE 0

(* While the pool is suspended no worker is anywhere but in Suspend: it      *)
(* holds no job, no lock and no ticket.                                      *)
QuietWhenSuspended ==
    nSuspend > 0 \/ pc[Main] = "suspended" => \A w \in Workers : pc[w] = "asleep"

(* The assertion of CWorkerThread::Call: no call is made to a thread that    *)
(* has not answered the one before.                                          *)
OneCallAtATime ==
    pc[Main] \in {"callSuspend", "callExit"} => worker[master.i].call = "none"

\* How many entries there are in all queues.
Total == Len(FlattenSeq([k \in 1 .. NumThreads + 1 |-> Entries(queue, k - 1)]))

AtRest ==
    /\ \A w \in Workers : pc[w] \in {"wait", "asleep"}
    /\ pc[Main] = "idle"

(* When nothing moves, the counters agree with the queues: m_nItems is what  *)
(* is queued, every worker is idle, and m_nJobs is what is queued less every *)
(* ChangePriority since it was last set to 0.                                *)
CountsSettle ==
    /\ TypeOK
    /\ AtRest => /\ \A q \in Queues : items[q] = Len(Entries(queue, q))
                 /\ nIdle = NumThreads
                 /\ nJobs + uncounted = Total

\* Lost with the direct queue of a thread that was stopped.
Dropped(j) == Stopped /\ \E w \in Workers : j \in ToSet(Entries(queue, w))

\* Whether serial job k starts before serial job j, added earlier, is over.
Overtakes(j, k) ==
    /\ job[j].kind.serial /\ job[k].kind.serial
    /\ j < k
    /\ job[k].status \in {"inprogress", "ok"}
    /\ ~Finished(j)

(* Serial jobs that clients only add run one after the other, in the order   *)
(* they were added, even across ExecuteToPriority, which puts some back.     *)
SerialInOrder ==
    \A j, k \in Added :
        Overtakes(j, k) => job[j].moved \/ job[k].moved \/ Dropped(j)

(* The comment on JF_SERIAL: "Job cannot be executed out of order relative   *)
(* to other strict jobs".                                                    *)
SerialStrict == \A j, k \in Added : ~Overtakes(j, k)

(* "Block until all per-frame jobs are done": a job that is off the list is  *)
(* awaited or finished, unless YieldWait refused to wait for so many.        *)
FrameJobsDone ==
    \A j \in Added :
        job[j].kind.frame /\ j \notin perFrame \cup master.await \cup master.refused
            => Finished(j)

(* Every job that was added is executed or aborted in the end, unless Stop   *)
(* deleted the direct queue it was in.                                       *)
JobsFinish == \A j \in Jobs : j \in Added ~> Finished(j) \/ Dropped(j)

(* Every call of the master returns: nobody waits for an event, a lock or a  *)
(* thread that never comes.                                                  *)
CallsReturn == pc[Main] # "idle" ~> pc[Main] = "idle"
=============================================================================
