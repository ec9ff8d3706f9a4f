-------------------------- MODULE ThreadPool_proofs --------------------------
(* Proofs for ThreadPool, for any number of threads, priorities and jobs.    *)
(*   Running   a job that runs has an owner, and ran once                    *)
(*   Protocol  who has answered the master, who sleeps and who is gone       *)
(*   Awaiting  where the master is while it waits for jobs                   *)
(*   Stock     the counts of the queues, their entries and who looks for one *)
(*   Typed     every variable has its type                                   *)
(*   Idle      m_nIdleThreads counts who neither took a job nor is gone      *)
(*   Place     who holds a job knows the queue it is from                    *)
(*   Tally     m_nJobs is what is queued, held and not counted otherwise     *)
(*   Serial    serial jobs that clients only add wait in order, and start so *)
(* Each holds at first and after every step; the others rest on Running, and *)
(* Stock on Protocol too: no worker looks for an item while the master       *)
(* empties the queues.  Tally rests on all of them; Serial on Protocol and   *)
(* Stock: while the master empties the queues nobody holds a serial job.     *)
EXTENDS ThreadPool, NatLemmas, FiniteSetTheorems, SequenceTheorems, FunctionTheorems

\* The fields of the records, which no step adds to.
JobFields    == {"kind", "status", "runs", "owner", "prio", "moved"}
WorkerFields == {"call", "asleep", "took"}
MasterFields == {"call", "i", "await", "refused", "budget"}
LocFields    == {"job", "src", "level"}

JobShape == DOMAIN job = Jobs /\ \A j \in Jobs : DOMAIN job[j] = JobFields

Shape ==
    /\ JobShape
    /\ DOMAIN worker = Workers /\ \A w \in Workers : DOMAIN worker[w] = WorkerFields
    /\ DOMAIN master = MasterFields
    /\ DOMAIN pc = Threads
    /\ DOMAIN loc = Threads /\ \A t \in Threads : DOMAIN loc[t] = LocFields
    /\ nAdded \in 0 .. MaxJobs

\* What the assumptions say of the names of threads and queues.
LEMMA Numbers ==
    /\ NumThreads \in Nat \ {0} /\ NumPriorities \in Nat \ {0} /\ MaxJobs \in Nat
    /\ Main \notin Workers /\ Main \in Threads /\ Workers \subseteq Threads
    /\ None \notin Threads /\ None \notin Queues /\ Shared \in Queues
BY PoolAssumption DEF Main, Workers, Threads, None, Queues, Shared

\* The records have their fields at first.
LEMMA ShapeInit == Init => Shape
BY Numbers DEF Init, Shape, JobShape, JobFields, WorkerFields, MasterFields, LocFields, NoLocals

\* Whoever executes a job owns its lock.
Holds == \A t \in Threads : pc[t] = "run" /\ loc[t].job \in Jobs =>
             job[loc[t].job].status = "inprogress" /\ job[loc[t].job].owner = t

\* Jobs that nobody has made yet.
Unmade == \A j \in Jobs : j > nAdded => job[j].status = "none"

\* Workers take jobs from queues only.
FromQueue == \A w \in Workers : pc[w] \in {"scan", "taken", "service", "run"} => loc[w].src \in Queues

\* What is known of jobs, which makes ExecutedOnce inductive.
Running == Shape /\ ExecutedOnce /\ Holds /\ Unmade /\ FromQueue

\* A job that is started changes status, count and owner, and no other job changes.
LEMMA StartJob ==
    ASSUME Shape, NEW t, NEW j, Start(t, j)
    PROVE  /\ JobShape'
           /\ \A k \in Jobs \ {j} : job'[k] = job[k]
           /\ j \in Jobs => /\ job'[j].status = "inprogress"
                            /\ job'[j].runs = job[j].runs + 1
                            /\ job'[j].owner = t
                            /\ job'[j].kind = job[j].kind
BY DEF Start, Started, Shape, JobShape, JobFields

\* No job was made yet.
LEMMA RunningInit == Init => Running
BY ShapeInit, Numbers DEF Init, Running, ExecutedOnce, Holds, Unmade, FromQueue

\* A job starts only if it can be executed and nobody owns it.
LEMMA RunningService == ASSUME Running, NEW t \in Threads, Service(t) PROVE Running'
<1> USE Numbers DEF Running
<1> DEFINE j == loc[t].job
<1>0. pc[t] = "service" /\ loc' = loc /\ nAdded' = nAdded /\ worker' = worker /\ master' = master
    BY DEF Service
<1>1. CASE CanExecute(j) /\ job[j].owner = None
    <2>1. Start(t, j) /\ pc' = [pc EXCEPT ![t] = "run"]
        BY <1>1 DEF Service, Goto
    <2>2. Shape'
        BY <2>1, <1>0, StartJob DEF Shape
    <2>3. ExecutedOnce'
        BY <2>1, <1>1, StartJob DEF CanExecute, ExecutedOnce
    <2>4. Holds'
        <3> SUFFICES ASSUME NEW u \in Threads, pc'[u] = "run", loc[u].job \in Jobs
                     PROVE  job'[loc[u].job].status = "inprogress" /\ job'[loc[u].job].owner = u
            BY <1>0 DEF Holds
        <3>1. CASE u = t
            BY <3>1, <2>1, StartJob
        <3>2. CASE u # t
            <4>1. pc[u] = "run"
                BY <3>2, <2>1 DEF Shape
            <4>2. loc[u].job # j
                BY <4>1, <1>1 DEF Holds
            <4> QED
                BY <4>1, <4>2, <2>1, StartJob DEF Holds
        <3> QED
            BY <3>1, <3>2
    <2>5. Unmade'
        BY <2>1, <1>0, <1>1, StartJob DEF Unmade, CanExecute
    <2>6. FromQueue'
        BY <2>1, <1>0 DEF FromQueue, Shape
    <2> QED
        BY <2>2, <2>3, <2>4, <2>5, <2>6
<1>2. CASE ~(CanExecute(j) /\ job[j].owner = None)
    <2>1. job' = job /\ pc' = [pc EXCEPT ![t] = "released"]
        BY <1>2 DEF Service, Goto
    <2> QED
        BY <2>1, <1>0 DEF Shape, JobShape, ExecutedOnce, Holds, Unmade, FromQueue
<1> QED
    BY <1>1, <1>2

\* The end of Execute: the job was the thread's own.
LEMMA RunningRun == ASSUME Running, NEW t \in Threads, Run(t) PROVE Running'
<1> USE Numbers DEF Running
<1> DEFINE j == loc[t].job
<1>0. /\ pc[t] = "run" /\ nAdded' = nAdded /\ worker' = worker
      /\ job' = [job EXCEPT ![j].status = "ok", ![j].owner = None]
    BY DEF Run
<1>1. /\ JobShape'
      /\ \A k \in Jobs \ {j} : job'[k] = job[k]
      /\ j \in Jobs => /\ job'[j].status = "ok" /\ job'[j].runs = job[j].runs
                       /\ job[j].status = "inprogress" /\ job[j].owner = t
    BY <1>0 DEF Shape, JobShape, JobFields, Holds
<1>2. /\ DOMAIN pc' = Threads /\ pc'[t] # "run" /\ \A u \in Threads \ {t} : pc'[u] = pc[u] /\ loc'[u] = loc[u]
      /\ DOMAIN loc' = Threads /\ \A u \in Threads : DOMAIN loc'[u] = LocFields
      /\ pc'[t] \in {"released", "idle"}
      /\ DOMAIN master' = MasterFields
    <2>1. CASE loc[t].src = None
        <3>1. t = Main
            BY <2>1, <1>0 DEF FromQueue, Threads, Main, Workers
        <3> QED
            BY <2>1, <3>1 DEF Run, Return, Goto, Shape, NoLocals, LocFields, MasterFields
    <2>2. CASE loc[t].src # None
        BY <2>2 DEF Run, Goto, Shape
    <2> QED
        BY <2>1, <2>2
<1>3. Shape'
    BY <1>0, <1>1, <1>2 DEF Shape
<1>4. ExecutedOnce'
    BY <1>1 DEF ExecutedOnce
<1>5. Holds'
    BY <1>1, <1>2 DEF Holds
<1>6. Unmade'
    BY <1>0, <1>1 DEF Unmade
<1>7. FromQueue'
    BY <1>2 DEF FromQueue
<1> QED
    BY <1>3, <1>4, <1>5, <1>6, <1>7

\* A job that the master executes on the spot is new.
LEMMA RunningInPlace == ASSUME Running, NEW j \in Jobs, NEW k \in Kinds, AddJobInPlace(j, k) PROVE Running'
<1> USE Numbers DEF Running
<1>0. /\ pc[Main] = "idle" /\ j = nAdded + 1 /\ nAdded' = j /\ worker' = worker /\ master' = master
      /\ job' = [job EXCEPT ![j] = [Started(Main, j) EXCEPT !.kind = k]]
      /\ loc' = [loc EXCEPT ![Main].job = j]
      /\ pc' = [pc EXCEPT ![Main] = "run"]
    BY DEF AddJobInPlace, Add, Goto
<1>1. /\ JobShape'
      /\ \A i \in Jobs \ {j} : job'[i] = job[i]
      /\ job'[j].status = "inprogress" /\ job'[j].runs = job[j].runs + 1 /\ job'[j].owner = Main
    BY <1>0 DEF Started, Shape, JobShape, JobFields
<1>2. job[j].status = "none" /\ nAdded \in Nat
    BY <1>0 DEF Unmade, Shape
<1>3. /\ loc'[Main].job = j /\ DOMAIN loc'[Main] = LocFields
      /\ \A u \in Threads \ {Main} : loc'[u] = loc[u] /\ pc'[u] = pc[u]
      /\ pc'[Main] = "run" /\ DOMAIN loc' = Threads /\ DOMAIN pc' = Threads
    BY <1>0 DEF Shape, LocFields
<1>4. Shape'
    BY <1>0, <1>1, <1>2, <1>3 DEF Shape, Jobs
<1>5. ExecutedOnce'
    BY <1>1, <1>2 DEF ExecutedOnce
<1>6. Holds'
    BY <1>1, <1>2, <1>3 DEF Holds
<1>7. Unmade'
    BY <1>0, <1>1, <1>2 DEF Unmade, Jobs
<1>8. FromQueue'
    BY <1>3 DEF FromQueue
<1> QED
    BY <1>4, <1>5, <1>6, <1>7, <1>8

\* A step that lets jobs alone and brings no thread to run.
LEMMA Steady ==
    ASSUME Running, Shape', UNCHANGED <<job, nAdded>>,
           \A t \in Threads : pc'[t] = "run" => pc[t] = "run" /\ loc'[t] = loc[t],
           FromQueue'
    PROVE  Running'
BY DEF Running, ExecutedOnce, Holds, Unmade

\* Taking an entry and releasing a job touch no job.
LEMMA RunningPop ==
    ASSUME Running, NEW t \in Threads, NextLevel(t) \/ TakeJob(t) \/ Released(t)
    PROVE  Running'
<1> USE Numbers
<1>1. CASE NextLevel(t)
    BY <1>1, Steady DEF NextLevel, Running, Shape, JobShape, FromQueue, LocFields
<1>2. CASE TakeJob(t)
    BY <1>2, Steady DEF TakeJob, Goto, Running, Shape, JobShape, FromQueue, LocFields
<1>3. CASE Released(t)
    BY <1>3, Steady DEF Released, Goto, Running, Shape, JobShape, FromQueue, LocFields, NoLocals
<1> QED
    BY <1>1, <1>2, <1>3

\* Nor do the other steps of workers.
LEMMA RunningWorker ==
    ASSUME Running, NEW w \in Workers,
           \/ Wake(w) \/ PopDirect(w) \/ PopShared(w) \/ Taken(w) \/ EndTurn(w)
           \/ Reply(w) \/ FallAsleep(w) \/ Awake(w) \/ Exit(w)
    PROVE  Running'
<1> USE Numbers DEF Goto, Running, Shape, JobShape, FromQueue
<1>1. CASE Wake(w)
    BY <1>1, Steady DEF Wake
<1>2. CASE PopDirect(w)
    BY <1>2, Steady DEF PopDirect, Ticket, LocFields, NoLocals, Queues
<1>3. CASE PopShared(w)
    BY <1>3, Steady DEF PopShared, Ticket, LocFields, NoLocals
<1>4. CASE Taken(w)
    BY <1>4, Steady DEF Taken, WorkerFields
<1>5. CASE EndTurn(w)
    BY <1>5, Steady DEF EndTurn, WorkerFields
<1>6. CASE Reply(w)
    BY <1>6, Steady DEF Reply, WorkerFields
<1>7. CASE FallAsleep(w)
    BY <1>7, Steady DEF FallAsleep, WorkerFields
<1>8. CASE Awake(w)
    BY <1>8, Steady DEF Awake
<1>9. CASE Exit(w)
    BY <1>9, Steady DEF Exit
<1> QED
    BY <1>1, <1>2, <1>3, <1>4, <1>5, <1>6, <1>7, <1>8, <1>9

\* Nor do these steps of the master.
LEMMA RunningMaster ==
    ASSUME Running,
           \/ PushItem \/ CountItem \/ CountJob \/ Yield \/ YieldPop \/ Block \/ GiveUp
           \/ CallSuspend \/ AwaitAsleep \/ Suspend \/ CallExit
           \/ (\E j \in Jobs : Wait(j)) \/ WaitFrame
           \/ (\E call \in Suspenders : SuspendExecution(call)) \/ Stop \/ Resume
    PROVE  Running'
<1> USE Numbers DEF Goto, Running, Shape, JobShape, FromQueue
<1>1. CASE PushItem
    BY <1>1, Steady DEF PushItem
<1>2. CASE CountItem
    BY <1>2, Steady DEF CountItem, Return, LocFields, NoLocals, MasterFields
<1>3. CASE CountJob
    BY <1>3, Steady DEF CountJob, Return, MasterFields
<1>4. CASE Yield
    BY <1>4, Steady DEF Yield, Return, MasterFields
<1>5. CASE YieldPop
    BY <1>5, Steady DEF YieldPop, Ticket, LocFields, NoLocals
<1>6. CASE Block
    BY <1>6, Steady DEF Block, Return, MasterFields
<1>7. CASE GiveUp
    BY <1>7, Steady DEF GiveUp, Return, MasterFields, LocFields, NoLocals
<1>8. CASE CallSuspend
    BY <1>8, Steady DEF CallSuspend, CallWorker, MasterFields, WorkerFields
<1>9. CASE AwaitAsleep
    BY <1>9, Steady DEF AwaitAsleep
<1>10. CASE Suspend
    BY <1>10, Steady DEF Suspend, Return, MasterFields
<1>11. CASE CallExit
    BY <1>11, Steady DEF CallExit, CallWorker, MasterFields, WorkerFields
<1>12. CASE \E j \in Jobs : Wait(j)
    BY <1>12, Steady DEF Wait, Called, MasterFields
<1>13. CASE WaitFrame
    BY <1>13, Steady DEF WaitFrame, Called, MasterFields
<1>14. CASE \E call \in Suspenders : SuspendExecution(call)
    BY <1>14, Steady DEF SuspendExecution, Called, MasterFields
<1>15. CASE Stop
    BY <1>15, Steady DEF Stop, Called, MasterFields
<1>16. CASE Resume
    BY <1>16, Steady DEF Resume, Resumed, WorkerFields
<1> QED
    BY <1>1, <1>2, <1>3, <1>4, <1>5, <1>6, <1>7, <1>8, <1>9, <1>10, <1>11, <1>12,
       <1>13, <1>14, <1>15, <1>16

\* A step that lets no thread into the run state.
NoneEnters ==
    \A t \in Threads : pc'[t] = "run" => pc[t] = "run" /\ loc'[t] = loc[t]

\* A step that changes no status, count or owner.
LEMMA RunningKinds ==
    ASSUME Running, Shape', FromQueue', NoneEnters, nAdded' = nAdded,
           \A j \in Jobs : /\ job'[j].status = job[j].status
                           /\ job'[j].runs = job[j].runs
                           /\ job'[j].owner = job[j].owner
    PROVE  Running'
BY DEF Running, ExecutedOnce, Holds, Unmade, NoneEnters

\* Calls on one job: they note it and change nothing else yet.
LEMMA RunningMark ==
    ASSUME Running, NEW j \in Jobs,
           (\E p \in Levels : ChangePriority(j, p)) \/ (\E call \in AllCalls : CallJob(call, j))
    PROVE  Running'
<1> USE Numbers
<1>1. /\ JobShape'
      /\ \A i \in Jobs : /\ job'[i].status = job[i].status
                         /\ job'[i].runs = job[i].runs
                         /\ job'[i].owner = job[i].owner
    <2>1. CASE \E p \in Levels : ChangePriority(j, p)
        <3>1. PICK p \in Levels : job' = [job EXCEPT ![j].prio = p, ![j].moved = TRUE]
            BY <2>1 DEF ChangePriority
        <3> QED
            BY <3>1 DEF Running, Shape, JobShape, JobFields
    <2>2. CASE \E call \in AllCalls : CallJob(call, j)
        BY <2>2 DEF CallJob, Running, Shape, JobShape, JobFields
    <2> QED
        BY <2>1, <2>2
<1>2. /\ \/ loc' = [loc EXCEPT ![Main].job = j, ![Main].src = Shared]
         \/ loc' = [loc EXCEPT ![Main].job = j]
      /\ \E call : master' = Called(call)
      /\ pc' = [pc EXCEPT ![Main] = "pushItem"] \/ pc' = [pc EXCEPT ![Main] = "lockJob"]
      /\ UNCHANGED <<worker, nAdded>>
    BY DEF ChangePriority, CallJob, Goto
<1>3. Shape' /\ FromQueue' /\ NoneEnters
    BY <1>1, <1>2 DEF Running, Shape, FromQueue, NoneEnters, Called, LocFields, MasterFields
<1> QED
    BY <1>1, <1>2, <1>3, RunningKinds

\* A job that is queued is new, and pending.
LEMMA RunningAdd ==
    ASSUME Running, NEW j \in Jobs, NEW kind \in Kinds, AddJob(j, kind)
    PROVE  Running'
<1> USE Numbers DEF Running
<1>1. /\ pc[Main] = "idle" /\ j = nAdded + 1 /\ nAdded' = j
      /\ pc' = [pc EXCEPT ![Main] = "pushItem"]
      /\ loc' = [loc EXCEPT ![Main].job = j, ![Main].src = TargetOf(kind)]
      /\ UNCHANGED <<worker, master>>
    BY DEF AddJob, Add, Goto
<1>2. /\ JobShape'
      /\ \A i \in Jobs \ {j} : job'[i] = job[i]
      /\ job'[j].status = "pending" /\ job'[j].runs = job[j].runs
    BY DEF AddJob, Shape, JobShape, JobFields
<1>3. job[j].status = "none"
    BY <1>1 DEF Unmade, Shape
<1>4. Shape'
    BY <1>1, <1>2 DEF Shape, LocFields, Jobs
<1>5. ExecutedOnce'
    BY <1>2, <1>3 DEF ExecutedOnce
<1>6. Holds'
    BY <1>1, <1>2, <1>3 DEF Holds, Shape
<1>7. Unmade'
    BY <1>1, <1>2 DEF Unmade, Shape, Jobs
<1>8. FromQueue'
    BY <1>1 DEF FromQueue, Shape
<1> QED
    BY <1>4, <1>5, <1>6, <1>7, <1>8

\* Jobs that can be executed are aborted or executed on the spot, others stay.
Settle ==
    /\ \A j \in Jobs : \/ job'[j] = job[j]
                       \/ CanExecute(j) /\ job'[j].status = "aborted" /\ job'[j].runs = job[j].runs
                       \/ CanExecute(j) /\ job'[j].status = "ok" /\ job'[j].runs = job[j].runs + 1
    /\ \A j \in Jobs : job'[j].kind = job[j].kind

\* A step that settles jobs nobody runs.
LEMMA RunningSettle ==
    ASSUME Running, Shape', FromQueue', NoneEnters, Settle, nAdded' = nAdded
    PROVE  Running'
BY DEF Running, ExecutedOnce, Holds, Unmade, NoneEnters, Settle, CanExecute

\* CJob::Abort of some jobs is such a step.
LEMMA AbortSettles ==
    ASSUME Running, NEW S, AbortJobs(S)
    PROVE  JobShape' /\ Settle
BY DEF AbortJobs, Running, Shape, JobShape, JobFields, Settle

\* So is CJob::Execute of some jobs.
LEMMA ExecuteSettles ==
    ASSUME Running, NEW S, ExecuteJobs(S)
    PROVE  JobShape' /\ Settle
BY DEF ExecuteJobs, Running, Shape, JobShape, JobFields, Settle

\* A client's Execute or Abort waits until nobody owns the job.
LEMMA RunningLock ==
    ASSUME Running, LockJob
    PROVE  Running'
<1> USE Numbers
<1> DEFINE j == loc[Main].job
<1>0. pc[Main] = "lockJob" /\ job[j].owner = None /\ UNCHANGED <<worker, nAdded>>
    BY DEF LockJob
<1>1. CASE CanExecute(j) /\ master.call # "Abort"
    <2>1. Start(Main, j) /\ pc' = [pc EXCEPT ![Main] = "run"] /\ UNCHANGED <<loc, master>>
        BY <1>1 DEF LockJob, Goto
    <2>2. Shape'
        BY <2>1, <1>0, StartJob DEF Running, Shape
    <2>3. ExecutedOnce'
        BY <2>1, <1>1, StartJob DEF Running, CanExecute, ExecutedOnce
    <2>4. Holds'
        BY <2>1, <1>0, StartJob DEF Running, Holds, Shape
    <2>5. Unmade' /\ FromQueue'
        BY <2>1, <1>0, <1>1, StartJob DEF Running, Unmade, FromQueue, CanExecute, Shape
    <2> QED
        BY <2>2, <2>3, <2>4, <2>5 DEF Running
<1>2. CASE ~(CanExecute(j) /\ master.call # "Abort")
    <2>1. /\ job' = IF CanExecute(j) THEN [job EXCEPT ![j].status = "aborted"] ELSE job
          /\ loc' = [loc EXCEPT ![Main] = NoLocals]
          /\ Return
        BY <1>2 DEF LockJob
    <2>2. JobShape' /\ Settle
        BY <2>1 DEF Running, Shape, JobShape, JobFields, Settle
    <2> QED
        BY <2>1, <2>2, <1>0, RunningSettle
           DEF Running, Shape, FromQueue, NoneEnters, Return, Goto, LocFields, NoLocals, MasterFields
<1> QED
    BY <1>1, <1>2

\* AbortAll, Stop and ExecuteToPriority settle what is queued.
LEMMA RunningAll ==
    ASSUME Running,
           AbortAll \/ Join \/ (\E p \in Levels, filtered \in BOOLEAN : ExecuteToPriority(p, filtered))
    PROVE  Running'
<1> USE Numbers
<1>1. /\ JobShape' /\ Settle
      /\ pc' = [pc EXCEPT ![Main] = "idle"]
      /\ master' = [master EXCEPT !.call = "none", !.i = 0, !.await = {}]
      /\ \/ worker' = worker
         \/ worker' = [w \in Workers |-> [worker[w] EXCEPT !.asleep = FALSE]]
      /\ UNCHANGED <<loc, nAdded>>
    <2>1. CASE AbortAll
        BY <2>1, AbortSettles DEF AbortAll, Return, Goto, Resumed
    <2>2. CASE Join
        BY <2>2, AbortSettles DEF Join, Return, Goto
    <2>3. CASE \E p \in Levels, filtered \in BOOLEAN : ExecuteToPriority(p, filtered)
        BY <2>3, ExecuteSettles DEF ExecuteToPriority, Return, Goto, Resumed
    <2> QED
        BY <2>1, <2>2, <2>3
<1> QED
    BY <1>1, RunningSettle
       DEF Running, Shape, FromQueue, NoneEnters, MasterFields, WorkerFields

\* Every step keeps Running.
LEMMA RunningNext == Running /\ [Next]_vars => Running'
<1> SUFFICES ASSUME Running, [Next]_vars PROVE Running'
    OBVIOUS
<1> USE Numbers
<1>1. ASSUME NEW w \in Workers, WorkerStep(w) PROVE Running'
    BY <1>1, RunningPop, RunningWorker, RunningService, RunningRun DEF WorkerStep
<1>2. CASE MasterStep
    BY <1>2, RunningPop, RunningMaster, RunningLock, RunningAll, RunningService, RunningRun DEF MasterStep
<1>3. CASE Call
    BY <1>3, RunningMaster, RunningMark, RunningAdd, RunningInPlace DEF Call, AllCalls
<1>4. CASE Resume
    BY <1>4, RunningMaster
<1>5. CASE UNCHANGED vars
    BY <1>5 DEF vars, Running, Shape, JobShape, ExecutedOnce, Holds, Unmade, FromQueue
<1> QED
    BY <1>1, <1>2, <1>3, <1>4, <1>5 DEF Next

(* A job runs at most once, whatever number of entries, helpers and callers it *)
(* has: ServiceJobAndRelease and CJob::Execute look at the status under its lock. *)
THEOREM Executed == Spec => []ExecutedOnce
<1>1. Spec => []Running
    BY RunningInit, RunningNext, PTL DEF Spec
<1> QED
    BY <1>1, PTL DEF Running
-----------------------------------------------------------------------------
\* The master is calling its workers, or waits for what they do then.
Calling == {"callSuspend", "awaitAsleep", "suspended", "callExit", "join"}

\* A worker that has answered every call.
Rested(w) ==
    /\ worker[w].call = "none"
    /\ pc[w] \notin {"called", "suspending", "exiting"}
    /\ nSuspend = 0 => ~worker[w].asleep

Counters == nSuspend \in Nat /\ master.i \in Nat

Sleepers ==
    /\ \A w \in Workers : worker[w].asleep \in BOOLEAN
    /\ \A w \in Workers : worker[w].asleep => pc[w] = "asleep" /\ worker[w].call = "none"
    /\ nSuspend > 0 \/ pc[Main] = "suspended" => \A w \in Workers : worker[w].asleep
    /\ pc[Main] \in Calling \ {"suspended"} => nSuspend = 0

Answered ==
    /\ \A w \in Workers : pc[w] \in {"suspending", "exiting", "dead"} => worker[w].call = "none"
    /\ pc[Main] \notin Calling => master.i = 0 /\ \A w \in Workers : Rested(w)
    /\ pc[Main] \in {"callSuspend", "callExit"} =>
            /\ master.i \in Workers
            /\ \A w \in Workers : w >= master.i => Rested(w) /\ pc[w] # "dead"

Leaving ==
    /\ \A w \in Workers : worker[w].call = "exit" \/ pc[w] = "exiting" => pc[Main] \in {"callExit", "join"}
    /\ \A w \in Workers : pc[w] = "dead" => pc[Main] \in {"callExit", "join"} \/ Stopped

Protocol == Shape /\ Counters /\ Sleepers /\ Answered /\ Leaving

\* No worker was called yet.
LEMMA ProtocolInit == Init => Protocol
<1> SUFFICES ASSUME Init PROVE Protocol
    OBVIOUS
<1>1. Shape
    BY ShapeInit
<1>2. /\ nSuspend = 0 /\ master.i = 0 /\ pc[Main] = "idle"
      /\ \A w \in Workers : pc[w] = "wait" /\ worker[w].call = "none" /\ ~worker[w].asleep
    BY Numbers DEF Init
<1>3. \A w \in Workers : worker[w].asleep \in BOOLEAN
    BY DEF Init
<1>4. Counters /\ Sleepers
    BY <1>2, <1>3 DEF Counters, Sleepers, Calling
<1>5. Answered /\ Leaving
    BY <1>2 DEF Answered, Leaving, Rested, Calling
<1> QED
    BY <1>1, <1>4, <1>5 DEF Protocol

\* A worker's step outside the protocol.
LEMMA ProtocolBusy ==
    ASSUME Protocol, Shape', NEW w \in Workers, UNCHANGED <<nSuspend, master>>,
           \A v \in Workers : worker'[v].call = worker[v].call /\ worker'[v].asleep = worker[v].asleep,
           \A t \in Threads \ {w} : pc'[t] = pc[t],
           pc[w] \notin {"called", "suspending", "exiting", "dead", "asleep"},
           \/ pc'[w] \notin {"called", "suspending", "exiting", "dead", "asleep"}
           \/ pc'[w] = "called" /\ worker[w].call # "none"
    PROVE  Protocol'
<1> USE Numbers
<1>1. Counters'
    BY DEF Protocol, Counters
<1>2. Sleepers'
    BY DEF Protocol, Sleepers, Calling
<1>3. Answered'
    BY DEF Protocol, Answered, Rested, Calling
<1>4. Leaving'
    BY DEF Protocol, Leaving, Stopped
<1> QED
    BY <1>1, <1>2, <1>3, <1>4 DEF Protocol

\* What workers do, answering and falling asleep among it.
LEMMA ProtocolWorker ==
    ASSUME Running, Protocol, Shape', NEW w \in Workers, WorkerStep(w)
    PROVE  Protocol'
<1> USE Numbers DEF Goto
<1>1. CASE \/ Wake(w) \/ PopDirect(w) \/ PopShared(w) \/ NextLevel(w) \/ TakeJob(w)
           \/ Service(w) \/ Released(w)
    <2>1. UNCHANGED <<nSuspend, master, worker>>
        BY <1>1 DEF Wake, PopDirect, PopShared, NextLevel, TakeJob, Service, Released
    <2> QED
        BY <1>1, <2>1, ProtocolBusy
           DEF Wake, PopDirect, PopShared, NextLevel, TakeJob, Service, Released, Ticket, Protocol, Shape
<1>2. CASE Taken(w) \/ EndTurn(w)
    BY <1>2, ProtocolBusy DEF Taken, EndTurn, Protocol, Shape, WorkerFields
<1>3. CASE Run(w)
    <2>1. loc[w].src # None
        BY <1>3 DEF Run, Running, FromQueue
    <2> QED
        BY <1>3, <2>1, ProtocolBusy DEF Run, Protocol, Shape
<1>4. CASE Reply(w)
    <2>1. Counters' /\ Sleepers'
        BY <1>4 DEF Reply, Protocol, Shape, Counters, Sleepers, Calling, WorkerFields
    <2>2. Answered' /\ Leaving'
        BY <1>4 DEF Reply, Protocol, Shape, Answered, Leaving, Rested, Calling, Stopped, WorkerFields
    <2> QED
        BY <2>1, <2>2 DEF Protocol
<1>5. CASE FallAsleep(w)
    <2>1. Counters' /\ Sleepers'
        BY <1>5 DEF FallAsleep, Protocol, Shape, Counters, Sleepers, Answered, Calling, WorkerFields
    <2>2. Answered' /\ Leaving'
        BY <1>5 DEF FallAsleep, Protocol, Shape, Answered, Leaving, Rested, Calling, Stopped, WorkerFields
    <2> QED
        BY <2>1, <2>2 DEF Protocol
<1>6. CASE Awake(w)
    BY <1>6 DEF Awake, Protocol, Shape, Counters, Sleepers, Answered, Leaving, Rested, Calling, Stopped
<1>7. CASE Exit(w)
    BY <1>7 DEF Exit, Protocol, Shape, Counters, Sleepers, Answered, Leaving, Rested, Calling, Stopped
<1> QED
    BY <1>1, <1>2, <1>3, <1>4, <1>5, <1>6, <1>7 DEF WorkerStep

\* A step of the master outside the protocol.
LEMMA ProtocolAside ==
    ASSUME Protocol, Shape', UNCHANGED <<nSuspend, worker>>,
           \A w \in Workers : pc'[w] = pc[w],
           pc[Main] \notin Calling, pc'[Main] \notin Calling, master'.i = 0
    PROVE  Protocol'
<1> USE Numbers
<1>1. Counters' /\ Sleepers'
    BY DEF Protocol, Counters, Sleepers, Calling
<1>2. Answered' /\ Leaving'
    BY DEF Protocol, Answered, Leaving, Rested, Calling, Stopped
<1> QED
    BY <1>1, <1>2 DEF Protocol

\* The master goes from one place to another, both outside its calls to workers.
Aside == \E l \in Labels \ Calling :
             /\ pc[Main] \notin Calling
             /\ pc' = [pc EXCEPT ![Main] = l] \/ pc' = pc
             /\ master'.i = master.i \/ master'.i = 0

\* Calls that do not concern the workers stay outside the protocol.
LEMMA ProtocolMaster ==
    ASSUME Protocol, Shape',
           \/ PushItem \/ CountItem \/ CountJob \/ Yield \/ YieldPop \/ Block \/ LockJob \/ GiveUp
           \/ NextLevel(Main) \/ TakeJob(Main) \/ Service(Main) \/ Run(Main) \/ Released(Main)
           \/ \E j \in Jobs, kind \in Kinds : AddJobInPlace(j, kind) \/ AddJob(j, kind)
           \/ \E j \in Jobs : Wait(j)
           \/ \E j \in Jobs, p \in Levels : ChangePriority(j, p)
           \/ \E j \in Jobs, call \in AllCalls : CallJob(call, j)
           \/ WaitFrame
    PROVE  Protocol'
<1> USE Numbers
<1>1. Aside /\ UNCHANGED <<nSuspend, worker>>
    <2> USE DEF Aside, Goto, Return, Called, Calling, Labels, Protocol, Shape, MasterFields
    <2>1. CASE PushItem \/ CountItem \/ CountJob \/ Yield \/ YieldPop \/ Block
        BY <2>1 DEF PushItem, CountItem, CountJob, Yield, YieldPop, Block, Ticket
    <2>2. CASE LockJob \/ GiveUp
        BY <2>2 DEF LockJob, GiveUp
    <2>3. CASE NextLevel(Main) \/ TakeJob(Main) \/ Service(Main) \/ Run(Main) \/ Released(Main)
        BY <2>3 DEF NextLevel, TakeJob, Service, Run, Released
    <2>4. CASE \E j \in Jobs, kind \in Kinds : AddJobInPlace(j, kind) \/ AddJob(j, kind)
        BY <2>4 DEF AddJobInPlace, AddJob, Add
    <2>5. CASE \E j \in Jobs : Wait(j)
        BY <2>5 DEF Wait, Begin
    <2>6. CASE \E j \in Jobs, p \in Levels : ChangePriority(j, p)
        BY <2>6 DEF ChangePriority, Begin
    <2>7. CASE \E j \in Jobs, call \in AllCalls : CallJob(call, j)
        BY <2>7 DEF CallJob, Begin
    <2>8. CASE WaitFrame
        BY <2>8 DEF WaitFrame, Begin
    <2> QED
        BY <2>1, <2>2, <2>3, <2>4, <2>5, <2>6, <2>7, <2>8
<1>2. /\ \A w \in Workers : pc'[w] = pc[w]
      /\ pc[Main] \notin Calling /\ pc'[Main] \notin Calling
    BY <1>1 DEF Aside, Protocol, Shape
<1>3. master'.i = 0
    BY <1>1, <1>2 DEF Aside, Protocol, Answered
<1> QED
    BY <1>1, <1>2, <1>3, ProtocolAside

\* The master calls its workers one after the other.
LEMMA ProtocolCalls ==
    ASSUME Protocol, Shape',
           \/ \E call \in Suspenders : SuspendExecution(call)
           \/ Stop \/ CallSuspend \/ CallExit
    PROVE  Protocol'
<1> USE Numbers DEF Goto
<1>1. CASE (\E call \in Suspenders : SuspendExecution(call)) \/ Stop
    <2>1. /\ pc[Main] = "idle" /\ ~Stopped
          /\ UNCHANGED <<nSuspend, worker>> /\ master'.i = master.i
          /\ \/ nSuspend = 0 /\ \E l \in {"callSuspend", "callExit"} : pc' = [pc EXCEPT ![Main] = l]
             \/ nSuspend # 0 /\ pc' = [pc EXCEPT ![Main] = "suspended"]
        BY <1>1 DEF SuspendExecution, Stop, Begin, Called, Protocol, Shape, MasterFields
    <2>2. /\ pc'[Main] \in {"callSuspend", "callExit", "suspended"}
          /\ pc'[Main] = "suspended" <=> nSuspend # 0
          /\ \A w \in Workers : pc'[w] = pc[w]
        BY <2>1 DEF Protocol, Shape
    <2>3. master.i = 0 /\ \A w \in Workers : Rested(w) /\ pc[w] # "dead"
        BY <2>1 DEF Protocol, Answered, Leaving, Calling
    <2>4. Counters' /\ Sleepers'
        BY <2>1, <2>2, <2>3 DEF Protocol, Counters, Sleepers, Rested, Calling
    <2>5. Answered'
        BY <2>1, <2>2, <2>3 DEF Answered, Rested, Calling, Workers
    <2>6. Leaving'
        BY <2>1, <2>2, <2>3 DEF Leaving, Rested
    <2> QED
        BY <2>4, <2>5, <2>6 DEF Protocol
<1>2. CASE CallSuspend \/ CallExit
    <2>1. PICK param \in {"suspend", "exit"}, from \in {"callSuspend", "callExit"},
               to \in {"awaitAsleep", "join"} :
            /\ pc[Main] = from /\ nSuspend' = nSuspend
            /\ worker' = [worker EXCEPT ![master.i].call = param]
            /\ master'.i = master.i + 1
            /\ IF master.i = NumThreads - 1 THEN pc' = [pc EXCEPT ![Main] = to] ELSE pc' = pc
            /\ param = "exit" <=> from = "callExit"
            /\ to = "join" <=> from = "callExit"
        BY <1>2 DEF CallSuspend, CallExit, CallWorker, Protocol, Shape, MasterFields
    <2>2. /\ master.i \in Workers
          /\ \A w \in Workers : w >= master.i => Rested(w) /\ pc[w] # "dead"
          /\ nSuspend = 0
        BY <2>1 DEF Protocol, Answered, Sleepers, Calling
    <2>3. /\ \A w \in Workers : worker'[w].asleep = worker[w].asleep /\ pc'[w] = pc[w]
          /\ \A w \in Workers \ {master.i} : worker'[w] = worker[w]
          /\ worker'[master.i].call = param
        BY <2>1, <2>2 DEF Protocol, Shape, WorkerFields
    <2>4. IF master.i = NumThreads - 1 THEN pc'[Main] = to ELSE pc'[Main] = from
        BY <2>1 DEF Protocol, Shape
    <2>5. Counters' /\ Sleepers'
        BY <2>1, <2>2, <2>3, <2>4 DEF Protocol, Counters, Sleepers, Rested, Calling
    <2>6. Answered'
        <3>1. ~(pc[master.i] \in {"suspending", "exiting", "dead"})
            BY <2>2 DEF Rested, Workers
        <3>2. pc'[Main] \in Calling
            <4>1. from \in Calling /\ to \in Calling
                BY DEF Calling
            <4> QED
                BY <4>1, <2>4
        <3>3. ASSUME pc'[Main] \in {"callSuspend", "callExit"}
              PROVE  /\ master'.i \in Workers
                     /\ \A w \in Workers : w >= master'.i => Rested(w)' /\ pc'[w] # "dead"
            <4>1. master.i # NumThreads - 1
                BY <3>3, <2>1, <2>4
            <4>2. master'.i \in Workers /\ master'.i > master.i
                BY <4>1, <2>1, <2>2 DEF Workers
            <4> QED
                BY <4>2, <2>1, <2>2, <2>3 DEF Rested, Workers
        <3> QED
            BY <3>1, <3>2, <3>3, <2>2, <2>3 DEF Protocol, Answered
    <2>7. Leaving'
        BY <2>1, <2>2, <2>3, <2>4 DEF Protocol, Leaving, Rested, Stopped
    <2> QED
        BY <2>5, <2>6, <2>7 DEF Protocol
<1> QED
    BY <1>1, <1>2

\* The master goes on when all sleep, or are gone.
LEMMA ProtocolSuspended ==
    ASSUME Protocol, Shape',
           \/ AwaitAsleep \/ Suspend \/ AbortAll \/ Join \/ Resume
           \/ \E p \in Levels, filtered \in BOOLEAN : ExecuteToPriority(p, filtered)
    PROVE  Protocol'
<1> USE Numbers
<1>1. CASE AwaitAsleep
    <2>1. /\ pc[Main] = "awaitAsleep" /\ pc'[Main] = "suspended"
          /\ \A w \in Workers : worker[w].asleep /\ pc'[w] = pc[w]
          /\ UNCHANGED <<nSuspend, worker, master>>
        BY <1>1 DEF AwaitAsleep, Goto, Protocol, Shape
    <2> QED
        BY <2>1 DEF Protocol, Counters, Sleepers, Answered, Leaving, Calling, Stopped
<1>2. CASE Join
    <2>1. /\ pc'[Main] = "idle" /\ Stopped /\ master'.i = 0
          /\ \A w \in Workers : pc'[w] = pc[w]
          /\ UNCHANGED <<nSuspend, worker>>
        BY <1>2 DEF Join, Return, Goto, Protocol, Shape, MasterFields
    <2>2. Counters' /\ Sleepers'
        BY <2>1 DEF Protocol, Counters, Sleepers, Calling, Stopped
    <2>3. Answered' /\ Leaving'
        BY <2>1 DEF Protocol, Sleepers, Answered, Leaving, Rested, Calling, Stopped
    <2> QED
        BY <2>2, <2>3 DEF Protocol
<1>3. CASE \/ Suspend \/ AbortAll \/ Resume
           \/ \E p \in Levels, filtered \in BOOLEAN : ExecuteToPriority(p, filtered)
    <2>1. /\ pc'[Main] = "idle" /\ \A w \in Workers : pc'[w] = pc[w]
          /\ pc[Main] = "suspended" \/ nSuspend > 0
          /\ master'.i = 0
        BY <1>3 DEF Suspend, AbortAll, Resume, ExecuteToPriority, Return, Goto,
                    Protocol, Shape, MasterFields, Answered, Calling
    <2>2. \/ nSuspend' = nSuspend + 1 /\ worker' = worker
          \/ nSuspend > 0 /\ Resumed(nSuspend)
          \/ Resumed(nSuspend + 1)
        BY <1>3 DEF Suspend, AbortAll, Resume, ExecuteToPriority
    <2>3. \A w \in Workers : /\ worker[w].asleep /\ worker[w].call = "none"
                             /\ pc[w] = "asleep"
        BY <2>1 DEF Protocol, Sleepers
    <2>4. /\ nSuspend' \in Nat
          /\ \A w \in Workers : /\ worker'[w].call = "none"
                                /\ worker'[w].asleep \in BOOLEAN
                                /\ worker'[w].asleep <=> nSuspend' # 0
        <3>1. CASE nSuspend' = nSuspend + 1 /\ worker' = worker
            BY <3>1, <2>3 DEF Protocol, Counters, Sleepers
        <3>2. CASE \E n \in Nat \ {0} : Resumed(n)
            <4>1. PICK n \in Nat \ {0} : Resumed(n)
                BY <3>2
            <4>2. nSuspend' = n - 1
                BY <4>1 DEF Resumed
            <4>3. CASE n = 1
                <5>1. nSuspend' = 0
                    BY <4>2, <4>3
                <5>2. \A w \in Workers : /\ worker'[w].asleep = FALSE
                                        /\ worker'[w].call = worker[w].call
                    BY <4>1, <4>3 DEF Resumed, Protocol, Shape, WorkerFields
                <5> QED
                    BY <5>1, <5>2, <2>3
            <4>4. CASE n # 1
                <5>1. nSuspend' \in Nat /\ nSuspend' # 0
                    BY <4>2, <4>4
                <5>2. worker' = worker
                    BY <4>1, <4>4 DEF Resumed
                <5> QED
                    BY <5>1, <5>2, <2>3 DEF Protocol, Sleepers
            <4> QED
                BY <4>3, <4>4
        <3> QED
            BY <2>2, <3>1, <3>2 DEF Protocol, Counters
    <2>5. \A w \in Workers : pc'[w] = "asleep" /\ worker'[w].call = "none"
        BY <2>1, <2>3, <2>4
    <2>6. pc'[Main] \notin Calling /\ pc'[Main] # "suspended"
        BY <2>1 DEF Calling
    <2>7. Counters'
        BY <2>1, <2>4 DEF Counters
    <2>8. Sleepers'
        <3>1. \A w \in Workers : worker'[w].asleep \in BOOLEAN
            BY <2>4
        <3>2. nSuspend' > 0 => \A w \in Workers : worker'[w].asleep
            BY <2>4
        <3> QED
            BY <3>1, <3>2, <2>5, <2>6 DEF Sleepers
    <2>9. Answered'
        <3>1. \A w \in Workers : Rested(w)'
            BY <2>4, <2>5 DEF Rested
        <3> QED
            BY <3>1, <2>1, <2>5, <2>6 DEF Answered, Calling
    <2>10. Leaving'
        BY <2>5 DEF Leaving
    <2> QED
        BY <2>7, <2>8, <2>9, <2>10 DEF Protocol
<1> QED
    BY <1>1, <1>2, <1>3

\* Every step keeps Protocol.
LEMMA ProtocolNext == Running /\ Protocol /\ [Next]_vars => Protocol'
<1> SUFFICES ASSUME Running, Protocol, [Next]_vars PROVE Protocol'
    OBVIOUS
<1>0. Shape'
    BY RunningNext DEF Running
<1>1. ASSUME NEW w \in Workers, WorkerStep(w) PROVE Protocol'
    BY <1>0, <1>1, ProtocolWorker
<1>2. CASE MasterStep
    BY <1>0, <1>2, ProtocolMaster, ProtocolCalls, ProtocolSuspended DEF MasterStep
<1>3. CASE Call
    BY <1>0, <1>3, ProtocolMaster, ProtocolCalls DEF Call, AllCalls
<1>4. CASE Resume
    BY <1>0, <1>4, ProtocolSuspended
<1>5. CASE UNCHANGED vars
    BY <1>0, <1>5 DEF vars, Protocol, Counters, Sleepers, Answered, Leaving, Rested, Stopped
<1> QED
    BY <1>1, <1>2, <1>3, <1>4, <1>5 DEF Next

(* When SuspendExecution has returned, and until the resume, no worker is    *)
(* anywhere but in Suspend: a reply alone would not tell.                    *)
THEOREM Quiet == Spec => []QuietWhenSuspended
<1>1. Protocol => QuietWhenSuspended
    BY DEF Protocol, Sleepers, QuietWhenSuspended
<1> QED
    BY <1>1, RunningInit, ProtocolInit, RunningNext, ProtocolNext, PTL DEF Spec

(* CallWorker never finds a call unanswered, although WaitForReply may time out: *)
(* SuspendExecution waits for the threads, not for their replies.            *)
THEOREM OneCall == Spec => []OneCallAtATime
<1>1. Protocol => OneCallAtATime
    BY DEF Protocol, Answered, Rested, OneCallAtATime, Workers
<1> QED
    BY <1>1, RunningInit, ProtocolInit, RunningNext, ProtocolNext, PTL DEF Spec
-----------------------------------------------------------------------------
\* The master waits for jobs only while it yields, also when it helps.
Waiting == {"yield", "yieldPop", "block", "scan", "service", "run", "released"}

Awaiting ==
    /\ master.await # {} => pc[Main] \in Waiting
    /\ pc[Main] \in {"scan", "service"} => loc[Main].src # None
    /\ pc[Main] = "run" => loc[Main].src # None \/ master.await = {}

\* What no step takes from a job that was added.
Kept == \A j \in Jobs : j <= nAdded => /\ job'[j].kind = job[j].kind
                                       /\ Finished(j) => Finished(j)'

\* Every step leaves a job its kind, and a finished job is finished for good.
LEMMA KeptJobs ==
    ASSUME Running, [Next]_vars
    PROVE  Kept
<1> USE Numbers DEF Kept, Running
<1>1. ASSUME NEW t \in Threads, Service(t) \/ Run(t) PROVE Kept
    <2>1. CASE Service(t)
        BY <2>1, StartJob DEF Service, Finished, CanExecute
    <2>2. CASE Run(t)
        BY <2>2 DEF Run, Finished, Shape, JobShape, JobFields
    <2> QED
        BY <1>1, <2>1, <2>2
<1>2. ASSUME NEW t \in Threads, NextLevel(t) \/ TakeJob(t) \/ Released(t) PROVE Kept
    BY <1>2 DEF NextLevel, TakeJob, Released, Finished
<1>3. ASSUME NEW w \in Workers,
             \/ Wake(w) \/ PopDirect(w) \/ PopShared(w) \/ Taken(w) \/ EndTurn(w)
             \/ Reply(w) \/ FallAsleep(w) \/ Awake(w) \/ Exit(w)
      PROVE  Kept
    BY <1>3 DEF Wake, PopDirect, PopShared, Taken, EndTurn, Reply, FallAsleep, Awake, Exit, Finished
<1>4. ASSUME \/ PushItem \/ CountItem \/ CountJob \/ Yield \/ YieldPop \/ Block \/ GiveUp
             \/ CallSuspend \/ AwaitAsleep \/ Suspend \/ CallExit
             \/ (\E j \in Jobs : Wait(j)) \/ WaitFrame
             \/ (\E call \in Suspenders : SuspendExecution(call)) \/ Stop \/ Resume
      PROVE  Kept
    <2>1. job' = job
        BY <1>4 DEF PushItem, CountItem, CountJob, Yield, YieldPop, Block, GiveUp, CallSuspend,
                    AwaitAsleep, Suspend, CallExit, CallWorker, Wait, WaitFrame,
                    SuspendExecution, Stop, Resume
    <2> QED
        BY <2>1 DEF Finished
<1>5. CASE LockJob
    <2>1. CASE CanExecute(loc[Main].job) /\ master.call # "Abort"
        BY <1>5, <2>1, StartJob DEF LockJob, Finished, CanExecute
    <2>2. CASE ~(CanExecute(loc[Main].job) /\ master.call # "Abort")
        <3>1. job' = IF CanExecute(loc[Main].job)
                     THEN [job EXCEPT ![loc[Main].job].status = "aborted"] ELSE job
            BY <1>5, <2>2 DEF LockJob
        <3> QED
            BY <3>1 DEF Shape, JobShape, JobFields, Finished
    <2> QED
        BY <2>1, <2>2
<1>6. ASSUME NEW S, AbortJobs(S) \/ ExecuteJobs(S) PROVE Kept
    <2>1. Settle
        BY <1>6, AbortSettles, ExecuteSettles
    <2> QED
        BY <2>1 DEF Settle, Finished, CanExecute
<1>7. ASSUME NEW j \in Jobs, NEW kind \in Kinds, AddJobInPlace(j, kind) \/ AddJob(j, kind) PROVE Kept
    <2>1. j = nAdded + 1 /\ nAdded \in Nat
        BY <1>7 DEF AddJobInPlace, AddJob, Add, Shape
    <2>2. \A i \in Jobs \ {j} : job'[i] = job[i]
        <3>1. CASE AddJobInPlace(j, kind)
            BY <3>1 DEF AddJobInPlace, Shape, JobShape
        <3>2. CASE AddJob(j, kind)
            BY <3>2 DEF AddJob, Shape, JobShape
        <3> QED
            BY <1>7, <3>1, <3>2
    <2>3. \A i \in Jobs : i <= nAdded => job'[i] = job[i]
        BY <2>1, <2>2 DEF Jobs
    <2> QED
        BY <2>3 DEF Finished
<1>8. ASSUME NEW j \in Jobs,
             (\E p \in Levels : ChangePriority(j, p)) \/ (\E call \in AllCalls : CallJob(call, j))
      PROVE  Kept
    <2>1. CASE \E p \in Levels : ChangePriority(j, p)
        <3>1. PICK p \in Levels : job' = [job EXCEPT ![j].prio = p, ![j].moved = TRUE]
            BY <2>1 DEF ChangePriority
        <3> QED
            BY <3>1 DEF Shape, JobShape, JobFields, Finished
    <2>2. CASE \E call \in AllCalls : CallJob(call, j)
        <3>1. job' = [job EXCEPT ![j].moved = TRUE]
            BY <2>2 DEF CallJob
        <3> QED
            BY <3>1 DEF Shape, JobShape, JobFields, Finished
    <2> QED
        BY <1>8, <2>1, <2>2
<1>9. CASE UNCHANGED vars
    BY <1>9 DEF vars, Finished
<1>10. ASSUME NEW w \in Workers, WorkerStep(w) PROVE Kept
    BY <1>1, <1>2, <1>3, <1>10 DEF WorkerStep
<1>11. CASE MasterStep
    BY <1>1, <1>2, <1>4, <1>5, <1>6, <1>11 DEF MasterStep, AbortAll, Join, ExecuteToPriority
<1>12. CASE Call
    BY <1>4, <1>7, <1>8, <1>12 DEF Call, AllCalls
<1> QED
    BY <1>4, <1>9, <1>10, <1>11, <1>12 DEF Next

\* A step that adds no job, and takes none off the lists but finished ones.
LEMMA FrameAside ==
    ASSUME Running, Kept, FrameJobsDone, nAdded' = nAdded,
           \A j \in perFrame \cup master.await \cup master.refused :
               j \in perFrame' \cup master'.await \cup master'.refused \/ Finished(j)
    PROVE  FrameJobsDone'
<1> SUFFICES ASSUME NEW j \in Added, job'[j].kind.frame,
                    j \notin perFrame' \cup master'.await \cup master'.refused
             PROVE  Finished(j)'
    BY DEF FrameJobsDone, Added
<1>1. j \in Jobs /\ j <= nAdded
    BY Numbers DEF Added, Jobs, Running, Shape
<1>2. Finished(j)
    BY <1>1 DEF Kept, FrameJobsDone
<1> QED
    BY <1>1, <1>2 DEF Kept

\* Workers touch neither the list of frame jobs nor the master's wait.
LEMMA FrameWorker ==
    ASSUME Running, Kept, Awaiting, FrameJobsDone, NEW w \in Workers, WorkerStep(w)
    PROVE  Awaiting' /\ FrameJobsDone'
<1> USE Numbers DEF Running, Shape, Goto
<1>1. /\ UNCHANGED <<perFrame, nAdded, master>>
      /\ pc'[Main] = pc[Main] /\ loc'[Main] = loc[Main]
    <2>1. CASE \/ Wake(w) \/ PopDirect(w) \/ PopShared(w) \/ NextLevel(w) \/ TakeJob(w)
               \/ Taken(w) \/ Service(w) \/ Released(w) \/ EndTurn(w)
        BY <2>1 DEF Wake, PopDirect, PopShared, Ticket, NextLevel, TakeJob, Taken, Service, Released, EndTurn
    <2>2. CASE Reply(w) \/ FallAsleep(w) \/ Awake(w) \/ Exit(w)
        BY <2>2 DEF Reply, FallAsleep, Awake, Exit
    <2>3. CASE Run(w)
        <3>1. loc[w].src # None
            BY <2>3 DEF Run, FromQueue
        <3> QED
            BY <2>3, <3>1 DEF Run
    <2> QED
        BY <2>1, <2>2, <2>3 DEF WorkerStep
<1>2. Awaiting'
    BY <1>1 DEF Awaiting
<1> QED
    BY <1>1, <1>2, FrameAside

\* The master stops waiting for nothing but finished jobs.
Keeps == \/ master'.await = master.await
         \/ master'.await = {} /\ \A j \in master.await : Finished(j)

\* The master stops waiting only for finished jobs.
LEMMA FrameMaster ==
    ASSUME Running, Kept, Awaiting, FrameJobsDone,
           \/ MasterStep \/ Resume
           \/ \E j \in Jobs, p \in Levels : ChangePriority(j, p)
           \/ \E j \in Jobs, call \in AllCalls : CallJob(call, j)
           \/ (\E call \in Suspenders : SuspendExecution(call)) \/ Stop
    PROVE  Awaiting' /\ FrameJobsDone'
<1> USE Numbers DEF Running, Shape, MasterFields, LocFields, Goto, Return, Called
<1>1. /\ UNCHANGED <<perFrame, nAdded>> /\ master'.refused = master.refused
      /\ Keeps /\ Awaiting'
    <2> USE DEF Awaiting, Waiting, Keeps
    <2>1. CASE PushItem \/ CountItem \/ CountJob
        BY <2>1 DEF PushItem, CountItem, CountJob
    <2>2. CASE Yield \/ Block
        BY <2>2 DEF Yield, Block, AllDone
    <2>3. CASE YieldPop
        BY <2>3 DEF YieldPop, Ticket, NoLocals
    <2>4. CASE NextLevel(Main) \/ TakeJob(Main) \/ Released(Main)
        BY <2>4 DEF NextLevel, TakeJob, Released, NoLocals
    <2>5. CASE Service(Main) \/ Run(Main)
        BY <2>5 DEF Service, Run, NoLocals
    <2>6. CASE LockJob \/ GiveUp
        BY <2>6 DEF LockJob, GiveUp, NoLocals
    <2>7. CASE CallSuspend \/ CallExit \/ AwaitAsleep
        BY <2>7 DEF CallSuspend, CallExit, CallWorker, AwaitAsleep
    <2>8. CASE \/ Suspend \/ AbortAll \/ Join
               \/ \E p \in Levels, filtered \in BOOLEAN : ExecuteToPriority(p, filtered)
        BY <2>8 DEF Suspend, AbortAll, Join, ExecuteToPriority
    <2>9. CASE Resume
        BY <2>9 DEF Resume
    <2>10. CASE \E j \in Jobs, p \in Levels : ChangePriority(j, p)
        BY <2>10 DEF ChangePriority, Begin
    <2>11. CASE \E j \in Jobs, call \in AllCalls : CallJob(call, j)
        BY <2>11 DEF CallJob, Begin
    <2>12. CASE (\E call \in Suspenders : SuspendExecution(call)) \/ Stop
        BY <2>12 DEF SuspendExecution, Stop, Begin
    <2> QED
        BY <2>1, <2>2, <2>3, <2>4, <2>5, <2>6, <2>7, <2>8, <2>9, <2>10, <2>11, <2>12 DEF MasterStep
<1> QED
    BY <1>1, FrameAside DEF Keeps

\* Jobs taken off the list are awaited or refused.
LEMMA FrameWaits ==
    ASSUME Running, Kept, Awaiting, FrameJobsDone, (\E j \in Jobs : Wait(j)) \/ WaitFrame
    PROVE  Awaiting' /\ FrameJobsDone'
<1> USE Numbers DEF Running, Shape, MasterFields, Goto, Called
<1>1. pc[Main] = "idle" /\ master.await = {} /\ nAdded' = nAdded
    BY DEF Wait, WaitFrame, Begin, Awaiting, Waiting
<1>2. Awaiting'
    BY <1>1 DEF Wait, WaitFrame, Awaiting, Waiting
<1>3. /\ master.refused \subseteq master'.refused
      /\ perFrame \subseteq perFrame' \cup master'.await \cup master'.refused
    BY DEF Wait, WaitFrame
<1> QED
    BY <1>1, <1>2, <1>3, FrameAside

\* A new frame job is on the list before it can run.
LEMMA FrameAdd ==
    ASSUME Running, Running', Kept, Awaiting, FrameJobsDone, NEW j \in Jobs, NEW kind \in Kinds,
           AddJobInPlace(j, kind) \/ AddJob(j, kind)
    PROVE  Awaiting' /\ FrameJobsDone'
<1> USE Numbers DEF Running, Shape, Goto
<1>1. /\ pc[Main] = "idle" /\ master.await = {} /\ master' = master
      /\ pc'[Main] \in {"run", "pushItem"}
      /\ j = nAdded + 1 /\ nAdded' = j
      /\ perFrame' = IF kind.frame THEN perFrame \cup {j} ELSE perFrame
    BY DEF AddJobInPlace, AddJob, Add, Awaiting, Waiting
<1>2. job'[j].kind = kind
    <2>1. DOMAIN job = Jobs /\ DOMAIN job[j] = JobFields
        BY DEF JobShape
    <2>2. CASE AddJobInPlace(j, kind)
        <3>1. job'[j] = [Started(Main, j) EXCEPT !.kind = kind]
            BY <2>1, <2>2 DEF AddJobInPlace
        <3> QED
            BY <2>1, <3>1 DEF Started, JobFields
    <2>3. CASE AddJob(j, kind)
        <3>1. \E r : job' = [job EXCEPT ![j].kind = kind, ![j].status = "pending", ![j].prio = r]
            BY <2>3 DEF AddJob
        <3> QED
            BY <2>1, <3>1 DEF JobFields
    <2> QED
        BY <2>2, <2>3
<1>3. Awaiting'
    BY <1>1 DEF Awaiting, Waiting
<1>4. FrameJobsDone'
    <2> SUFFICES ASSUME NEW i \in Added', job'[i].kind.frame,
                        i \notin perFrame' \cup master'.await \cup master'.refused
                 PROVE  Finished(i)'
        BY DEF FrameJobsDone
    <2>1. i # j
        BY <1>1, <1>2
    <2>2. i \in Added /\ i \in Jobs /\ i <= nAdded
        BY <1>1, <2>1 DEF Added, Jobs
    <2>3. Finished(i)
        BY <1>1, <2>2 DEF Kept, FrameJobsDone
    <2> QED
        BY <2>2, <2>3 DEF Kept
<1> QED
    BY <1>3, <1>4

\* Every step keeps Awaiting and FrameJobsDone.
LEMMA FrameNext == Running /\ Awaiting /\ FrameJobsDone /\ [Next]_vars => Awaiting' /\ FrameJobsDone'
<1> SUFFICES ASSUME Running, Awaiting, FrameJobsDone, [Next]_vars
             PROVE  Awaiting' /\ FrameJobsDone'
    OBVIOUS
<1>0. Running' /\ Kept
    BY RunningNext, KeptJobs
<1>1. ASSUME NEW w \in Workers, WorkerStep(w) PROVE Awaiting' /\ FrameJobsDone'
    BY <1>0, <1>1, FrameWorker
<1>2. CASE MasterStep \/ Resume
    BY <1>0, <1>2, FrameMaster
<1>3. CASE Call
    BY <1>0, <1>3, FrameMaster, FrameWaits, FrameAdd DEF Call, AllCalls
<1>4. CASE UNCHANGED vars
    BY <1>4 DEF vars, Awaiting, FrameJobsDone, Added, Finished
<1> QED
    BY <1>1, <1>2, <1>3, <1>4 DEF Next

(* A frame job that is off the list is finished, awaited, or among those that *)
(* YieldWaitPerFrameJobs was refused to wait for.                            *)
THEOREM FrameDone == Spec => []FrameJobsDone
<1>1. Init => Awaiting /\ FrameJobsDone
    BY Numbers DEF Init, Awaiting, FrameJobsDone, Added
<1> QED
    BY <1>1, RunningInit, RunningNext, FrameNext, PTL DEF Spec
-----------------------------------------------------------------------------
(* Lengths of what FlattenSeq joins, and of what Only leaves.                *)

\* P is the length of the first members of g together.
Lengths(P, g, n) == P[0] = 0 /\ \A k \in 1 .. n : P[k] = P[k - 1] + Len(g[k])

\* f joins the members of g one after the other.
Joins(f, g, n, V) ==
    /\ f \in [1 .. n -> V]
    /\ f[1] = g[1]
    /\ \A k \in 2 .. n : f[k] = f[k - 1] \o g[k]

\* So does FlattenSeq.
LEMMA FlattenIs ==
    ASSUME NEW X, NEW n \in Nat \ {0}, NEW g \in [1 .. n -> Seq(X)]
    PROVE  \E f : Joins(f, g, n, Seq(X)) /\ FlattenSeq(g) = f[n]
<1> DEFINE step == [k \in 1 .. n |-> [v \in Seq(X) |-> v \o g[k]]]
           fun(h) == [k \in 1 .. n |-> IF k = 1 THEN g[k] ELSE h[k - 1] \o g[k]]
<1>1. step \in Steps(Seq(X), n)
    <2>1. \A k \in 1 .. n, v \in Seq(X) : v \o g[k] \in Seq(X)
        BY ConcatProperties
    <2> QED
        BY <2>1 DEF Steps
<1>2. \A k \in 1 .. n, v \in Seq(X) : step[k][v] = v \o g[k]
    OBVIOUS
<1> HIDE DEF step
<1>3. PICK r : Recursive(r, Seq(X), n, <<>>, step)
    BY <1>1, Recursion, EmptySeq
<1>a. /\ r \in [0 .. n -> Seq(X)]
      /\ \A k \in 0 .. n : r[k] = IF k = 0 THEN <<>> ELSE step[k][r[k - 1]]
    BY <1>3 DEF Recursive
<1>b. \A k \in 1 .. n : k \in 0 .. n /\ k - 1 \in 0 .. n /\ k # 0
    OBVIOUS
<1>4. r[0] = <<>> /\ \A k \in 1 .. n : r[k] = r[k - 1] \o g[k]
    <2>1. ASSUME NEW k \in 1 .. n PROVE r[k] = r[k - 1] \o g[k]
        <3>1. r[k - 1] \in Seq(X) /\ r[k] = step[k][r[k - 1]]
            BY <1>a, <1>b
        <3> QED
            BY <3>1, <1>2
    <2>2. 0 \in 0 .. n
        OBVIOUS
    <2>3. r[0] = <<>>
        BY <2>2, <1>a
    <2> QED
        BY <2>1, <2>3
<1> DEFINE f == [k \in 1 .. n |-> r[k]]
<1>5. f \in [1 .. n -> Seq(X)] /\ f[1] = g[1]
    <2>1. g[1] \in Seq(X) /\ 1 \in 1 .. n
        OBVIOUS
    <2>2. <<>> \o g[1] = g[1]
        BY <2>1, ConcatEmptySeq
    <2>3. r[1] = r[0] \o g[1]
        <3>1. r[1] = r[1 - 1] \o g[1] /\ 1 - 1 = 0
            BY <1>4, <2>1
        <3> QED
            BY <3>1
    <2>4. r[1] = g[1]
        BY <1>4, <2>2, <2>3
    <2> QED
        BY <1>a, <1>b, <2>1, <2>4
<1>6. \A k \in 2 .. n : f[k] = f[k - 1] \o g[k]
    <2> TAKE k \in 2 .. n
    <2>1. k \in 1 .. n /\ k - 1 \in 1 .. n
        OBVIOUS
    <2> QED
        BY <1>4, <2>1
<1> HIDE DEF f
<1>7. \A k \in 1 .. n : f[k] = IF k = 1 THEN g[k] ELSE f[k - 1] \o g[k]
    <2> TAKE k \in 1 .. n
    <2>1. k = 1 \/ k \in 2 .. n
        OBVIOUS
    <2> QED
        BY <1>5, <1>6, <2>1
<1>8. f = fun(f)
    BY <1>5, <1>7
<1> DEFINE c == CHOOSE h : h = fun(h)
<1>9. c = fun(c)
    BY <1>8
<1>10. Len(g) = n
    OBVIOUS
<1>11. FlattenSeq(g) = c[n]
    BY <1>10 DEF FlattenSeq
<1> HIDE DEF c
<1>12. \A k \in 1 .. n : c[k] = IF k = 1 THEN g[k] ELSE c[k - 1] \o g[k]
    BY <1>9
<1> HIDE DEF fun
<1> DEFINE S == {k \in 0 .. n : k = 0 \/ c[k] = f[k]}
<1>13. \A k \in 0 .. n - 1 : k \in S => k + 1 \in S
    <2> SUFFICES ASSUME NEW k \in 0 .. n - 1, k \in S PROVE k + 1 \in S
        OBVIOUS
    <2>0. k + 1 \in 0 .. n /\ k + 1 \in 1 .. n /\ k + 1 - 1 = k
        OBVIOUS
    <2> SUFFICES c[k + 1] = f[k + 1]
        BY <2>0
    <2>1. CASE k = 0
        BY <2>0, <2>1, <1>5, <1>12
    <2>2. CASE k # 0
        BY <2>0, <2>2, <1>7, <1>12
    <2> QED
        BY <2>1, <2>2
<1>14. 0 \in S /\ n \in Nat
    OBVIOUS
<1> HIDE DEF S
<1>15. 0 .. n \subseteq S
    BY <1>13, <1>14, InductionTo
<1>16. n \in S /\ n # 0
    BY <1>15
<1> QED
    BY <1>5, <1>6, <1>11, <1>16 DEF S, Joins

\* So its length is the sum of theirs.
LEMMA FlattenLength ==
    ASSUME NEW X, NEW n \in Nat, NEW g \in [1 .. n -> Seq(X)], NEW P, Lengths(P, g, n)
    PROVE  FlattenSeq(g) \in Seq(X) /\ Len(FlattenSeq(g)) = P[n]
<1>1. CASE n = 0
    <2>1. Len(g) = 0 /\ g \in Seq(X)
        BY <1>1
    <2> QED
        BY <1>1, <2>1 DEF FlattenSeq, Lengths
<1>2. CASE n # 0
    <2>0. n \in Nat \ {0}
        BY <1>2
    <2>1. PICK f : Joins(f, g, n, Seq(X)) /\ FlattenSeq(g) = f[n]
        BY <2>0, FlattenIs
    <2>a. /\ f \in [1 .. n -> Seq(X)] /\ f[1] = g[1]
          /\ \A k \in 2 .. n : f[k] = f[k - 1] \o g[k]
        BY <2>1 DEF Joins
    <2> DEFINE S == {k \in 0 .. n : k = 0 \/ Len(f[k]) = P[k]}
    <2>2. \A k \in 0 .. n - 1 : k \in S => k + 1 \in S
        <3> SUFFICES ASSUME NEW k \in 0 .. n - 1, k \in S PROVE Len(f[k + 1]) = P[k + 1]
            OBVIOUS
        <3>1. P[k + 1] = P[k] + Len(g[k + 1])
            BY DEF Lengths
        <3>2. CASE k = 0
            BY <3>1, <3>2, <2>a DEF Lengths
        <3>3. CASE k # 0
            <4>1. f[k + 1] = f[k] \o g[k + 1] /\ f[k] \in Seq(X) /\ g[k + 1] \in Seq(X)
                <5>1. k \in 1 .. n /\ k + 1 \in 2 .. n /\ k + 1 \in 1 .. n /\ k + 1 - 1 = k
                    BY <3>3
                <5> DEFINE m == k + 1
                <5>2. m \in 2 .. n /\ m - 1 = k
                    BY <5>1
                <5> HIDE DEF m
                <5>3. f[m] = f[m - 1] \o g[m]
                    BY <2>a, <5>2
                <5>4. f[m] = f[k] \o g[m]
                    BY <5>2, <5>3
                <5> QED
                    BY <2>a, <5>1, <5>4 DEF m
            <4>2. Len(f[k + 1]) = Len(f[k]) + Len(g[k + 1])
                BY <4>1, ConcatProperties
            <4> QED
                BY <3>1, <3>3, <4>2
        <3> QED
            BY <3>2, <3>3
    <2>3. 0 \in S
        OBVIOUS
    <2>4. n \in 1 .. n
        BY <1>2
    <2> HIDE DEF S
    <2>5. 0 .. n \subseteq S
        BY <2>2, <2>3, InductionTo
    <2>6. n \in S
        BY <2>5
    <2> QED
        BY <1>2, <2>1, <2>a, <2>4, <2>6 DEF S
<1> QED
    BY <1>1, <1>2

\* What FlattenSeq joins is of the same kind.
LEMMA FlattenType ==
    ASSUME NEW X, NEW n \in Nat, NEW g \in [1 .. n -> Seq(X)]
    PROVE  FlattenSeq(g) \in Seq(X)
<1>1. CASE n = 0
    <2>1. Len(g) = 0 /\ g \in Seq(X)
        BY <1>1
    <2> QED
        BY <2>1 DEF FlattenSeq
<1>2. CASE n # 0
    <2>1. n \in Nat \ {0} /\ n \in 1 .. n
        BY <1>2
    <2>2. PICK f : Joins(f, g, n, Seq(X)) /\ FlattenSeq(g) = f[n]
        BY <2>1, FlattenIs
    <2> QED
        BY <2>1, <2>2 DEF Joins
<1> QED
    BY <1>1, <1>2

\* r is what Only has kept after each entry.
Sieves(r, s, S, X) ==
    /\ r \in [0 .. Len(s) -> Seq(X)]
    /\ r[0] = <<>>
    /\ \A k \in 1 .. Len(s) : r[k] = IF s[k] \in S THEN Append(r[k - 1], s[k]) ELSE r[k - 1]

\* Only exists.
LEMMA OnlyIs ==
    ASSUME NEW X, NEW s \in Seq(X), NEW S
    PROVE  \E r : Sieves(r, s, S, X) /\ Only(s, S) = r[Len(s)]
<1> DEFINE n == Len(s)
           step == [k \in 1 .. n |-> [v \in Seq(X) |-> IF s[k] \in S THEN Append(v, s[k]) ELSE v]]
           fun(h) == [k \in 0 .. n |-> IF k = 0 THEN <<>>
                                       ELSE IF s[k] \in S THEN Append(h[k - 1], s[k]) ELSE h[k - 1]]
<1>0. n \in Nat /\ \A k \in 1 .. n : s[k] \in X
    OBVIOUS
<1>1. step \in Steps(Seq(X), n)
    BY <1>0 DEF Steps
<1>2. \A k \in 1 .. n, v \in Seq(X) : step[k][v] = IF s[k] \in S THEN Append(v, s[k]) ELSE v
    OBVIOUS
<1> HIDE DEF step
<1>3. PICK r : Recursive(r, Seq(X), n, <<>>, step)
    <2> HIDE DEF n
    <2> QED
        BY <1>0, <1>1, Recursion, EmptySeq
<1>4. r \in [0 .. n -> Seq(X)] /\ \A k \in 0 .. n : r[k] = IF k = 0 THEN <<>> ELSE step[k][r[k - 1]]
    BY <1>3 DEF Recursive
<1> HIDE DEF n
<1>5. \A k \in 1 .. n : k \in 0 .. n /\ k - 1 \in 0 .. n /\ k # 0
    BY <1>0
<1>6. \A k \in 0 .. n : r[k] = IF k = 0 THEN <<>>
                               ELSE IF s[k] \in S THEN Append(r[k - 1], s[k]) ELSE r[k - 1]
    <2> TAKE k \in 0 .. n
    <2>1. CASE k = 0
        BY <2>1, <1>4
    <2>2. CASE k # 0
        <3>1. k \in 1 .. n
            BY <2>2, <1>0
        <3>2. r[k - 1] \in Seq(X)
            BY <3>1, <1>4, <1>5
        <3>3. r[k] = step[k][r[k - 1]]
            BY <2>2, <1>4
        <3> QED
            BY <2>2, <3>1, <3>2, <3>3, <1>2
    <2> QED
        BY <2>1, <2>2
<1>7. r = fun(r)
    BY <1>4, <1>6
<1> DEFINE c == CHOOSE h : h = fun(h)
<1>8. c = fun(c)
    BY <1>7
<1>9. Only(s, S) = c[n]
    BY DEF Only, n
<1> HIDE DEF c
<1>10. \A k \in 0 .. n : c[k] = IF k = 0 THEN <<>>
                                ELSE IF s[k] \in S THEN Append(c[k - 1], s[k]) ELSE c[k - 1]
    BY <1>8
<1> HIDE DEF fun
<1> DEFINE T == {k \in 0 .. n : c[k] = r[k]}
<1>11. 0 \in T
    BY <1>0, <1>6, <1>10
<1>12. \A k \in 0 .. n - 1 : k \in T => k + 1 \in T
    BY <1>0, <1>6, <1>10
<1> HIDE DEF T
<1>13. 0 .. n \subseteq T
    BY <1>0, <1>11, <1>12, InductionTo
<1>14. n \in T
    BY <1>0, <1>13
<1>15. Only(s, S) = r[n]
    BY <1>9, <1>14 DEF T
<1>16. r[0] = <<>> /\ \A k \in 1 .. n : r[k] = IF s[k] \in S THEN Append(r[k - 1], s[k]) ELSE r[k - 1]
    BY <1>0, <1>5, <1>6
<1> QED
    BY <1>4, <1>15, <1>16 DEF Sieves, n

\* Only keeps a sequence of jobs one.
LEMMA OnlyType ==
    ASSUME NEW X, NEW s \in Seq(X), NEW S
    PROVE  Only(s, S) \in Seq(X)
<1>1. PICK r : Sieves(r, s, S, X) /\ Only(s, S) = r[Len(s)]
    BY OnlyIs
<1>2. Len(s) \in 0 .. Len(s)
    OBVIOUS
<1> QED
    BY <1>1, <1>2 DEF Sieves

\* What a CJobQueue holds: a sequence of jobs at each level.
Stacks == [Levels -> Seq(Jobs)]

\* How many entries are at level l and below.
Under(s, l) == Len(FlattenSeq([k \in 1 .. l + 1 |-> s[k - 1]]))

\* P adds up the levels from the lowest.
Sums(P, s) ==
    /\ P \in [0 .. NumPriorities -> Int]
    /\ P[0] = 0
    /\ \A k \in Levels : P[k + 1] = P[k] + Len(s[k])

\* The levels are numbers up to Top.
LEMMA LevelNumbers ==
    /\ NumPriorities \in Nat \ {0} /\ Top \in Levels
    /\ \A l \in Levels : l \in Nat /\ l <= Top /\ l + 1 \in 1 .. NumPriorities
    /\ \A m \in 1 .. NumPriorities : m - 1 \in Levels /\ NumPriorities - m \in Levels
BY Numbers DEF Levels, Top

\* Sums exist.
LEMMA SumsExist ==
    ASSUME NEW s \in Stacks
    PROVE  \E P : Sums(P, s)
<1> DEFINE n == NumPriorities
           step == [k \in 1 .. n |-> [v \in Int |-> v + Len(s[k - 1])]]
<1>1. n \in Nat /\ step \in Steps(Int, n)
    <2>1. \A k \in 1 .. n : Len(s[k - 1]) \in Nat
        BY LevelNumbers DEF Stacks
    <2> QED
        BY <2>1, LevelNumbers DEF Steps
<1>2. \A k \in 1 .. n, v \in Int : step[k][v] = v + Len(s[k - 1])
    OBVIOUS
<1> HIDE DEF step
<1>3. PICK P : Recursive(P, Int, n, 0, step)
    <2> HIDE DEF n
    <2> QED
        BY <1>1, Recursion
<1>4. P \in [0 .. n -> Int] /\ \A k \in 0 .. n : P[k] = IF k = 0 THEN 0 ELSE step[k][P[k - 1]]
    BY <1>3 DEF Recursive
<1>5. P[0] = 0
    BY <1>1, <1>4
<1>6. ASSUME NEW k \in Levels PROVE P[k + 1] = P[k] + Len(s[k])
    <2>1. k + 1 \in 1 .. n /\ k + 1 \in 0 .. n /\ k \in 0 .. n /\ k + 1 # 0 /\ k + 1 - 1 = k
        BY LevelNumbers
    <2>2. P[k] \in Int /\ P[k + 1] = step[k + 1][P[k]]
        BY <1>4, <2>1
    <2> DEFINE m == k + 1
    <2>3. m \in 1 .. n /\ m - 1 = k
        BY <2>1
    <2> HIDE DEF m
    <2>4. step[m][P[k]] = P[k] + Len(s[m - 1])
        BY <1>2, <2>2, <2>3
    <2> QED
        BY <2>2, <2>3, <2>4 DEF m
<1> QED
    BY <1>4, <1>5, <1>6 DEF Sums

\* Sums are the numbers of entries.
LEMMA SumsAre ==
    ASSUME NEW s \in Stacks, NEW P, Sums(P, s), NEW l \in Levels
    PROVE  Under(s, l) = P[l + 1]
<1> DEFINE n == l + 1
           g == [k \in 1 .. n |-> s[k - 1]]
<1>1. n \in Nat /\ g \in [1 .. n -> Seq(Jobs)]
    BY LevelNumbers DEF Stacks, Levels
<1>2. Lengths(P, g, n)
    <2>1. ASSUME NEW k \in 1 .. n PROVE P[k] = P[k - 1] + Len(g[k])
        <3>1. k - 1 \in Levels /\ k - 1 + 1 = k
            BY LevelNumbers DEF Levels
        <3>2. P[k - 1 + 1] = P[k - 1] + Len(s[k - 1])
            BY <3>1 DEF Sums
        <3> QED
            BY <3>1, <3>2
    <2> QED
        BY <2>1 DEF Lengths, Sums
<1> HIDE DEF g, n
<1>3. Len(FlattenSeq(g)) = P[n]
    BY <1>1, <1>2, FlattenLength
<1> QED
    BY <1>3 DEF Under, g, n

\* The number of entries is one.
LEMMA UnderType ==
    ASSUME NEW s \in Stacks, NEW l \in Levels
    PROVE  Under(s, l) \in Nat
<1> DEFINE n == l + 1
           g == [k \in 1 .. n |-> s[k - 1]]
<1>1. n \in Nat /\ g \in [1 .. n -> Seq(Jobs)]
    BY LevelNumbers DEF Stacks, Levels
<1>2. PICK P : Sums(P, s)
    BY SumsExist
<1>3. Lengths(P, g, n)
    <2>1. ASSUME NEW k \in 1 .. n PROVE P[k] = P[k - 1] + Len(g[k])
        <3>1. k - 1 \in Levels /\ k - 1 + 1 = k
            BY LevelNumbers DEF Levels
        <3>2. P[k - 1 + 1] = P[k - 1] + Len(s[k - 1])
            BY <3>1, <1>2 DEF Sums
        <3> QED
            BY <3>1, <3>2
    <2> QED
        BY <2>1, <1>2 DEF Lengths, Sums
<1> HIDE DEF g, n
<1>4. FlattenSeq(g) \in Seq(Jobs)
    BY <1>1, <1>3, FlattenLength
<1> QED
    BY <1>4, LenProperties DEF Under, g, n

\* An empty level adds nothing.
LEMMA UnderEmpty ==
    ASSUME NEW s \in Stacks, NEW l \in Levels, l > 0, s[l] = <<>>
    PROVE  l - 1 \in Levels /\ Under(s, l) = Under(s, l - 1)
<1>1. PICK P : Sums(P, s)
    BY SumsExist
<1>2. l - 1 \in Levels /\ l - 1 + 1 = l
    BY Numbers DEF Levels
<1>3. P[l + 1] = P[l] + Len(s[l]) /\ P[l] \in Int
    BY <1>1, LevelNumbers DEF Sums, Levels
<1> QED
    BY <1>1, <1>2, <1>3, SumsAre

\* No entries at all.
LEMMA UnderNothing ==
    ASSUME NEW l \in Levels
    PROVE  Under([k \in Levels |-> <<>>], l) = 0
<1> DEFINE s == [k \in Levels |-> <<>>]
           P == [k \in 0 .. NumPriorities |-> 0]
<1>1. s \in Stacks
    BY EmptySeq DEF Stacks
<1>2. Sums(P, s)
    BY LevelNumbers DEF Sums, Levels
<1>3. P[l + 1] = 0
    BY LevelNumbers
<1> HIDE DEF s, P
<1> QED
    BY <1>1, <1>2, <1>3, SumsAre DEF s

\* One level grows or shrinks: the number changes there and above.
LEMMA UnderChange ==
    ASSUME NEW s \in Stacks, NEW l \in Levels, NEW v \in Seq(Jobs)
    PROVE  LET r == [s EXCEPT ![l] = v]
           IN  /\ r \in Stacks
               /\ \A k \in Levels : Under(r, k) = IF l <= k THEN Under(s, k) + (Len(v) - Len(s[l]))
                                                  ELSE Under(s, k)
<1> DEFINE r == [s EXCEPT ![l] = v]
           d == Len(v) - Len(s[l])
<1>1. r \in Stacks /\ d \in Int /\ r[l] = v /\ \A k \in Levels \ {l} : r[k] = s[k]
    BY DEF Stacks
<1>2. Len(v) = Len(s[l]) + d /\ Len(s[l]) \in Nat
    BY DEF Stacks
<1> HIDE DEF r, d
<1>3. PICK P : Sums(P, s)
    BY SumsExist
<1> DEFINE R == [m \in 0 .. NumPriorities |-> IF l < m THEN P[m] + d ELSE P[m]]
<1>4. Sums(R, r)
    <2>1. R \in [0 .. NumPriorities -> Int] /\ R[0] = 0
        BY <1>1, <1>3, LevelNumbers DEF Sums, Levels
    <2>2. ASSUME NEW k \in Levels PROVE R[k + 1] = R[k] + Len(r[k])
        <3>1. /\ P[k + 1] = P[k] + Len(s[k]) /\ P[k] \in Int /\ Len(s[k]) \in Nat
              /\ k \in 0 .. NumPriorities /\ k + 1 \in 0 .. NumPriorities
              /\ k \in Nat /\ l \in Nat
            BY <1>3, LevelNumbers DEF Sums, Levels, Stacks
        <3>2. CASE k = l
            <4>1. R[k + 1] = P[k + 1] + d /\ R[k] = P[k]
                BY <3>1, <3>2
            <4> QED
                BY <4>1, <3>1, <3>2, <1>1, <1>2
        <3>3. CASE k < l
            <4>1. R[k + 1] = P[k + 1] /\ R[k] = P[k] /\ r[k] = s[k]
                BY <3>1, <3>3, <1>1
            <4> QED
                BY <4>1, <3>1
        <3>4. CASE l < k
            <4>1. R[k + 1] = P[k + 1] + d /\ R[k] = P[k] + d /\ r[k] = s[k]
                BY <3>1, <3>4, <1>1
            <4> QED
                BY <4>1, <3>1, <1>1
        <3> QED
            BY <3>1, <3>2, <3>3, <3>4
    <2> QED
        BY <2>1, <2>2 DEF Sums
<1>5. ASSUME NEW k \in Levels
      PROVE  Under(r, k) = IF l <= k THEN Under(s, k) + d ELSE Under(s, k)
    <2>1. Under(s, k) = P[k + 1]
        BY <1>3, SumsAre
    <2>2. Under(r, k) = R[k + 1]
        <3> HIDE DEF R
        <3> QED
            BY <1>1, <1>4, SumsAre
    <2>3. k + 1 \in 0 .. NumPriorities /\ (l <= k <=> l < k + 1)
        BY LevelNumbers DEF Levels
    <2> QED
        BY <2>1, <2>2, <2>3
<1> QED
    BY <1>1, <1>5 DEF r, d

\* From the top or from the bottom, the entries of a queue are as many.
LEMMA EntriesAre ==
    ASSUME NEW qs, NEW q, qs[q] \in Stacks
    PROVE  Entries(qs, q) \in Seq(Jobs) /\ Len(Entries(qs, q)) = Under(qs[q], Top)
<1> DEFINE n == NumPriorities
           s == qs[q]
           g == [k \in 1 .. n |-> s[n - k]]
<1>1. s \in Stacks
    OBVIOUS
<1>2. n \in Nat /\ g \in [1 .. n -> Seq(Jobs)]
    BY <1>1, LevelNumbers DEF Stacks
<1> HIDE DEF s
<1>3. PICK P : Sums(P, s)
    BY <1>1, SumsExist
<1> DEFINE D == [k \in 0 .. n |-> P[n] - P[n - k]]
<1>4. Lengths(D, g, n)
    <2>1. D[0] = 0
        BY <1>2, <1>3 DEF Sums
    <2>2. ASSUME NEW k \in 1 .. n PROVE D[k] = D[k - 1] + Len(g[k])
        <3> DEFINE m == n - k
        <3>1. /\ m \in Levels /\ m + 1 \in 0 .. n /\ m \in 0 .. n /\ n - (k - 1) = m + 1
              /\ k \in 0 .. n /\ k - 1 \in 0 .. n /\ n \in 0 .. n
            BY LevelNumbers
        <3>2. g[k] = s[m] /\ D[k] = P[n] - P[m] /\ D[k - 1] = P[n] - P[m + 1]
            BY <3>1
        <3> HIDE DEF m
        <3>3. P[m + 1] = P[m] + Len(s[m]) /\ Len(s[m]) \in Nat
            BY <1>1, <1>3, <3>1 DEF Sums, Stacks
        <3>4. P[m] \in Int /\ P[n] \in Int
            BY <1>3, <3>1 DEF Sums
        <3> QED
            BY <3>2, <3>3, <3>4
    <2> QED
        BY <2>1, <2>2 DEF Lengths
<1>5. D[n] = P[n]
    <2>1. P[0] = 0 /\ P[n] \in Int
        BY <1>2, <1>3 DEF Sums
    <2> QED
        BY <2>1, <1>2
<1>6. Under(s, Top) = P[n]
    <2>1. Top + 1 = n
        BY LevelNumbers DEF Top
    <2> QED
        BY <2>1, <1>1, <1>3, SumsAre, LevelNumbers
<1> HIDE DEF g, n, D
<1>7. FlattenSeq(g) \in Seq(Jobs) /\ Len(FlattenSeq(g)) = D[n]
    BY <1>2, <1>4, FlattenLength
<1> QED
    BY <1>5, <1>6, <1>7 DEF Entries, g, n, s
-----------------------------------------------------------------------------
(* Who may rely on an item.                                                  *)

\* Who scans queue q at level l or below.
Scanning(q, l) == {t \in Threads : pc[t] = "scan" /\ loc[t].src = q /\ loc[t].level <= l}

\* What thread t adds to that number.
Scans(t, q, l) == IF pc[t] = "scan" /\ loc[t].src = q /\ loc[t].level <= l THEN 1 ELSE 0

\* The item the master has pushed to q and not counted yet.
Counting(q) == IF pc[Main] = "countItem" /\ loc[Main].src = q THEN 1 ELSE 0

\* Jobs have a priority that is one.
Prios == \A j \in Jobs : job[j].prio \in Levels

\* Queues hold jobs, and whoever works on a queue works on one.
Stocked ==
    /\ queue \in [Queues -> Stacks]
    /\ items \in [Queues -> Nat]
    /\ \A t \in Threads : pc[t] = "scan" => loc[t].src \in Queues /\ loc[t].level \in Levels
    /\ pc[Main] \in {"pushItem", "countItem"} => loc[Main].src \in Queues
    /\ pc[Main] = "pushItem" => loc[Main].job \in Jobs

\* Every entry is counted, or promised to a thread that scans, or not counted yet.
Balance ==
    \A q \in Queues :
        items[q] + Cardinality(Scanning(q, Top)) + Counting(q) = Under(queue[q], Top)

Stock == Prios /\ Stocked /\ Balance /\ ExpectedItem

\* The threads are finitely many.
LEMMA ThreadsFinite == IsFiniteSet(Threads)
<1>1. Threads = 0 .. NumThreads
    BY Numbers DEF Threads, Workers, Main
<1> QED
    BY <1>1, Numbers, FS_Interval

\* So are those that scan.
LEMMA ScanningCount == \A q, l : IsFiniteSet(Scanning(q, l)) /\ Cardinality(Scanning(q, l)) \in Nat
<1> TAKE q, l
<1>1. Scanning(q, l) \subseteq Threads
    BY DEF Scanning
<1> QED
    BY <1>1, ThreadsFinite, FS_Subset, FS_CardinalityType

\* And after a step.
LEMMA ScanningCountNext ==
    \A q, l : IsFiniteSet(Scanning(q, l)') /\ Cardinality(Scanning(q, l)') \in Nat
<1> TAKE q, l
<1>1. Scanning(q, l)' \subseteq Threads
    BY DEF Scanning
<1> QED
    BY <1>1, ThreadsFinite, FS_Subset, FS_CardinalityType

\* When one element comes or goes, the number changes by one.
LEMMA CountMove ==
    ASSUME NEW A, NEW B, NEW t, IsFiniteSet(A), \A u : u # t => (u \in A <=> u \in B)
    PROVE  /\ IsFiniteSet(B) /\ Cardinality(A) \in Nat /\ Cardinality(B) \in Nat
           /\ t \in A /\ t \notin B => Cardinality(B) = Cardinality(A) - 1
           /\ t \notin A /\ t \in B => Cardinality(B) = Cardinality(A) + 1
           /\ (t \in A <=> t \in B) => Cardinality(B) = Cardinality(A)
<1>1. CASE t \in A /\ t \notin B
    <2>1. B = A \ {t}
        BY <1>1
    <2>2. IsFiniteSet(B) /\ Cardinality(B) = Cardinality(A) - 1
        BY <1>1, <2>1, FS_RemoveElement
    <2> QED
        BY <1>1, <2>2, FS_CardinalityType
<1>2. CASE t \notin A /\ t \in B
    <2>1. B = A \cup {t}
        BY <1>2
    <2>2. IsFiniteSet(B) /\ Cardinality(B) = Cardinality(A) + 1
        BY <1>2, <2>1, FS_AddElement
    <2> QED
        BY <1>2, <2>2, FS_CardinalityType
<1>3. CASE t \in A <=> t \in B
    <2>1. B = A
        BY <1>3
    <2> QED
        BY <1>3, <2>1, FS_CardinalityType
<1> QED
    BY <1>1, <1>2, <1>3

\* When one thread moves, the count changes by what it adds.
LEMMA ScanningMove ==
    ASSUME NEW t \in Threads, NEW q, NEW l,
           \A u \in Threads \ {t} : pc'[u] = pc[u] /\ loc'[u] = loc[u]
    PROVE  Cardinality(Scanning(q, l)') - Scans(t, q, l)' = Cardinality(Scanning(q, l)) - Scans(t, q, l)
<1> DEFINE A == Scanning(q, l)
           B == Scanning(q, l)'
           a == Scans(t, q, l)
           b == Scans(t, q, l)'
<1>1. \A u : u # t => (u \in A <=> u \in B)
    BY DEF Scanning
<1>2. a = (IF t \in A THEN 1 ELSE 0) /\ b = IF t \in B THEN 1 ELSE 0
    BY DEF Scanning, Scans
<1>3. IsFiniteSet(A)
    BY ScanningCount
<1> HIDE DEF A, B, a, b
<1>4. /\ Cardinality(A) \in Nat /\ Cardinality(B) \in Nat
      /\ t \in A /\ t \notin B => Cardinality(B) = Cardinality(A) - 1
      /\ t \notin A /\ t \in B => Cardinality(B) = Cardinality(A) + 1
      /\ (t \in A <=> t \in B) => Cardinality(B) = Cardinality(A)
    BY <1>1, <1>3, CountMove
<1>5. Cardinality(B) - b = Cardinality(A) - a
    BY <1>2, <1>4
<1> QED
    BY <1>5 DEF A, B, a, b

\* ExpectedItem in terms of the counts.
Covered == \A q \in Queues, l \in Levels : Cardinality(Scanning(q, l)) <= Under(queue[q], l)

\* It is the same.
LEMMA ExpectedIs == ExpectedItem <=> Covered
BY DEF ExpectedItem, Covered, Scanning, Under

\* And after a step.
LEMMA ExpectedIsNext == ExpectedItem' <=> Covered'
BY DEF ExpectedItem, Covered, Scanning, Under

\* The counts after a step of thread t, and the queues where nothing changes.
Change(t) ==
    \A q \in Queues, l \in Levels :
        Cardinality(Scanning(q, l)') = Cardinality(Scanning(q, l)) - Scans(t, q, l) + Scans(t, q, l)'

\* A step of thread t changes the counts so.
LEMMA Changes ==
    ASSUME NEW t \in Threads,
           \A u \in Threads \ {t} : pc'[u] = pc[u] /\ loc'[u] = loc[u]
    PROVE  Change(t)
<1> SUFFICES ASSUME NEW q \in Queues, NEW l \in Levels
             PROVE  Cardinality(Scanning(q, l)')
                        = Cardinality(Scanning(q, l)) - Scans(t, q, l) + Scans(t, q, l)'
    BY DEF Change
<1>1. Cardinality(Scanning(q, l)') - Scans(t, q, l)' = Cardinality(Scanning(q, l)) - Scans(t, q, l)
    BY ScanningMove
<1>2. Cardinality(Scanning(q, l)') \in Nat /\ Cardinality(Scanning(q, l)) \in Nat
    BY ScanningCount, ScanningCountNext
<1>3. Scans(t, q, l) \in Int /\ Scans(t, q, l)' \in Int
    BY DEF Scans
<1> QED
    BY <1>1, <1>2, <1>3

\* What a step that lets the queues alone does.
Others(t) == \A u \in Threads \ {t} : pc'[u] = pc[u] /\ loc'[u] = loc[u]

\* A step of a thread that neither scans nor counts.
LEMMA StockAside ==
    ASSUME Stock, Prios', NEW t \in Threads, Others(t), UNCHANGED <<queue, items>>,
           pc[t] # "scan", pc'[t] # "scan",
           t = Main => /\ pc[Main] # "countItem" /\ pc'[Main] # "countItem"
                       /\ pc'[Main] = "pushItem" => loc'[Main].src \in Queues /\ loc'[Main].job \in Jobs
    PROVE  Stock'
<1> USE Numbers
<1>1. Change(t)
    BY Changes DEF Others
<1>2. \A q \in Queues, l \in Levels : Cardinality(Scanning(q, l)') = Cardinality(Scanning(q, l))
    <2> TAKE q \in Queues, l \in Levels
    <2>1. Scans(t, q, l) = 0 /\ Scans(t, q, l)' = 0
        BY DEF Scans
    <2>2. Cardinality(Scanning(q, l)) \in Nat
        BY ScanningCount
    <2> QED
        BY <1>1, <2>1, <2>2 DEF Change
<1>3. \A q \in Queues : Counting(q)' = Counting(q)
    BY DEF Counting, Others
<1>4. Stocked'
    BY DEF Stock, Stocked, Others
<1>5. Balance'
    BY <1>2, <1>3, LevelNumbers DEF Stock, Balance
<1>6. ExpectedItem'
    BY <1>2, ExpectedIs, ExpectedIsNext DEF Stock, Covered
<1> QED
    BY <1>4, <1>5, <1>6 DEF Stock

\* A ticket is for one of the items that are counted.
LEMMA StockTicket ==
    ASSUME Shape, Stock, Prios', NEW t \in Threads, NEW q \in Queues, Ticket(t, q), queue' = queue,
           pc[t] # "scan", pc[t] # "countItem"
    PROVE  Stock'
<1> USE Numbers
<1>1. /\ items[q] > 0 /\ items' = [items EXCEPT ![q] = @ - 1]
      /\ pc'[t] = "scan" /\ loc'[t].src = q /\ loc'[t].level = Top
      /\ Others(t)
    BY DEF Ticket, Goto, Shape, NoLocals, Others
<1>2. Change(t)
    BY <1>1, Changes DEF Others
<1>3. \A r \in Queues, l \in Levels :
          Cardinality(Scanning(r, l)') = IF r = q /\ l = Top THEN Cardinality(Scanning(r, l)) + 1
                                         ELSE Cardinality(Scanning(r, l))
    <2> TAKE r \in Queues, l \in Levels
    <2>1. Scans(t, r, l) = 0 /\ Scans(t, r, l)' = IF r = q /\ l = Top THEN 1 ELSE 0
        BY <1>1, LevelNumbers DEF Scans, Levels
    <2>2. Cardinality(Scanning(r, l)) \in Nat
        BY ScanningCount
    <2> QED
        BY <1>2, <2>1, <2>2 DEF Change
<1>4. \A r \in Queues : Counting(r)' = Counting(r)
    BY <1>1 DEF Counting, Others
<1>5. Stocked'
    BY <1>1, LevelNumbers DEF Stock, Stocked, Others
<1>6. ASSUME NEW r \in Queues
      PROVE  /\ items'[r] + Cardinality(Scanning(r, Top)') + Counting(r)' = Under(queue'[r], Top)
             /\ r = q => Cardinality(Scanning(r, Top)') <= Under(queue'[r], Top)
    <2>1. /\ items[r] \in Nat /\ items'[r] = IF r = q THEN items[r] - 1 ELSE items[r]
          /\ items[r] + Cardinality(Scanning(r, Top)) + Counting(r) = Under(queue[r], Top)
        BY <1>1 DEF Stock, Stocked, Balance
    <2>2. Cardinality(Scanning(r, Top)) \in Nat /\ Counting(r) \in Nat
        BY ScanningCount DEF Counting
    <2>3. Cardinality(Scanning(r, Top)') = IF r = q THEN Cardinality(Scanning(r, Top)) + 1
                                           ELSE Cardinality(Scanning(r, Top))
        BY <1>3, LevelNumbers
    <2> QED
        BY <1>1, <1>4, <2>1, <2>2, <2>3
<1>7. Balance'
    BY <1>6 DEF Balance
<1>8. Covered'
    <2> SUFFICES ASSUME NEW r \in Queues, NEW l \in Levels
                 PROVE  Cardinality(Scanning(r, l)') <= Under(queue'[r], l)
        BY DEF Covered
    <2>1. CASE r = q /\ l = Top
        BY <2>1, <1>6
    <2>2. CASE ~(r = q /\ l = Top)
        BY <2>2, <1>3, ExpectedIs DEF Stock, Covered
    <2> QED
        BY <2>1, <2>2
<1> QED
    BY <1>5, <1>7, <1>8, ExpectedIsNext DEF Stock

\* At an empty level nobody stays, and the levels below have an item for all.
LEMMA StockNextLevel ==
    ASSUME Shape, Stock, Prios', NEW t \in Threads, NextLevel(t)
    PROVE  Stock'
<1> USE Numbers
<1>0. loc[t].src \in Queues /\ loc[t].level \in Levels
    BY DEF NextLevel, Stock, Stocked
<1> SUFFICES ASSUME NEW q \in Queues, NEW l \in Levels, loc[t].src = q, loc[t].level = l
             PROVE  Stock'
    BY <1>0
<1>1. /\ pc[t] = "scan" /\ l > 0
      /\ queue[q] \in Stacks /\ queue[q][l] = <<>>
      /\ UNCHANGED <<pc, queue, items>>
      /\ loc'[t].src = q /\ loc'[t].level = l - 1 /\ loc'[t].job = loc[t].job
      /\ Others(t)
    BY DEF NextLevel, Shape, LocFields, Others, Stock, Stocked
<1>2. l - 1 \in Levels /\ Under(queue[q], l) = Under(queue[q], l - 1)
    BY <1>1, UnderEmpty
<1>3. Change(t)
    BY <1>1, Changes DEF Others
<1>4. \A r \in Queues, k \in Levels :
          Cardinality(Scanning(r, k)') = IF r = q /\ k = l - 1 THEN Cardinality(Scanning(r, k)) + 1
                                         ELSE Cardinality(Scanning(r, k))
    <2> TAKE r \in Queues, k \in Levels
    <2>1. /\ Scans(t, r, k) = IF r = q /\ l <= k THEN 1 ELSE 0
          /\ Scans(t, r, k)' = IF r = q /\ l - 1 <= k THEN 1 ELSE 0
        BY <1>1 DEF Scans
    <2>2. Cardinality(Scanning(r, k)) \in Nat
        BY ScanningCount
    <2>3. l - 1 <= k <=> l <= k \/ k = l - 1
        BY <1>1 DEF Levels
    <2>4. l \in Int /\ k \in Int
        BY <1>1 DEF Levels
    <2> QED
        BY <1>3, <2>1, <2>2, <2>3, <2>4 DEF Change
<1>5. \A r \in Queues : Counting(r)' = Counting(r)
    BY <1>1 DEF Counting, Others
<1>6. Stocked'
    BY <1>1, <1>2 DEF Stock, Stocked, Others
<1>7. Balance'
    <2>1. Top # l - 1
        BY <1>1 DEF Levels, Top
    <2> QED
        BY <1>1, <1>4, <1>5, <2>1, LevelNumbers DEF Stock, Balance
<1>8. Cardinality(Scanning(q, l - 1)') <= Under(queue[q], l - 1)
    <2>1. Cardinality(Scanning(q, l)') <= Under(queue[q], l)
        <3>1. l # l - 1
            BY <1>1 DEF Levels
        <3>2. Cardinality(Scanning(q, l)') = Cardinality(Scanning(q, l))
            BY <1>4, <3>1
        <3>3. Covered
            BY ExpectedIs DEF Stock
        <3> QED
            BY <3>2, <3>3 DEF Covered
    <2>2. Scanning(q, l - 1)' \subseteq Scanning(q, l)'
        <3> SUFFICES ASSUME NEW u \in Threads, pc'[u] = "scan", loc'[u].level <= l - 1, loc'[u].src = q
                     PROVE  loc'[u].level <= l
            BY DEF Scanning
        <3>1. loc'[u].level \in Int /\ l \in Int
            BY <1>1, <1>6 DEF Stocked, Levels
        <3> QED
            BY <3>1
    <2>3. Cardinality(Scanning(q, l - 1)') <= Cardinality(Scanning(q, l)')
        BY <2>2, ScanningCountNext, FS_Subset
    <2>4. Cardinality(Scanning(q, l - 1)') \in Nat /\ Cardinality(Scanning(q, l)') \in Nat
        BY ScanningCountNext
    <2>5. Under(queue[q], l) \in Nat
        BY <1>1, UnderType
    <2> QED
        BY <1>2, <2>1, <2>3, <2>4, <2>5
<1>9. Covered'
    <2> SUFFICES ASSUME NEW r \in Queues, NEW k \in Levels
                 PROVE  Cardinality(Scanning(r, k)') <= Under(queue'[r], k)
        BY DEF Covered
    <2>1. CASE r = q /\ k = l - 1
        BY <2>1, <1>1, <1>8
    <2>2. CASE ~(r = q /\ k = l - 1)
        BY <2>2, <1>1, <1>4, ExpectedIs DEF Stock, Covered
    <2> QED
        BY <2>1, <2>2
<1> QED
    BY <1>6, <1>7, <1>9, ExpectedIsNext DEF Stock

\* An entry that is taken is the one promised to the thread that takes it.
LEMMA StockTake ==
    ASSUME Shape, Stock, Prios', NEW t \in Threads, TakeJob(t)
    PROVE  Stock'
<1> USE Numbers
<1>0. loc[t].src \in Queues /\ loc[t].level \in Levels
    BY DEF TakeJob, Stock, Stocked
<1> SUFFICES ASSUME NEW q \in Queues, NEW l \in Levels, loc[t].src = q, loc[t].level = l
             PROVE  Stock'
    BY <1>0
<1> DEFINE s == queue[q]
<1>1. /\ pc[t] = "scan"
      /\ s \in Stacks /\ s[l] # <<>> /\ s[l] \in Seq(Jobs)
      /\ queue \in [Queues -> Stacks] /\ items' = items
    BY DEF TakeJob, Stock, Stocked, Stacks
<1>2. /\ queue' = [queue EXCEPT ![q] = [s EXCEPT ![l] = Tail(s[l])]]
      /\ pc'[t] \in {"service", "taken"}
      /\ Others(t)
    BY <1>1 DEF TakeJob, Goto, Shape, Others, Stacks
<1>3. Tail(s[l]) \in Seq(Jobs) /\ Len(Tail(s[l])) = Len(s[l]) - 1 /\ Len(s[l]) \in Nat
    BY <1>1, HeadTailProperties
<1>4. Change(t)
    BY <1>2, Changes DEF Others
<1> DEFINE r == [s EXCEPT ![l] = Tail(s[l])]
<1>5. r \in Stacks /\ \A k \in Levels : Under(r, k) = IF l <= k THEN Under(s, k) - 1 ELSE Under(s, k)
    <2> DEFINE v == Tail(s[l])
    <2>1. v \in Seq(Jobs) /\ Len(v) - Len(s[l]) = -1
        BY <1>3
    <2> HIDE DEF v, s
    <2>2. /\ [s EXCEPT ![l] = v] \in Stacks
          /\ \A k \in Levels : Under([s EXCEPT ![l] = v], k) =
                 IF l <= k THEN Under(s, k) + (Len(v) - Len(s[l])) ELSE Under(s, k)
        BY <1>1, <2>1, UnderChange
    <2>3. \A k \in Levels : Under(s, k) \in Nat
        BY <1>1, UnderType
    <2> QED
        BY <2>1, <2>2, <2>3 DEF v
<1>6. queue'[q] = r /\ \A p \in Queues \ {q} : queue'[p] = queue[p]
    BY <1>1, <1>2
<1>a. queue' \in [Queues -> Stacks]
    BY <1>1, <1>2, <1>5
<1>b. s = queue[q]
    OBVIOUS
<1> HIDE DEF r, s
<1>7. \A p \in Queues, k \in Levels :
          /\ Cardinality(Scanning(p, k)') = IF p = q /\ l <= k THEN Cardinality(Scanning(p, k)) - 1
                                            ELSE Cardinality(Scanning(p, k))
          /\ Under(queue'[p], k) = IF p = q /\ l <= k THEN Under(queue[p], k) - 1
                                   ELSE Under(queue[p], k)
    <2> TAKE p \in Queues, k \in Levels
    <2>1. Scans(t, p, k) = (IF p = q /\ l <= k THEN 1 ELSE 0) /\ Scans(t, p, k)' = 0
        BY <1>1, <1>2 DEF Scans
    <2>2. Cardinality(Scanning(p, k)) \in Nat
        BY ScanningCount
    <2>3. /\ Cardinality(Scanning(p, k)') = IF p = q /\ l <= k THEN Cardinality(Scanning(p, k)) - 1
                                            ELSE Cardinality(Scanning(p, k))
        BY <1>4, <2>1, <2>2 DEF Change
    <2> QED
        BY <1>5, <1>6, <1>b, <2>3
<1>8. \A p \in Queues, k \in Levels : Cardinality(Scanning(p, k)) \in Nat /\ Under(queue[p], k) \in Nat
    BY <1>1, ScanningCount, UnderType
<1>9. \A p \in Queues : Counting(p)' = Counting(p) /\ Counting(p) \in Nat
    BY <1>1, <1>2 DEF Counting, Others
<1>10. Stocked'
    BY <1>1, <1>2, <1>a DEF Stock, Stocked, Others
<1>11. Balance'
    <2> SUFFICES ASSUME NEW p \in Queues
                 PROVE  items'[p] + Cardinality(Scanning(p, Top)') + Counting(p)' = Under(queue'[p], Top)
        BY DEF Balance
    <2>1. items[p] + Cardinality(Scanning(p, Top)) + Counting(p) = Under(queue[p], Top)
        BY DEF Stock, Balance
    <2>2. l <= Top /\ Top \in Levels
        BY <1>1, LevelNumbers
    <2>3. items[p] \in Nat /\ items'[p] = items[p]
        BY <1>1 DEF Stock, Stocked
    <2>4. /\ Cardinality(Scanning(p, Top)') = IF p = q THEN Cardinality(Scanning(p, Top)) - 1
                                              ELSE Cardinality(Scanning(p, Top))
          /\ Under(queue'[p], Top) = IF p = q THEN Under(queue[p], Top) - 1 ELSE Under(queue[p], Top)
        BY <1>7, <2>2
    <2>5. /\ Cardinality(Scanning(p, Top)) \in Nat /\ Under(queue[p], Top) \in Nat
          /\ Counting(p)' = Counting(p) /\ Counting(p) \in Nat
        BY <1>8, <1>9, <2>2
    <2> QED
        BY <2>1, <2>3, <2>4, <2>5
<1>12. Covered'
    <2> SUFFICES ASSUME NEW p \in Queues, NEW k \in Levels
                 PROVE  Cardinality(Scanning(p, k)') <= Under(queue'[p], k)
        BY DEF Covered
    <2>1. Cardinality(Scanning(p, k)) <= Under(queue[p], k)
        BY ExpectedIs DEF Stock, Covered
    <2> QED
        BY <1>7, <1>8, <2>1
<1> QED
    BY <1>10, <1>11, <1>12, ExpectedIsNext DEF Stock

\* The item first: an entry more that nobody relies on yet.
LEMMA StockPush ==
    ASSUME Shape, Stock, Prios', PushItem
    PROVE  Stock'
<1> USE Numbers
<1>0. loc[Main].src \in Queues /\ loc[Main].job \in Jobs
    BY DEF PushItem, Stock, Stocked
<1> SUFFICES ASSUME NEW q \in Queues, NEW j \in Jobs, NEW l \in Levels,
                    loc[Main].src = q, loc[Main].job = j, job[j].prio = l
             PROVE  Stock'
    BY <1>0 DEF Stock, Prios
<1> DEFINE s == queue[q]
           v == Append(s[l], j)
           r == [s EXCEPT ![l] = v]
<1>1. /\ queue \in [Queues -> Stacks] /\ s \in Stacks /\ s[l] \in Seq(Jobs)
      /\ pc[Main] = "pushItem" /\ UNCHANGED <<loc, items>>
    BY DEF PushItem, Stock, Stocked, Stacks
<1>2. queue' = [queue EXCEPT ![q] = r] /\ pc'[Main] = "countItem" /\ Others(Main)
    BY <1>1 DEF PushItem, Goto, Shape, Others, Stacks
<1>3. v \in Seq(Jobs) /\ Len(v) - Len(s[l]) = 1
    BY <1>1, AppendProperties
<1>4. r \in Stacks /\ \A k \in Levels : Under(r, k) = IF l <= k THEN Under(s, k) + 1 ELSE Under(s, k)
    <2> HIDE DEF v, s
    <2>1. /\ [s EXCEPT ![l] = v] \in Stacks
          /\ \A k \in Levels : Under([s EXCEPT ![l] = v], k) =
                 IF l <= k THEN Under(s, k) + (Len(v) - Len(s[l])) ELSE Under(s, k)
        BY <1>1, <1>3, UnderChange
    <2> QED
        BY <1>3, <2>1
<1> HIDE DEF r
<1>5. queue'[q] = r /\ \A p \in Queues \ {q} : queue'[p] = queue[p]
    BY <1>1, <1>2
<1>6. queue' \in [Queues -> Stacks]
    BY <1>1, <1>2, <1>4
<1>7. Change(Main)
    BY <1>2, Changes DEF Others
<1>8. \A p \in Queues, k \in Levels :
          /\ Cardinality(Scanning(p, k)') = Cardinality(Scanning(p, k))
          /\ Under(queue'[p], k) = IF p = q /\ l <= k THEN Under(queue[p], k) + 1 ELSE Under(queue[p], k)
          /\ Cardinality(Scanning(p, k)) \in Nat /\ Under(queue[p], k) \in Nat
    <2> TAKE p \in Queues, k \in Levels
    <2>1. Scans(Main, p, k) = 0 /\ Scans(Main, p, k)' = 0
        BY <1>1, <1>2 DEF Scans
    <2>2. Cardinality(Scanning(p, k)) \in Nat /\ Under(queue[p], k) \in Nat
        BY <1>1, ScanningCount, UnderType
    <2>3. Cardinality(Scanning(p, k)') = Cardinality(Scanning(p, k))
        BY <1>7, <2>1, <2>2 DEF Change
    <2> QED
        BY <1>4, <1>5, <2>2, <2>3
<1>9. \A p \in Queues : Counting(p) = 0 /\ Counting(p)' = IF p = q THEN 1 ELSE 0
    BY <1>1, <1>2 DEF Counting
<1>10. Stocked'
    BY <1>1, <1>2, <1>6 DEF Stock, Stocked, Others
<1>11. Balance'
    <2> SUFFICES ASSUME NEW p \in Queues
                 PROVE  items'[p] + Cardinality(Scanning(p, Top)') + Counting(p)' = Under(queue'[p], Top)
        BY DEF Balance
    <2>1. items[p] + Cardinality(Scanning(p, Top)) + Counting(p) = Under(queue[p], Top)
        BY DEF Stock, Balance
    <2>2. l <= Top /\ Top \in Levels
        BY LevelNumbers
    <2>3. items[p] \in Nat /\ items'[p] = items[p]
        BY <1>1 DEF Stock, Stocked
    <2>4. /\ Cardinality(Scanning(p, Top)') = Cardinality(Scanning(p, Top))
          /\ Under(queue'[p], Top) = IF p = q THEN Under(queue[p], Top) + 1 ELSE Under(queue[p], Top)
          /\ Cardinality(Scanning(p, Top)) \in Nat /\ Under(queue[p], Top) \in Nat
        BY <1>8, <2>2
    <2>5. Counting(p) = 0 /\ Counting(p)' = IF p = q THEN 1 ELSE 0
        BY <1>9
    <2> QED
        BY <2>1, <2>3, <2>4, <2>5
<1>12. Covered'
    <2> SUFFICES ASSUME NEW p \in Queues, NEW k \in Levels
                 PROVE  Cardinality(Scanning(p, k)') <= Under(queue'[p], k)
        BY DEF Covered
    <2>1. Cardinality(Scanning(p, k)) <= Under(queue[p], k)
        BY ExpectedIs DEF Stock, Covered
    <2> QED
        BY <1>8, <2>1
<1> QED
    BY <1>10, <1>11, <1>12, ExpectedIsNext DEF Stock

\* Then the count.
LEMMA StockCount ==
    ASSUME Shape, Stock, Prios', CountItem
    PROVE  Stock'
<1> USE Numbers
<1>0. loc[Main].src \in Queues
    BY DEF CountItem, Stock, Stocked
<1> SUFFICES ASSUME NEW q \in Queues, loc[Main].src = q
             PROVE  Stock'
    BY <1>0
<1>1. /\ pc[Main] = "countItem" /\ queue' = queue /\ items' = [items EXCEPT ![q] = @ + 1]
      /\ pc'[Main] \in {"idle", "countJob"} /\ Others(Main)
    BY DEF CountItem, Goto, Return, Shape, Others
<1>2. Change(Main)
    BY <1>1, Changes DEF Others
<1>3. \A p \in Queues, k \in Levels :
          /\ Cardinality(Scanning(p, k)') = Cardinality(Scanning(p, k))
          /\ Cardinality(Scanning(p, k)) \in Nat
    <2> TAKE p \in Queues, k \in Levels
    <2>1. Scans(Main, p, k) = 0 /\ Scans(Main, p, k)' = 0
        BY <1>1 DEF Scans
    <2>2. Cardinality(Scanning(p, k)) \in Nat
        BY ScanningCount
    <2> QED
        BY <1>2, <2>1, <2>2 DEF Change
<1>4. \A p \in Queues : Counting(p)' = 0 /\ Counting(p) = IF p = q THEN 1 ELSE 0
    BY <1>1 DEF Counting
<1>5. Stocked'
    BY <1>1 DEF Stock, Stocked, Others
<1>6. Balance'
    <2> SUFFICES ASSUME NEW p \in Queues
                 PROVE  items'[p] + Cardinality(Scanning(p, Top)') + Counting(p)' = Under(queue'[p], Top)
        BY DEF Balance
    <2>1. items[p] + Cardinality(Scanning(p, Top)) + Counting(p) = Under(queue[p], Top)
        BY DEF Stock, Balance
    <2>2. items[p] \in Nat /\ items'[p] = IF p = q THEN items[p] + 1 ELSE items[p]
        BY <1>1 DEF Stock, Stocked
    <2>3. /\ Cardinality(Scanning(p, Top)') = Cardinality(Scanning(p, Top))
          /\ Cardinality(Scanning(p, Top)) \in Nat
        BY <1>3, LevelNumbers
    <2>4. Counting(p)' = 0 /\ Counting(p) = IF p = q THEN 1 ELSE 0
        BY <1>4
    <2>5. queue'[p] = queue[p]
        BY <1>1
    <2> QED
        BY <2>1, <2>2, <2>3, <2>4, <2>5
<1>7. Covered'
    BY <1>1, <1>3, ExpectedIs DEF Stock, Covered
<1> QED
    BY <1>5, <1>6, <1>7, ExpectedIsNext DEF Stock

\* When nobody scans, the items are the entries.
LEMMA StockQuiet ==
    ASSUME Prios', \A t \in Threads : pc'[t] # "scan", pc'[Main] = "idle",
           queue' \in [Queues -> Stacks],
           \A q \in Queues : items'[q] = Under(queue'[q], Top),
           DOMAIN items' = Queues, items' = [q \in Queues |-> items'[q]]
    PROVE  Stock'
<1> USE Numbers
<1>1. \A q \in Queues, l \in Levels : Under(queue'[q], l) \in Nat
    BY UnderType
<1>2. \A q, l : Cardinality(Scanning(q, l)') = 0
    <2> TAKE q, l
    <2>1. Scanning(q, l)' = {}
        BY DEF Scanning
    <2> QED
        BY <2>1, FS_EmptySet
<1>3. \A q \in Queues : Counting(q)' = 0
    BY DEF Counting
<1>4. Stocked'
    <2>1. items' \in [Queues -> Nat]
        BY <1>1, LevelNumbers
    <2> QED
        BY <2>1 DEF Stocked
<1>5. Balance'
    BY <1>1, <1>2, <1>3, LevelNumbers DEF Balance
<1>6. Covered'
    BY <1>1, <1>2 DEF Covered
<1> QED
    BY <1>4, <1>5, <1>6, ExpectedIsNext DEF Stock

\* Nobody scans when the pool is suspended, or stopped.
LEMMA NobodyScans ==
    ASSUME Protocol, pc[Main] = "suspended" \/ (pc[Main] = "join" /\ Stopped)
    PROVE  \A t \in Threads : pc[t] # "scan" /\ (t # Main => t \in Workers)
<1>1. \A w \in Workers : pc[w] \in {"asleep", "dead"}
    BY DEF Protocol, Sleepers, Stopped
<1> QED
    BY <1>1 DEF Threads

\* AbortAll empties every queue, and the counts.
LEMMA StockAbort ==
    ASSUME Protocol, Stock, Prios', AbortAll
    PROVE  Stock'
<1> USE Numbers
<1>1. /\ queue' = [q \in Queues |-> [l \in Levels |-> <<>>]]
      /\ items' = [q \in Queues |-> 0]
      /\ pc[Main] = "suspended" /\ pc' = [pc EXCEPT ![Main] = "idle"]
    BY DEF AbortAll, Return, Goto
<1>2. [l \in Levels |-> <<>>] \in Stacks
    BY EmptySeq DEF Stacks
<1>3. queue' \in [Queues -> Stacks]
    BY <1>1, <1>2
<1>4. \A q \in Queues : items'[q] = Under(queue'[q], Top)
    BY <1>1, UnderNothing, LevelNumbers
<1>5. pc'[Main] = "idle" /\ \A t \in Threads : pc'[t] # "scan"
    BY <1>1, NobodyScans DEF Protocol, Shape
<1>6. DOMAIN items' = Queues /\ items' = [q \in Queues |-> items'[q]]
    BY <1>1
<1> QED
    BY <1>3, <1>4, <1>5, <1>6, StockQuiet

\* Stop flushes the shared queue only.
LEMMA StockJoin ==
    ASSUME Protocol, Stock, Prios', Join
    PROVE  Stock'
<1> USE Numbers
<1> DEFINE none == [l \in Levels |-> <<>>]
<1>1. /\ queue' = [queue EXCEPT ![Shared] = none]
      /\ items' = [items EXCEPT ![Shared] = 0]
      /\ pc[Main] = "join" /\ Stopped /\ pc' = [pc EXCEPT ![Main] = "idle"]
    BY DEF Join, Return, Goto
<1>2. none \in Stacks /\ Under(none, Top) = 0
    BY EmptySeq, UnderNothing, LevelNumbers DEF Stacks
<1> HIDE DEF none
<1>3. queue \in [Queues -> Stacks] /\ items \in [Queues -> Nat]
    BY DEF Stock, Stocked
<1>4. queue' \in [Queues -> Stacks]
    BY <1>1, <1>2, <1>3
<1>5. ASSUME NEW q \in Queues PROVE items'[q] = Under(queue'[q], Top)
    <2>1. CASE q = Shared
        BY <2>1, <1>1, <1>2, <1>3
    <2>2. CASE q # Shared
        <3>1. Scanning(q, Top) = {}
            BY <1>1, NobodyScans DEF Scanning
        <3>2. Cardinality(Scanning(q, Top)) = 0
            BY <3>1, FS_EmptySet
        <3>3. Counting(q) = 0
            BY <1>1 DEF Counting
        <3>4. items[q] + Cardinality(Scanning(q, Top)) + Counting(q) = Under(queue[q], Top)
            BY DEF Stock, Balance
        <3>5. items'[q] = items[q] /\ queue'[q] = queue[q] /\ items[q] \in Nat
            BY <2>2, <1>1, <1>3
        <3> QED
            BY <3>2, <3>3, <3>4, <3>5
    <2> QED
        BY <2>1, <2>2
<1>6. pc'[Main] = "idle" /\ \A t \in Threads : pc'[t] # "scan"
    BY <1>1, NobodyScans DEF Protocol, Shape
<1>7. DOMAIN items' = Queues /\ items' = [q \in Queues |-> items'[q]]
    BY <1>1, <1>3
<1> QED
    BY <1>4, <1>5, <1>6, <1>7, StockQuiet
-----------------------------------------------------------------------------
(* The entries of several queues are counted as a set of places.             *)

\* W has as many numbers for each level of each queue of qs as entries are there.
Numbered(W, qs) ==
    \A q \in Queues, l \in Levels :
        /\ W[q][l] \subseteq Int /\ IsFiniteSet(W[q][l])
        /\ Cardinality(W[q][l]) = Len(qs[q][l])

\* The places at levels L of queues Q.
Slots(W, Q, L) == {x \in Q \X L \X Int : x[3] \in W[x[1]][x[2]]}

\* Lengths of what is joined exist.
LEMMA LengthsExist ==
    ASSUME NEW X, NEW n \in Nat, NEW g \in [1 .. n -> Seq(X)]
    PROVE  \E P \in [0 .. n -> Int] : Lengths(P, g, n)
<1> DEFINE step == [k \in 1 .. n |-> [v \in Int |-> v + Len(g[k])]]
<1>1. n \in Nat /\ 0 \in Int /\ step \in Steps(Int, n)
    <2>1. \A k \in 1 .. n : Len(g[k]) \in Nat
        OBVIOUS
    <2> QED
        BY <2>1 DEF Steps
<1>2. \A k \in 1 .. n, v \in Int : step[k][v] = v + Len(g[k])
    OBVIOUS
<1> HIDE DEF step
<1>3. PICK P : Recursive(P, Int, n, 0, step)
    <2> HIDE DEF step
    <2> QED
        BY <1>1, Recursion
<1>4. P \in [0 .. n -> Int] /\ \A k \in 0 .. n : P[k] = IF k = 0 THEN 0 ELSE step[k][P[k - 1]]
    BY <1>3 DEF Recursive
<1>5. ASSUME NEW k \in 1 .. n PROVE P[k] = P[k - 1] + Len(g[k])
    <2>1. k \in 0 .. n /\ k - 1 \in 0 .. n /\ k # 0
        OBVIOUS
    <2>2. P[k] = step[k][P[k - 1]] /\ P[k - 1] \in Int
        BY <1>4, <2>1
    <2> QED
        BY <1>2, <2>2
<1>6. P[0] = 0
    BY <1>4
<1> QED
    BY <1>4, <1>5, <1>6 DEF Lengths

\* Disjoint sets, as large as the members of g are long.
Measures(A, g, n) ==
    /\ \A k \in 1 .. n : IsFiniteSet(A[k]) /\ Cardinality(A[k]) = Len(g[k])
    /\ \A j, k \in 1 .. n : j # k => A[j] \cap A[k] = {}

\* Their union is as large as what FlattenSeq joins is long.
LEMMA FlattenMeasure ==
    ASSUME NEW X, NEW n \in Nat, NEW g \in [1 .. n -> Seq(X)], NEW A, Measures(A, g, n)
    PROVE  LET U == UNION {A[k] : k \in 1 .. n}
           IN  IsFiniteSet(U) /\ Cardinality(U) = Len(FlattenSeq(g))
<1>1. PICK P \in [0 .. n -> Int] : Lengths(P, g, n)
    BY LengthsExist
<1>2. Len(FlattenSeq(g)) = P[n]
    BY <1>1, FlattenLength
<1> DEFINE U(m) == UNION {A[k] : k \in 1 .. m}
           S == {m \in 0 .. n : IsFiniteSet(U(m)) /\ Cardinality(U(m)) = P[m]}
<1>3. 0 \in S
    <2>1. U(0) = {}
        OBVIOUS
    <2>2. IsFiniteSet(U(0)) /\ Cardinality(U(0)) = 0
        BY <2>1, FS_EmptySet
    <2> HIDE DEF U
    <2>3. P[0] = 0
        BY <1>1 DEF Lengths
    <2> QED
        BY <2>2, <2>3
<1>4. ASSUME NEW m \in 0 .. n - 1, m \in S PROVE m + 1 \in S
    <2> DEFINE k == m + 1
    <2>1. k \in 1 .. n /\ k \in 0 .. n /\ k - 1 = m
        OBVIOUS
    <2>2. U(k) = U(m) \cup A[k]
        <3>1. \A i : i \in 1 .. k <=> i \in 1 .. m \/ i = k
            OBVIOUS
        <3> HIDE DEF k
        <3> QED
            BY <3>1
    <2>3. U(m) \cap A[k] = {}
        <3>1. \A i \in 1 .. m : i \in 1 .. n /\ i # k
            OBVIOUS
        <3> HIDE DEF k
        <3> QED
            BY <2>1, <3>1 DEF Measures
    <2> HIDE DEF U, k
    <2>4. IsFiniteSet(U(m)) /\ Cardinality(U(m)) = P[m] /\ P[m] \in Int
        BY <1>1, <1>4
    <2>5. IsFiniteSet(A[k]) /\ Cardinality(A[k]) = Len(g[k]) /\ g[k] \in Seq(X)
        BY <2>1 DEF Measures
    <2>6. /\ IsFiniteSet(U(m) \cup A[k])
          /\ Cardinality(U(m) \cup A[k])
                = Cardinality(U(m)) + Cardinality(A[k]) - Cardinality(U(m) \cap A[k])
        BY <2>4, <2>5, FS_Union
    <2>7. Cardinality(U(m) \cap A[k]) = 0
        BY <2>3, FS_EmptySet
    <2>8. P[k] = P[m] + Len(g[k])
        BY <1>1, <2>1 DEF Lengths
    <2>9. IsFiniteSet(U(k)) /\ Cardinality(U(k)) = P[k]
        BY <2>2, <2>4, <2>5, <2>6, <2>7, <2>8, LenProperties
    <2> QED
        BY <2>1, <2>9 DEF k
<1> HIDE DEF S
<1>5. 0 .. n \subseteq S
    BY <1>3, <1>4, InductionTo
<1>6. n \in S
    BY <1>5
<1> HIDE DEF U
<1>7. IsFiniteSet(U(n)) /\ Cardinality(U(n)) = P[n]
    BY <1>6 DEF S
<1> QED
    BY <1>2, <1>7 DEF U

\* One level.
LEMMA SlotsLevel ==
    ASSUME NEW qs, NEW W, Numbered(W, qs), NEW q \in Queues, NEW l \in Levels
    PROVE  /\ IsFiniteSet(Slots(W, {q}, {l}))
           /\ Cardinality(Slots(W, {q}, {l})) = Len(qs[q][l])
<1> DEFINE N == W[q][l]
           S == Slots(W, {q}, {l})
           f == [i \in N |-> <<q, l, i>>]
<1>1. N \subseteq Int /\ IsFiniteSet(N) /\ Cardinality(N) = Len(qs[q][l])
    BY DEF Numbered
<1>2. \A x : x \in S <=> \E i \in N : x = <<q, l, i>>
    BY <1>1 DEF Slots
<1> HIDE DEF S, N
<1>3. f \in Bijection(N, S)
    <2>1. f \in [N -> S]
        BY <1>2
    <2>2. \A a, b \in N : f[a] = f[b] => a = b
        OBVIOUS
    <2>3. \A x \in S : \E a \in N : f[a] = x
        BY <1>2
    <2> QED
        BY <2>1, <2>2, <2>3, Fun_IsBij
<1>4. ExistsBijection(N, S)
    BY <1>3 DEF ExistsBijection
<1>5. IsFiniteSet(S) /\ Cardinality(S) = Cardinality(N)
    BY <1>1, <1>4, FS_Bijection
<1> QED
    BY <1>1, <1>5 DEF S

\* The queues by number.
LEMMA QueueNumbers ==
    /\ NumThreads + 1 \in Nat
    /\ \A k \in 1 .. NumThreads + 1 : k - 1 \in Queues
    /\ \A q \in Queues : q \in Nat /\ q + 1 \in 1 .. NumThreads + 1 /\ q + 1 - 1 = q
BY Numbers DEF Queues, Workers, Shared

\* Sequences that are as long as the places of their queue are many.
LikeQueues(W, L, g) ==
    /\ g \in [1 .. NumThreads + 1 -> Seq(Jobs)]
    /\ \A k \in 1 .. NumThreads + 1 : /\ IsFiniteSet(Slots(W, {k - 1}, L))
                                      /\ Cardinality(Slots(W, {k - 1}, L)) = Len(g[k])

\* Joined they are as long as all these places are many.
LEMMA SlotsByQueue ==
    ASSUME NEW W, NEW L, NEW g, LikeQueues(W, L, g)
    PROVE  /\ FlattenSeq(g) \in Seq(Jobs)
           /\ IsFiniteSet(Slots(W, Queues, L))
           /\ Cardinality(Slots(W, Queues, L)) = Len(FlattenSeq(g))
<1> DEFINE n == NumThreads + 1
           A == [k \in 1 .. n |-> Slots(W, {k - 1}, L)]
           U == UNION {A[k] : k \in 1 .. n}
<1>1. Measures(A, g, n)
    <2>1. ASSUME NEW j \in 1 .. n, NEW k \in 1 .. n, j # k PROVE A[j] \cap A[k] = {}
        <3>1. j - 1 # k - 1
            BY <2>1, QueueNumbers
        <3> QED
            BY <3>1 DEF Slots
    <2> QED
        BY <2>1 DEF Measures, LikeQueues
<1>2. U = Slots(W, Queues, L)
    <2>1. ASSUME NEW x \in U PROVE x \in Slots(W, Queues, L)
        <3>1. PICK k \in 1 .. n : x \in Slots(W, {k - 1}, L)
            OBVIOUS
        <3> QED
            BY <3>1, QueueNumbers DEF Slots
    <2>2. ASSUME NEW x \in Slots(W, Queues, L) PROVE x \in U
        <3>1. PICK k \in 1 .. n : k - 1 = x[1]
            BY QueueNumbers DEF Slots
        <3>2. x \in Slots(W, {k - 1}, L)
            BY <3>1 DEF Slots
        <3> QED
            BY <3>2
    <2> QED
        BY <2>1, <2>2
<1>3. n \in Nat /\ g \in [1 .. n -> Seq(Jobs)]
    BY QueueNumbers DEF LikeQueues
<1> HIDE DEF n, A
<1>4. FlattenSeq(g) \in Seq(Jobs)
    BY <1>3, FlattenType
<1>5. IsFiniteSet(U) /\ Cardinality(U) = Len(FlattenSeq(g))
    BY <1>1, <1>3, FlattenMeasure
<1> QED
    BY <1>2, <1>4, <1>5

\* The same, level by level from the top down to p.
LikeLevels(W, Q, p, g) ==
    /\ g \in [1 .. NumPriorities - p -> Seq(Jobs)]
    /\ \A k \in 1 .. NumPriorities - p :
           /\ IsFiniteSet(Slots(W, Q, {NumPriorities - k}))
           /\ Cardinality(Slots(W, Q, {NumPriorities - k})) = Len(g[k])

\* Joined they are as long as all these places are many.
LEMMA SlotsByLevel ==
    ASSUME NEW W, NEW Q, NEW p \in Levels, NEW g, LikeLevels(W, Q, p, g)
    PROVE  /\ FlattenSeq(g) \in Seq(Jobs)
           /\ IsFiniteSet(Slots(W, Q, p .. Top))
           /\ Cardinality(Slots(W, Q, p .. Top)) = Len(FlattenSeq(g))
<1> DEFINE m == NumPriorities
           n == m - p
           A == [k \in 1 .. n |-> Slots(W, Q, {m - k})]
           U == UNION {A[k] : k \in 1 .. n}
<1>0. n \in Nat /\ m \in Nat /\ \A k \in 1 .. n : m - k \in p .. Top
    BY LevelNumbers DEF Levels, Top
<1>1. Measures(A, g, n)
    <2>1. ASSUME NEW j \in 1 .. n, NEW k \in 1 .. n, j # k PROVE A[j] \cap A[k] = {}
        <3>1. m - j # m - k
            BY <1>0, <2>1
        <3> QED
            BY <3>1 DEF Slots
    <2> QED
        BY <2>1 DEF Measures, LikeLevels
<1>2. U = Slots(W, Q, p .. Top)
    <2>1. ASSUME NEW x \in U PROVE x \in Slots(W, Q, p .. Top)
        <3>1. PICK k \in 1 .. n : x \in Slots(W, Q, {m - k})
            OBVIOUS
        <3> QED
            BY <1>0, <3>1 DEF Slots
    <2>2. ASSUME NEW x \in Slots(W, Q, p .. Top) PROVE x \in U
        <3>1. \A l \in p .. Top : m - l \in 1 .. n /\ m - (m - l) = l
            BY LevelNumbers DEF Levels, Top
        <3>2. x[2] \in p .. Top
            BY DEF Slots
        <3>3. PICK k \in 1 .. n : m - k = x[2]
            BY <3>1, <3>2
        <3>4. x \in Slots(W, Q, {m - k})
            BY <3>3 DEF Slots
        <3> QED
            BY <3>4
    <2> QED
        BY <2>1, <2>2
<1>3. n \in Nat /\ g \in [1 .. n -> Seq(Jobs)]
    BY <1>0 DEF LikeLevels
<1> HIDE DEF m, n, A
<1>4. FlattenSeq(g) \in Seq(Jobs)
    BY <1>3, FlattenType
<1>5. IsFiniteSet(U) /\ Cardinality(U) = Len(FlattenSeq(g))
    BY <1>1, <1>3, FlattenMeasure
<1> QED
    BY <1>2, <1>4, <1>5

\* The places of one queue are as many as its entries.
LEMMA SlotsEntries ==
    ASSUME NEW qs \in [Queues -> Stacks], NEW W, Numbered(W, qs), NEW q \in Queues
    PROVE  /\ Entries(qs, q) \in Seq(Jobs)
           /\ IsFiniteSet(Slots(W, {q}, Levels))
           /\ Cardinality(Slots(W, {q}, Levels)) = Len(Entries(qs, q))
<1> DEFINE m == NumPriorities
           g == [k \in 1 .. m |-> qs[q][m - k]]
<1>1. 0 \in Levels /\ m - 0 = m /\ 0 .. Top = Levels
    BY LevelNumbers DEF Levels, Top
<1>2. \A k \in 1 .. m : m - k \in Levels /\ qs[q][m - k] \in Seq(Jobs)
    BY LevelNumbers DEF Stacks
<1>3. \A k \in 1 .. m : /\ IsFiniteSet(Slots(W, {q}, {m - k}))
                        /\ Cardinality(Slots(W, {q}, {m - k})) = Len(qs[q][m - k])
    BY <1>2, SlotsLevel
<1>4. g \in [1 .. m -> Seq(Jobs)] /\ \A k \in 1 .. m : g[k] = qs[q][m - k]
    BY <1>2
<1>5. Entries(qs, q) = FlattenSeq(g)
    BY DEF Entries
<1> HIDE DEF g
<1>6. LikeLevels(W, {q}, 0, g)
    BY <1>1, <1>3, <1>4 DEF LikeLevels
<1> QED
    BY <1>1, <1>5, <1>6, SlotsByLevel

\* The entries of all queues.
All(qs) == FlattenSeq([k \in 1 .. NumThreads + 1 |-> Entries(qs, k - 1)])

\* They are as many as all places.
LEMMA SlotsAll ==
    ASSUME NEW qs \in [Queues -> Stacks], NEW W, Numbered(W, qs)
    PROVE  /\ IsFiniteSet(Slots(W, Queues, Levels))
           /\ Cardinality(Slots(W, Queues, Levels)) = Len(All(qs))
<1> DEFINE n == NumThreads + 1
           g == [k \in 1 .. n |-> Entries(qs, k - 1)]
<1>1. \A k \in 1 .. n : k - 1 \in Queues
    BY QueueNumbers
<1>2. \A k \in 1 .. n : g[k] = Entries(qs, k - 1)
    OBVIOUS
<1>3. g \in [1 .. n -> Seq(Jobs)]
    BY <1>1, SlotsEntries
<1>4. All(qs) = FlattenSeq(g)
    BY DEF All
<1> HIDE DEF g
<1>5. \A k \in 1 .. n : /\ IsFiniteSet(Slots(W, {k - 1}, Levels))
                        /\ Cardinality(Slots(W, {k - 1}, Levels)) = Len(g[k])
    BY <1>1, <1>2, SlotsEntries
<1>6. LikeQueues(W, Levels, g)
    BY <1>3, <1>5 DEF LikeQueues
<1> QED
    BY <1>4, <1>6, SlotsByQueue

\* The entries at one level of all queues, in the order ExecuteToPriority takes them.
AtLevel(qs, l) == FlattenSeq([k \in 1 .. NumThreads + 1 |-> qs[k - 1][l]])

\* They are as many as the places at that level.
LEMMA SlotsRow ==
    ASSUME NEW qs \in [Queues -> Stacks], NEW W, Numbered(W, qs), NEW l \in Levels
    PROVE  /\ AtLevel(qs, l) \in Seq(Jobs)
           /\ IsFiniteSet(Slots(W, Queues, {l}))
           /\ Cardinality(Slots(W, Queues, {l})) = Len(AtLevel(qs, l))
<1> DEFINE n == NumThreads + 1
           g == [k \in 1 .. n |-> qs[k - 1][l]]
<1>1. \A k \in 1 .. n : k - 1 \in Queues
    BY QueueNumbers
<1>2. \A k \in 1 .. n : qs[k - 1][l] \in Seq(Jobs)
    BY <1>1 DEF Stacks
<1>3. g \in [1 .. n -> Seq(Jobs)] /\ \A k \in 1 .. n : g[k] = qs[k - 1][l]
    BY <1>2
<1>4. AtLevel(qs, l) = FlattenSeq(g)
    BY DEF AtLevel
<1> HIDE DEF g
<1>5. ASSUME NEW k \in 1 .. n
      PROVE  /\ IsFiniteSet(Slots(W, {k - 1}, {l}))
             /\ Cardinality(Slots(W, {k - 1}, {l})) = Len(g[k])
    <2>1. \A q \in Queues : /\ IsFiniteSet(Slots(W, {q}, {l}))
                            /\ Cardinality(Slots(W, {q}, {l})) = Len(qs[q][l])
        BY SlotsLevel
    <2> QED
        BY <1>1, <1>3, <2>1
<1>6. LikeQueues(W, {l}, g)
    BY <1>3, <1>5 DEF LikeQueues
<1> QED
    BY <1>4, <1>6, SlotsByQueue

\* What ExecuteToPriority takes out.
Popped(qs, p) == FlattenSeq([k \in 1 .. NumPriorities - p |-> AtLevel(qs, NumPriorities - k)])

\* It is as much as there are places from level p up.
LEMMA SlotsPopped ==
    ASSUME NEW qs \in [Queues -> Stacks], NEW W, Numbered(W, qs), NEW p \in Levels
    PROVE  /\ Popped(qs, p) \in Seq(Jobs)
           /\ IsFiniteSet(Slots(W, Queues, p .. Top))
           /\ Cardinality(Slots(W, Queues, p .. Top)) = Len(Popped(qs, p))
<1> DEFINE m == NumPriorities
           g == [k \in 1 .. m - p |-> AtLevel(qs, m - k)]
<1>1. \A k \in 1 .. m - p : m - k \in Levels
    BY LevelNumbers DEF Levels, Top
<1>2. \A k \in 1 .. m - p : AtLevel(qs, m - k) \in Seq(Jobs)
    BY <1>1, SlotsRow
<1>3. g \in [1 .. m - p -> Seq(Jobs)] /\ \A k \in 1 .. m - p : g[k] = AtLevel(qs, m - k)
    BY <1>2
<1>4. Popped(qs, p) = FlattenSeq(g)
    BY DEF Popped
<1> HIDE DEF g
<1>5. \A k \in 1 .. m - p : /\ IsFiniteSet(Slots(W, Queues, {m - k}))
                            /\ Cardinality(Slots(W, Queues, {m - k})) = Len(g[k])
    BY <1>1, <1>3, SlotsRow
<1>6. LikeLevels(W, Queues, p, g)
    BY <1>3, <1>5 DEF LikeLevels
<1> QED
    BY <1>4, <1>6, SlotsByLevel

\* What Only keeps is as long as the number of entries that are kept.
LEMMA OnlyLength ==
    ASSUME NEW X, NEW s \in Seq(X), NEW S
    PROVE  LET K == {i \in 1 .. Len(s) : s[i] \in S}
           IN  IsFiniteSet(K) /\ Len(Only(s, S)) = Cardinality(K)
<1> DEFINE n == Len(s)
           K(m) == {i \in 1 .. m : s[i] \in S}
<1>1. PICK r : Sieves(r, s, S, X) /\ Only(s, S) = r[n]
    BY OnlyIs
<1>a. n \in Nat
    OBVIOUS
<1>b. /\ r \in [0 .. n -> Seq(X)] /\ r[0] = <<>>
      /\ \A k \in 1 .. n : r[k] = IF s[k] \in S THEN Append(r[k - 1], s[k]) ELSE r[k - 1]
      /\ \A k \in 1 .. n : s[k] \in X
    BY <1>1 DEF Sieves
<1> HIDE DEF n
<1> DEFINE T == {m \in 0 .. n : IsFiniteSet(K(m)) /\ Len(r[m]) = Cardinality(K(m))}
<1>2. 0 \in T
    <2>1. K(0) = {}
        OBVIOUS
    <2>2. IsFiniteSet(K(0)) /\ Cardinality(K(0)) = 0
        BY <2>1, FS_EmptySet
    <2> HIDE DEF K
    <2>3. Len(r[0]) = 0
        BY <1>b
    <2> QED
        BY <1>a, <2>2, <2>3
<1>3. ASSUME NEW m \in 0 .. n - 1, m \in T PROVE m + 1 \in T
    <2> DEFINE k == m + 1
    <2>1. k \in 1 .. n /\ k \in 0 .. n /\ k - 1 = m
        BY <1>a
    <2>2. K(k) = (IF s[k] \in S THEN K(m) \cup {k} ELSE K(m)) /\ k \notin K(m)
        <3>1. \A i : i \in 1 .. k <=> i \in 1 .. m \/ i = k
            OBVIOUS
        <3>2. k \notin 1 .. m
            OBVIOUS
        <3> HIDE DEF k
        <3> QED
            BY <3>1, <3>2
    <2> HIDE DEF K, k
    <2>3. IsFiniteSet(K(m)) /\ Len(r[m]) = Cardinality(K(m)) /\ r[m] \in Seq(X)
        BY <1>3, <1>b
    <2>4. r[k] = (IF s[k] \in S THEN Append(r[m], s[k]) ELSE r[m]) /\ s[k] \in X
        BY <1>b, <2>1
    <2>5. CASE s[k] \in S
        <3>1. Len(r[k]) = Len(r[m]) + 1
            BY <2>3, <2>4, <2>5, AppendProperties
        <3>2. IsFiniteSet(K(k)) /\ Cardinality(K(k)) = Cardinality(K(m)) + 1
            BY <2>2, <2>3, <2>5, FS_AddElement
        <3>3. k \in T
            BY <2>1, <2>3, <3>1, <3>2
        <3> QED
            BY <3>3 DEF k
    <2>6. CASE s[k] \notin S
        <3>1. k \in T
            BY <2>1, <2>2, <2>3, <2>4, <2>6
        <3> QED
            BY <3>1 DEF k
    <2> QED
        BY <2>5, <2>6
<1> HIDE DEF T
<1>4. 0 .. n \subseteq T
    BY <1>a, <1>2, <1>3, InductionTo
<1>5. n \in T
    BY <1>a, <1>4
<1> HIDE DEF K
<1>6. IsFiniteSet(K(n)) /\ Len(r[n]) = Cardinality(K(n))
    BY <1>5 DEF T
<1> QED
    BY <1>1, <1>6 DEF K, n

\* What is put back at level l of queue q.
Back(s, q, l) == Only(s, {j \in Jobs : Target(j) = q /\ job[j].prio = l})

\* What the queues hold when the levels from p up were emptied and s was put back.
PutBack(qs, p, s) ==
    [q \in Queues |-> [l \in Levels |-> (IF l >= p THEN <<>> ELSE qs[q][l]) \o Back(s, q, l)]]

\* The numbers of the entries of qs, and of queues that s was put back to.
Indices(qs) == [q \in Queues |-> [l \in Levels |-> 1 .. Len(qs[q][l])]]
BackAt(s, q, l) == {i \in 1 .. Len(s) : Target(s[i]) = q /\ job[s[i]].prio = l}
BackIndices(qs, p, s) ==
    [q \in Queues |-> [l \in Levels |->
        (IF l >= p THEN {} ELSE 1 .. Len(qs[q][l])) \cup {-i : i \in BackAt(s, q, l)}]]

\* They are as many as the entries.
LEMMA IndicesNumber ==
    ASSUME NEW qs \in [Queues -> Stacks]
    PROVE  Numbered(Indices(qs), qs)
<1> SUFFICES ASSUME NEW q \in Queues, NEW l \in Levels
             PROVE  LET N == 1 .. Len(qs[q][l])
                    IN  N \subseteq Int /\ IsFiniteSet(N) /\ Cardinality(N) = Len(qs[q][l])
    BY DEF Numbered, Indices
<1>1. Len(qs[q][l]) \in Nat
    BY DEF Stacks
<1> QED
    BY <1>1, FS_Interval

\* As many jobs are put back to one level as belong there.
LEMMA BackLength ==
    ASSUME NEW s \in Seq(Jobs), NEW q, NEW l
    PROVE  /\ Back(s, q, l) \in Seq(Jobs)
           /\ IsFiniteSet({-i : i \in BackAt(s, q, l)})
           /\ Cardinality({-i : i \in BackAt(s, q, l)}) = Len(Back(s, q, l))
<1> DEFINE S == {j \in Jobs : Target(j) = q /\ job[j].prio = l}
           L == {i \in 1 .. Len(s) : s[i] \in S}
           M == {-i : i \in L}
           f == [i \in L |-> -i]
<1>1. IsFiniteSet(L) /\ Len(Only(s, S)) = Cardinality(L) /\ Only(s, S) \in Seq(Jobs)
    <2> HIDE DEF S
    <2> QED
        BY OnlyLength, OnlyType
<1>2. L = BackAt(s, q, l) /\ L \subseteq Int
    BY DEF BackAt
<1> HIDE DEF L
<1>3. f \in Bijection(L, M)
    <2>1. f \in [L -> M] /\ \A x \in M : \E a \in L : f[a] = x
        OBVIOUS
    <2>2. \A a, b \in L : f[a] = f[b] => a = b
        BY <1>2
    <2> QED
        BY <2>1, <2>2, Fun_IsBij
<1>4. ExistsBijection(L, M)
    BY <1>3 DEF ExistsBijection
<1>5. IsFiniteSet(M) /\ Cardinality(M) = Cardinality(L)
    BY <1>1, <1>4, FS_Bijection
<1> QED
    BY <1>1, <1>2, <1>5 DEF Back

\* Putting back gives each place its number.
LEMMA BackNumber ==
    ASSUME NEW qs \in [Queues -> Stacks], NEW p \in Levels, NEW s \in Seq(Jobs)
    PROVE  /\ PutBack(qs, p, s) \in [Queues -> Stacks]
           /\ Numbered(BackIndices(qs, p, s), PutBack(qs, p, s))
<1> DEFINE kept(q, l) == IF l >= p THEN <<>> ELSE qs[q][l]
           low(q, l) == IF l >= p THEN {} ELSE 1 .. Len(qs[q][l])
           high(q, l) == {-i : i \in BackAt(s, q, l)}
<1>1. ASSUME NEW q \in Queues, NEW l \in Levels
      PROVE  /\ PutBack(qs, p, s)[q][l] \in Seq(Jobs)
             /\ BackIndices(qs, p, s)[q][l] \subseteq Int
             /\ IsFiniteSet(BackIndices(qs, p, s)[q][l])
             /\ Cardinality(BackIndices(qs, p, s)[q][l]) = Len(PutBack(qs, p, s)[q][l])
    <2>1. kept(q, l) \in Seq(Jobs) /\ Len(kept(q, l)) \in Nat
        BY EmptySeq DEF Stacks
    <2>2. PutBack(qs, p, s)[q][l] = kept(q, l) \o Back(s, q, l)
        BY DEF PutBack
    <2>3. BackIndices(qs, p, s)[q][l] = low(q, l) \cup high(q, l)
        BY DEF BackIndices
    <2>4. IsFiniteSet(low(q, l)) /\ Cardinality(low(q, l)) = Len(kept(q, l))
        <3>1. CASE l >= p
            BY <3>1, FS_EmptySet
        <3>2. CASE ~(l >= p)
            <4> DEFINE n == Len(qs[q][l])
            <4>1. n \in Nat
                BY <2>1, <3>2
            <4> HIDE DEF n
            <4>2. IsFiniteSet(1 .. n) /\ Cardinality(1 .. n) = n
                BY <4>1, FS_Interval
            <4> QED
                BY <3>2, <4>2 DEF n
        <3> QED
            BY <3>1, <3>2
    <2>5. low(q, l) \subseteq Int /\ high(q, l) \subseteq Int /\ low(q, l) \cap high(q, l) = {}
        BY DEF BackAt
    <2> HIDE DEF kept, low
    <2>6. /\ Back(s, q, l) \in Seq(Jobs) /\ IsFiniteSet(high(q, l))
          /\ Cardinality(high(q, l)) = Len(Back(s, q, l))
        BY BackLength
    <2> HIDE DEF high
    <2>7. /\ kept(q, l) \o Back(s, q, l) \in Seq(Jobs)
          /\ Len(kept(q, l) \o Back(s, q, l)) = Len(kept(q, l)) + Len(Back(s, q, l))
        BY <2>1, <2>6, ConcatProperties
    <2>8. /\ IsFiniteSet(low(q, l) \cup high(q, l))
          /\ Cardinality(low(q, l) \cup high(q, l)) = Len(kept(q, l)) + Len(Back(s, q, l))
        <3>1. /\ IsFiniteSet(low(q, l) \cup high(q, l))
              /\ Cardinality(low(q, l) \cup high(q, l)) = Cardinality(low(q, l))
                     + Cardinality(high(q, l)) - Cardinality(low(q, l) \cap high(q, l))
            BY <2>4, <2>6, FS_Union
        <3>2. Cardinality(low(q, l) \cap high(q, l)) = 0
            BY <2>5, FS_EmptySet
        <3>3. Len(kept(q, l)) \in Nat /\ Len(Back(s, q, l)) \in Nat
            BY <2>1, <2>6, LenProperties
        <3> QED
            BY <2>4, <2>6, <3>1, <3>2, <3>3
    <2> QED
        BY <2>2, <2>3, <2>5, <2>7, <2>8
<1>2. PutBack(qs, p, s) \in [Queues -> Stacks]
    BY <1>1 DEF PutBack, Stacks
<1> QED
    BY <1>1, <1>2 DEF Numbered

\* Every job is put back somewhere: no place is lost and none is added.
LEMMA PutBackLength ==
    ASSUME NEW qs \in [Queues -> Stacks], NEW p \in Levels, NEW s \in Seq(Jobs),
           \A i \in 1 .. Len(s) : Target(s[i]) \in Queues /\ job[s[i]].prio \in Levels
    PROVE  Len(All(PutBack(qs, p, s))) = Len(All(qs)) - Len(Popped(qs, p)) + Len(s)
<1> DEFINE rs == PutBack(qs, p, s)
           n == Len(s)
           V == Indices(qs)
           W == BackIndices(qs, p, s)
           A == Slots(V, Queues, Levels)
           H == Slots(V, Queues, p .. Top)
           B == Slots(W, Queues, Levels)
           place(i) == <<Target(s[i]), job[s[i]].prio, -i>>
           N == {place(i) : i \in 1 .. n}
<1>1. rs \in [Queues -> Stacks] /\ Numbered(V, qs) /\ Numbered(W, rs)
    BY IndicesNumber, BackNumber
<1>2. /\ IsFiniteSet(A) /\ Cardinality(A) = Len(All(qs))
      /\ IsFiniteSet(H) /\ Cardinality(H) = Len(Popped(qs, p))
      /\ IsFiniteSet(B) /\ Cardinality(B) = Len(All(rs))
    <2> HIDE DEF rs, V, W
    <2> QED
        BY <1>1, SlotsAll, SlotsPopped
<1>3. H \subseteq A
    BY LevelNumbers DEF Slots, Levels
<1>4. IsFiniteSet(N) /\ Cardinality(N) = n
    <2> DEFINE f == [i \in 1 .. n |-> place(i)]
    <2>1. f \in Bijection(1 .. n, N)
        <3>1. f \in [1 .. n -> N] /\ \A x \in N : \E a \in 1 .. n : f[a] = x
            OBVIOUS
        <3>2. \A a, b \in 1 .. n : f[a] = f[b] => a = b
            OBVIOUS
        <3> QED
            BY <3>1, <3>2, Fun_IsBij
    <2>2. ExistsBijection(1 .. n, N)
        BY <2>1 DEF ExistsBijection
    <2>3. n \in Nat
        OBVIOUS
    <2> HIDE DEF N, n
    <2>4. IsFiniteSet(1 .. n) /\ Cardinality(1 .. n) = n
        BY <2>3, FS_Interval
    <2> QED
        BY <2>2, <2>4, FS_Bijection
<1>5. B = (A \ H) \cup N
    <2>1. ASSUME NEW x, x[1] \in Queues, x[2] \in Levels, x[3] \in Int, x = <<x[1], x[2], x[3]>>
          PROVE  x \in B <=> x \in (A \ H) \cup N
        <3>1. x \in A <=> x[3] \in 1 .. Len(qs[x[1]][x[2]])
            BY <2>1 DEF Slots, Indices
        <3>2. x \in H <=> x[2] >= p /\ x \in A
            <4>1. x[2] \in p .. Top <=> x[2] >= p
                BY <2>1, LevelNumbers DEF Levels, Top
            <4> QED
                BY <2>1, <4>1 DEF Slots
        <3>3. x \in N <=> \E i \in BackAt(s, x[1], x[2]) : x[3] = -i
            BY <2>1 DEF BackAt
        <3>4. x \in B <=> \/ ~(x[2] >= p) /\ x[3] \in 1 .. Len(qs[x[1]][x[2]])
                          \/ \E i \in BackAt(s, x[1], x[2]) : x[3] = -i
            BY <2>1 DEF Slots, BackIndices
        <3> QED
            BY <3>1, <3>2, <3>3, <3>4
    <2>2. ASSUME NEW x \in B
          PROVE  x[1] \in Queues /\ x[2] \in Levels /\ x[3] \in Int /\ x = <<x[1], x[2], x[3]>>
        BY DEF Slots
    <2>3. ASSUME NEW x \in A \ H
          PROVE  x[1] \in Queues /\ x[2] \in Levels /\ x[3] \in Int /\ x = <<x[1], x[2], x[3]>>
        BY DEF Slots
    <2>4. ASSUME NEW x \in N
          PROVE  x[1] \in Queues /\ x[2] \in Levels /\ x[3] \in Int /\ x = <<x[1], x[2], x[3]>>
        BY <2>4
    <2> HIDE DEF A, B, H, N
    <2> QED
        BY <2>1, <2>2, <2>3, <2>4
<1>6. (A \ H) \cap N = {}
    BY DEF Slots, Indices
<1> HIDE DEF A, B, H, N, n, rs
<1>7. IsFiniteSet(A \ H) /\ Cardinality(A \ H) = Cardinality(A) - Cardinality(H)
    <2>1. /\ IsFiniteSet(A \ H)
          /\ Cardinality(A \ H) = Cardinality(A) - Cardinality(A \cap H)
        BY <1>2, FS_Difference
    <2>2. A \cap H = H
        BY <1>3
    <2> QED
        BY <2>1, <2>2
<1>8. Cardinality(B) = Cardinality(A \ H) + Cardinality(N) - Cardinality((A \ H) \cap N)
    BY <1>4, <1>5, <1>7, FS_Union
<1>9. Cardinality((A \ H) \cap N) = 0
    BY <1>6, FS_EmptySet
<1>10. Cardinality(A \ H) \in Nat /\ Cardinality(A) \in Nat /\ Cardinality(H) \in Nat /\ Cardinality(N) \in Nat
    BY <1>2, <1>4, <1>7, FS_CardinalityType
<1>11. Cardinality(B) = Cardinality(A) - Cardinality(H) + Cardinality(N)
    BY <1>7, <1>8, <1>9, <1>10
<1> QED
    BY <1>2, <1>4, <1>11 DEF rs, n

\* What ExecuteToPriority does to the queues and to m_nJobs.
LEMMA ExecuteIs ==
    ASSUME queue \in [Queues -> Stacks], NEW p \in Levels, NEW filtered \in BOOLEAN,
           ExecuteToPriority(p, filtered)
    PROVE  \E s \in Seq(Jobs) : /\ queue' = PutBack(queue, p, s)
                                /\ nJobs' = nJobs - (Len(Popped(queue, p)) - Len(s))
                                /\ Len(Popped(queue, p)) \in Nat /\ Len(s) \in Nat
<1> DEFINE S == {j \in Jobs : ~(filtered => job[j].kind.serial) /\ CanExecute(j)}
           s == Only(Popped(queue, p), S)
<1>1. Popped(queue, p) \in Seq(Jobs) /\ Len(Popped(queue, p)) \in Nat
    <2>1. Numbered(Indices(queue), queue)
        BY IndicesNumber
    <2>2. Popped(queue, p) \in Seq(Jobs)
        BY <2>1, SlotsPopped
    <2> QED
        BY <2>2, LenProperties
<1>2. queue' = PutBack(queue, p, s) /\ nJobs' = nJobs - (Len(Popped(queue, p)) - Len(s))
    BY DEF ExecuteToPriority, PutBack, Back, Popped, AtLevel
<1>3. s \in Seq(Jobs)
    <2> HIDE DEF S
    <2> QED
        BY <1>1, OnlyType
<1>4. Len(s) \in Nat
    BY <1>3, LenProperties
<1> QED
    BY <1>1, <1>2, <1>3, <1>4

\* One level of one queue holds v instead.
LEMMA AllChange ==
    ASSUME NEW qs \in [Queues -> Stacks], NEW q \in Queues, NEW l \in Levels, NEW v \in Seq(Jobs)
    PROVE  LET rs == [qs EXCEPT ![q] = [qs[q] EXCEPT ![l] = v]]
           IN  Len(All(rs)) = Len(All(qs)) + (Len(v) - Len(qs[q][l]))
<1> DEFINE rs == [qs EXCEPT ![q] = [qs[q] EXCEPT ![l] = v]]
           V == Indices(qs)
           W == Indices(rs)
           A == Slots(V, Queues, Levels)
           B == Slots(W, Queues, Levels)
           a == Slots(V, {q}, {l})
           b == Slots(W, {q}, {l})
<1>1. /\ rs \in [Queues -> Stacks] /\ rs[q][l] = v
      /\ \A r \in Queues, k \in Levels : r # q \/ k # l => rs[r][k] = qs[r][k]
    BY DEF Stacks
<1> HIDE DEF rs
<1>2. Numbered(V, qs) /\ Numbered(W, rs)
    BY <1>1, IndicesNumber
<1>3. A \ a = B \ b /\ a \subseteq A /\ b \subseteq B
    BY <1>1 DEF Slots, Indices
<1> HIDE DEF V, W
<1>a. IsFiniteSet(A) /\ Cardinality(A) = Len(All(qs))
    BY <1>2, SlotsAll
<1>b. IsFiniteSet(B) /\ Cardinality(B) = Len(All(rs))
    BY <1>1, <1>2, SlotsAll
<1>c. IsFiniteSet(a) /\ Cardinality(a) = Len(qs[q][l])
    BY <1>2, SlotsLevel
<1>d. IsFiniteSet(b) /\ Cardinality(b) = Len(v)
    <2>1. IsFiniteSet(b) /\ Cardinality(b) = Len(rs[q][l])
        BY <1>2, SlotsLevel
    <2> QED
        BY <1>1, <2>1
<1> HIDE DEF A, B, a, b
<1>4. IsFiniteSet(A) /\ IsFiniteSet(B) /\ IsFiniteSet(a) /\ IsFiniteSet(b)
    BY <1>a, <1>b, <1>c, <1>d
<1>5. Cardinality(A \ a) = Cardinality(A) - Cardinality(a)
    <2>1. A \cap a = a
        BY <1>3
    <2> QED
        BY <1>4, <2>1, FS_Difference
<1>6. Cardinality(B \ b) = Cardinality(B) - Cardinality(b)
    <2>1. B \cap b = b
        BY <1>3
    <2> QED
        BY <1>4, <2>1, FS_Difference
<1>7. /\ Cardinality(A) \in Nat /\ Cardinality(B) \in Nat
      /\ Cardinality(a) \in Nat /\ Cardinality(b) \in Nat
    BY <1>4, FS_CardinalityType
<1>e. Cardinality(A \ a) = Cardinality(B \ b)
    BY <1>3
<1>8. Cardinality(B) = Cardinality(A) + (Cardinality(b) - Cardinality(a))
    BY <1>5, <1>6, <1>7, <1>e
<1>9. Len(All(rs)) = Len(All(qs)) + (Len(v) - Len(qs[q][l]))
    BY <1>8, <1>a, <1>b, <1>c, <1>d
<1> QED
    BY <1>9 DEF rs

\* Nothing in any queue.
LEMMA AllNothing ==
    ASSUME NEW qs \in [Queues -> Stacks], \A q \in Queues, l \in Levels : qs[q][l] = <<>>
    PROVE  Len(All(qs)) = 0
<1> DEFINE A == Slots(Indices(qs), Queues, Levels)
<1>1. A = {}
    BY DEF Slots, Indices
<1>2. Numbered(Indices(qs), qs)
    BY IndicesNumber
<1>3. Cardinality(A) = Len(All(qs))
    BY <1>2, SlotsAll
<1>4. Cardinality(A) = 0
    BY <1>1, FS_EmptySet
<1> QED
    BY <1>3, <1>4

\* The number of entries is one.
LEMMA AllType ==
    ASSUME NEW qs \in [Queues -> Stacks]
    PROVE  Len(All(qs)) \in Nat
<1>1. Numbered(Indices(qs), qs)
    BY IndicesNumber
<1> QED
    BY <1>1, SlotsAll, FS_CardinalityType

\* ExecuteToPriority counts what it leaves and puts back.
LEMMA StockExecute ==
    ASSUME Protocol, Stock, Prios', NEW p \in Levels, NEW filtered \in BOOLEAN,
           ExecuteToPriority(p, filtered)
    PROVE  Stock'
<1> USE Numbers
<1>1. /\ items' = [q \in Queues |-> Len(Entries(queue', q))]
      /\ pc[Main] = "suspended" /\ pc' = [pc EXCEPT ![Main] = "idle"]
    BY DEF ExecuteToPriority, Return, Goto
<1>2. queue' \in [Queues -> Stacks]
    <2>1. queue \in [Queues -> Stacks]
        BY DEF Stock, Stocked
    <2>2. PICK s \in Seq(Jobs) : queue' = PutBack(queue, p, s)
        BY <2>1, ExecuteIs
    <2> QED
        BY <2>1, <2>2, BackNumber
<1>3. ASSUME NEW q \in Queues PROVE items'[q] = Under(queue'[q], Top)
    <2>1. queue'[q] \in Stacks
        BY <1>2
    <2>2. Len(Entries(queue', q)) = Under(queue'[q], Top)
        BY <2>1, EntriesAre
    <2> QED
        BY <1>1, <2>2
<1>4. pc'[Main] = "idle" /\ \A t \in Threads : pc'[t] # "scan"
    BY <1>1, NobodyScans DEF Protocol, Shape
<1>5. DOMAIN items' = Queues /\ items' = [q \in Queues |-> items'[q]]
    BY <1>1
<1> QED
    BY <1>2, <1>3, <1>4, <1>5, StockQuiet
-----------------------------------------------------------------------------
\* A step that leaves jobs their priority, or raises it to another.
LEMMA PriosNext ==
    ASSUME Running, Prios, [Next]_vars
    PROVE  Prios'
<1> USE Numbers DEF Prios, Running, Shape, JobShape, JobFields
<1>0. ASSUME NEW t, NEW j, Start(t, j) PROVE Prios'
    <2>1. job' = [job EXCEPT ![j] = Started(t, j)]
        BY <1>0 DEF Start
    <2>2. j \in Jobs => Started(t, j).prio = job[j].prio
        BY DEF Started
    <2> QED
        BY <2>1, <2>2
<1>1. ASSUME NEW t \in Threads, Service(t) \/ Run(t) PROVE Prios'
    <2>1. CASE Service(t)
        BY <1>0, <2>1 DEF Service
    <2>2. CASE Run(t)
        BY <2>2 DEF Run
    <2> QED
        BY <1>1, <2>1, <2>2
<1>2. ASSUME UNCHANGED job PROVE Prios'
    BY <1>2
<1>3. CASE LockJob
    <2> DEFINE j == loc[Main].job
    <2>1. \/ Start(Main, j) \/ job' = [job EXCEPT ![j].status = "aborted"] \/ job' = job
        BY <1>3 DEF LockJob
    <2>2. CASE job' = [job EXCEPT ![j].status = "aborted"]
        BY <2>2
    <2> HIDE DEF j
    <2> QED
        BY <1>0, <2>1, <2>2
<1>4. ASSUME NEW S, AbortJobs(S) \/ ExecuteJobs(S) PROVE Prios'
    <2>1. \A j \in Jobs : job'[j].prio = job[j].prio
        <3>1. CASE AbortJobs(S)
            <4> TAKE j \in Jobs
            <4>1. job'[j] = [job[j] EXCEPT !.status = "aborted"] \/ job'[j] = job[j]
                BY <3>1 DEF AbortJobs
            <4> QED
                BY <4>1
        <3>2. CASE ExecuteJobs(S)
            <4> TAKE j \in Jobs
            <4>1. \/ job'[j] = [job[j] EXCEPT !.status = "ok", !.runs = @ + 1]
                  \/ job'[j] = job[j]
                BY <3>2 DEF ExecuteJobs
            <4> QED
                BY <4>1
        <3> QED
            BY <1>4, <3>1, <3>2
    <2> QED
        BY <2>1
<1>5. ASSUME NEW j \in Jobs, NEW kind \in Kinds, AddJobInPlace(j, kind) PROVE Prios'
    BY <1>5 DEF AddJobInPlace, Started
<1>6. ASSUME NEW j \in Jobs, NEW kind \in Kinds, AddJob(j, kind) PROVE Prios'
    <2>1. PICK l \in Levels : job' = [job EXCEPT ![j].kind = kind, ![j].status = "pending", ![j].prio = l]
        BY <1>6, LevelNumbers DEF AddJob
    <2> QED
        BY <2>1
<1>7. ASSUME NEW j \in Jobs, NEW l \in Levels, ChangePriority(j, l) PROVE Prios'
    BY <1>7 DEF ChangePriority
<1>8. ASSUME NEW j \in Jobs, NEW call, CallJob(call, j) PROVE Prios'
    BY <1>8 DEF CallJob
<1>9. CASE UNCHANGED vars
    BY <1>2, <1>9 DEF vars
<1>10. ASSUME NEW t \in Threads, NextLevel(t) \/ TakeJob(t) \/ Released(t) PROVE Prios'
    BY <1>2, <1>10 DEF NextLevel, TakeJob, Released
<1>11. ASSUME NEW w \in Workers, WorkerStep(w) PROVE Prios'
    <2>1. CASE \/ Wake(w) \/ PopDirect(w) \/ PopShared(w) \/ Taken(w) \/ EndTurn(w)
               \/ Reply(w) \/ FallAsleep(w) \/ Awake(w) \/ Exit(w)
        BY <1>2, <2>1 DEF Wake, PopDirect, PopShared, Taken, EndTurn, Reply, FallAsleep, Awake, Exit
    <2> QED
        BY <1>1, <1>10, <1>11, <2>1 DEF WorkerStep
<1>12. CASE MasterStep
    <2>1. CASE \/ PushItem \/ CountItem \/ CountJob \/ Yield \/ YieldPop \/ Block \/ GiveUp
               \/ CallSuspend \/ AwaitAsleep \/ Suspend \/ CallExit
        BY <1>2, <2>1 DEF PushItem, CountItem, CountJob, Yield, YieldPop, Block, GiveUp,
                          CallSuspend, CallWorker, AwaitAsleep, Suspend, CallExit
    <2>2. CASE \/ AbortAll \/ Join
               \/ \E p \in Levels, filtered \in BOOLEAN : ExecuteToPriority(p, filtered)
        BY <1>4, <2>2 DEF AbortAll, Join, ExecuteToPriority
    <2> QED
        BY <1>1, <1>3, <1>10, <1>12, <2>1, <2>2 DEF MasterStep
<1>13. CASE Call
    <2>1. CASE \/ \E j \in Jobs : Wait(j)
               \/ WaitFrame \/ (\E call \in Suspenders : SuspendExecution(call)) \/ Stop
        BY <1>2, <2>1 DEF Wait, WaitFrame, SuspendExecution, Stop
    <2> QED
        BY <1>5, <1>6, <1>7, <1>8, <1>13, <2>1 DEF Call
<1>14. CASE Resume
    BY <1>2, <1>14 DEF Resume
<1> QED
    BY <1>9, <1>11, <1>12, <1>13, <1>14 DEF Next

\* Where a job goes there is a queue.
LEMMA Targets == \A kind \in Kinds : TargetOf(kind) \in Queues
BY PoolAssumption DEF KindType, TargetOf, Queues, Workers, Shared, None

\* The queues are empty at first.
LEMMA StockInit == Init => Stock
<1> SUFFICES ASSUME Init PROVE Stock
    OBVIOUS
<1> USE Numbers
<1>1. /\ queue = [q \in Queues |-> [l \in Levels |-> <<>>]]
      /\ items = [q \in Queues |-> 0]
      /\ pc[Main] = "idle" /\ \A t \in Threads : pc[t] # "scan"
    BY DEF Init
<1>2. Prios
    BY LevelNumbers DEF Init, Prios, Levels
<1>3. Stocked
    BY <1>1, EmptySeq DEF Stocked, Stacks
<1>4. \A q, l : Cardinality(Scanning(q, l)) = 0
    <2> TAKE q, l
    <2>1. Scanning(q, l) = {}
        BY <1>1 DEF Scanning
    <2> QED
        BY <2>1, FS_EmptySet
<1>5. \A q \in Queues, l \in Levels : Under(queue[q], l) = 0
    BY <1>1, UnderNothing
<1>6. Balance
    BY <1>1, <1>4, <1>5, LevelNumbers DEF Balance, Counting
<1>7. ExpectedItem
    BY <1>4, <1>5, ExpectedIs DEF Covered
<1> QED
    BY <1>2, <1>3, <1>6, <1>7 DEF Stock

\* What workers do.
LEMMA StockWorker ==
    ASSUME Running, Stock, Prios', NEW w \in Workers, WorkerStep(w)
    PROVE  Stock'
<1> USE Numbers DEF Running
<1>1. CASE Wake(w) \/ Reply(w) \/ FallAsleep(w) \/ Awake(w) \/ Exit(w) \/ Taken(w) \/ EndTurn(w)
    BY <1>1, StockAside DEF Wake, Reply, FallAsleep, Awake, Exit, Taken, EndTurn, Goto, Shape, Others
<1>2. CASE Service(w) \/ Released(w)
    BY <1>2, StockAside DEF Service, Released, Goto, Shape, Others
<1>3. CASE Run(w)
    <2>1. loc[w].src # None
        BY <1>3 DEF Run, FromQueue
    <2> QED
        BY <1>3, <2>1, StockAside DEF Run, Goto, Shape, Others
<1>4. CASE PopDirect(w)
    <2>1. CASE Ticket(w, w)
        BY <1>4, <2>1, StockTicket DEF PopDirect, Queues
    <2>2. CASE ~Ticket(w, w)
        BY <1>4, <2>2, StockAside DEF PopDirect, Goto, Shape, Others
    <2> QED
        BY <2>1, <2>2
<1>5. CASE PopShared(w)
    <2>1. CASE Ticket(w, Shared)
        BY <1>5, <2>1, StockTicket DEF PopShared
    <2>2. CASE ~Ticket(w, Shared)
        BY <1>5, <2>2, StockAside DEF PopShared, Goto, Shape, Others
    <2> QED
        BY <2>1, <2>2
<1> QED
    BY <1>1, <1>2, <1>3, <1>4, <1>5, StockNextLevel, StockTake DEF WorkerStep

\* What the master does inside a call.
LEMMA StockMaster ==
    ASSUME Running, Protocol, Stock, Prios', MasterStep
    PROVE  Stock'
<1> USE Numbers DEF Running
<1>1. CASE \/ CountJob \/ Yield \/ Block \/ GiveUp \/ CallSuspend \/ AwaitAsleep \/ Suspend \/ CallExit
    BY <1>1, StockAside
       DEF CountJob, Yield, Block, GiveUp, CallSuspend, CallExit, CallWorker, AwaitAsleep,
           Suspend, Return, Goto, Shape, Others
<1>2. CASE Service(Main) \/ Released(Main) \/ Run(Main)
    BY <1>2, StockAside DEF Service, Released, Run, Return, Goto, Shape, Others
<1>3. CASE LockJob
    BY <1>3, StockAside DEF LockJob, Return, Goto, Shape, Others
<1>4. CASE YieldPop
    <2>1. CASE Ticket(Main, Shared)
        BY <1>4, <2>1, StockTicket DEF YieldPop
    <2>2. CASE ~Ticket(Main, Shared)
        BY <1>4, <2>2, StockAside DEF YieldPop, Goto, Shape, Others
    <2> QED
        BY <2>1, <2>2
<1> QED
    BY <1>1, <1>2, <1>3, <1>4, StockNextLevel, StockTake, StockPush, StockCount, StockAbort,
       StockJoin, StockExecute DEF MasterStep

\* What its clients call.
LEMMA StockCall ==
    ASSUME Running, Stock, Prios', Call \/ Resume
    PROVE  Stock'
<1> USE Numbers DEF Running
<1>1. CASE \/ \E j \in Jobs : Wait(j)
           \/ WaitFrame \/ (\E call \in Suspenders : SuspendExecution(call)) \/ Stop
    BY <1>1, StockAside DEF Wait, WaitFrame, SuspendExecution, Stop, Begin, Goto, Shape, Others
<1>2. ASSUME NEW j \in Jobs, NEW kind \in Kinds, AddJobInPlace(j, kind) PROVE Stock'
    BY <1>2, StockAside DEF AddJobInPlace, Add, Goto, Shape, Others
<1>3. ASSUME NEW j \in Jobs, NEW kind \in Kinds, AddJob(j, kind) PROVE Stock'
    BY <1>3, StockAside, Targets DEF AddJob, Add, Goto, Shape, LocFields, Others
<1>4. ASSUME NEW j \in Jobs, NEW p \in Levels, ChangePriority(j, p) PROVE Stock'
    BY <1>4, StockAside DEF ChangePriority, Begin, Goto, Shape, LocFields, Others
<1>5. ASSUME NEW j \in Jobs, NEW call, CallJob(call, j) PROVE Stock'
    BY <1>5, StockAside DEF CallJob, Begin, Goto, Shape, Others
<1>6. CASE Resume
    BY <1>6, StockAside DEF Resume, Others
<1> QED
    BY <1>1, <1>2, <1>3, <1>4, <1>5, <1>6 DEF Call

\* Every step keeps Stock.
LEMMA StockNext == Running /\ Protocol /\ Stock /\ [Next]_vars => Stock'
<1> SUFFICES ASSUME Running, Protocol, Stock, [Next]_vars PROVE Stock'
    OBVIOUS
<1>1. Prios'
    BY PriosNext DEF Stock
<1>2. CASE UNCHANGED vars
    BY <1>2, Numbers, StockAside, <1>1
       DEF vars, Stock, Stocked, Balance, ExpectedItem, Scanning, Counting
<1> QED
    BY <1>1, <1>2, StockWorker, StockMaster, StockCall DEF Next

(* The assertion of CJobQueue::Pop holds: whoever has been let past the count *)
(* finds an item at its level or below, whatever others push and take above, *)
(* for any number of threads, priorities and jobs.                           *)
THEOREM ItemsExpected == Spec => []ExpectedItem
<1>1. Stock => ExpectedItem
    BY DEF Stock
<1> QED
    BY <1>1, RunningInit, ProtocolInit, StockInit, RunningNext, ProtocolNext, StockNext, PTL DEF Spec
-----------------------------------------------------------------------------
(* Every variable has its type.                                              *)

AllKinds == Kinds \cup {NoKind}
Owners   == Threads \cup {None}
JobType == [kind : AllKinds, status : Statuses, runs : Nat,
            owner : Owners, prio : Levels, moved : BOOLEAN]
CallType == [call : {"none", "suspend", "exit"}, asleep : BOOLEAN, took : BOOLEAN]
LocType == [job : Jobs \cup {None}, src : Queues \cup {None}, level : Levels]

Typed ==
    /\ job \in [Jobs -> JobType]
    /\ worker \in [Workers -> CallType]
    /\ pc \in [Threads -> Labels]
    /\ loc \in [Threads -> LocType]
    /\ nJobs \in Int /\ uncounted \in Int
    /\ perFrame \subseteq Jobs
    /\ nAdded \in 0 .. MaxJobs

\* A job with another status, count and owner, which is one too.
With(r, s, n, o) == [r EXCEPT !.status = s, !.runs = n, !.owner = o]

\* It is a job if r is.
LEMMA WithType ==
    ASSUME NEW r \in JobType, NEW s \in Statuses, NEW n \in Nat, NEW o \in Owners
    PROVE  With(r, s, n, o) \in JobType
BY DEF JobType, With

\* The fields of a job.
LEMMA FieldTypes ==
    ASSUME NEW r \in JobType
    PROVE  /\ r.runs \in Nat /\ r.runs + 1 \in Nat /\ r.owner \in Owners /\ r.status \in Statuses
           /\ DOMAIN r = JobFields
BY DEF JobType, JobFields

\* The job that a thread starts is one.
LEMMA StartedType ==
    ASSUME job \in [Jobs -> JobType], NEW t \in Threads, NEW j \in Jobs
    PROVE  Started(t, j) \in JobType
<1> DEFINE n == job[j].runs + 1
<1>1. job[j] \in JobType /\ n \in Nat
    BY FieldTypes
<1>2. Started(t, j) = With(job[j], "inprogress", n, t)
    BY DEF Started, With
<1>3. t \in Owners /\ "inprogress" \in Statuses
    BY DEF Owners, Statuses
<1> HIDE DEF n
<1> QED
    BY <1>1, <1>2, <1>3, WithType

\* So the jobs stay jobs.
LEMMA StartType ==
    ASSUME job \in [Jobs -> JobType], NEW t \in Threads, NEW j, Start(t, j)
    PROVE  job' \in [Jobs -> JobType]
BY StartedType DEF Start

\* Locals at the start.
LEMMA NoLocalsType == NoLocals \in LocType /\ \A q \in Queues : [NoLocals EXCEPT !.src = q] \in LocType
<1>1. \A q \in Queues : [NoLocals EXCEPT !.src = q] = [job |-> None, src |-> q, level |-> Top]
    BY DEF NoLocals
<1> QED
    BY <1>1, LevelNumbers DEF NoLocals, LocType

\* Jobs that are settled stay jobs.
LEMMA SettledType ==
    ASSUME Typed, NEW S, AbortJobs(S) \/ ExecuteJobs(S)
    PROVE  job' \in [Jobs -> JobType]
<1>1. ASSUME NEW j \in Jobs
      PROVE  /\ [job[j] EXCEPT !.status = "aborted"] \in JobType
             /\ [job[j] EXCEPT !.status = "ok", !.runs = @ + 1] \in JobType
             /\ job[j] \in JobType
    <2>1. job[j] \in JobType
        BY DEF Typed
    <2> DEFINE n == job[j].runs
               m == n + 1
               o == job[j].owner
    <2>2. n \in Nat /\ m \in Nat /\ o \in Owners /\ {"aborted", "ok"} \subseteq Statuses
        BY <2>1, FieldTypes DEF Statuses
    <2>3. /\ [job[j] EXCEPT !.status = "aborted"] = With(job[j], "aborted", n, o)
          /\ [job[j] EXCEPT !.status = "ok", !.runs = @ + 1] = With(job[j], "ok", m, o)
        BY <2>1, FieldTypes DEF With, JobFields
    <2> HIDE DEF n, m, o
    <2> QED
        BY <2>1, <2>2, <2>3, WithType
<1>2. CASE AbortJobs(S)
    BY <1>1, <1>2 DEF AbortJobs
<1>3. CASE ExecuteJobs(S)
    BY <1>1, <1>3 DEF ExecuteJobs
<1> QED
    BY <1>2, <1>3

\* Workers that are woken stay workers.
LEMMA ResumedType ==
    ASSUME Typed, NEW n, Resumed(n)
    PROVE  worker' \in [Workers -> CallType]
<1>1. ASSUME NEW w \in Workers PROVE [worker[w] EXCEPT !.asleep = FALSE] \in CallType
    BY DEF Typed, CallType
<1> QED
    BY <1>1 DEF Resumed, Typed

\* What any thread may do.
LEMMA TypedThread ==
    ASSUME Typed, Stock, NEW t \in Threads,
           NextLevel(t) \/ TakeJob(t) \/ Service(t) \/ Released(t)
    PROVE  Typed'
<1> USE Numbers DEF Goto
<1>1. CASE NextLevel(t)
    <2>1. loc[t] \in LocType /\ loc[t].level - 1 \in Levels
        BY <1>1 DEF NextLevel, Typed, LocType, Levels
    <2>2. [loc[t] EXCEPT !.level = @ - 1] = [job |-> loc[t].job, src |-> loc[t].src, level |-> loc[t].level - 1]
        BY <2>1 DEF LocType
    <2>3. [loc[t] EXCEPT !.level = @ - 1] \in LocType
        BY <2>1, <2>2 DEF LocType
    <2> QED
        BY <1>1, <2>3 DEF NextLevel, Typed
<1>2. CASE TakeJob(t)
    <2> DEFINE q == loc[t].src
               l == loc[t].level
    <2>1. q \in Queues /\ l \in Levels /\ queue[q][l] \in Seq(Jobs) /\ queue[q][l] # <<>>
        BY <1>2 DEF TakeJob, Stock, Stocked, Stacks
    <2>2. Head(queue[q][l]) \in Jobs
        BY <2>1, HeadTailProperties
    <2>3. [job |-> Head(queue[q][l]), src |-> q, level |-> Top] \in LocType
        BY <2>1, <2>2, LevelNumbers DEF LocType
    <2>4. pc' \in [Threads -> Labels]
        BY <1>2 DEF TakeJob, Typed, Labels
    <2> QED
        BY <1>2, <2>3, <2>4 DEF TakeJob, Typed
<1>3. CASE Service(t)
    <2>1. job' \in [Jobs -> JobType]
        BY <1>3, StartType DEF Service, Typed
    <2>2. pc' \in [Threads -> Labels]
        BY <1>3 DEF Service, Typed, Labels
    <2> QED
        BY <1>3, <2>1, <2>2 DEF Service, Typed
<1>4. CASE Released(t)
    <2>1. pc' \in [Threads -> Labels]
        BY <1>4 DEF Released, Typed, Labels
    <2> QED
        BY <1>4, <2>1, NoLocalsType DEF Released, Typed
<1> QED
    BY <1>1, <1>2, <1>3, <1>4

\* The end of a job.
LEMMA TypedRun == ASSUME Running, Typed, NEW t \in Threads, Run(t) PROVE Typed'
<1> USE Numbers DEF Goto
<1> DEFINE j == loc[t].job
<1>1. job' = [job EXCEPT ![j].status = "ok", ![j].owner = None]
    BY DEF Run
<1>2. job' \in [Jobs -> JobType]
    <2>1. ASSUME j \in Jobs PROVE [[job[j] EXCEPT !.status = "ok"] EXCEPT !.owner = None] \in JobType
        <3>1. job[j] \in JobType
            BY <2>1 DEF Typed
        <3> QED
            BY <3>1 DEF JobType, Statuses, Owners
    <2>2. CASE j \in Jobs
        <3>1. \A i \in Jobs : job'[i] = IF i = j THEN [[job[j] EXCEPT !.status = "ok"] EXCEPT !.owner = None]
                                        ELSE job[i]
            BY <1>1, <2>2 DEF Typed
        <3>2. job' = [i \in Jobs |-> job'[i]]
            BY <1>1 DEF Typed
        <3>3. \A i \in Jobs : job'[i] \in JobType
            BY <2>1, <2>2, <3>1 DEF Typed
        <3> QED
            BY <3>2, <3>3
    <2>3. CASE j \notin Jobs
        <3>1. job' = job
            BY <1>1, <2>3 DEF Typed
        <3> QED
            BY <3>1 DEF Typed
    <2> QED
        BY <2>2, <2>3
<1>3. pc' \in [Threads -> Labels]
    <2>1. \E l \in {"idle", "released"} : \E u \in Threads : pc' = [pc EXCEPT ![u] = l]
        BY DEF Run, Return
    <2> QED
        BY <2>1 DEF Typed, Labels
<1>4. loc' \in [Threads -> LocType]
    <2>1. loc' = loc \/ loc' = [loc EXCEPT ![t] = NoLocals]
        BY DEF Run
    <2>2. loc' \in [Threads -> LocType]
        BY <2>1, NoLocalsType DEF Typed
    <2> QED
        BY <2>2
<1> QED
    BY <1>2, <1>3, <1>4 DEF Run, Typed

\* Workers that are called, put to sleep, or busy, stay workers.
LEMMA WorkerExcept ==
    ASSUME NEW r \in CallType, NEW c \in {"none", "suspend", "exit"}, NEW b \in BOOLEAN
    PROVE  /\ [r EXCEPT !.call = c] \in CallType
           /\ [r EXCEPT !.asleep = b] \in CallType
           /\ [r EXCEPT !.took = b] \in CallType
BY DEF CallType

\* What a worker does.
LEMMA TypedWorker ==
    ASSUME Running, Typed, Stock, NEW w \in Workers, WorkerStep(w)
    PROVE  Typed'
<1> USE Numbers DEF Goto
<1>1. CASE Taken(w) \/ EndTurn(w) \/ Reply(w) \/ FallAsleep(w)
    <2>1. worker[w] \in CallType
        BY DEF Typed
    <2>2. worker' \in [Workers -> CallType]
        BY <1>1, <2>1, WorkerExcept DEF Taken, EndTurn, Reply, FallAsleep, Typed
    <2>3. pc' \in [Threads -> Labels]
        BY <1>1 DEF Taken, EndTurn, Reply, FallAsleep, Typed, Labels
    <2> QED
        BY <1>1, <2>2, <2>3 DEF Taken, EndTurn, Reply, FallAsleep, Typed
<1>2. CASE Wake(w) \/ Awake(w) \/ Exit(w)
    <2>1. pc' \in [Threads -> Labels]
        BY <1>2 DEF Wake, Awake, Exit, Typed, Labels
    <2> QED
        BY <1>2, <2>1 DEF Wake, Awake, Exit, Typed
<1>3. CASE PopDirect(w) \/ PopShared(w)
    <2>1. pc' \in [Threads -> Labels]
        BY <1>3 DEF PopDirect, PopShared, Ticket, Typed, Labels
    <2>2. loc' \in [Threads -> LocType]
        <3>1. w \in Queues /\ Shared \in Queues
            BY DEF Queues
        <3>2. loc' = loc \/ \E q \in Queues : loc' = [loc EXCEPT ![w] = [NoLocals EXCEPT !.src = q]]
            BY <1>3, <3>1 DEF PopDirect, PopShared, Ticket
        <3> QED
            BY <3>2, NoLocalsType DEF Typed
    <2> QED
        BY <1>3, <2>1, <2>2 DEF PopDirect, PopShared, Typed
<1> QED
    BY <1>1, <1>2, <1>3, TypedThread, TypedRun DEF WorkerStep

\* What the master does inside a call.
LEMMA TypedMaster ==
    ASSUME Running, Typed, Stock, MasterStep
    PROVE  Typed'
<1> USE Numbers DEF Goto
<1>1. ASSUME NEW l \in Labels PROVE [pc EXCEPT ![Main] = l] \in [Threads -> Labels]
    BY DEF Typed
<1>2. {"idle", "run", "scan", "countItem", "countJob", "yieldPop", "block", "suspended",
       "awaitAsleep", "join"} \subseteq Labels
    BY DEF Labels
<1>3. [loc EXCEPT ![Main] = NoLocals] \in [Threads -> LocType]
    BY NoLocalsType DEF Typed
<1>4. CASE PushItem \/ CountItem \/ CountJob \/ Yield \/ Block \/ GiveUp
    <2>1. pc' \in [Threads -> Labels]
        BY <1>1, <1>2, <1>4 DEF PushItem, CountItem, CountJob, Yield, Block, GiveUp, Return
    <2>2. loc' \in [Threads -> LocType]
        BY <1>3, <1>4 DEF PushItem, CountItem, CountJob, Yield, Block, GiveUp, Typed
    <2>3. nJobs' \in Int /\ uncounted' \in Int
        BY <1>4 DEF PushItem, CountItem, CountJob, Yield, Block, GiveUp, Typed
    <2> QED
        BY <1>4, <2>1, <2>2, <2>3 DEF PushItem, CountItem, CountJob, Yield, Block, GiveUp, Typed
<1>5. CASE YieldPop
    <2>1. pc' \in [Threads -> Labels]
        BY <1>1, <1>2, <1>5 DEF YieldPop, Ticket
    <2>2. loc' \in [Threads -> LocType]
        BY <1>5, NoLocalsType DEF YieldPop, Ticket, Typed
    <2> QED
        BY <1>5, <2>1, <2>2 DEF YieldPop, Typed
<1>6. CASE LockJob
    <2> DEFINE j == loc[Main].job
    <2>1. pc' \in [Threads -> Labels]
        BY <1>1, <1>2, <1>6 DEF LockJob, Return
    <2>2. loc' \in [Threads -> LocType]
        BY <1>3, <1>6 DEF LockJob, Typed
    <2>3. CASE Start(Main, j)
        <3>1. job' \in [Jobs -> JobType]
            BY <2>3, StartType DEF Typed
        <3> QED
            BY <1>6, <2>1, <2>2, <3>1 DEF LockJob, Typed
    <2>4. CASE ~Start(Main, j)
        <3>1. job' = job \/ job' = [job EXCEPT ![j].status = "aborted"]
            BY <1>6, <2>4 DEF LockJob
        <3>2. ASSUME NEW i \in Jobs PROVE [job[i] EXCEPT !.status = "aborted"] \in JobType
            <4> DEFINE n == job[i].runs
                       o == job[i].owner
            <4>1. job[i] \in JobType /\ n \in Nat /\ o \in Owners /\ "aborted" \in Statuses
                BY FieldTypes DEF Typed, Statuses
            <4>2. [job[i] EXCEPT !.status = "aborted"] = With(job[i], "aborted", n, o)
                BY <4>1, FieldTypes DEF With, JobFields
            <4> HIDE DEF n, o
            <4> QED
                BY <4>1, <4>2, WithType
        <3> HIDE DEF j
        <3>3. job' \in [Jobs -> JobType]
            BY <3>1, <3>2 DEF Typed
        <3> QED
            BY <1>6, <2>1, <2>2, <3>3 DEF LockJob, Typed
    <2> QED
        BY <2>3, <2>4
<1>7. CASE CallSuspend \/ CallExit \/ AwaitAsleep
    <2>1. pc' \in [Threads -> Labels]
        BY <1>1, <1>2, <1>7 DEF CallSuspend, CallExit, CallWorker, AwaitAsleep, Typed
    <2>2. worker' \in [Workers -> CallType]
        <3>1. worker' = worker \/ \E c \in {"suspend", "exit"} : worker' = [worker EXCEPT ![master.i].call = c]
            BY <1>7 DEF CallSuspend, CallExit, CallWorker, AwaitAsleep
        <3>2. ASSUME NEW w \in Workers, NEW c \in {"suspend", "exit"}
              PROVE  worker[w] \in CallType /\ [worker[w] EXCEPT !.call = c] \in CallType
            BY WorkerExcept DEF Typed
        <3> QED
            BY <3>1, <3>2 DEF Typed
    <2> QED
        BY <1>7, <2>1, <2>2 DEF CallSuspend, CallExit, CallWorker, AwaitAsleep, Typed
<1>8. CASE Suspend \/ AbortAll \/ Join \/ \E p \in Levels, filtered \in BOOLEAN : ExecuteToPriority(p, filtered)
    <2>1. /\ pc' = [pc EXCEPT ![Main] = "idle"]
          /\ UNCHANGED <<loc, perFrame, nAdded>>
          /\ worker' = worker \/ Resumed(nSuspend + 1)
          /\ job' = job \/ \E S : AbortJobs(S) \/ ExecuteJobs(S)
          /\ uncounted' \in {0, uncounted}
        BY <1>8 DEF Suspend, AbortAll, Join, ExecuteToPriority, Return
    <2>2. nJobs' \in Int
        <3>1. CASE Suspend \/ AbortAll \/ Join
            BY <3>1 DEF Suspend, AbortAll, Join, Typed
        <3>2. ASSUME NEW p \in Levels, NEW filtered \in BOOLEAN, ExecuteToPriority(p, filtered)
              PROVE  nJobs' \in Int
            <4>1. PICK s \in Seq(Jobs) : /\ nJobs' = nJobs - (Len(Popped(queue, p)) - Len(s))
                                          /\ Len(Popped(queue, p)) \in Nat /\ Len(s) \in Nat
                BY <3>2, ExecuteIs DEF Stock, Stocked
            <4> QED
                BY <4>1 DEF Typed
        <3> QED
            BY <1>8, <3>1, <3>2
    <2>3. job' \in [Jobs -> JobType]
        BY <2>1, SettledType DEF Typed
    <2>4. worker' \in [Workers -> CallType]
        BY <2>1, ResumedType DEF Typed
    <2> QED
        BY <1>1, <1>2, <2>1, <2>2, <2>3, <2>4 DEF Typed
<1> QED
    BY <1>4, <1>5, <1>6, <1>7, <1>8, TypedThread, TypedRun DEF MasterStep

\* What its clients call.
LEMMA TypedCall ==
    ASSUME Running, Typed, Call \/ Resume
    PROVE  Typed'
<1> USE Numbers DEF Goto
<1>1. ASSUME NEW l \in Labels PROVE [pc EXCEPT ![Main] = l] \in [Threads -> Labels]
    BY DEF Typed
<1>2. {"run", "pushItem", "lockJob", "yield", "callSuspend", "suspended", "callExit"} \subseteq Labels
    BY DEF Labels
<1>3. ASSUME NEW j \in Jobs
      PROVE  /\ [loc EXCEPT ![Main].job = j] \in [Threads -> LocType]
             /\ \A q \in Queues : [loc EXCEPT ![Main].job = j, ![Main].src = q] \in [Threads -> LocType]
    <2>1. loc[Main] \in LocType
        BY DEF Typed
    <2>2. [loc[Main] EXCEPT !.job = j] \in LocType
        BY <2>1 DEF LocType
    <2>3. \A q \in Queues : [[loc[Main] EXCEPT !.job = j] EXCEPT !.src = q] \in LocType
        BY <2>1 DEF LocType
    <2> QED
        BY <2>2, <2>3 DEF Typed
<1>4. CASE \/ \E j \in Jobs : Wait(j)
           \/ WaitFrame \/ (\E call \in Suspenders : SuspendExecution(call)) \/ Stop
    <2>1. pc' \in [Threads -> Labels]
        BY <1>1, <1>2, <1>4 DEF Wait, WaitFrame, SuspendExecution, Stop, Typed
    <2>2. /\ UNCHANGED <<job, worker, loc, nJobs, uncounted, nAdded>>
          /\ perFrame' \subseteq Jobs
        BY <1>4 DEF Wait, WaitFrame, SuspendExecution, Stop, Typed
    <2> QED
        BY <2>1, <2>2 DEF Typed
<1>5. ASSUME NEW j \in Jobs, NEW kind \in Kinds, AddJobInPlace(j, kind) PROVE Typed'
    <2>1. [Started(Main, j) EXCEPT !.kind = kind] \in JobType
        <3>1. Started(Main, j) \in JobType /\ kind \in AllKinds
            BY StartedType DEF Typed, AllKinds
        <3> QED
            BY <3>1 DEF JobType
    <2>2. job' \in [Jobs -> JobType]
        BY <1>5, <2>1 DEF AddJobInPlace, Typed
    <2>3. pc' \in [Threads -> Labels] /\ loc' \in [Threads -> LocType]
        BY <1>1, <1>2, <1>3, <1>5 DEF AddJobInPlace
    <2>4. perFrame' \subseteq Jobs /\ nAdded' \in 0 .. MaxJobs
        BY <1>5 DEF AddJobInPlace, Add, Typed, Jobs
    <2> QED
        BY <1>5, <2>2, <2>3, <2>4 DEF AddJobInPlace, Typed
<1>6. ASSUME NEW j \in Jobs, NEW kind \in Kinds, AddJob(j, kind) PROVE Typed'
    <2>1. PICK l \in Levels : job' = [job EXCEPT ![j].kind = kind, ![j].status = "pending", ![j].prio = l]
        <3>1. job[j].prio \in Levels
            BY DEF Typed, JobType
        <3>2. Top \in Levels
            BY LevelNumbers
        <3> QED
            BY <1>6, <3>1, <3>2 DEF AddJob
    <2>2. [[[job[j] EXCEPT !.kind = kind] EXCEPT !.status = "pending"] EXCEPT !.prio = l] \in JobType
        <3>1. job[j] \in JobType /\ kind \in AllKinds /\ "pending" \in Statuses
            BY DEF Typed, AllKinds, Statuses
        <3> QED
            BY <3>1 DEF JobType
    <2>3. job' \in [Jobs -> JobType]
        BY <2>1, <2>2 DEF Typed
    <2>4. pc' \in [Threads -> Labels] /\ loc' \in [Threads -> LocType]
        BY <1>1, <1>2, <1>3, <1>6, Targets DEF AddJob
    <2>5. perFrame' \subseteq Jobs /\ nAdded' \in 0 .. MaxJobs
        BY <1>6 DEF AddJob, Add, Typed, Jobs
    <2> QED
        BY <1>6, <2>3, <2>4, <2>5 DEF AddJob, Typed
<1>7. ASSUME NEW j \in Jobs, NEW p \in Levels, ChangePriority(j, p) PROVE Typed'
    <2>1. [[job[j] EXCEPT !.prio = p] EXCEPT !.moved = TRUE] \in JobType
        <3>1. job[j] \in JobType
            BY DEF Typed
        <3> QED
            BY <3>1 DEF JobType
    <2>2. job' \in [Jobs -> JobType]
        BY <1>7, <2>1 DEF ChangePriority, Typed
    <2>3. pc' \in [Threads -> Labels] /\ loc' \in [Threads -> LocType]
        BY <1>1, <1>2, <1>3, <1>7 DEF ChangePriority
    <2> QED
        BY <1>7, <2>2, <2>3 DEF ChangePriority, Typed
<1>8. ASSUME NEW j \in Jobs, NEW call, CallJob(call, j) PROVE Typed'
    <2>1. [job[j] EXCEPT !.moved = TRUE] \in JobType
        <3>1. job[j] \in JobType
            BY DEF Typed
        <3> QED
            BY <3>1 DEF JobType
    <2>2. job' \in [Jobs -> JobType]
        BY <1>8, <2>1 DEF CallJob, Typed
    <2>3. pc' \in [Threads -> Labels] /\ loc' \in [Threads -> LocType]
        BY <1>1, <1>2, <1>3, <1>8 DEF CallJob
    <2> QED
        BY <1>8, <2>2, <2>3 DEF CallJob, Typed
<1>9. CASE Resume
    <2>1. worker' \in [Workers -> CallType]
        BY <1>9, ResumedType DEF Resume
    <2> QED
        BY <1>9, <2>1 DEF Resume, Typed
<1> QED
    BY <1>4, <1>5, <1>6, <1>7, <1>8, <1>9 DEF Call

\* Every variable has its type at first.
LEMMA TypedInit == Init => Typed
<1> SUFFICES ASSUME Init PROVE Typed
    OBVIOUS
<1> USE Numbers
<1>1. [kind |-> NoKind, status |-> "none", runs |-> 0, owner |-> None, prio |-> 0, moved |-> FALSE] \in JobType
    <2>1. NoKind \in AllKinds /\ "none" \in Statuses /\ None \in Owners /\ 0 \in Levels
        BY DEF AllKinds, Statuses, Owners, Levels
    <2> QED
        BY <2>1 DEF JobType
<1>2. job \in [Jobs -> JobType]
    BY <1>1 DEF Init
<1>3. worker \in [Workers -> CallType]
    BY DEF Init, CallType
<1>4. pc \in [Threads -> Labels]
    BY DEF Init, Labels
<1>5. loc \in [Threads -> LocType]
    BY NoLocalsType DEF Init
<1>6. nJobs \in Int /\ uncounted \in Int /\ perFrame \subseteq Jobs /\ nAdded \in 0 .. MaxJobs
    BY DEF Init
<1> QED
    BY <1>2, <1>3, <1>4, <1>5, <1>6 DEF Typed

\* And after every step.
LEMMA TypedNext == Running /\ Stock /\ Typed /\ [Next]_vars => Typed'
<1> SUFFICES ASSUME Running, Stock, Typed, [Next]_vars PROVE Typed'
    OBVIOUS
<1>1. CASE UNCHANGED vars
    BY <1>1 DEF vars, Typed
<1> QED
    BY <1>1, TypedWorker, TypedMaster, TypedCall DEF Next
-----------------------------------------------------------------------------
(* Who is idle.                                                              *)

\* A worker in the middle of a turn has noted that it took a job.
Turns ==
    \A w \in Workers :
        /\ worker[w].took => pc[w] \in {"popDirect", "popShared", "scan", "service", "run",
                                        "released", "endTurn"}
        /\ pc[w] \in {"service", "run", "released", "endTurn"} => worker[w].took

Busy == {w \in Workers : worker[w].took \/ pc[w] = "dead"}

\* Who neither has taken a job nor is gone is idle.
Idle == Turns /\ nIdle = NumThreads - Cardinality(Busy)

\* Workers are as many as NumThreads.
LEMMA WorkerCount == IsFiniteSet(Workers) /\ Cardinality(Workers) = NumThreads
<1> DEFINE n == NumThreads - 1
<1>1. n \in Int /\ 0 \in Int /\ ~(0 > n) /\ n - 0 + 1 = NumThreads
    BY Numbers
<1>2. Workers = 0 .. n
    BY DEF Workers
<1> HIDE DEF n
<1> QED
    BY <1>1, <1>2, FS_Interval

\* So finitely many are busy.
LEMMA BusyFinite ==
    /\ IsFiniteSet(Busy) /\ Cardinality(Busy) \in 0 .. NumThreads
<1>1. Busy \in SUBSET Workers
    BY DEF Busy
<1>2. IsFiniteSet(Busy) /\ Cardinality(Busy) <= Cardinality(Workers)
    BY <1>1, WorkerCount, FS_Subset
<1>3. Cardinality(Busy) \in Nat
    BY <1>2, FS_CardinalityType
<1> QED
    BY <1>2, <1>3, WorkerCount

\* No worker starts or ends a turn.
LEMMA IdleSame ==
    ASSUME Idle, nIdle' = nIdle,
           \A w \in Workers : worker'[w].took = worker[w].took /\ pc'[w] = pc[w]
    PROVE  Idle'
<1>1. Busy' = Busy
    BY DEF Busy
<1>2. Turns'
    BY DEF Idle, Turns
<1> QED
    BY <1>1, <1>2 DEF Idle

\* What a worker does.
LEMMA IdleWorker ==
    ASSUME Running, Idle, NEW w \in Workers, WorkerStep(w)
    PROVE  Idle'
<1> USE Numbers DEF Running, Shape, WorkerFields, Goto
<1>1. \A v \in Workers \ {w} : pc'[v] = pc[v] /\ worker'[v] = worker[v]
    BY DEF WorkerStep, Wake, PopDirect, PopShared, Ticket, NextLevel, TakeJob, Taken, Service, Run,
           Return, Released, EndTurn, Reply, FallAsleep, Awake, Exit
<1>2. Turns'
    <2>1. /\ worker'[w].took => pc'[w] \in {"popDirect", "popShared", "scan", "service", "run",
                                            "released", "endTurn"}
          /\ pc'[w] \in {"service", "run", "released", "endTurn"} => worker'[w].took
        <3>1. CASE Wake(w) \/ Reply(w) \/ FallAsleep(w) \/ Awake(w) \/ Exit(w)
            BY <3>1 DEF Wake, Reply, FallAsleep, Awake, Exit, Idle, Turns
        <3>2. CASE PopDirect(w) \/ PopShared(w) \/ NextLevel(w) \/ TakeJob(w)
            BY <3>2 DEF PopDirect, PopShared, Ticket, NextLevel, TakeJob, Idle, Turns
        <3>3. CASE Taken(w) \/ EndTurn(w)
            BY <3>3 DEF Taken, EndTurn, Idle, Turns
        <3>4. CASE Service(w) \/ Released(w)
            BY <3>4 DEF Service, Released, Idle, Turns
        <3>5. CASE Run(w)
            <4>1. loc[w].src # None
                BY <3>5 DEF Run, FromQueue
            <4> QED
                BY <3>5, <4>1 DEF Run, Idle, Turns
        <3> QED
            BY <3>1, <3>2, <3>3, <3>4, <3>5 DEF WorkerStep
    <2> QED
        BY <1>1, <2>1 DEF Idle, Turns
<1>3. \A u : u # w => (u \in Busy <=> u \in Busy')
    BY <1>1 DEF Busy
<1>4. \/ w \in Busy /\ w \notin Busy' /\ nIdle' = nIdle + 1
      \/ w \notin Busy /\ w \in Busy' /\ nIdle' = nIdle - 1
      \/ (w \in Busy <=> w \in Busy') /\ nIdle' = nIdle
    <2>1. CASE Taken(w)
        BY <2>1 DEF Taken, Busy, Idle, Turns
    <2>2. CASE EndTurn(w)
        BY <2>2 DEF EndTurn, Busy, Idle, Turns
    <2>3. CASE Exit(w)
        BY <2>3 DEF Exit, Busy, Idle, Turns
    <2>4. CASE Wake(w) \/ Reply(w) \/ FallAsleep(w) \/ Awake(w) \/ PopDirect(w) \/ PopShared(w)
        BY <2>4 DEF Wake, Reply, FallAsleep, Awake, PopDirect, PopShared, Ticket, Busy
    <2>5. CASE NextLevel(w) \/ TakeJob(w) \/ Service(w) \/ Released(w)
        BY <2>5 DEF NextLevel, TakeJob, Service, Released, Busy
    <2>6. CASE Run(w)
        <3>1. loc[w].src # None
            BY <2>6 DEF Run, FromQueue
        <3> QED
            BY <2>6, <3>1 DEF Run, Busy
    <2> QED
        BY <2>1, <2>2, <2>3, <2>4, <2>5, <2>6 DEF WorkerStep
<1> DEFINE A == Busy
           B == Busy'
<1>5. IsFiniteSet(A)
    BY BusyFinite
<1>6. nIdle = NumThreads - Cardinality(A)
    BY DEF Idle
<1>7. nIdle' = NumThreads - Cardinality(B)
    <2> HIDE DEF A, B
    <2>1. /\ Cardinality(A) \in Nat /\ Cardinality(B) \in Nat
          /\ w \in A /\ w \notin B => Cardinality(B) = Cardinality(A) - 1
          /\ w \notin A /\ w \in B => Cardinality(B) = Cardinality(A) + 1
          /\ (w \in A <=> w \in B) => Cardinality(B) = Cardinality(A)
        <3>1. \A u : u # w => (u \in A <=> u \in B)
            BY <1>3 DEF A, B
        <3> QED
            BY <1>5, <3>1, CountMove
    <2>2. \/ w \in A /\ w \notin B /\ nIdle' = nIdle + 1
          \/ w \notin A /\ w \in B /\ nIdle' = nIdle - 1
          \/ (w \in A <=> w \in B) /\ nIdle' = nIdle
        BY <1>4 DEF A, B
    <2> QED
        BY <1>6, <2>1, <2>2
<1> QED
    BY <1>2, <1>7 DEF Idle

\* The other steps leave the turns of the workers alone.
LEMMA IdleMaster ==
    ASSUME Running, Idle, MasterStep \/ Call \/ Resume
    PROVE  Idle'
<1> USE Numbers DEF Running, Shape, WorkerFields, Goto
<1>1. CASE Join
    <2>1. \A w \in Workers : worker'[w] = worker[w] /\ pc'[w] = "dead" /\ pc[w] = "dead"
        BY <1>1 DEF Join, Return, Stopped
    <2>2. Busy' = Workers
        BY <2>1 DEF Busy
    <2>3. Turns'
        BY <2>1 DEF Idle, Turns
    <2>4. nIdle' = 0
        BY <1>1 DEF Join
    <2> QED
        BY <2>2, <2>3, <2>4, WorkerCount DEF Idle
<1>2. CASE \/ PushItem \/ CountItem \/ CountJob \/ Yield \/ YieldPop \/ Block
           \/ NextLevel(Main) \/ TakeJob(Main) \/ Service(Main) \/ Run(Main) \/ Released(Main)
           \/ LockJob \/ GiveUp \/ AwaitAsleep
    BY <1>2, IdleSame
       DEF PushItem, CountItem, CountJob, Yield, YieldPop, Ticket, Block, NextLevel, TakeJob,
           Service, Run, Released, LockJob, GiveUp, AwaitAsleep, Return
<1>3. CASE CallSuspend \/ CallExit
    BY <1>3, IdleSame DEF CallSuspend, CallExit, CallWorker
<1>4. ASSUME Resumed(nSuspend) \/ Resumed(nSuspend + 1) \/ UNCHANGED worker
      PROVE  \A w \in Workers : worker'[w].took = worker[w].took
    BY <1>4 DEF Resumed
<1>5. CASE \/ Suspend \/ AbortAll
           \/ \E p \in Levels, filtered \in BOOLEAN : ExecuteToPriority(p, filtered)
    <2>1. /\ pc' = [pc EXCEPT ![Main] = "idle"] /\ nIdle' = nIdle
          /\ Resumed(nSuspend + 1) \/ UNCHANGED worker
        BY <1>5 DEF Suspend, AbortAll, ExecuteToPriority, Return
    <2> QED
        BY <1>4, <2>1, IdleSame
<1>6. CASE Call
    <2>1. /\ UNCHANGED <<worker, nIdle>>
          /\ \A w \in Workers : pc'[w] = pc[w]
        BY <1>6 DEF Call, AddJobInPlace, AddJob, Add, Wait, ChangePriority, CallJob, WaitFrame,
                    SuspendExecution, Stop
    <2> QED
        BY <2>1, IdleSame
<1>7. CASE Resume
    BY <1>4, <1>7, IdleSame DEF Resume
<1> QED
    BY <1>1, <1>2, <1>3, <1>5, <1>6, <1>7 DEF MasterStep

\* At first all workers are idle.
LEMMA IdleInit == Init => Idle
<1> SUFFICES ASSUME Init PROVE Idle
    OBVIOUS
<1>1. \A w \in Workers : ~worker[w].took /\ pc[w] = "wait"
    BY Numbers DEF Init
<1>2. Busy = {}
    BY <1>1 DEF Busy
<1>3. nIdle = NumThreads
    BY DEF Init
<1>4. Cardinality(Busy) = 0
    BY <1>2, FS_EmptySet
<1> QED
    BY <1>1, <1>3, <1>4, Numbers DEF Idle, Turns

\* Every step keeps that.
LEMMA IdleNext == Running /\ Idle /\ [Next]_vars => Idle'
<1> SUFFICES ASSUME Running, Idle, [Next]_vars PROVE Idle'
    OBVIOUS
<1>1. CASE UNCHANGED vars
    BY <1>1, IdleSame DEF vars
<1> QED
    BY <1>1, IdleWorker, IdleMaster DEF Next
-----------------------------------------------------------------------------
(* What m_nJobs counts.                                                      *)

\* A thread that holds a job of a queue knows the queue; else the master has none.
Place ==
    /\ \A t \in Threads : pc[t] \in {"taken", "service", "released"} => loc[t].src # None
    /\ pc[Main] \notin {"scan", "service", "run", "released", "pushItem", "countItem"}
           => loc[Main].src = None

\* What workers do.
LEMMA PlaceWorker ==
    ASSUME Running, Stock, Place, NEW w \in Workers, WorkerStep(w)
    PROVE  Place'
<1> USE Numbers DEF Running, Shape, Goto
<1>1. pc'[Main] = pc[Main] /\ loc'[Main] = loc[Main] /\ \A t \in Threads \ {w} : pc'[t] = pc[t] /\ loc'[t] = loc[t]
    <2>1. CASE Run(w)
        <3>1. loc[w].src # None
            BY <2>1 DEF Run, FromQueue
        <3> QED
            BY <2>1, <3>1 DEF Run
    <2>2. CASE ~Run(w)
        BY <2>2 DEF WorkerStep, Wake, PopDirect, PopShared, Ticket, NextLevel, TakeJob, Taken, Service,
               Released, EndTurn, Reply, FallAsleep, Awake, Exit
    <2> QED
        BY <2>1, <2>2
<1>2. pc'[w] \in {"taken", "service", "released"} => loc'[w].src # None
    <2>1. CASE TakeJob(w)
        <3>1. loc[w].src \in Queues
            BY <2>1 DEF TakeJob, Stock, Stocked
        <3> QED
            BY <2>1, <3>1 DEF TakeJob
    <2>2. CASE Wake(w) \/ Reply(w) \/ FallAsleep(w) \/ Awake(w) \/ Exit(w) \/ EndTurn(w)
        BY <2>2 DEF Wake, Reply, FallAsleep, Awake, Exit, EndTurn
    <2>3. CASE PopDirect(w) \/ PopShared(w) \/ NextLevel(w)
        BY <2>3 DEF PopDirect, PopShared, Ticket, NextLevel
    <2>4. CASE Taken(w) \/ Service(w) \/ Released(w)
        BY <2>4 DEF Taken, Service, Released, Place
    <2>5. CASE Run(w)
        BY <2>5 DEF Run, FromQueue
    <2> QED
        BY <2>1, <2>2, <2>3, <2>4, <2>5 DEF WorkerStep
<1> QED
    BY <1>1, <1>2 DEF Place

\* What the master does.
LEMMA PlaceMaster ==
    ASSUME Running, Stock, Place, MasterStep \/ Call \/ Resume
    PROVE  Place'
<1> USE Numbers DEF Running, Shape, Goto
<1> DEFINE Free(l) == l \notin {"scan", "service", "run", "released", "pushItem", "countItem"}
<1>1. \A w \in Workers : pc'[w] = pc[w] /\ loc'[w] = loc[w]
    <2>1. CASE MasterStep
        <3>1. CASE \E p \in Levels, filtered \in BOOLEAN : ExecuteToPriority(p, filtered)
            BY <3>1 DEF ExecuteToPriority, Return
        <3>2. CASE ~\E p \in Levels, filtered \in BOOLEAN : ExecuteToPriority(p, filtered)
            BY <2>1, <3>2
               DEF MasterStep, PushItem, CountItem, CountJob, Yield, YieldPop, Ticket, Block, NextLevel,
                   TakeJob, Service, Run, Released, LockJob, GiveUp, AwaitAsleep, Return, CallSuspend,
                   CallExit, CallWorker, Suspend, AbortAll, Join
        <3> QED
            BY <3>1, <3>2
    <2>2. CASE Call \/ Resume
        BY <2>2 DEF Call, AddJobInPlace, AddJob, Add, Wait, ChangePriority, CallJob, WaitFrame,
                    SuspendExecution, Stop, Resume
    <2> QED
        BY <2>1, <2>2
<1>2. /\ pc'[Main] \in {"taken", "service", "released"} => loc'[Main].src # None
      /\ Free(pc'[Main]) => loc'[Main].src = None
    <2>1. CASE TakeJob(Main)
        <3>1. loc[Main].src \in Queues
            BY <2>1 DEF TakeJob, Stock, Stocked
        <3> QED
            BY <2>1, <3>1 DEF TakeJob
    <2>2. CASE PushItem \/ CountItem \/ CountJob \/ Yield \/ Block \/ GiveUp
        BY <2>2 DEF PushItem, CountItem, CountJob, Yield, Block, GiveUp, Return, NoLocals, Place
    <2>3. CASE YieldPop \/ NextLevel(Main)
        BY <2>3 DEF YieldPop, Ticket, NextLevel, Place, NoLocals
    <2>4. CASE Service(Main) \/ Run(Main) \/ Released(Main)
        BY <2>4 DEF Service, Run, Released, Return, NoLocals, Place
    <2>5. CASE LockJob
        BY <2>5 DEF LockJob, Return, NoLocals, Place
    <2>6. CASE CallSuspend \/ CallExit \/ AwaitAsleep \/ Suspend \/ AbortAll \/ Join
        BY <2>6 DEF CallSuspend, CallExit, CallWorker, AwaitAsleep, Suspend, AbortAll, Join, Return, Place
    <2>7. CASE \E p \in Levels, filtered \in BOOLEAN : ExecuteToPriority(p, filtered)
        BY <2>7 DEF ExecuteToPriority, Return, Place
    <2>8. CASE Resume
        BY <2>8 DEF Resume, Place
    <2>9. CASE \/ \E j \in Jobs : Wait(j)
               \/ WaitFrame \/ (\E call \in Suspenders : SuspendExecution(call)) \/ Stop
        BY <2>9 DEF Wait, WaitFrame, SuspendExecution, Stop, Begin, Place
    <2>10. CASE \E j \in Jobs : \/ \E kind \in Kinds : AddJobInPlace(j, kind) \/ AddJob(j, kind)
                                \/ \E p \in Levels : ChangePriority(j, p)
                                \/ \E call \in {"Execute", "TryExecute", "Abort"} : CallJob(call, j)
        <3>1. ASSUME NEW j \in Jobs, NEW kind \in Kinds, AddJobInPlace(j, kind) PROVE pc'[Main] = "run"
            BY <3>1 DEF AddJobInPlace
        <3>2. ASSUME NEW j \in Jobs, NEW kind \in Kinds, AddJob(j, kind) PROVE pc'[Main] = "pushItem"
            BY <3>2 DEF AddJob
        <3>3. ASSUME NEW j \in Jobs, NEW p \in Levels, ChangePriority(j, p) PROVE pc'[Main] = "pushItem"
            BY <3>3 DEF ChangePriority
        <3>4. ASSUME NEW j \in Jobs, NEW call, CallJob(call, j)
              PROVE  pc'[Main] = "lockJob" /\ loc'[Main].src = None
            BY <3>4 DEF CallJob, Begin, Place, LocFields
        <3> QED
            BY <2>10, <3>1, <3>2, <3>3, <3>4
    <2> QED
        BY <2>1, <2>2, <2>3, <2>4, <2>5, <2>6, <2>7, <2>8, <2>9, <2>10 DEF MasterStep, Call
<1> QED
    BY <1>1, <1>2 DEF Place, Threads

\* At first nobody holds anything, and every step keeps Place.
LEMMA PlaceInit == Init => Place
BY Numbers DEF Init, Place, NoLocals

\* Every step keeps Place.
LEMMA PlaceNext == Running /\ Stock /\ Place /\ [Next]_vars => Place'
<1> SUFFICES ASSUME Running, Stock, Place, [Next]_vars PROVE Place'
    OBVIOUS
<1>1. CASE UNCHANGED vars
    BY <1>1 DEF vars, Place
<1> QED
    BY <1>1, PlaceWorker, PlaceMaster DEF Next

\* Who holds a job that was taken from a queue and is still counted.
Holding == {t \in Threads : pc[t] \in {"taken", "service", "run", "released"} /\ loc[t].src # None}

\* What one thread adds to that.
Held(t) == IF t \in Holding THEN 1 ELSE 0

\* An entry that is pushed and not counted yet.
Owed == IF pc[Main] \in {"countItem", "countJob"} THEN 1 ELSE 0

\* While there are threads, m_nJobs is what is queued or held, less what
\* ChangePriority pushed and what AddJob has yet to count.
Tally == Stopped \/ nJobs + uncounted + Owed = Len(All(queue)) + Cardinality(Holding)

\* So finitely many.
LEMMA HoldingFinite == IsFiniteSet(Holding) /\ IsFiniteSet(Holding')
<1>1. Holding \subseteq Threads /\ Holding' \subseteq Threads
    BY DEF Holding
<1> QED
    BY <1>1, ThreadsFinite, FS_Subset

\* A step of thread t that changes both sides alike.
LEMMA TallyMove ==
    ASSUME Typed, Typed', Stock, Stock', Tally, NEW t \in Threads, Others(t),
           t = Main \/ pc[t] # "dead",
           (nJobs' + uncounted' + Owed') - (nJobs + uncounted + Owed)
               = (Len(All(queue')) - Len(All(queue))) + (Held(t)' - Held(t))
    PROVE  Tally'
<1> DEFINE A == Holding
           B == Holding'
<1>1. CASE Stopped
    <2>1. t = Main
        BY <1>1 DEF Stopped, Threads
    <2> QED
        BY <1>1, <2>1, Numbers DEF Stopped, Others, Tally
<1>2. CASE ~Stopped
    <2>1. nJobs + uncounted + Owed = Len(All(queue)) + Cardinality(A)
        BY <1>2 DEF Tally
    <2>2. \A u : u # t => (u \in A <=> u \in B)
        BY DEF Holding, Others
    <2>3. Held(t) = (IF t \in A THEN 1 ELSE 0) /\ Held(t)' = IF t \in B THEN 1 ELSE 0
        BY DEF Held
    <2>4. IsFiniteSet(A)
        BY HoldingFinite
    <2> DEFINE h == Held(t)
               i == Held(t)'
    <2>5. Cardinality(A) \in Nat /\ Cardinality(B) \in Nat /\ Cardinality(B) = Cardinality(A) + (i - h)
        <3> HIDE DEF A, B
        <3>1. /\ Cardinality(A) \in Nat /\ Cardinality(B) \in Nat
              /\ t \in A /\ t \notin B => Cardinality(B) = Cardinality(A) - 1
              /\ t \notin A /\ t \in B => Cardinality(B) = Cardinality(A) + 1
              /\ (t \in A <=> t \in B) => Cardinality(B) = Cardinality(A)
            BY <2>2, <2>4, CountMove
        <3> HIDE DEF h, i
        <3>2. h = (IF t \in A THEN 1 ELSE 0) /\ i = IF t \in B THEN 1 ELSE 0
            BY <2>3 DEF h, i
        <3> QED
            BY <3>1, <3>2
    <2> DEFINE x == nJobs + uncounted + Owed
               y == nJobs' + uncounted' + Owed'
               a == Len(All(queue))
               b == Len(All(queue'))
    <2>6. x \in Int /\ y \in Int /\ a \in Nat /\ b \in Nat /\ h \in Int /\ i \in Int
        BY AllType DEF Typed, Stock, Stocked, Owed, Held
    <2>7. y - x = (b - a) + (i - h) /\ x = a + Cardinality(A)
        BY <2>1
    <2> HIDE DEF x, y, a, b, h, i, A, B
    <2>8. y = b + Cardinality(B)
        BY <2>5, <2>6, <2>7
    <2> QED
        BY <2>8 DEF Tally, y, b, B
<1> QED
    BY <1>1, <1>2

\* A step that changes neither side.
LEMMA TallyAside ==
    ASSUME Typed, Typed', Stock, Stock', Tally, NEW t \in Threads, Others(t),
           t = Main \/ pc[t] # "dead",
           queue' = queue, nJobs' + uncounted' + Owed' = nJobs + uncounted + Owed,
           Held(t)' = Held(t)
    PROVE  Tally'
<1> DEFINE x == nJobs + uncounted + Owed
           y == nJobs' + uncounted' + Owed'
           a == Len(All(queue))
           b == Len(All(queue'))
           h == Held(t)
           i == Held(t)'
<1>1. x \in Int /\ a \in Nat /\ h \in Int
    BY AllType DEF Typed, Stock, Stocked, Owed, Held
<1>2. y = x /\ b = a /\ i = h
    OBVIOUS
<1> HIDE DEF x, y, a, b, h, i
<1>3. y - x = (b - a) + (i - h)
    BY <1>1, <1>2
<1> QED
    BY <1>3, TallyMove DEF x, y, a, b, h, i

\* One level of one queue changes.
LEMMA QueueChange ==
    ASSUME queue \in [Queues -> Stacks], NEW q \in Queues, NEW l \in Levels, NEW v \in Seq(Jobs),
           queue' = [queue EXCEPT ![q] = [queue[q] EXCEPT ![l] = v]]
    PROVE  Len(All(queue')) = Len(All(queue)) + (Len(v) - Len(queue[q][l]))
<1> DEFINE rs == [queue EXCEPT ![q] = [queue[q] EXCEPT ![l] = v]]
<1>1. Len(All(rs)) = Len(All(queue)) + (Len(v) - Len(queue[q][l]))
    BY AllChange
<1>2. queue' = rs
    OBVIOUS
<1> HIDE DEF rs
<1> QED
    BY <1>1, <1>2

\* An entry that is taken is held.
LEMMA TallyTake ==
    ASSUME Shape, Typed, Typed', Stock, Stock', Tally, NEW t \in Threads, TakeJob(t)
    PROVE  Tally'
<1> USE Numbers
<1>0. loc[t].src \in Queues /\ loc[t].level \in Levels
    BY DEF TakeJob, Stock, Stocked
<1> SUFFICES ASSUME NEW q \in Queues, NEW l \in Levels, loc[t].src = q, loc[t].level = l
             PROVE  Tally'
    BY <1>0
<1> DEFINE s == queue[q][l]
           v == Tail(s)
<1>1. queue \in [Queues -> Stacks] /\ s \in Seq(Jobs) /\ s # <<>>
    BY DEF TakeJob, Stock, Stocked, Stacks
<1>2. v \in Seq(Jobs) /\ Len(v) - Len(s) = -1
    BY <1>1, HeadTailProperties
<1>3. queue' = [queue EXCEPT ![q] = [queue[q] EXCEPT ![l] = v]]
    BY DEF TakeJob
<1>4. Len(All(queue')) = Len(All(queue)) + (Len(v) - Len(s))
    <2> HIDE DEF s, v
    <2>1. Len(All(queue')) = Len(All(queue)) + (Len(v) - Len(queue[q][l]))
        BY <1>1, <1>2, <1>3, QueueChange
    <2> QED
        BY <2>1 DEF s
<1>5. /\ pc[t] = "scan" /\ pc'[t] \in {"service", "taken"} /\ loc'[t].src = q
      /\ Others(t) /\ UNCHANGED <<nJobs, uncounted>>
    BY DEF TakeJob, Goto, Shape, Others
<1>6. Held(t) = 0 /\ Held(t)' = 1
    BY <1>5 DEF Held, Holding
<1>7. Owed' = Owed
    BY <1>5 DEF Owed, Others
<1>8. (nJobs' + uncounted' + Owed') - (nJobs + uncounted + Owed)
               = (Len(All(queue')) - Len(All(queue))) + (Held(t)' - Held(t))
    <2>1. Len(All(queue)) \in Nat
        BY <1>1, AllType
    <2>2. Len(All(queue')) = Len(All(queue)) - 1
        BY <1>2, <1>4, <2>1
    <2>3. nJobs + uncounted + Owed \in Int
        BY DEF Typed, Owed
    <2> QED
        BY <1>5, <1>6, <1>7, <2>1, <2>2, <2>3
<1> QED
    BY <1>5, <1>8, TallyMove

\* An entry that is pushed will be counted.
LEMMA TallyPush ==
    ASSUME Shape, Typed, Typed', Stock, Stock', Tally, PushItem
    PROVE  Tally'
<1> USE Numbers
<1>0. loc[Main].src \in Queues /\ loc[Main].job \in Jobs
    BY DEF PushItem, Stock, Stocked
<1> SUFFICES ASSUME NEW q \in Queues, NEW j \in Jobs, NEW l \in Levels,
                    loc[Main].src = q, loc[Main].job = j, job[j].prio = l
             PROVE  Tally'
    BY <1>0 DEF Stock, Prios
<1> DEFINE s == queue[q][l]
           v == Append(s, j)
<1>1. queue \in [Queues -> Stacks] /\ s \in Seq(Jobs)
    BY DEF Stock, Stocked, Stacks
<1>2. v \in Seq(Jobs) /\ Len(v) - Len(s) = 1
    BY <1>1, AppendProperties
<1>3. queue' = [queue EXCEPT ![q] = [queue[q] EXCEPT ![l] = v]]
    BY DEF PushItem
<1>4. Len(All(queue')) = Len(All(queue)) + (Len(v) - Len(s))
    <2> HIDE DEF s, v
    <2>1. Len(All(queue')) = Len(All(queue)) + (Len(v) - Len(queue[q][l]))
        BY <1>1, <1>2, <1>3, QueueChange
    <2> QED
        BY <2>1 DEF s
<1>5. /\ pc[Main] = "pushItem" /\ pc'[Main] = "countItem"
      /\ Others(Main) /\ UNCHANGED <<nJobs, uncounted>>
    BY DEF PushItem, Goto, Shape, Others
<1>6. Held(Main) = 0 /\ Held(Main)' = 0 /\ Owed = 0 /\ Owed' = 1
    BY <1>5 DEF Held, Holding, Owed
<1>8. (nJobs' + uncounted' + Owed') - (nJobs + uncounted + Owed)
               = (Len(All(queue')) - Len(All(queue))) + (Held(Main)' - Held(Main))
    <2>1. Len(All(queue)) \in Nat
        BY <1>1, AllType
    <2>2. Len(All(queue')) = Len(All(queue)) + 1
        BY <1>2, <1>4, <2>1
    <2>3. nJobs + uncounted \in Int
        BY DEF Typed
    <2> QED
        BY <1>5, <1>6, <2>1, <2>2, <2>3
<1> QED
    BY <1>5, <1>8, TallyMove

\* A job that is let go is no longer counted.
LEMMA TallyReleased ==
    ASSUME Shape, Typed, Typed', Stock, Stock', Place, Tally, NEW t \in Threads, Released(t)
    PROVE  Tally'
<1> USE Numbers
<1>1. /\ pc[t] = "released" /\ pc'[t] \in {"yield", "popDirect", "endTurn"} /\ loc[t].src # None
      /\ Others(t) /\ nJobs' = nJobs - 1 /\ UNCHANGED <<uncounted, queue>>
    BY DEF Released, Goto, Shape, Others, Place
<1>2. Held(t) = 1 /\ Held(t)' = 0
    BY <1>1 DEF Held, Holding
<1>3. Owed' = Owed /\ Owed \in Int
    BY <1>1 DEF Owed, Others
<1>4. (nJobs' + uncounted' + Owed') - (nJobs + uncounted + Owed)
               = (Len(All(queue')) - Len(All(queue))) + (Held(t)' - Held(t))
    <2>1. Len(All(queue)) \in Nat
        BY AllType DEF Stock, Stocked
    <2>2. nJobs \in Int /\ uncounted \in Int
        BY DEF Typed
    <2> QED
        BY <1>1, <1>2, <1>3, <2>1, <2>2
<1> QED
    BY <1>1, <1>4, TallyMove

\* What workers do.
LEMMA TallyWorker ==
    ASSUME Running, Typed, Typed', Stock, Stock', Place, Tally, NEW w \in Workers, WorkerStep(w)
    PROVE  Tally'
<1> USE Numbers DEF Running
<1>1. CASE Wake(w) \/ Reply(w) \/ FallAsleep(w) \/ Awake(w) \/ Exit(w) \/ EndTurn(w)
    BY <1>1, TallyAside DEF Wake, Reply, FallAsleep, Awake, Exit, EndTurn, Goto, Shape, Others,
                            Held, Holding, Owed
<1>2. CASE PopDirect(w) \/ PopShared(w) \/ NextLevel(w)
    BY <1>2, TallyAside DEF PopDirect, PopShared, Ticket, NextLevel, Goto, Shape, Others,
                            Held, Holding, Owed
<1>3. CASE Taken(w) \/ Service(w)
    BY <1>3, TallyAside DEF Taken, Service, Goto, Shape, Others, Held, Holding, Owed
<1>4. CASE Run(w)
    <2>1. loc[w].src # None
        BY <1>4 DEF Run, FromQueue
    <2> QED
        BY <1>4, <2>1, TallyAside DEF Run, Goto, Shape, Others, Held, Holding, Owed
<1> QED
    BY <1>1, <1>2, <1>3, <1>4, TallyTake, TallyReleased DEF WorkerStep

\* When the pool is suspended nobody holds anything, and when it has stopped nothing is counted.
LEMMA TallyQuiet ==
    ASSUME Protocol, Typed, Typed', Stock, Stock', Tally, pc[Main] = "suspended",
           pc' = [pc EXCEPT ![Main] = "idle"],
           nJobs + uncounted = Len(All(queue)) => nJobs' + uncounted' = Len(All(queue'))
    PROVE  Tally'
<1> USE Numbers
<1>1. \A t \in Threads : t # Main => pc[t] = "asleep" /\ pc'[t] = "asleep"
    BY DEF Protocol, Sleepers, Threads, Shape
<1>2. Holding = {} /\ Holding' = {}
    BY <1>1 DEF Holding, Protocol, Shape
<1>3. Cardinality(Holding) = 0 /\ Cardinality(Holding') = 0
    BY <1>2, FS_EmptySet
<1>4. Owed = 0 /\ Owed' = 0
    BY DEF Owed, Protocol, Shape
<1>5. ~Stopped
    BY <1>1 DEF Stopped, Workers, Threads
<1> DEFINE x == nJobs + uncounted
           y == nJobs' + uncounted'
           a == Len(All(queue))
           b == Len(All(queue'))
<1>6. x \in Int /\ y \in Int /\ a \in Nat /\ b \in Nat
    BY AllType DEF Typed, Stock, Stocked
<1>7. x + 0 = a + 0
    BY <1>3, <1>4, <1>5 DEF Tally
<1>8. x = a => y = b
    OBVIOUS
<1> HIDE DEF x, y, a, b
<1>9. y + 0 = b + 0
    BY <1>6, <1>7, <1>8
<1> QED
    BY <1>3, <1>4, <1>9 DEF Tally, y, b

\* ExecuteToPriority drops as many of the queued jobs as it subtracts.
LEMMA TallyExecute ==
    ASSUME Protocol, Typed, Typed', Stock, Stock', Tally,
           NEW p \in Levels, NEW filtered \in BOOLEAN, ExecuteToPriority(p, filtered)
    PROVE  Tally'
<1>1. queue \in [Queues -> Stacks]
    BY DEF Stock, Stocked
<1>2. PICK s \in Seq(Jobs) : /\ queue' = PutBack(queue, p, s)
                             /\ nJobs' = nJobs - (Len(Popped(queue, p)) - Len(s))
                             /\ Len(Popped(queue, p)) \in Nat /\ Len(s) \in Nat
    BY <1>1, ExecuteIs
<1>3. ASSUME NEW j \in Jobs PROVE Target(j) \in Queues /\ job[j].prio \in Levels
    <2>1. job[j].kind \in AllKinds /\ job[j].prio \in Levels
        BY DEF Typed, JobType
    <2>2. TargetOf(NoKind) \in Queues
        BY Numbers DEF TargetOf, NoKind
    <2> QED
        BY <2>1, <2>2, Targets DEF AllKinds, Target
<1>4. \A i \in 1 .. Len(s) : Target(s[i]) \in Queues /\ job[s[i]].prio \in Levels
    BY <1>3
<1>5. Len(All(PutBack(queue, p, s))) = Len(All(queue)) - Len(Popped(queue, p)) + Len(s)
    BY <1>1, <1>4, PutBackLength
<1>6. Len(All(queue')) = Len(All(queue)) - Len(Popped(queue, p)) + Len(s)
    BY <1>2, <1>5
<1>7. /\ pc[Main] = "suspended" /\ pc' = [pc EXCEPT ![Main] = "idle"] /\ uncounted' = uncounted
    BY DEF ExecuteToPriority, Return, Goto
<1>8. Len(All(queue)) \in Nat /\ nJobs \in Int /\ uncounted \in Int
    BY <1>1, AllType DEF Typed
<1>9. nJobs + uncounted = Len(All(queue)) => nJobs' + uncounted' = Len(All(queue'))
    BY <1>2, <1>6, <1>7, <1>8
<1> QED
    BY <1>7, <1>9, TallyQuiet

\* AbortAll leaves nothing.
LEMMA TallyAbort ==
    ASSUME Protocol, Typed, Typed', Stock, Stock', Tally, AbortAll
    PROVE  Tally'
<1>1. /\ pc[Main] = "suspended" /\ pc' = [pc EXCEPT ![Main] = "idle"]
      /\ nJobs' = 0 /\ uncounted' = 0
      /\ queue' = [q \in Queues |-> [l \in Levels |-> <<>>]]
    BY DEF AbortAll, Return, Goto
<1>2. Len(All(queue')) = 0
    <2>1. queue' \in [Queues -> Stacks] /\ \A q \in Queues, l \in Levels : queue'[q][l] = <<>>
        BY <1>1 DEF Stacks
    <2> DEFINE rs == queue'
    <2> HIDE DEF rs
    <2> QED
        BY <2>1, AllNothing DEF rs
<1> QED
    BY <1>1, <1>2, TallyQuiet

\* What the master does.
LEMMA TallyMaster ==
    ASSUME Running, Protocol, Typed, Typed', Stock, Stock', Place, Tally, MasterStep
    PROVE  Tally'
<1> USE Numbers DEF Running
<1>0. nJobs \in Int /\ uncounted \in Int
    BY DEF Typed
<1>1. CASE CountItem
    <2>1. /\ pc[Main] = "countItem" /\ Others(Main) /\ UNCHANGED <<queue, nJobs>>
          /\ \/ pc'[Main] = "idle" /\ uncounted' = uncounted + 1
             \/ pc'[Main] = "countJob" /\ uncounted' = uncounted
        BY <1>1 DEF CountItem, Return, Goto, Shape, Others
    <2>2. nJobs' + uncounted' + Owed' = nJobs + uncounted + Owed
        BY <1>0, <2>1 DEF Owed
    <2>3. Held(Main)' = Held(Main)
        BY <2>1 DEF Held, Holding
    <2> QED
        BY <2>1, <2>2, <2>3, TallyAside
<1>2. CASE CountJob
    <2>1. /\ pc[Main] = "countJob" /\ Others(Main) /\ UNCHANGED <<queue, uncounted>>
          /\ pc'[Main] = "idle" /\ nJobs' = nJobs + 1
        BY <1>2 DEF CountJob, Return, Goto, Shape, Others
    <2>2. nJobs' + uncounted' + Owed' = nJobs + uncounted + Owed
        BY <1>0, <2>1 DEF Owed
    <2>3. Held(Main)' = Held(Main)
        BY <2>1 DEF Held, Holding
    <2> QED
        BY <2>1, <2>2, <2>3, TallyAside
<1>3. CASE Yield \/ Block \/ GiveUp
    BY <1>3, TallyAside DEF Yield, Block, GiveUp, Return, Goto, Shape, Others, Held, Holding, Owed
<1>4. CASE YieldPop \/ NextLevel(Main)
    BY <1>4, TallyAside DEF YieldPop, Ticket, NextLevel, Goto, Shape, Others, Held, Holding, Owed
<1>5. CASE Service(Main)
    BY <1>5, TallyAside DEF Service, Goto, Shape, Others, Held, Holding, Owed
<1>6. CASE Run(Main)
    BY <1>6, TallyAside DEF Run, Return, Goto, Shape, Others, Held, Holding, Owed
<1>7. CASE LockJob
    BY <1>7, TallyAside DEF LockJob, Return, Goto, Shape, Others, Held, Holding, Owed, Place
<1>8. CASE CallSuspend \/ CallExit \/ AwaitAsleep \/ Suspend
    BY <1>8, TallyAside DEF CallSuspend, CallExit, CallWorker, AwaitAsleep, Suspend, Return, Goto,
                            Shape, Others, Held, Holding, Owed
<1>9. CASE Join
    <2>1. Stopped'
        BY <1>9 DEF Join, Stopped, Return, Goto, Shape
    <2> QED
        BY <2>1 DEF Tally
<1>10. CASE \E p \in Levels, filtered \in BOOLEAN : ExecuteToPriority(p, filtered)
    BY <1>10, TallyExecute
<1> QED
    BY <1>1, <1>2, <1>3, <1>4, <1>5, <1>6, <1>7, <1>8, <1>9, <1>10, TallyAbort, TallyPush, TallyTake,
       TallyReleased DEF MasterStep

\* What its clients call.
LEMMA TallyCall ==
    ASSUME Running, Typed, Typed', Stock, Stock', Place, Tally, Call \/ Resume
    PROVE  Tally'
<1> USE Numbers DEF Running
<1>1. CASE \/ \E j \in Jobs : Wait(j)
           \/ WaitFrame \/ (\E call \in Suspenders : SuspendExecution(call)) \/ Stop
    BY <1>1, TallyAside DEF Wait, WaitFrame, SuspendExecution, Stop, Begin, Goto, Shape, Others,
                            Held, Holding, Owed
<1>2. ASSUME NEW j \in Jobs, NEW kind \in Kinds, AddJobInPlace(j, kind) PROVE Tally'
    BY <1>2, TallyAside DEF AddJobInPlace, Add, Goto, Shape, LocFields, Others, Held, Holding, Owed, Place
<1>3. ASSUME NEW j \in Jobs, NEW kind \in Kinds, AddJob(j, kind) PROVE Tally'
    BY <1>3, TallyAside DEF AddJob, Add, Goto, Shape, Others, Held, Holding, Owed
<1>4. ASSUME NEW j \in Jobs, NEW p \in Levels, ChangePriority(j, p) PROVE Tally'
    BY <1>4, TallyAside DEF ChangePriority, Begin, Goto, Shape, Others, Held, Holding, Owed
<1>5. ASSUME NEW j \in Jobs, NEW call, CallJob(call, j) PROVE Tally'
    BY <1>5, TallyAside DEF CallJob, Begin, Goto, Shape, Others, Held, Holding, Owed
<1>6. CASE Resume
    BY <1>6, TallyAside DEF Resume, Others, Held, Holding, Owed
<1> QED
    BY <1>1, <1>2, <1>3, <1>4, <1>5, <1>6 DEF Call

\* Nothing is queued, held or counted at first.
LEMMA TallyInit == Init => Tally
<1> SUFFICES ASSUME Init PROVE Tally
    OBVIOUS
<1> USE Numbers
<1>1. queue \in [Queues -> Stacks] /\ \A q \in Queues, l \in Levels : queue[q][l] = <<>>
    BY DEF Init, Stacks
<1>2. Len(All(queue)) = 0
    BY <1>1, AllNothing
<1>3. Holding = {} /\ Owed = 0 /\ nJobs = 0 /\ uncounted = 0
    BY DEF Init, Holding, Owed
<1>4. Cardinality(Holding) = 0
    BY <1>3, FS_EmptySet
<1> QED
    BY <1>2, <1>3, <1>4 DEF Tally

\* Every step keeps Tally.
LEMMA TallyNext ==
    Running /\ Protocol /\ Stock /\ Stock' /\ Typed /\ Typed' /\ Place /\ Tally /\ [Next]_vars => Tally'
<1> SUFFICES ASSUME Running, Protocol, Stock, Stock', Typed, Typed', Place, Tally, [Next]_vars
             PROVE  Tally'
    OBVIOUS
<1>1. CASE UNCHANGED vars
    BY <1>1 DEF vars, Tally, Stopped, Owed, Holding
<1> QED
    BY <1>1, TallyWorker, TallyMaster, TallyCall DEF Next

\* What is known of the counters.
Settled == Typed /\ Idle /\ Place /\ Tally

\* When nothing moves, nobody has a ticket or is about to count.
LEMMA ItemsRest ==
    ASSUME Stock, AtRest, NEW q \in Queues
    PROVE  items[q] = Len(Entries(queue, q))
<1> USE Numbers
<1>1. \A t \in Threads : pc[t] \in {"wait", "asleep", "idle"}
    BY DEF AtRest, Threads
<1>2. Scanning(q, Top) = {} /\ Counting(q) = 0
    BY <1>1 DEF Scanning, Counting
<1>3. Cardinality(Scanning(q, Top)) = 0
    BY <1>2, FS_EmptySet
<1>4. items[q] + 0 + 0 = Under(queue[q], Top) /\ items[q] \in Nat
    BY <1>2, <1>3 DEF Stock, Stocked, Balance
<1>5. Len(Entries(queue, q)) = Under(queue[q], Top)
    BY EntriesAre DEF Stock, Stocked
<1> QED
    BY <1>4, <1>5

\* What is known implies CountsSettle.
LEMMA SettledCounts ==
    ASSUME Running, Protocol, Stock, Settled
    PROVE  CountsSettle
<1> USE Numbers
<1>1. TypeOK
    <2>1. nIdle \in 0 .. NumThreads
        BY BusyFinite DEF Settled, Idle
    <2>2. queue \in [Queues -> [Levels -> Seq(Jobs)]] /\ items \in [Queues -> Nat] /\ nSuspend \in Nat
        BY DEF Stock, Stocked, Stacks, Protocol, Counters
    <2>3. job \in [Jobs -> [kind : Kinds \cup {NoKind}, status : Statuses, runs : Nat,
                            owner : Threads \cup {None}, prio : Levels, moved : BOOLEAN]]
        BY DEF Settled, Typed, JobType, AllKinds, Owners
    <2>4. worker \in [Workers -> [call : {"none", "suspend", "exit"}, asleep : BOOLEAN, took : BOOLEAN]]
        BY DEF Settled, Typed, CallType
    <2>5. /\ pc \in [Threads -> Labels]
          /\ loc \in [Threads -> [job : Jobs \cup {None}, src : Queues \cup {None}, level : Levels]]
          /\ nJobs \in Int /\ perFrame \subseteq Jobs /\ nAdded \in 0 .. MaxJobs
        BY DEF Settled, Typed, LocType
    <2> QED
        BY <2>1, <2>2, <2>3, <2>4, <2>5 DEF TypeOK
<1>2. ASSUME AtRest PROVE nIdle = NumThreads /\ nJobs + uncounted = Total
    <2>1. \A t \in Threads : pc[t] \in {"wait", "asleep", "idle"}
        BY <1>2 DEF AtRest, Threads
    <2>2. Busy = {} /\ Holding = {} /\ Owed = 0
        BY <2>1 DEF Busy, Holding, Owed, Settled, Idle, Turns
    <2>3. Cardinality(Busy) = 0 /\ Cardinality(Holding) = 0
        BY <2>2, FS_EmptySet
    <2>4. ~Stopped
        BY <2>1 DEF Stopped, Workers, Threads
    <2>5. nJobs + uncounted + 0 = Len(All(queue)) + 0
        BY <2>2, <2>3, <2>4 DEF Settled, Tally
    <2>6. Len(All(queue)) \in Nat /\ nJobs \in Int /\ uncounted \in Int
        BY AllType DEF Stock, Stocked, Settled, Typed
    <2>7. Total = Len(All(queue))
        BY DEF Total, All
    <2>8. nIdle = NumThreads
        BY <2>3 DEF Settled, Idle
    <2> QED
        BY <2>5, <2>6, <2>7, <2>8
<1> QED
    BY <1>1, <1>2, ItemsRest DEF CountsSettle

\* Settled holds at first and after every step.
LEMMA SettledNext ==
    /\ Init => Settled
    /\ Running /\ Protocol /\ Stock /\ Stock' /\ Settled /\ [Next]_vars => Settled'
BY TypedInit, IdleInit, PlaceInit, TallyInit, TypedNext, IdleNext, PlaceNext, TallyNext DEF Settled

(* When nothing moves, every m_nItems is the length of its queue, all workers *)
(* are idle and m_nJobs is what is queued less what ChangePriority pushed,    *)
(* after any calls of the master, for any number of threads and jobs.         *)
THEOREM CountsSettled == Spec => []CountsSettle
<1>1. Running /\ Protocol /\ Stock /\ Settled => CountsSettle
    BY SettledCounts
<1> QED
    BY <1>1, RunningInit, ProtocolInit, StockInit, SettledNext, RunningNext, ProtocolNext, StockNext,
       PTL DEF Spec
-----------------------------------------------------------------------------
(* The order of serial jobs.                                                *)

\* The jobs whose order is promised: serial ones that clients only added.
Strict == {j \in Jobs : j <= nAdded /\ job[j].kind.serial /\ ~job[j].moved}

\* Where they wait: the lowest level of the first worker's queue.
Line == queue[0][0]
Waits(i) == i \in 1 .. Len(Line) /\ Line[i] \in Strict

\* A thread has taken its job and not finished it; the master brings one.
InHand(t)  == pc[t] \in {"taken", "service", "run"} /\ loc[t].job \in Strict
Bringing   == pc[Main] = "pushItem" /\ loc[Main].job \in Strict
Fresh == {j \in Jobs : job[j].status = "pending" /\ job[j].owner = None}

\* Nobody has a job that was not added.
Made ==
    /\ \A q \in Queues, l \in Levels : \A i \in 1 .. Len(queue[q][l]) : queue[q][l][i] <= nAdded
    /\ \A t \in Threads : loc[t].job <= nAdded

\* Whoever looks for an item looks in its own queue or the shared one.
OwnQueue == \A t \in Threads : pc[t] = "scan" => loc[t].src \in {t, Shared}

\* They wait there alone, in order, and untouched.
Lowest == \A j \in Strict : job[j].prio = 0
OnlyThere ==
    \A q \in Queues, l \in Levels : \A i \in 1 .. Len(queue[q][l]) :
        queue[q][l][i] \in Strict => q = 0 /\ l = 0 /\ queue[q][l][i] \in Fresh
Ascending == \A i, k \in Int : Waits(i) /\ Waits(k) /\ i < k => Line[i] < Line[k]

\* The first worker has the earliest; the master one it executes on the spot.
Earliest ==
    \A t \in Threads : InHand(t) =>
        \/ /\ t = 0
           /\ \A i \in Int : Waits(i) => loc[t].job < Line[i]
           /\ pc[t] # "run" => loc[t].job \in Fresh
        \/ t = Main /\ pc[t] = "run" /\ Stopped

\* The one the master brings is the last that was added.
Latest ==
    /\ Bringing => /\ loc[Main].job = nAdded /\ loc[Main].src = 0 /\ nAdded \in Fresh
                   /\ \A i \in Int : Waits(i) => Line[i] # nAdded
                   /\ \A t \in Threads : InHand(t) => loc[t].job # nAdded
    /\ pc[Main] = "lockJob" => loc[Main].job \notin Strict

\* None is lost, and none has begun before an earlier one was over.
Somewhere ==
    \A j \in Strict : \/ Finished(j)
                      \/ \E i \in Int : Waits(i) /\ Line[i] = j
                      \/ \E t \in Threads : InHand(t) /\ loc[t].job = j
                      \/ Bringing /\ loc[Main].job = j
InTurn ==
    \A j, k \in Strict :
        j < k /\ job[k].status \in {"inprogress", "ok"}
            => Finished(j) \/ (Stopped /\ \E i \in Int : Waits(i) /\ Line[i] = j)

\* x is an entry of s.
Has(s, x) == \E i \in 1 .. Len(s) : s[i] = x

\* What FlattenSeq joins has the entries of all.
LEMMA FlattenEntries ==
    ASSUME NEW X, NEW n \in Nat, NEW g \in [1 .. n -> Seq(X)], NEW x
    PROVE  /\ FlattenSeq(g) \in Seq(X)
           /\ Has(FlattenSeq(g), x) <=> \E k \in 1 .. n : Has(g[k], x)
<1>0. FlattenSeq(g) \in Seq(X)
    BY FlattenType
<1>1. CASE n = 0
    <2>1. Len(g) = 0 /\ g \in Seq(X)
        BY <1>1
    <2>2. FlattenSeq(g) = <<>>
        BY <2>1 DEF FlattenSeq
    <2> QED
        BY <1>1, <2>2, <1>0 DEF Has
<1>2. CASE n # 0
    <2>0. n \in Nat \ {0}
        BY <1>2
    <2>1. PICK f : Joins(f, g, n, Seq(X)) /\ FlattenSeq(g) = f[n]
        BY <2>0, FlattenIs
    <2>2. /\ f \in [1 .. n -> Seq(X)] /\ f[1] = g[1]
          /\ \A k \in 2 .. n : f[k] = f[k - 1] \o g[k]
        BY <2>1 DEF Joins
    <2> DEFINE In(s) == \E i \in 1 .. Len(s) : s[i] = x
               S == {m \in 0 .. n : m = 0 \/ (In(f[m]) <=> \E k \in 1 .. m : In(g[k]))}
    <2>3. ASSUME NEW s \in Seq(X), NEW r \in Seq(X) PROVE In(s \o r) <=> In(s) \/ In(r)
        <3>1. /\ s \o r \in Seq(X) /\ Len(s \o r) = Len(s) + Len(r)
              /\ \A i \in 1 .. Len(s) : (s \o r)[i] = s[i]
              /\ \A i \in Len(s) + 1 .. Len(s) + Len(r) : (s \o r)[i] = r[i - Len(s)]
              /\ Len(s) \in Nat /\ Len(r) \in Nat
            BY ConcatProperties
        <3>2. ASSUME In(s) PROVE In(s \o r)
            <4>1. PICK i \in 1 .. Len(s) : s[i] = x
                BY <3>2
            <4>2. i \in 1 .. Len(s \o r) /\ (s \o r)[i] = x
                BY <3>1, <4>1
            <4> QED
                BY <4>2
        <3>3. ASSUME In(r) PROVE In(s \o r)
            <4>1. PICK i \in 1 .. Len(r) : r[i] = x
                BY <3>3
            <4> DEFINE m == Len(s) + i
            <4>2. m \in Len(s) + 1 .. Len(s) + Len(r) /\ m - Len(s) = i /\ m \in 1 .. Len(s \o r)
                BY <3>1, <4>1
            <4> HIDE DEF m
            <4>3. (s \o r)[m] = x
                BY <3>1, <4>1, <4>2
            <4> QED
                BY <4>2, <4>3
        <3>4. ASSUME In(s \o r) PROVE In(s) \/ In(r)
            <4>1. PICK i \in 1 .. Len(s \o r) : (s \o r)[i] = x
                BY <3>4
            <4>2. CASE i <= Len(s)
                <5>1. i \in 1 .. Len(s) /\ s[i] = x
                    BY <3>1, <4>1, <4>2
                <5> QED
                    BY <5>1
            <4>3. CASE i > Len(s)
                <5>1. i \in Len(s) + 1 .. Len(s) + Len(r)
                    BY <3>1, <4>1, <4>3
                <5>2. i - Len(s) \in 1 .. Len(r) /\ r[i - Len(s)] = x
                    BY <3>1, <4>1, <5>1
                <5> QED
                    BY <5>2
            <4> QED
                BY <3>1, <4>1, <4>2, <4>3
        <3> QED
            BY <3>2, <3>3, <3>4
    <2>4. ASSUME NEW m \in 0 .. n - 1, m \in S PROVE m + 1 \in S
        <3> DEFINE k == m + 1
        <3>1. k \in 1 .. n /\ k \in 0 .. n /\ k - 1 = m /\ \A i : i \in 1 .. k <=> i \in 1 .. m \/ i = k
            OBVIOUS
        <3>2. m # 0 => k \in 2 .. n /\ m \in 1 .. n
            OBVIOUS
        <3> HIDE DEF k
        <3>3. CASE m = 0
            <4>1. k = 1 /\ f[k] = g[k]
                BY <3>1, <3>3, <2>2
            <4>2. In(f[k]) <=> In(g[k])
                BY <4>1
            <4>3. (\E i \in 1 .. k : In(g[i])) <=> In(g[k])
                <5> HIDE DEF In
                <5> QED
                    BY <3>1, <3>3
            <4> HIDE DEF In
            <4> QED
                BY <3>1, <4>2, <4>3 DEF k
        <3>4. CASE m # 0
            <4>1. f[k] = f[m] \o g[k]
                BY <3>1, <3>2, <3>4, <2>2
            <4>2. f[m] \in Seq(X) /\ g[k] \in Seq(X)
                BY <3>1, <3>2, <3>4, <2>2
            <4>3. In(f[k]) <=> In(f[m]) \/ In(g[k])
                <5> HIDE DEF In
                <5> QED
                    BY <2>3, <4>1, <4>2
            <4> HIDE DEF In
            <4>4. In(f[m]) <=> \E i \in 1 .. m : In(g[i])
                BY <2>4, <3>4
            <4>5. In(f[k]) <=> \E i \in 1 .. k : In(g[i])
                BY <3>1, <4>3, <4>4
            <4> QED
                BY <3>1, <4>5 DEF k
        <3> QED
            BY <3>3, <3>4
    <2>5. 0 \in S
        OBVIOUS
    <2> HIDE DEF S
    <2>6. 0 .. n \subseteq S
        BY <2>4, <2>5, InductionTo
    <2>7. n \in S /\ n # 0
        BY <2>6, <1>2
    <2>8. In(f[n]) <=> \E k \in 1 .. n : In(g[k])
        BY <2>7 DEF S
    <2> QED
        BY <1>0, <2>1, <2>8 DEF Has
<1> QED
    BY <1>1, <1>2

\* What Only leaves was there and is wanted.
LEMMA OnlyEntries ==
    ASSUME NEW X, NEW s \in Seq(X), NEW S
    PROVE  /\ Only(s, S) \in Seq(X)
           /\ \A i \in 1 .. Len(Only(s, S)) :
                 Only(s, S)[i] \in S /\ Has(s, Only(s, S)[i])
<1> DEFINE Y == {x \in S : \E k \in 1 .. Len(s) : s[k] = x}
           n == Len(s)
<1>1. PICK r : Sieves(r, s, S, X) /\ Only(s, S) = r[Len(s)]
    BY OnlyIs
<1>2. /\ r \in [0 .. n -> Seq(X)] /\ r[0] = <<>> /\ n \in Nat
      /\ \A k \in 1 .. n : r[k] = IF s[k] \in S THEN Append(r[k - 1], s[k]) ELSE r[k - 1]
      /\ \A k \in 1 .. n : s[k] \in S => s[k] \in Y
    BY <1>1 DEF Sieves
<1> DEFINE T == {m \in 0 .. n : r[m] \in Seq(Y)}
<1>3. 0 \in T
    BY <1>2, EmptySeq
<1> HIDE DEF n, Y
<1>4. ASSUME NEW m \in 0 .. n - 1, m \in T PROVE m + 1 \in T
    <2> DEFINE k == m + 1
    <2>1. k \in 1 .. n /\ k - 1 = m /\ k \in 0 .. n
        BY <1>2
    <2> HIDE DEF k
    <2>2. r[k] = IF s[k] \in S THEN Append(r[m], s[k]) ELSE r[m]
        BY <1>2, <2>1
    <2>3. r[m] \in Seq(Y)
        BY <1>4
    <2>4. r[k] \in Seq(Y)
        <3>1. CASE s[k] \in S
            BY <1>2, <2>1, <2>2, <2>3, <3>1, AppendProperties
        <3> QED
            BY <2>2, <2>3, <3>1
    <2> QED
        BY <2>1, <2>4 DEF k
<1> HIDE DEF T
<1>5. 0 .. n \subseteq T
    BY <1>2, <1>3, <1>4, InductionTo
<1>6. n \in T
    BY <1>2, <1>5
<1>7. Only(s, S) \in Seq(Y)
    BY <1>1, <1>6 DEF T, n
<1>8. \A i \in 1 .. Len(Only(s, S)) : Only(s, S)[i] \in Y
    BY <1>7
<1> QED
    BY <1>8, OnlyType DEF Y, Has

\* What the steps that take and bring nothing leave as it was.
InOrder == Lowest /\ OnlyThere /\ Ascending /\ Earliest /\ Latest /\ Somewhere /\ InTurn

\* The promised jobs that wait are the same, at places shifted by d.
Shifted(d) ==
    /\ \A i \in Int : Waits(i)' => Waits(i + d) /\ Line[i + d] = Line'[i]
    /\ \A i \in Int : Waits(i) /\ Line[i] \in Strict' => Waits(i - d)' /\ Line'[i - d] = Line[i]

\* Elsewhere no promised job joins.
NoneJoins ==
    \A q \in Queues, l \in Levels : \A i \in 1 .. Len(queue'[q][l]) :
        queue'[q][l][i] \in Strict' => \E k \in 1 .. Len(queue[q][l]) : queue[q][l][k] = queue'[q][l][i]

\* Who has one has it still, and nobody else gets one.
SameHands ==
    \A t \in Threads :
        /\ InHand(t)' => InHand(t) /\ loc'[t].job = loc[t].job /\ (pc'[t] = "run" <=> pc[t] = "run")
        /\ InHand(t) /\ loc[t].job \in Strict' => InHand(t)' /\ loc'[t].job = loc[t].job

\* The master brings what it did, and waits for no other lock.
SameErrand ==
    /\ Bringing' => Bringing /\ nAdded' = nAdded /\ loc'[Main] = loc[Main]
    /\ Bringing /\ loc[Main].job \in Strict' => Bringing' /\ loc'[Main] = loc[Main]
    /\ pc'[Main] = "lockJob" => loc'[Main].job \notin Strict'

\* The promised jobs are what they were, less those a client moves.
SameJobs == Strict' \subseteq Strict /\ \A j \in Strict' : job'[j] = job[j]

\* Then the order is as it was.
LEMMA OrderAside ==
    ASSUME InOrder, SameJobs, SameHands, SameErrand, NoneJoins,
           NEW d \in Int, Shifted(d), Stopped => Stopped'
    PROVE  InOrder'
<1> USE DEF InOrder
<1>1. Lowest'
    BY DEF Lowest, SameJobs
<1>2. OnlyThere'
    <2> SUFFICES ASSUME NEW q \in Queues, NEW l \in Levels, NEW i \in 1 .. Len(queue'[q][l]),
                        queue'[q][l][i] \in Strict'
                 PROVE  q = 0 /\ l = 0 /\ queue'[q][l][i] \in Fresh'
        BY DEF OnlyThere
    <2>1. PICK k \in 1 .. Len(queue[q][l]) : queue[q][l][k] = queue'[q][l][i]
        BY DEF NoneJoins
    <2>2. queue[q][l][k] \in Strict
        BY <2>1 DEF SameJobs
    <2>3. q = 0 /\ l = 0 /\ queue[q][l][k] \in Fresh
        BY <2>2 DEF OnlyThere
    <2> QED
        BY <2>1, <2>3 DEF SameJobs, Fresh
<1>3. Ascending'
    <2> SUFFICES ASSUME NEW i \in Int, NEW k \in Int, Waits(i)', Waits(k)', i < k
                 PROVE  Line'[i] < Line'[k]
        BY DEF Ascending
    <2>1. i + d \in Int /\ k + d \in Int /\ i + d < k + d
        OBVIOUS
    <2>2. Waits(i + d) /\ Waits(k + d) /\ Line[i + d] = Line'[i] /\ Line[k + d] = Line'[k]
        BY DEF Shifted
    <2>3. Line[i + d] < Line[k + d]
        BY <2>1, <2>2 DEF Ascending
    <2> QED
        BY <2>2, <2>3
<1>4. Earliest'
    <2> SUFFICES ASSUME NEW t \in Threads, InHand(t)'
                 PROVE  \/ /\ t = 0
                           /\ \A i \in Int : Waits(i)' => loc'[t].job < Line'[i]
                           /\ pc'[t] # "run" => loc'[t].job \in Fresh'
                        \/ t = Main /\ pc'[t] = "run" /\ Stopped'
        BY DEF Earliest
    <2>1. InHand(t) /\ loc'[t].job = loc[t].job /\ (pc'[t] = "run" <=> pc[t] = "run")
        BY DEF SameHands
    <2>2. loc'[t].job \in Strict'
        BY DEF InHand
    <2>3. CASE t = Main /\ pc[t] = "run" /\ Stopped
        BY <2>1, <2>3
    <2>4. CASE ~(t = Main /\ pc[t] = "run" /\ Stopped)
        <3>1. /\ t = 0
              /\ \A i \in Int : Waits(i) => loc[t].job < Line[i]
              /\ pc[t] # "run" => loc[t].job \in Fresh
            BY <2>1, <2>4 DEF Earliest
        <3>2. ASSUME NEW i \in Int, Waits(i)' PROVE loc'[t].job < Line'[i]
            <4>1. i + d \in Int /\ Waits(i + d) /\ Line[i + d] = Line'[i]
                BY <3>2 DEF Shifted
            <4> QED
                BY <2>1, <3>1, <4>1
        <3>3. pc'[t] # "run" => loc'[t].job \in Fresh'
            BY <2>1, <2>2, <3>1 DEF SameJobs, Fresh
        <3> QED
            BY <3>1, <3>2, <3>3
    <2> QED
        BY <2>3, <2>4
<1>5. Latest'
    <2>1. ASSUME Bringing'
          PROVE  /\ loc'[Main].job = nAdded' /\ loc'[Main].src = 0 /\ nAdded' \in Fresh'
                 /\ \A i \in Int : Waits(i)' => Line'[i] # nAdded'
                 /\ \A t \in Threads : InHand(t)' => loc'[t].job # nAdded'
        <3>1. Bringing /\ nAdded' = nAdded /\ loc'[Main] = loc[Main]
            BY <2>1 DEF SameErrand
        <3>2. /\ loc[Main].job = nAdded /\ loc[Main].src = 0 /\ nAdded \in Fresh
              /\ \A i \in Int : Waits(i) => Line[i] # nAdded
              /\ \A t \in Threads : InHand(t) => loc[t].job # nAdded
            BY <3>1 DEF Latest
        <3>3. nAdded \in Strict'
            BY <2>1, <3>1, <3>2 DEF Bringing
        <3>4. nAdded' \in Fresh'
            BY <3>1, <3>2, <3>3 DEF Fresh, SameJobs
        <3>5. ASSUME NEW i \in Int, Waits(i)' PROVE Line'[i] # nAdded'
            <4>1. i + d \in Int /\ Waits(i + d) /\ Line[i + d] = Line'[i]
                BY <3>5 DEF Shifted
            <4> QED
                BY <3>1, <3>2, <4>1
        <3>6. \A t \in Threads : InHand(t)' => loc'[t].job # nAdded'
            BY <3>1, <3>2 DEF SameHands
        <3> QED
            BY <3>1, <3>2, <3>4, <3>5, <3>6
    <2> QED
        BY <2>1 DEF Latest, SameErrand
<1>6. ASSUME NEW j \in Strict', \E i \in Int : Waits(i) /\ Line[i] = j
      PROVE  \E i \in Int : Waits(i)' /\ Line'[i] = j
    <2>1. PICK i \in Int : Waits(i) /\ Line[i] = j
        BY <1>6
    <2>2. i - d \in Int /\ Waits(i - d)' /\ Line'[i - d] = j
        BY <2>1 DEF Shifted
    <2> QED
        BY <2>2
<1>7. Somewhere'
    <2> SUFFICES ASSUME NEW j \in Strict', ~Finished(j)'
                 PROVE  \/ \E i \in Int : Waits(i)' /\ Line'[i] = j
                        \/ \E t \in Threads : InHand(t)' /\ loc'[t].job = j
                        \/ Bringing' /\ loc'[Main].job = j
        BY DEF Somewhere
    <2>1. j \in Strict /\ ~Finished(j)
        BY DEF SameJobs, Finished
    <2>2. CASE \E i \in Int : Waits(i) /\ Line[i] = j
        BY <2>2, <1>6
    <2>3. CASE \E t \in Threads : InHand(t) /\ loc[t].job = j
        BY <2>3 DEF SameHands
    <2>4. CASE Bringing /\ loc[Main].job = j
        BY <2>4 DEF SameErrand
    <2> QED
        BY <2>1, <2>2, <2>3, <2>4 DEF Somewhere
<1>8. InTurn'
    <2> SUFFICES ASSUME NEW j \in Strict', NEW k \in Strict', j < k, job'[k].status \in {"inprogress", "ok"},
                        ~Finished(j)'
                 PROVE  Stopped' /\ \E i \in Int : Waits(i)' /\ Line'[i] = j
        BY DEF InTurn
    <2>1. j \in Strict /\ k \in Strict /\ job[k].status \in {"inprogress", "ok"} /\ ~Finished(j)
        BY DEF SameJobs, Finished
    <2>2. Stopped /\ \E i \in Int : Waits(i) /\ Line[i] = j
        BY <2>1 DEF InTurn
    <2> QED
        BY <2>2, <1>6
<1> QED
    BY <1>1, <1>2, <1>3, <1>4, <1>5, <1>7, <1>8

\* A step that leaves the queues alone shifts nothing.
LEMMA SameQueue ==
    ASSUME queue' = queue, SameJobs
    PROVE  Shifted(0) /\ NoneJoins
<1>1. \A i \in Int : i + 0 = i /\ i - 0 = i
    OBVIOUS
<1>2. Line' = Line
    BY DEF Line
<1> QED
    BY <1>1, <1>2 DEF Shifted, NoneJoins, Waits, SameJobs

\* Job j is at a level of queue q from p up.
Queued(j, p) == \E q \in Queues, l \in Levels : l >= p /\ Has(queue[q][l], j)

\* What ExecuteToPriority takes out is what is queued from level p up.
LEMMA PoppedEntries ==
    ASSUME queue \in [Queues -> Stacks], NEW p \in Levels, NEW j
    PROVE  /\ Popped(queue, p) \in Seq(Jobs)
           /\ Has(Popped(queue, p), j) <=> Queued(j, p)
<1> DEFINE m == NumPriorities
           n == NumThreads + 1
           row(l) == [k \in 1 .. n |-> queue[k - 1][l]]
           g == [k \in 1 .. m - p |-> AtLevel(queue, m - k)]
<1>1. ASSUME NEW l \in Levels
      PROVE  AtLevel(queue, l) \in Seq(Jobs) /\ (Has(AtLevel(queue, l), j) <=> \E q \in Queues : Has(queue[q][l], j))
    <2>1. row(l) \in [1 .. n -> Seq(Jobs)] /\ n \in Nat /\ \A k \in 1 .. n : row(l)[k] = queue[k - 1][l]
        BY QueueNumbers DEF Stacks
    <2>2. AtLevel(queue, l) = FlattenSeq(row(l))
        BY DEF AtLevel
    <2> HIDE DEF row
    <2>3. AtLevel(queue, l) \in Seq(Jobs) /\ (Has(AtLevel(queue, l), j) <=> \E k \in 1 .. n : Has(row(l)[k], j))
        BY <2>1, <2>2, FlattenEntries
    <2>4. (\E k \in 1 .. n : Has(row(l)[k], j)) <=> \E q \in Queues : Has(queue[q][l], j)
        <3>1. ASSUME NEW k \in 1 .. n, Has(row(l)[k], j) PROVE \E q \in Queues : Has(queue[q][l], j)
            <4>1. k - 1 \in Queues /\ row(l)[k] = queue[k - 1][l]
                BY <2>1, QueueNumbers
            <4>2. Has(queue[k - 1][l], j)
                BY <3>1, <4>1
            <4> DEFINE q == k - 1
            <4>3. q \in Queues /\ Has(queue[q][l], j)
                BY <4>1, <4>2
            <4> HIDE DEF q
            <4> QED
                BY <4>3, Zenon
        <3>2. ASSUME NEW q \in Queues, Has(queue[q][l], j) PROVE \E k \in 1 .. n : Has(row(l)[k], j)
            <4> DEFINE k == q + 1
            <4>1. k \in 1 .. n /\ k - 1 = q
                BY QueueNumbers
            <4> HIDE DEF k
            <4>2. row(l)[k] = queue[q][l]
                BY <2>1, <4>1
            <4>3. Has(row(l)[k], j)
                BY <3>2, <4>2
            <4> QED
                BY <4>1, <4>3
        <3> QED
            BY <3>1, <3>2
    <2> QED
        BY <2>3, <2>4
<1>2. /\ m - p \in Nat /\ \A k \in 1 .. m - p : m - k \in Levels /\ m - k >= p
      /\ \A l \in Levels : l >= p => m - l \in 1 .. m - p /\ m - (m - l) = l
    BY LevelNumbers DEF Levels, Top
<1>3. g \in [1 .. m - p -> Seq(Jobs)] /\ \A k \in 1 .. m - p : g[k] = AtLevel(queue, m - k)
    BY <1>1, <1>2
<1>4. Popped(queue, p) = FlattenSeq(g)
    BY DEF Popped
<1> HIDE DEF g
<1>5. /\ Popped(queue, p) \in Seq(Jobs)
      /\ Has(Popped(queue, p), j) <=> \E k \in 1 .. m - p : Has(g[k], j)
    BY <1>2, <1>3, <1>4, FlattenEntries
<1>6. Queued(j, p) <=> \E q \in Queues, l \in Levels : l >= p /\ Has(queue[q][l], j)
    BY DEF Queued
<1>7. ASSUME NEW k \in 1 .. m - p, Has(g[k], j) PROVE Queued(j, p)
    <2>1. m - k \in Levels /\ m - k >= p /\ g[k] = AtLevel(queue, m - k)
        BY <1>2, <1>3
    <2>2. PICK q \in Queues : Has(queue[q][m - k], j)
        BY <1>1, <1>7, <2>1
    <2> QED
        BY <1>6, <2>1, <2>2
<1>8. ASSUME NEW q \in Queues, NEW l \in Levels, l >= p, Has(queue[q][l], j) PROVE \E k \in 1 .. m - p : Has(g[k], j)
    <2>1. m - l \in 1 .. m - p /\ g[m - l] = AtLevel(queue, l)
        BY <1>2, <1>3, <1>8
    <2>2. Has(g[m - l], j)
        BY <1>1, <1>8, <2>1
    <2> QED
        BY <2>1, <2>2
<1>9. Has(Popped(queue, p), j) <=> Queued(j, p)
    BY <1>5, <1>6, <1>7, <1>8
<1> QED
    BY <1>5, <1>9

\* What ExecuteToPriority leaves in the queues: below level p what was there,
\* first, and of what it took, nothing serial.
LEMMA ExecuteEntries ==
    ASSUME queue \in [Queues -> Stacks], NEW p \in Levels, NEW filtered \in BOOLEAN,
           ExecuteToPriority(p, filtered)
    PROVE  /\ \A q \in Queues, l \in Levels : \A i \in 1 .. Len(queue'[q][l]) :
                \/ l < p /\ i \in 1 .. Len(queue[q][l]) /\ queue'[q][l][i] = queue[q][l][i]
                \/ queue'[q][l][i] \in Jobs /\ Queued(queue'[q][l][i], p) /\ ~job[queue'[q][l][i]].kind.serial
           /\ \A q \in Queues, l \in Levels : \A i \in 1 .. Len(queue[q][l]) :
                l < p => i \in 1 .. Len(queue'[q][l]) /\ queue'[q][l][i] = queue[q][l][i]
<1> DEFINE S == {j \in Jobs : ~(filtered => job[j].kind.serial) /\ CanExecute(j)}
           s == Only(Popped(queue, p), S)
<1>1. queue' = PutBack(queue, p, s)
    BY DEF ExecuteToPriority, PutBack, Back, Popped, AtLevel
<1>2. Popped(queue, p) \in Seq(Jobs)
    BY PoppedEntries
<1>3. s \in Seq(Jobs) /\ \A i \in 1 .. Len(s) : s[i] \in S /\ Has(Popped(queue, p), s[i])
    <2> HIDE DEF S
    <2> QED
        BY <1>2, OnlyEntries
<1>4. ASSUME NEW i \in 1 .. Len(s) PROVE s[i] \in Jobs /\ Queued(s[i], p) /\ ~job[s[i]].kind.serial
    <2>1. s[i] \in S
        BY <1>3
    <2>2. s[i] \in Jobs /\ ~job[s[i]].kind.serial
        BY <2>1
    <2>3. Queued(s[i], p)
        BY <1>3, PoppedEntries
    <2> QED
        BY <2>2, <2>3
<1> HIDE DEF s
<1>5. ASSUME NEW q \in Queues, NEW l \in Levels
      PROVE  LET a == IF l >= p THEN <<>> ELSE queue[q][l]
                 b == Back(s, q, l)
             IN  /\ queue'[q][l] = a \o b /\ a \in Seq(Jobs) /\ b \in Seq(Jobs)
                 /\ \A i \in 1 .. Len(b) : b[i] \in Jobs /\ Queued(b[i], p) /\ ~job[b[i]].kind.serial
    <2> DEFINE T == {j \in Jobs : Target(j) = q /\ job[j].prio = l}
               b == Back(s, q, l)
    <2>1. b = Only(s, T)
        BY DEF Back
    <2> HIDE DEF T, b
    <2>2. b \in Seq(Jobs) /\ \A i \in 1 .. Len(b) : Has(s, b[i])
        BY <1>3, <2>1, OnlyEntries
    <2>3. \A i \in 1 .. Len(b) : b[i] \in Jobs /\ Queued(b[i], p) /\ ~job[b[i]].kind.serial
        BY <1>4, <2>2 DEF Has
    <2>4. queue[q][l] \in Seq(Jobs)
        BY DEF Stacks
    <2>5. queue'[q][l] = (IF l >= p THEN <<>> ELSE queue[q][l]) \o Back(s, q, l)
        BY <1>1 DEF PutBack
    <2> QED
        BY <2>2, <2>3, <2>4, <2>5, EmptySeq DEF b
<1>6. ASSUME NEW q \in Queues, NEW l \in Levels, NEW i \in 1 .. Len(queue'[q][l])
      PROVE  \/ l < p /\ i \in 1 .. Len(queue[q][l]) /\ queue'[q][l][i] = queue[q][l][i]
             \/ queue'[q][l][i] \in Jobs /\ Queued(queue'[q][l][i], p) /\ ~job[queue'[q][l][i]].kind.serial
    <2> DEFINE a == IF l >= p THEN <<>> ELSE queue[q][l]
               b == Back(s, q, l)
               v == queue'[q][l]
    <2>1. /\ v = a \o b /\ a \in Seq(Jobs) /\ b \in Seq(Jobs)
          /\ \A k \in 1 .. Len(b) : b[k] \in Jobs /\ Queued(b[k], p) /\ ~job[b[k]].kind.serial
        BY <1>5
    <2>2. Len(a) > 0 => l < p /\ a = queue[q][l]
        BY LevelNumbers
    <2>i. i \in 1 .. Len(v)
        OBVIOUS
    <2> HIDE DEF a, b, v
    <2>3. /\ Len(v) = Len(a) + Len(b) /\ Len(a) \in Nat /\ Len(b) \in Nat
          /\ \A k \in 1 .. Len(a) : v[k] = a[k]
          /\ \A k \in Len(a) + 1 .. Len(a) + Len(b) : v[k] = b[k - Len(a)]
        BY <2>1, ConcatProperties
    <2>4. CASE i <= Len(a)
        <3>1. i \in 1 .. Len(a) /\ v[i] = a[i] /\ Len(a) > 0
            BY <2>i, <2>3, <2>4
        <3> QED
            BY <2>2, <3>1 DEF v
    <2>5. CASE i > Len(a)
        <3>1. i \in Len(a) + 1 .. Len(a) + Len(b) /\ i - Len(a) \in 1 .. Len(b)
            BY <2>i, <2>3, <2>5
        <3>2. v[i] = b[i - Len(a)]
            BY <2>3, <3>1
        <3>3. v[i] \in Jobs /\ Queued(v[i], p) /\ ~job[v[i]].kind.serial
            BY <2>1, <3>1, <3>2
        <3> QED
            BY <3>3 DEF v
    <2> QED
        BY <2>i, <2>3, <2>4, <2>5
<1>7. ASSUME NEW q \in Queues, NEW l \in Levels, NEW i \in 1 .. Len(queue[q][l]), l < p
      PROVE  i \in 1 .. Len(queue'[q][l]) /\ queue'[q][l][i] = queue[q][l][i]
    <2> DEFINE a == queue[q][l]
               b == Back(s, q, l)
               v == queue'[q][l]
    <2>1. v = a \o b /\ a \in Seq(Jobs) /\ b \in Seq(Jobs)
        <3>1. ~(l >= p)
            BY <1>7, LevelNumbers
        <3> QED
            BY <1>5, <3>1
    <2>i. i \in 1 .. Len(a)
        OBVIOUS
    <2> HIDE DEF a, b, v
    <2>3. /\ Len(v) = Len(a) + Len(b) /\ Len(a) \in Nat /\ Len(b) \in Nat
          /\ \A k \in 1 .. Len(a) : v[k] = a[k]
        BY <2>1, ConcatProperties
    <2>4. i \in 1 .. Len(v) /\ v[i] = a[i]
        BY <2>i, <2>3
    <2> QED
        BY <2>4 DEF v, a
<1> QED
    BY <1>6, <1>7

\* Settling jobs changes a status and a count, of those that can be executed.
LEMMA SettledJobs ==
    ASSUME JobShape, NEW S, AbortJobs(S) \/ ExecuteJobs(S)
    PROVE  /\ \A j \in Jobs : /\ job'[j].kind = job[j].kind /\ job'[j].moved = job[j].moved
                              /\ job'[j].prio = job[j].prio /\ job'[j].owner = job[j].owner
                              /\ j \notin S \/ ~CanExecute(j) => job'[j] = job[j]
                              /\ j \in S /\ CanExecute(j) => Finished(j)'
           /\ \A j \in Jobs : Finished(j) => Finished(j)'
<1>1. CASE AbortJobs(S)
    <2>1. \A j \in Jobs : /\ j \in S /\ CanExecute(j) => job'[j] = [job[j] EXCEPT !.status = "aborted"]
                          /\ j \notin S \/ ~CanExecute(j) => job'[j] = job[j]
        BY <1>1 DEF AbortJobs
    <2> QED
        BY <2>1 DEF JobShape, JobFields, Finished, CanExecute
<1>2. CASE ExecuteJobs(S)
    <2>1. \A j \in Jobs : /\ j \in S /\ CanExecute(j) => job'[j] = [job[j] EXCEPT !.status = "ok", !.runs = @ + 1]
                          /\ j \notin S \/ ~CanExecute(j) => job'[j] = job[j]
        BY <1>2 DEF ExecuteJobs
    <2> QED
        BY <2>1 DEF JobShape, JobFields, Finished, CanExecute
<1> QED
    BY <1>1, <1>2

\* A worker's step leaves the other threads where they are.
LEMMA WorkerOthers ==
    ASSUME Running, NEW w \in Workers, WorkerStep(w)
    PROVE  Others(w) /\ UNCHANGED <<nAdded, perFrame>>
<1> USE Numbers DEF Running, Shape, Goto, Others
<1>1. CASE Run(w)
    <2>1. loc[w].src # None
        BY <1>1 DEF Run, FromQueue
    <2> QED
        BY <1>1, <2>1 DEF Run
<1>2. CASE ~Run(w)
    BY <1>2 DEF WorkerStep, Wake, PopDirect, PopShared, Ticket, NextLevel, TakeJob, Taken, Service,
           Released, EndTurn, Reply, FallAsleep, Awake, Exit
<1> QED
    BY <1>1, <1>2

\* So does the master's.
LEMMA MasterOthers ==
    ASSUME Running, MasterStep \/ Call \/ Resume
    PROVE  Others(Main)
<1> USE Numbers DEF Running, Shape, Goto, Others
<1>1. CASE MasterStep
    <2>1. CASE \E p \in Levels, filtered \in BOOLEAN : ExecuteToPriority(p, filtered)
        BY <2>1 DEF ExecuteToPriority, Return
    <2>2. CASE ~\E p \in Levels, filtered \in BOOLEAN : ExecuteToPriority(p, filtered)
        BY <1>1, <2>2
           DEF MasterStep, PushItem, CountItem, CountJob, Yield, YieldPop, Ticket, Block, NextLevel,
               TakeJob, Service, Run, Released, LockJob, GiveUp, AwaitAsleep, Return, CallSuspend,
               CallExit, CallWorker, Suspend, AbortAll, Join
    <2> QED
        BY <2>1, <2>2
<1>2. CASE Call \/ Resume
    BY <1>2 DEF Call, AddJobInPlace, AddJob, Add, Wait, ChangePriority, CallJob, WaitFrame,
                SuspendExecution, Stop, Resume
<1> QED
    BY <1>1, <1>2

\* What TakeJob takes is the first entry, and the rest moves up.
LEMMA TakenEntry ==
    ASSUME Running, Stock, NEW t \in Threads, TakeJob(t)
    PROVE  LET q == loc[t].src
               l == loc[t].level
               s == queue[q][l]
           IN  /\ pc[t] = "scan" /\ q \in Queues /\ l \in Levels
               /\ s \in Seq(Jobs) /\ 1 \in 1 .. Len(s) /\ Len(s) \in Nat
               /\ queue'[q][l] \in Seq(Jobs) /\ Len(queue'[q][l]) = Len(s) - 1
               /\ \A i \in 1 .. Len(queue'[q][l]) : i + 1 \in 1 .. Len(s) /\ queue'[q][l][i] = s[i + 1]
               /\ \A r \in Queues, m \in Levels : <<r, m>> # <<q, l>> => queue'[r][m] = queue[r][m]
               /\ loc'[t].job = s[1] /\ pc'[t] \in {"taken", "service"}
<1> DEFINE q == loc[t].src
           l == loc[t].level
           s == queue[q][l]
<1>1. /\ pc[t] = "scan" /\ s # <<>>
      /\ queue' = [queue EXCEPT ![q][l] = Tail(@)]
      /\ loc' = [loc EXCEPT ![t] = [job |-> Head(s), src |-> q, level |-> Top]]
    BY DEF TakeJob
<1>2. q \in Queues /\ l \in Levels /\ queue \in [Queues -> Stacks]
    BY <1>1 DEF Stock, Stocked
<1>3. queue[q] \in [Levels -> Seq(Jobs)] /\ s \in Seq(Jobs)
    BY <1>2 DEF Stacks
<1>4. /\ queue'[q][l] = Tail(s)
      /\ \A r \in Queues, m \in Levels : <<r, m>> # <<q, l>> => queue'[r][m] = queue[r][m]
    BY <1>1, <1>2, <1>3
<1> HIDE DEF s
<1>5. /\ Head(s) = s[1] /\ Tail(s) \in Seq(Jobs) /\ Len(Tail(s)) = Len(s) - 1
      /\ Len(s) \in Nat /\ Len(s) > 0 /\ \A i \in 1 .. Len(Tail(s)) : Tail(s)[i] = s[i + 1]
    BY <1>1, <1>3, HeadTailProperties, LenProperties, EmptySeq
<1>6. 1 \in 1 .. Len(s) /\ \A i \in 1 .. Len(Tail(s)) : i + 1 \in 1 .. Len(s)
    BY <1>5
<1>7. loc'[t].job = Head(s) /\ pc'[t] \in {"taken", "service"}
    <2>1. DOMAIN loc = Threads /\ DOMAIN pc = Threads
        BY DEF Running, Shape
    <2>2. pc' = [pc EXCEPT ![t] = IF t = Main \/ worker[t].took THEN "service" ELSE "taken"]
        BY DEF TakeJob, Goto
    <2> QED
        BY <1>1, <2>1, <2>2
<1> QED
    BY <1>1, <1>2, <1>3, <1>4, <1>5, <1>6, <1>7 DEF s

\* What PushItem pushes comes last.
LEMMA PushedEntry ==
    ASSUME Stock, PushItem
    PROVE  LET q == loc[Main].src
               j == loc[Main].job
               l == job[j].prio
               s == queue[q][l]
           IN  /\ q \in Queues /\ l \in Levels /\ j \in Jobs /\ s \in Seq(Jobs) /\ Len(s) \in Nat
               /\ queue'[q][l] \in Seq(Jobs) /\ Len(queue'[q][l]) = Len(s) + 1
               /\ \A i \in 1 .. Len(s) : queue'[q][l][i] = s[i]
               /\ queue'[q][l][Len(s) + 1] = j
               /\ \A r \in Queues, m \in Levels : <<r, m>> # <<q, l>> => queue'[r][m] = queue[r][m]
<1> DEFINE q == loc[Main].src
           j == loc[Main].job
           l == job[j].prio
           s == queue[q][l]
<1>1. pc[Main] = "pushItem" /\ queue' = [queue EXCEPT ![q][l] = Append(@, j)]
    BY DEF PushItem
<1>2. q \in Queues /\ j \in Jobs /\ l \in Levels /\ queue \in [Queues -> Stacks]
    BY <1>1 DEF Stock, Stocked, Prios
<1>3. queue[q] \in [Levels -> Seq(Jobs)] /\ s \in Seq(Jobs)
    BY <1>2 DEF Stacks
<1>4. /\ queue'[q][l] = Append(s, j)
      /\ \A r \in Queues, m \in Levels : <<r, m>> # <<q, l>> => queue'[r][m] = queue[r][m]
    BY <1>1, <1>2, <1>3
<1> HIDE DEF s, j
<1>5. /\ Append(s, j) \in Seq(Jobs) /\ Len(Append(s, j)) = Len(s) + 1 /\ Append(s, j)[Len(s) + 1] = j
      /\ \A i \in 1 .. Len(s) : Append(s, j)[i] = s[i]
      /\ Len(s) \in Nat
    BY <1>2, <1>3, AppendProperties, LenProperties
<1> QED
    BY <1>2, <1>3, <1>4, <1>5 DEF s, j

\* Every step's entries are old ones, but for the one the master pushes.
OldEntries ==
    \A q \in Queues, l \in Levels : \A i \in 1 .. Len(queue'[q][l]) :
        \E r \in Queues, m \in Levels : Has(queue[r][m], queue'[q][l][i])

\* Then nobody gets a job that was not added.
LEMMA MadeStep ==
    ASSUME Made, Running, Running', nAdded <= nAdded', OldEntries, Stock,
           \A t \in Threads : loc'[t].job <= nAdded'
    PROVE  Made'
<1>1. ASSUME NEW q \in Queues, NEW l \in Levels, NEW i \in 1 .. Len(queue'[q][l])
      PROVE  queue'[q][l][i] <= nAdded'
    <2>1. PICK r \in Queues, m \in Levels : Has(queue[r][m], queue'[q][l][i])
        BY DEF OldEntries
    <2>2. PICK k \in 1 .. Len(queue[r][m]) : queue[r][m][k] = queue'[q][l][i]
        BY <2>1 DEF Has
    <2>3. queue[r][m] \in Seq(Jobs)
        BY DEF Stock, Stocked, Stacks
    <2>4. queue[r][m][k] \in Jobs /\ queue[r][m][k] <= nAdded
        BY <2>3 DEF Made
    <2>5. nAdded \in Int /\ nAdded' \in Int
        BY Numbers DEF Running, Shape
    <2> QED
        BY Numbers, <2>2, <2>4, <2>5 DEF Jobs
<1> QED
    BY <1>1 DEF Made

\* Queues that are as they were have old entries.
LEMMA OldQueues ==
    ASSUME queue' = queue
    PROVE  OldEntries
BY DEF OldEntries, Has

\* What TakeJob leaves was there.
LEMMA TakenOld ==
    ASSUME Running, Stock, NEW t \in Threads, TakeJob(t)
    PROVE  OldEntries
<1> SUFFICES ASSUME NEW q \in Queues, NEW l \in Levels, NEW i \in 1 .. Len(queue'[q][l])
             PROVE  \E r \in Queues, m \in Levels : Has(queue[r][m], queue'[q][l][i])
    BY DEF OldEntries
<1>1. CASE q = loc[t].src /\ l = loc[t].level
    <2>1. i + 1 \in 1 .. Len(queue[q][l]) /\ queue'[q][l][i] = queue[q][l][i + 1]
        BY <1>1, TakenEntry
    <2> QED
        BY <2>1 DEF Has
<1>2. CASE ~(q = loc[t].src /\ l = loc[t].level)
    <2>1. queue'[q][l] = queue[q][l]
        BY <1>2, TakenEntry
    <2> QED
        BY <2>1 DEF Has
<1> QED
    BY <1>1, <1>2

\* What any thread's step does to Made and to who looks where.
LEMMA MadeOwn ==
    ASSUME Made, OwnQueue, Running, Running', Stock, Typed, NEW t \in Threads, Others(t),
           nAdded <= nAdded', OldEntries, loc'[t].job <= nAdded',
           pc'[t] = "scan" => loc'[t].src \in {t, Shared}
    PROVE  Made' /\ OwnQueue'
<1>1. ASSUME NEW u \in Threads PROVE loc'[u].job <= nAdded'
    <2>1. CASE u # t
        <3>1. loc'[u] = loc[u] /\ loc[u].job <= nAdded
            BY <2>1 DEF Others, Made
        <3>2. loc[u].job \in Int /\ nAdded \in Int /\ nAdded' \in Int
            BY Numbers DEF Typed, LocType, Jobs, None, Running, Shape
        <3> QED
            BY <3>1, <3>2
    <2> QED
        BY <2>1
<1> QED
    BY <1>1, MadeStep DEF OwnQueue, Others

\* What workers do.
LEMMA MadeWorker ==
    ASSUME Made, OwnQueue, Running, Running', Stock, Typed, NEW w \in Workers, WorkerStep(w)
    PROVE  Made' /\ OwnQueue'
<1> USE Numbers
<1>0. Others(w) /\ nAdded' = nAdded /\ w \in Threads
    BY WorkerOthers
<1>1. nAdded \in 0 .. MaxJobs /\ nAdded <= nAdded' /\ None <= nAdded /\ NoLocals.job = None
    BY <1>0 DEF Running, Shape, None, NoLocals
<1>2. \/ queue' = queue
      \/ TakeJob(w)
    BY DEF WorkerStep, Wake, PopDirect, PopShared, NextLevel, Taken, Service, Run, Released, EndTurn,
           Reply, FallAsleep, Awake, Exit
<1>3. OldEntries
    BY <1>0, <1>2, OldQueues, TakenOld
<1>4. loc'[w].job <= nAdded /\ (pc'[w] = "scan" => loc'[w].src \in {w, Shared})
    <2>0. loc[w].job <= nAdded /\ (pc[w] = "scan" => loc[w].src \in {w, Shared})
        BY <1>0 DEF Made, OwnQueue
    <2> USE DEF Running, Shape, Goto
    <2>1. CASE TakeJob(w)
        <3>1. /\ loc'[w].job = queue[loc[w].src][loc[w].level][1] /\ pc'[w] # "scan"
              /\ loc[w].src \in Queues /\ loc[w].level \in Levels
              /\ 1 \in 1 .. Len(queue[loc[w].src][loc[w].level])
            BY <1>0, <2>1, TakenEntry
        <3> QED
            BY <3>1 DEF Made
    <2>2. CASE NextLevel(w)
        BY <1>0, <2>0, <2>2 DEF NextLevel, LocFields
    <2>3. CASE PopDirect(w) \/ PopShared(w)
        BY <1>0, <1>1, <2>0, <2>3 DEF PopDirect, PopShared, Ticket, NoLocals
    <2>4. CASE \/ Wake(w) \/ Taken(w) \/ Service(w) \/ EndTurn(w)
               \/ Reply(w) \/ FallAsleep(w) \/ Awake(w) \/ Exit(w)
        BY <1>0, <2>0, <2>4 DEF Wake, Taken, Service, EndTurn, Reply, FallAsleep, Awake, Exit
    <2>5. CASE Released(w) \/ Run(w)
        BY <1>0, <1>1, <2>0, <2>5 DEF Released, Run, Return
    <2> QED
        BY <2>1, <2>2, <2>3, <2>4, <2>5 DEF WorkerStep
<1> QED
    BY <1>0, <1>1, <1>3, <1>4, MadeOwn

\* What the master does.
LEMMA MadeMaster ==
    ASSUME Made, OwnQueue, Running, Running', Stock, Typed, MasterStep \/ Call \/ Resume
    PROVE  Made' /\ OwnQueue'
<1> USE Numbers
<1>0. Others(Main)
    BY MasterOthers
<1>1. /\ nAdded \in 0 .. MaxJobs /\ nAdded' \in 0 .. MaxJobs /\ None <= nAdded /\ NoLocals.job = None
      /\ loc[Main].job <= nAdded /\ (pc[Main] = "scan" => loc[Main].src = Shared)
      /\ Main = Shared
    BY DEF Running, Shape, None, NoLocals, Made, OwnQueue, Main, Shared
<1>2. ASSUME nAdded' = nAdded, OldEntries, loc'[Main].job <= nAdded,
             pc'[Main] = "scan" => loc'[Main].src = Shared
      PROVE  Made' /\ OwnQueue'
    BY <1>0, <1>1, <1>2, MadeOwn
<1> USE DEF Running, Shape, Goto
<1>3. CASE TakeJob(Main)
    <2>1. OldEntries
        BY <1>3, TakenOld
    <2>2. /\ loc'[Main].job = queue[loc[Main].src][loc[Main].level][1] /\ pc'[Main] # "scan"
          /\ loc[Main].src \in Queues /\ loc[Main].level \in Levels
          /\ 1 \in 1 .. Len(queue[loc[Main].src][loc[Main].level])
        BY <1>3, TakenEntry
    <2>3. loc'[Main].job <= nAdded /\ nAdded' = nAdded
        BY <1>3, <2>2 DEF Made, TakeJob
    <2> QED
        BY <1>2, <2>1, <2>2, <2>3
<1>4. CASE PushItem
    <2> DEFINE q == loc[Main].src
               l == job[loc[Main].job].prio
    <2>1. ASSUME NEW r \in Queues, NEW m \in Levels, NEW i \in 1 .. Len(queue'[r][m])
          PROVE  queue'[r][m][i] <= nAdded
        <3>1. CASE ~(r = q /\ m = l)
            <4>1. queue'[r][m] = queue[r][m]
                BY <1>4, <3>1, PushedEntry
            <4> QED
                BY <4>1 DEF Made
        <3>2. CASE r = q /\ m = l
            <4>1. /\ Len(queue[r][m]) \in Nat /\ Len(queue'[r][m]) = Len(queue[r][m]) + 1
                  /\ \A k \in 1 .. Len(queue[r][m]) : queue'[r][m][k] = queue[r][m][k]
                  /\ queue'[r][m][Len(queue[r][m]) + 1] = loc[Main].job
                BY <1>4, <3>2, PushedEntry
            <4>2. i \in 1 .. Len(queue[r][m]) \/ i = Len(queue[r][m]) + 1
                BY <4>1
            <4> QED
                BY <1>1, <4>1, <4>2 DEF Made
        <3> QED
            BY <3>1, <3>2
    <2>2. /\ nAdded' = nAdded /\ loc' = loc /\ pc'[Main] = "countItem" /\ \A t \in Threads \ {Main} : pc'[t] = pc[t]
        BY <1>4 DEF PushItem
    <2>3. Made'
        BY <2>1, <2>2 DEF Made
    <2>4. OwnQueue'
        BY <2>2 DEF OwnQueue
    <2> QED
        BY <2>3, <2>4
<1>5. CASE \E p \in Levels, filtered \in BOOLEAN : ExecuteToPriority(p, filtered)
    <2>1. PICK p \in Levels, filtered \in BOOLEAN : ExecuteToPriority(p, filtered)
        BY <1>5
    <2>2. OldEntries
        <3> SUFFICES ASSUME NEW q \in Queues, NEW l \in Levels, NEW i \in 1 .. Len(queue'[q][l])
                     PROVE  \E r \in Queues, m \in Levels : Has(queue[r][m], queue'[q][l][i])
            BY DEF OldEntries
        <3>1. queue \in [Queues -> Stacks]
            BY DEF Stock, Stocked
        <3>2. \/ i \in 1 .. Len(queue[q][l]) /\ queue'[q][l][i] = queue[q][l][i]
              \/ Queued(queue'[q][l][i], p)
            BY <2>1, <3>1, ExecuteEntries
        <3> QED
            BY <3>2 DEF Queued, Has
    <2>3. nAdded' = nAdded /\ loc' = loc /\ pc'[Main] = "idle"
        BY <2>1 DEF ExecuteToPriority, Return
    <2> QED
        BY <1>1, <1>2, <2>2, <2>3
<1>6. CASE AbortAll \/ Join
    <2>1. queue \in [Queues -> Stacks] /\ Len(<<>>) = 0
        BY DEF Stock, Stocked
    <2>2. OldEntries
        <3>1. \A q \in Queues, l \in Levels : queue'[q][l] = queue[q][l] \/ queue'[q][l] = <<>>
            BY <1>6, <2>1 DEF AbortAll, Join
        <3> SUFFICES ASSUME NEW q \in Queues, NEW l \in Levels, NEW i \in 1 .. Len(queue'[q][l])
                     PROVE  \E r \in Queues, m \in Levels : Has(queue[r][m], queue'[q][l][i])
            BY DEF OldEntries
        <3>2. queue'[q][l] = queue[q][l]
            BY <2>1, <3>1
        <3> QED
            BY <3>2 DEF Has
    <2>3. nAdded' = nAdded /\ loc' = loc /\ pc'[Main] = "idle"
        BY <1>6 DEF AbortAll, Join, Return
    <2> QED
        BY <1>1, <1>2, <2>2, <2>3
<1>7. CASE \/ CountItem \/ CountJob \/ Yield \/ Block \/ GiveUp \/ CallSuspend \/ AwaitAsleep \/ Suspend \/ CallExit
           \/ Service(Main) \/ Released(Main) \/ Run(Main) \/ LockJob \/ NextLevel(Main) \/ YieldPop
    <2>1. queue' = queue /\ nAdded' = nAdded
        BY <1>7 DEF CountItem, CountJob, Yield, Block, GiveUp, CallSuspend, AwaitAsleep, Suspend, CallExit,
            CallWorker, Service, Released, Run, LockJob, NextLevel, YieldPop
    <2>2. loc'[Main].job <= nAdded /\ (pc'[Main] = "scan" => loc'[Main].src = Shared)
        <3>1. CASE CountItem \/ CountJob \/ Yield \/ Block \/ GiveUp
            BY <1>1, <3>1 DEF CountItem, CountJob, Yield, Block, GiveUp, Return
        <3>2. CASE CallSuspend \/ AwaitAsleep \/ Suspend \/ CallExit
            BY <1>1, <3>2 DEF CallSuspend, AwaitAsleep, Suspend, CallExit, CallWorker, Return
        <3>3. CASE Service(Main) \/ Released(Main) \/ Run(Main)
            BY <1>1, <3>3 DEF Service, Released, Run, Return
        <3>4. CASE LockJob
            BY <1>1, <3>4 DEF LockJob, Return
        <3>5. CASE NextLevel(Main)
            BY <1>1, <3>5 DEF NextLevel, LocFields
        <3>6. CASE YieldPop
            BY <1>1, <3>6 DEF YieldPop, Ticket, NoLocals
        <3> QED
            BY <1>7, <3>1, <3>2, <3>3, <3>4, <3>5, <3>6
    <2> QED
        BY <1>2, <2>1, <2>2, OldQueues
<1>8. CASE Resume \/ (\E j \in Jobs : Wait(j)) \/ WaitFrame \/ (\E call \in Suspenders : SuspendExecution(call)) \/ Stop
    <2>1. queue' = queue /\ nAdded' = nAdded /\ loc' = loc /\ (pc'[Main] = "scan" => pc[Main] = "scan")
        BY <1>8 DEF Resume, Wait, WaitFrame, SuspendExecution, Stop
    <2> QED
        BY <1>1, <1>2, <2>1, OldQueues
<1>9. ASSUME NEW j \in Jobs,
             \/ \E p \in Levels : ChangePriority(j, p)
             \/ \E call \in {"Execute", "TryExecute", "Abort"} : CallJob(call, j)
      PROVE  Made' /\ OwnQueue'
    <2>1. queue' = queue /\ nAdded' = nAdded /\ loc'[Main].job = j /\ pc'[Main] # "scan" /\ j \in Added
        <3>1. ASSUME NEW p, ChangePriority(j, p)
              PROVE  queue' = queue /\ nAdded' = nAdded /\ loc'[Main].job = j /\ pc'[Main] = "pushItem" /\ j \in Added
            BY <3>1 DEF ChangePriority, LocFields
        <3>2. ASSUME NEW call, CallJob(call, j)
              PROVE  queue' = queue /\ nAdded' = nAdded /\ loc'[Main].job = j /\ pc'[Main] = "lockJob" /\ j \in Added
            BY <3>2 DEF CallJob, LocFields
        <3> QED
            BY <1>9, <3>1, <3>2
    <2>2. j <= nAdded
        BY <1>1, <2>1 DEF Added
    <2> QED
        BY <1>1, <1>2, <2>1, <2>2, OldQueues
<1>10. ASSUME NEW j \in Jobs, NEW kind \in Kinds, AddJobInPlace(j, kind) \/ AddJob(j, kind)
       PROVE  Made' /\ OwnQueue'
    <2>1. queue' = queue /\ nAdded' = nAdded + 1 /\ loc'[Main].job = nAdded' /\ pc'[Main] # "scan"
        BY <1>10 DEF AddJobInPlace, AddJob, Add, LocFields
    <2>2. nAdded <= nAdded' /\ loc'[Main].job <= nAdded'
        BY <1>1, <2>1
    <2> QED
        BY <1>0, <2>1, <2>2, OldQueues, MadeOwn
<1> QED
    BY <1>3, <1>4, <1>5, <1>6, <1>7, <1>8, <1>9, <1>10 DEF MasterStep, Call

\* Where a thread has a job in hand.
Hands == {"taken", "service", "run"}

\* The promised jobs are the same while kinds and moves are.
LEMMA SameStrict ==
    ASSUME nAdded' = nAdded,
           \A j \in Jobs : job'[j].kind = job[j].kind /\ job'[j].moved = job[j].moved
    PROVE  Strict' = Strict
BY DEF Strict

\* The first worker's queue is not the shared one.
LEMMA FirstWorker == 0 \in Workers /\ 0 \in Queues /\ 0 \in Levels /\ Shared # 0 /\ Main # 0 /\ 0 \in Threads
BY PoolAssumption DEF Workers, Queues, Levels, Shared, Main, Threads

\* A thread's step that lets the queues and the promised jobs alone.
LEMMA ThreadAside ==
    ASSUME InOrder, NEW t \in Threads, Others(t), queue' = queue, SameJobs, nAdded' = nAdded,
           Stopped => Stopped',
           InHand(t)' => InHand(t) /\ loc'[t].job = loc[t].job /\ (pc'[t] = "run" <=> pc[t] = "run"),
           InHand(t) /\ loc[t].job \in Strict' => InHand(t)' /\ loc'[t].job = loc[t].job,
           t # Main \/ SameErrand
    PROVE  InOrder'
<1>1. SameHands
    <2> SUFFICES ASSUME NEW u \in Threads
                 PROVE  /\ InHand(u)' => InHand(u) /\ loc'[u].job = loc[u].job /\ (pc'[u] = "run" <=> pc[u] = "run")
                        /\ InHand(u) /\ loc[u].job \in Strict' => InHand(u)' /\ loc'[u].job = loc[u].job
        BY DEF SameHands
    <2>1. CASE u = t
        BY <2>1
    <2>2. CASE u # t
        BY <2>2 DEF Others, InHand, SameJobs
    <2> QED
        BY <2>1, <2>2
<1>2. SameErrand
    <2>1. CASE t # Main
        <3>1. pc'[Main] = pc[Main] /\ loc'[Main] = loc[Main]
            BY <2>1, Numbers DEF Others
        <3> QED
            BY <3>1 DEF SameErrand, Bringing, SameJobs, InOrder, Latest
    <2> QED
        BY <2>1
<1>3. Shifted(0) /\ NoneJoins
    BY SameQueue
<1> QED
    BY <1>1, <1>2, <1>3, OrderAside

\* No job is changed.
LEMMA NoJobs ==
    ASSUME job' = job, nAdded' = nAdded
    PROVE  Strict' = Strict /\ SameJobs /\ Fresh' = Fresh
BY DEF Strict, SameJobs, Fresh

\* What workers do when they have no promised job in hand.
LEMMA OrderIdle ==
    ASSUME InOrder, Running, NEW w \in Workers,
           \/ Wake(w) \/ PopDirect(w) \/ PopShared(w) \/ NextLevel(w) \/ Taken(w) \/ Released(w) \/ EndTurn(w)
           \/ Reply(w) \/ FallAsleep(w) \/ Awake(w) \/ Exit(w)
    PROVE  InOrder'
<1> USE Numbers
<1>1. Others(w) /\ nAdded' = nAdded /\ w \in Threads /\ w # Main
    BY WorkerOthers DEF WorkerStep
<1>2. queue' = queue /\ job' = job
    BY DEF Wake, PopDirect, PopShared, NextLevel, Taken, Released, EndTurn, Reply, FallAsleep, Awake, Exit
<1>3. Stopped => Stopped'
    BY <1>1 DEF Stopped, Wake, PopDirect, PopShared, NextLevel, Taken, Released, EndTurn, Reply, FallAsleep,
                Awake, Exit
<1>4. \/ pc[w] \notin Hands /\ pc'[w] \notin Hands
      \/ pc[w] = "taken" /\ pc'[w] = "service" /\ loc' = loc
    <2> USE DEF Running, Shape, Goto, Hands
    <2>1. CASE Wake(w) \/ PopDirect(w) \/ PopShared(w) \/ NextLevel(w)
        BY <1>1, <2>1 DEF Wake, PopDirect, PopShared, NextLevel, Ticket
    <2>2. CASE Taken(w) \/ Released(w) \/ EndTurn(w)
        BY <1>1, <2>2 DEF Taken, Released, EndTurn
    <2>3. CASE Reply(w) \/ FallAsleep(w) \/ Awake(w) \/ Exit(w)
        BY <1>1, <2>3 DEF Reply, FallAsleep, Awake, Exit
    <2> QED
        BY <2>1, <2>2, <2>3
<1>5. Strict' = Strict /\ SameJobs
    BY <1>1, <1>2, NoJobs
<1>6. InHand(w)' => InHand(w) /\ loc'[w].job = loc[w].job /\ (pc'[w] = "run" <=> pc[w] = "run")
    BY <1>4, <1>5 DEF InHand, Hands
<1>7. InHand(w) => InHand(w)' /\ loc'[w].job = loc[w].job
    BY <1>4, <1>5 DEF InHand, Hands
<1> QED
    BY <1>1, <1>2, <1>3, <1>5, <1>6, <1>7, ThreadAside

\* The first entry of a queue is taken.
LEMMA OrderTake ==
    ASSUME InOrder, OwnQueue, Running, Stock, NEW t \in Threads, TakeJob(t), Others(t)
    PROVE  InOrder'
<1> USE Numbers
<1> DEFINE q == loc[t].src
           l == loc[t].level
           s == queue[q][l]
           j == s[1]
<1>1. /\ pc[t] = "scan" /\ q \in Queues /\ l \in Levels
      /\ s \in Seq(Jobs) /\ 1 \in 1 .. Len(s) /\ Len(s) \in Nat
      /\ queue'[q][l] \in Seq(Jobs) /\ Len(queue'[q][l]) = Len(s) - 1
      /\ \A i \in 1 .. Len(queue'[q][l]) : i + 1 \in 1 .. Len(s) /\ queue'[q][l][i] = s[i + 1]
      /\ \A r \in Queues, m \in Levels : <<r, m>> # <<q, l>> => queue'[r][m] = queue[r][m]
      /\ loc'[t].job = j /\ pc'[t] \in {"taken", "service"}
    BY TakenEntry
<1>2. job' = job /\ nAdded' = nAdded
    BY DEF TakeJob
<1>3. Strict' = Strict /\ SameJobs /\ Fresh' = Fresh
    BY <1>2, NoJobs
<1>4. Stopped' = Stopped
    BY <1>1 DEF Others, Stopped
<1>5. NoneJoins
    <2> SUFFICES ASSUME NEW r \in Queues, NEW m \in Levels, NEW i \in 1 .. Len(queue'[r][m])
                 PROVE  \E k \in 1 .. Len(queue[r][m]) : queue[r][m][k] = queue'[r][m][i]
        BY DEF NoneJoins
    <2>1. CASE r = q /\ m = l
        <3>1. i + 1 \in 1 .. Len(queue[r][m]) /\ queue'[r][m][i] = queue[r][m][i + 1]
            BY <1>1, <2>1
        <3> QED
            BY <3>1
    <2>2. CASE ~(r = q /\ m = l)
        BY <1>1, <2>2
    <2> QED
        BY <2>1, <2>2
<1>6. ~InHand(t)
    BY <1>1 DEF InHand
<1>7. ASSUME q = 0, l = 0
      PROVE  \A i \in Int : /\ Waits(i)' => Waits(i + 1) /\ Line[i + 1] = Line'[i]
                            /\ Waits(i) /\ i # 1 => Waits(i - 1)' /\ Line'[i - 1] = Line[i]
    <2>1. /\ Line = s /\ Len(Line') = Len(Line) - 1 /\ Len(Line) \in Nat
          /\ \A i \in 1 .. Len(Line') : i + 1 \in 1 .. Len(Line) /\ Line'[i] = Line[i + 1]
        BY <1>1, <1>7 DEF Line
    <2>2. ASSUME NEW i \in Int, Waits(i)' PROVE Waits(i + 1) /\ Line[i + 1] = Line'[i]
        BY <1>3, <2>1, <2>2 DEF Waits
    <2>3. ASSUME NEW i \in Int, Waits(i), i # 1 PROVE Waits(i - 1)' /\ Line'[i - 1] = Line[i]
        <3> DEFINE k == i - 1
        <3>1. k \in 1 .. Len(Line') /\ k + 1 = i
            BY <2>1, <2>3 DEF Waits
        <3> HIDE DEF k
        <3>2. Line'[k] = Line[i]
            BY <2>1, <3>1
        <3>3. Waits(k)'
            BY <1>3, <2>3, <3>1, <3>2 DEF Waits
        <3> QED
            BY <3>2, <3>3 DEF k
    <2> QED
        BY <2>2, <2>3
<1>8. ~(q = 0 /\ l = 0) => Line' = Line
    BY <1>1, FirstWorker DEF Line
<1>9. CASE j \notin Strict
    <2>1. \E d \in Int : Shifted(d)
        <3>1. CASE q = 0 /\ l = 0
            <4>1. ~Waits(1)
                BY <1>9, <3>1 DEF Waits, Line
            <4>2. Shifted(1)
                BY <1>7, <3>1, <4>1 DEF Shifted
            <4> QED
                BY <4>2
        <3>2. CASE ~(q = 0 /\ l = 0)
            <4>1. \A i \in Int : i + 0 = i /\ i - 0 = i
                OBVIOUS
            <4>2. Shifted(0)
                BY <1>3, <1>8, <3>2, <4>1 DEF Shifted, Waits
            <4> QED
                BY <4>2
        <3> QED
            BY <3>1, <3>2
    <2>2. SameHands
        <3>1. ~InHand(t)'
            BY <1>1, <1>3, <1>9 DEF InHand
        <3> QED
            BY <1>3, <1>6, <3>1 DEF SameHands, Others, InHand
    <2>3. SameErrand
        <3>1. CASE t = Main
            BY <1>1, <3>1 DEF SameErrand, Bringing
        <3>2. CASE t # Main
            BY <1>2, <1>3, <3>2 DEF SameErrand, Bringing, Others, InOrder, Latest
        <3> QED
            BY <3>1, <3>2
    <2> QED
        BY <1>3, <1>4, <1>5, <2>1, <2>2, <2>3, OrderAside
<1>10. CASE j \in Strict
    <2> USE DEF InOrder
    <2>1. q = 0 /\ l = 0 /\ j \in Fresh
        BY <1>1, <1>10 DEF OnlyThere
    <2>2. t = 0 /\ t # Main /\ ~Stopped
        <3>1. t = 0
            BY <1>1, <2>1, FirstWorker DEF OwnQueue
        <3> QED
            BY <1>1, <3>1, FirstWorker DEF Stopped
    <2>3. \A u \in Threads : ~InHand(u)
        BY <1>6, <2>2 DEF Earliest
    <2>4. \A u \in Threads : InHand(u)' => u = t
        BY <1>3, <2>3 DEF Others, InHand
    <2>5. Waits(1) /\ Line[1] = j
        BY <1>1, <1>10, <2>1 DEF Waits, Line
    <2>6. pc'[Main] = pc[Main] /\ loc'[Main] = loc[Main]
        BY <2>2 DEF Others
    <2>7. Lowest'
        BY <1>2, <1>3 DEF Lowest
    <2>8. OnlyThere'
        <3> SUFFICES ASSUME NEW r \in Queues, NEW m \in Levels, NEW i \in 1 .. Len(queue'[r][m]),
                            queue'[r][m][i] \in Strict
                     PROVE  r = 0 /\ m = 0 /\ queue'[r][m][i] \in Fresh
            BY <1>3 DEF OnlyThere
        <3>1. PICK k \in 1 .. Len(queue[r][m]) : queue[r][m][k] = queue'[r][m][i]
            BY <1>3, <1>5 DEF NoneJoins
        <3>2. queue[r][m][k] \in Strict => r = 0 /\ m = 0 /\ queue[r][m][k] \in Fresh
            BY DEF OnlyThere
        <3> QED
            BY <3>1, <3>2
    <2>9. Ascending'
        <3> SUFFICES ASSUME NEW i \in Int, NEW k \in Int, Waits(i)', Waits(k)', i < k
                     PROVE  Line'[i] < Line'[k]
            BY DEF Ascending
        <3>1. Waits(i + 1) /\ Waits(k + 1) /\ Line[i + 1] = Line'[i] /\ Line[k + 1] = Line'[k]
            BY <1>7, <2>1
        <3>2. i + 1 \in Int /\ k + 1 \in Int /\ i + 1 < k + 1
            OBVIOUS
        <3>3. Line[i + 1] < Line[k + 1]
            BY <3>1, <3>2 DEF Ascending
        <3> QED
            BY <3>1, <3>3
    <2>10. Earliest'
        <3>1. ASSUME NEW i \in Int, Waits(i)' PROVE loc'[t].job < Line'[i]
            <4>1. Waits(i + 1) /\ Line[i + 1] = Line'[i]
                BY <1>7, <2>1, <3>1
            <4>2. 1 < i + 1 /\ i + 1 \in Int
                BY <3>1 DEF Waits
            <4>3. Line[1] < Line[i + 1]
                BY <2>5, <4>1, <4>2 DEF Ascending
            <4> QED
                BY <1>1, <2>5, <4>1, <4>3
        <3> QED
            BY <1>1, <1>3, <2>1, <2>2, <2>4, <3>1 DEF Earliest
    <2>11. Latest'
        <3>1. ASSUME Bringing'
              PROVE  /\ loc'[Main].job = nAdded' /\ loc'[Main].src = 0 /\ nAdded' \in Fresh'
                     /\ \A i \in Int : Waits(i)' => Line'[i] # nAdded'
                     /\ \A u \in Threads : InHand(u)' => loc'[u].job # nAdded'
            <4>1. Bringing
                BY <1>3, <2>6, <3>1 DEF Bringing
            <4>2. /\ loc[Main].job = nAdded /\ loc[Main].src = 0 /\ nAdded \in Fresh
                  /\ \A i \in Int : Waits(i) => Line[i] # nAdded
                BY <4>1 DEF Latest
            <4>3. j # nAdded
                BY <2>5, <4>2
            <4>4. \A i \in Int : Waits(i)' => Line'[i] # nAdded
                <5> SUFFICES ASSUME NEW i \in Int, Waits(i)' PROVE Line'[i] # nAdded
                    OBVIOUS
                <5>1. i + 1 \in Int /\ Waits(i + 1) /\ Line[i + 1] = Line'[i]
                    BY <1>7, <2>1
                <5> QED
                    BY <4>2, <5>1
            <4> QED
                BY <1>1, <1>2, <1>3, <2>4, <2>6, <4>2, <4>3, <4>4
        <3> QED
            BY <1>3, <2>6, <3>1 DEF Latest
    <2>12. Somewhere'
        <3> SUFFICES ASSUME NEW k \in Strict, ~Finished(k)
                     PROVE  \/ \E i \in Int : Waits(i)' /\ Line'[i] = k
                            \/ \E u \in Threads : InHand(u)' /\ loc'[u].job = k
                            \/ Bringing' /\ loc'[Main].job = k
            BY <1>2, <1>3 DEF Somewhere, Finished
        <3>1. CASE \E i \in Int : Waits(i) /\ Line[i] = k
            <4>1. PICK i \in Int : Waits(i) /\ Line[i] = k
                BY <3>1
            <4>2. CASE i = 1
                <5>1. j = k
                    BY <2>5, <4>1, <4>2
                <5>2. loc'[t].job = j
                    BY <1>1
                <5>3. pc'[t] \in {"taken", "service", "run"}
                    BY <1>1
                <5>4. loc'[t].job = k
                    BY <5>1, <5>2
                <5>5. loc'[t].job \in Strict'
                    BY <1>3, <5>4
                <5> QED
                    BY <5>3, <5>4, <5>5 DEF InHand
            <4>3. CASE i # 1
                <5>1. Waits(i) /\ i # 1 => Waits(i - 1)' /\ Line'[i - 1] = Line[i]
                    BY <1>7, <2>1
                <5> DEFINE m == i - 1
                <5>2. m \in Int /\ Waits(m)' /\ Line'[m] = k
                    BY <4>1, <4>3, <5>1
                <5> HIDE DEF m
                <5> QED
                    BY <5>2
            <4> QED
                BY <4>2, <4>3
        <3>2. CASE Bringing /\ loc[Main].job = k
            BY <1>3, <2>6, <3>2 DEF Bringing
        <3> QED
            BY <2>3, <3>1, <3>2 DEF Somewhere
    <2>13. InTurn'
        BY <1>2, <1>3, <2>2 DEF InTurn, Finished
    <2> QED
        BY <2>7, <2>8, <2>9, <2>10, <2>11, <2>12, <2>13
<1> QED
    BY <1>9, <1>10

\* A job that starts keeps its kind and place, and no other changes.
LEMMA StartedJob ==
    ASSUME Running, NEW t, NEW j, Start(t, j)
    PROVE  /\ \A k \in Jobs : /\ job'[k].kind = job[k].kind /\ job'[k].moved = job[k].moved
                              /\ job'[k].prio = job[k].prio
                              /\ k # j => job'[k] = job[k]
           /\ j \in Jobs => job'[j].status = "inprogress" /\ job'[j].owner = t
<1>1. job' = [job EXCEPT ![j] = Started(t, j)]
    BY DEF Start
<1>2. j \in Jobs => /\ Started(t, j).kind = job[j].kind /\ Started(t, j).moved = job[j].moved
                    /\ Started(t, j).prio = job[j].prio
                    /\ Started(t, j).status = "inprogress" /\ Started(t, j).owner = t
    BY DEF Started, Running, Shape, JobShape, JobFields
<1> QED
    BY <1>1, <1>2 DEF Running, Shape, JobShape

\* A job starts: if it is promised, the first worker's, before all that wait.
LEMMA OrderService ==
    ASSUME InOrder, Running, Typed, NEW t \in Threads, Service(t), Others(t)
    PROVE  InOrder'
<1> USE Numbers
<1> DEFINE j == loc[t].job
<1>1. /\ pc[t] = "service" /\ loc' = loc /\ queue' = queue /\ nAdded' = nAdded
      /\ pc'[t] \in {"run", "released"}
    BY DEF Service, Goto, Running, Shape
<1>2. (t \in Workers => ~Stopped) /\ (Stopped => Stopped')
    BY <1>1 DEF Stopped, Others
<1>3. CASE j \notin Strict
    <2>1. Strict' = Strict /\ SameJobs
        <3>1. CASE job' = job
            BY <1>1, <3>1, NoJobs
        <3>2. CASE job' # job
            <4>1. Start(t, j)
                BY <3>2 DEF Service
            <4>2. Strict' = Strict
                BY <1>1, <4>1, StartedJob, SameStrict
            <4> QED
                BY <1>3, <4>1, <4>2, StartedJob DEF SameJobs, Strict
        <3> QED
            BY <3>1, <3>2
    <2>2. ~InHand(t) /\ ~InHand(t)'
        BY <1>1, <1>3, <2>1 DEF InHand
    <2>3. SameErrand \/ t # Main
        BY <1>1 DEF SameErrand, Bringing
    <2> QED
        BY <1>1, <1>2, <2>1, <2>2, <2>3, ThreadAside
<1>4. CASE j \in Strict
    <2> USE DEF InOrder
    <2>1. InHand(t)
        BY <1>1, <1>4 DEF InHand
    <2>2. t = 0 /\ t # Main /\ ~Stopped /\ j \in Fresh /\ \A i \in Int : Waits(i) => j < Line[i]
        BY <1>1, <1>2, <2>1, FirstWorker DEF Earliest
    <2>3. Start(t, j) /\ pc'[t] = "run"
        BY <2>2 DEF Service, Fresh, CanExecute, Goto, Running, Shape
    <2>4. /\ Strict' = Strict /\ j \in Jobs
          /\ \A k \in Jobs : k # j => job'[k] = job[k]
          /\ \A k \in Jobs : job'[k].prio = job[k].prio
          /\ job'[j].status = "inprogress"
        <3>1. j \in Jobs
            BY <1>4 DEF Strict
        <3> QED
            BY <1>1, <2>3, <3>1, StartedJob, SameStrict
    <2>5. \A k \in Fresh : k # j => k \in Fresh'
        BY <2>4 DEF Fresh
    <2>6. Line' = Line /\ \A i \in Int : Waits(i)' <=> Waits(i)
        BY <1>1, <2>4 DEF Line, Waits
    <2>7. \A u \in Threads : (InHand(u)' <=> InHand(u)) /\ loc'[u] = loc[u] /\ (InHand(u) => u = t)
        <3> SUFFICES ASSUME NEW u \in Threads PROVE (InHand(u)' <=> InHand(u)) /\ (InHand(u) => u = t)
            BY <1>1
        <3>1. CASE u = t
            BY <1>1, <2>1, <2>3, <2>4, <3>1 DEF InHand
        <3>2. CASE u # t
            BY <1>1, <2>2, <2>4, <3>2 DEF InHand, Others, Earliest
        <3> QED
            BY <3>1, <3>2
    <2>8. \A k \in Jobs : Finished(k)' <=> Finished(k)
        BY <2>2, <2>4 DEF Finished, Fresh
    <2>9. Bringing' <=> Bringing
        BY <1>1, <2>2, <2>4 DEF Bringing, Others
    <2>10. Lowest'
        BY <2>4 DEF Lowest, Strict
    <2>11. OnlyThere'
        <3> SUFFICES ASSUME NEW q \in Queues, NEW l \in Levels, NEW i \in 1 .. Len(queue[q][l]),
                            queue[q][l][i] \in Strict
                     PROVE  q = 0 /\ l = 0 /\ queue[q][l][i] \in Fresh'
            BY <1>1, <2>4 DEF OnlyThere
        <3>1. q = 0 /\ l = 0 /\ queue[q][l][i] \in Fresh
            BY DEF OnlyThere
        <3>2. Waits(i) /\ Line[i] = queue[q][l][i]
            BY <3>1 DEF Waits, Line
        <3>3. Line[i] # j
            BY <2>2, <2>4, <3>2 DEF Jobs
        <3> QED
            BY <2>5, <3>1, <3>2, <3>3
    <2>12. Ascending'
        BY <2>6 DEF Ascending
    <2>13. Earliest'
        BY <2>2, <2>3, <2>6, <2>7 DEF Earliest
    <2>14. Latest'
        <3>1. ASSUME Bringing
              PROVE  /\ loc[Main].job = nAdded /\ loc[Main].src = 0 /\ nAdded \in Fresh'
                     /\ \A i \in Int : Waits(i)' => Line[i] # nAdded
                     /\ \A u \in Threads : InHand(u)' => loc[u].job # nAdded
            <4>1. /\ loc[Main].job = nAdded /\ loc[Main].src = 0 /\ nAdded \in Fresh
                  /\ \A i \in Int : Waits(i) => Line[i] # nAdded
                  /\ \A u \in Threads : InHand(u) => loc[u].job # nAdded
                BY <3>1 DEF Latest
            <4> QED
                BY <2>1, <2>5, <2>6, <2>7, <4>1
        <3>2. pc'[Main] = "lockJob" => loc[Main].job \notin Strict
            BY <2>2 DEF Others, Latest
        <3> QED
            BY <1>1, <2>4, <2>6, <2>9, <3>1, <3>2 DEF Latest
    <2>15. Somewhere'
        <3> SUFFICES ASSUME NEW k \in Strict, ~Finished(k)
                     PROVE  \/ \E i \in Int : Waits(i) /\ Line[i] = k
                            \/ \E u \in Threads : InHand(u) /\ loc[u].job = k
                            \/ Bringing /\ loc[Main].job = k
            BY <1>1, <2>4, <2>6, <2>7, <2>8, <2>9 DEF Somewhere, Strict
        <3> QED
            BY DEF Somewhere
    <2>16. InTurn'
        <3> SUFFICES ASSUME NEW i \in Strict, NEW k \in Strict, i < k, job'[k].status \in {"inprogress", "ok"},
                            ~Finished(i)
                     PROVE  FALSE
            BY <2>4, <2>8 DEF InTurn, Strict
        <3>1. CASE k # j
            <4>1. job[k].status \in {"inprogress", "ok"}
                BY <2>4, <3>1 DEF Strict
            <4> QED
                BY <2>2, <4>1 DEF InTurn
        <3>2. CASE k = j
            <4>0. i \in Int /\ k \in Int /\ i <= nAdded /\ k <= nAdded /\ nAdded \in Int
                BY DEF Strict, Jobs, Running, Shape
            <4>1. CASE \E m \in Int : Waits(m) /\ Line[m] = i
                <5>1. j < i
                    BY <2>2, <4>1
                <5> QED
                    BY <3>2, <4>0, <5>1
            <4>2. CASE \E u \in Threads : InHand(u) /\ loc[u].job = i
                <5>1. i = j
                    BY <2>7, <4>2
                <5> QED
                    BY <3>2, <4>0, <5>1
            <4>3. CASE Bringing /\ loc[Main].job = i
                <5>1. i = nAdded
                    BY <4>3 DEF Latest
                <5> QED
                    BY <4>0, <5>1
            <4> QED
                BY <4>1, <4>2, <4>3 DEF Somewhere
        <3> QED
            BY <3>1, <3>2
    <2> QED
        BY <2>10, <2>11, <2>12, <2>13, <2>14, <2>15, <2>16
<1> QED
    BY <1>3, <1>4

\* A job is over.
LEMMA OrderRun ==
    ASSUME InOrder, Running, NEW t \in Threads, Run(t), Others(t)
    PROVE  InOrder'
<1> USE Numbers
<1> DEFINE j == loc[t].job
<1>1. /\ pc[t] = "run" /\ queue' = queue /\ nAdded' = nAdded
      /\ job' = [job EXCEPT ![j].status = "ok", ![j].owner = None]
      /\ pc'[t] \in {"released", "idle"}
    <2>1. CASE loc[t].src # None
        BY <2>1 DEF Run, Goto, Running, Shape
    <2>2. CASE loc[t].src = None
        <3>1. t = Main
            BY <2>2 DEF Run, Running, FromQueue, Threads
        <3> QED
            BY <2>2, <3>1 DEF Run, Return, Goto, Running, Shape
    <2> QED
        BY <2>1, <2>2
<1>2. Stopped' = Stopped
    <2>1. CASE t = Main
        BY <2>1 DEF Others, Stopped
    <2>2. CASE t # Main
        <3>1. t \in Workers
            BY <2>2 DEF Threads
        <3> QED
            BY <1>1, <3>1 DEF Others, Stopped
    <2> QED
        BY <2>1, <2>2
<1>3. /\ \A k \in Jobs : /\ job'[k].kind = job[k].kind /\ job'[k].moved = job[k].moved
                         /\ job'[k].prio = job[k].prio /\ (k # j => job'[k] = job[k])
      /\ j \in Jobs => job'[j].status = "ok" /\ job[j].status = "inprogress"
    <2>1. j \in Jobs => job[j].status = "inprogress"
        BY <1>1 DEF Running, Holds
    <2> QED
        BY <1>1, <2>1 DEF Running, Shape, JobShape, JobFields
<1>4. Strict' = Strict
    BY <1>1, <1>3, SameStrict
<1>5. ~InHand(t)'
    BY <1>1 DEF InHand
<1>6. CASE j \notin Strict
    <2>1. SameJobs
        BY <1>3, <1>4, <1>6 DEF SameJobs, Strict
    <2>2. ~InHand(t)
        BY <1>6 DEF InHand
    <2>3. SameErrand \/ t # Main
        BY <1>1 DEF SameErrand, Bringing
    <2> QED
        BY <1>1, <1>2, <1>5, <2>1, <2>2, <2>3, ThreadAside
<1>7. CASE j \in Strict
    <2> USE DEF InOrder
    <2>1. j \in Jobs /\ job[j].status = "inprogress" /\ job'[j].status = "ok" /\ j \notin Fresh
        BY <1>3, <1>7 DEF Strict, Fresh
    <2>2. \A k \in Fresh : k \in Fresh'
        BY <1>3, <2>1 DEF Fresh
    <2>3. Line' = Line /\ \A i \in Int : Waits(i)' <=> Waits(i)
        BY <1>1, <1>4 DEF Line, Waits
    <2>4. \A u \in Threads : InHand(u)' => u # t /\ InHand(u) /\ loc'[u] = loc[u] /\ pc'[u] = pc[u]
        BY <1>4, <1>5 DEF InHand, Others
    <2>5. \A u \in Threads : InHand(u) /\ u # t => InHand(u)' /\ loc'[u] = loc[u]
        BY <1>4 DEF InHand, Others
    <2>6. Bringing' => Bringing /\ loc'[Main] = loc[Main]
        BY <1>1, <1>4 DEF Bringing, Others
    <2>7. Bringing => Bringing' /\ loc'[Main] = loc[Main]
        BY <1>1, <1>4 DEF Bringing, Others
    <2>8. Lowest'
        BY <1>3, <1>4 DEF Lowest, Strict
    <2>9. OnlyThere'
        BY <1>1, <1>4, <2>2 DEF OnlyThere
    <2>10. Ascending'
        BY <2>3 DEF Ascending
    <2>11. Earliest'
        BY <1>2, <2>2, <2>3, <2>4 DEF Earliest
    <2>12. Latest'
        <3>1. ASSUME Bringing'
              PROVE  /\ loc'[Main].job = nAdded /\ loc'[Main].src = 0 /\ nAdded \in Fresh'
                     /\ \A i \in Int : Waits(i)' => Line'[i] # nAdded
                     /\ \A u \in Threads : InHand(u)' => loc'[u].job # nAdded
            BY <2>2, <2>3, <2>4, <2>6, <3>1 DEF Latest
        <3>2. pc'[Main] = "lockJob" => loc'[Main].job \notin Strict
            BY <1>1 DEF Others, Latest
        <3> QED
            BY <1>1, <1>4, <3>1, <3>2 DEF Latest
    <2>13. Somewhere'
        <3> SUFFICES ASSUME NEW k \in Strict, ~Finished(k)'
                     PROVE  \/ \E i \in Int : Waits(i)' /\ Line'[i] = k
                            \/ \E u \in Threads : InHand(u)' /\ loc'[u].job = k
                            \/ Bringing' /\ loc'[Main].job = k
            BY <1>4 DEF Somewhere
        <3>1. k # j /\ ~Finished(k)
            BY <1>3, <2>1 DEF Finished, Strict
        <3>2. CASE \E i \in Int : Waits(i) /\ Line[i] = k
            BY <2>3, <3>2
        <3>3. CASE \E u \in Threads : InHand(u) /\ loc[u].job = k
            BY <2>5, <3>1, <3>3
        <3>4. CASE Bringing /\ loc[Main].job = k
            BY <2>7, <3>4
        <3> QED
            BY <3>1, <3>2, <3>3, <3>4 DEF Somewhere
    <2>14. InTurn'
        <3> SUFFICES ASSUME NEW i \in Strict, NEW k \in Strict, i < k, job'[k].status \in {"inprogress", "ok"},
                            ~Finished(i)'
                     PROVE  Stopped /\ \E m \in Int : Waits(m) /\ Line[m] = i
            BY <1>2, <1>4, <2>3 DEF InTurn
        <3>1. job[k].status \in {"inprogress", "ok"} /\ ~Finished(i)
            BY <1>3, <2>1 DEF Finished, Strict
        <3> QED
            BY <3>1 DEF InTurn
    <2> QED
        BY <2>8, <2>9, <2>10, <2>11, <2>12, <2>13, <2>14
<1> QED
    BY <1>6, <1>7

\* A job that nobody has made has the lowest priority and no owner.
Blank == \A j \in Jobs : j > nAdded => job[j].prio = 0 /\ job[j].owner = None

\* No job was made yet.
LEMMA BlankInit == Init => Blank
BY DEF Init, Blank

\* A step that touches the priority and the owner of made jobs only.
LEMMA BlankStep ==
    ASSUME Blank, Shape, nAdded' \in Int, nAdded <= nAdded',
           \A j \in Jobs : j > nAdded' => job'[j].prio = job[j].prio /\ (job'[j].owner = job[j].owner \/ job'[j].owner = None)
    PROVE  Blank'
<1> SUFFICES ASSUME NEW j \in Jobs, j > nAdded' PROVE job'[j].prio = 0 /\ job'[j].owner = None
    BY DEF Blank
<1>1. j > nAdded
    BY DEF Shape, Jobs
<1> QED
    BY <1>1 DEF Blank

\* Only jobs that somebody has are started.
LEMMA BlankStart ==
    ASSUME Blank, Running, Made, NEW t \in Threads, Start(t, loc[t].job), nAdded' = nAdded
    PROVE  Blank'
<1> DEFINE j == loc[t].job
<1>1. \A k \in Jobs : job'[k].prio = job[k].prio /\ (k # j => job'[k] = job[k])
    BY StartedJob
<1>2. j <= nAdded /\ nAdded \in Int
    BY DEF Made, Running, Shape
<1>3. ASSUME NEW k \in Jobs, k > nAdded PROVE k # j
    BY <1>2, <1>3 DEF Jobs
<1> QED
    BY <1>1, <1>2, <1>3, BlankStep DEF Running

\* No step changes the priority of a job before it is made, or gives it an owner.
LEMMA BlankNext ==
    ASSUME Blank, Running, Made, [Next]_vars
    PROVE  Blank'
<1> USE Numbers
<1>0. Shape /\ JobShape /\ nAdded \in Int /\ nAdded <= nAdded
    BY DEF Running, Shape
<1>1. ASSUME job' = job, nAdded' = nAdded PROVE Blank'
    BY <1>1 DEF Blank
<1>2. ASSUME NEW t \in Threads, Service(t) \/ Run(t) PROVE Blank'
    <2>1. CASE Service(t)
        <3>1. nAdded' = nAdded /\ (Start(t, loc[t].job) \/ job' = job)
            BY <2>1 DEF Service
        <3> QED
            BY <1>1, <3>1, BlankStart
    <2>2. CASE Run(t)
        <3>1. nAdded' = nAdded /\ job' = [job EXCEPT ![loc[t].job].status = "ok", ![loc[t].job].owner = None]
            BY <2>2 DEF Run
        <3>2. \A j \in Jobs : job'[j].prio = job[j].prio /\ (job'[j].owner = job[j].owner \/ job'[j].owner = None)
            BY <1>0, <3>1 DEF JobShape, JobFields
        <3> QED
            BY <1>0, <3>1, <3>2, BlankStep
    <2> QED
        BY <1>2, <2>1, <2>2
<1>3. ASSUME NEW S, AbortJobs(S) \/ ExecuteJobs(S), nAdded' = nAdded PROVE Blank'
    <2>1. \A j \in Jobs : job'[j].prio = job[j].prio /\ job'[j].owner = job[j].owner
        BY <1>0, <1>3, SettledJobs
    <2> QED
        BY <1>0, <1>3, <2>1, BlankStep
<1>4. CASE LockJob
    <2>1. CASE Start(Main, loc[Main].job)
        BY <1>4, <2>1, BlankStart DEF LockJob
    <2>2. CASE ~Start(Main, loc[Main].job)
        <3>1. nAdded' = nAdded /\ (job' = job \/ job' = [job EXCEPT ![loc[Main].job].status = "aborted"])
            BY <1>4, <2>2 DEF LockJob
        <3>2. \A j \in Jobs : job'[j].prio = job[j].prio /\ job'[j].owner = job[j].owner
            BY <1>0, <3>1 DEF JobShape, JobFields
        <3> QED
            BY <1>0, <3>1, <3>2, BlankStep
    <2> QED
        BY <2>1, <2>2
<1>5. CASE AbortAll \/ Join \/ \E p \in Levels, filtered \in BOOLEAN : ExecuteToPriority(p, filtered)
    BY <1>3, <1>5 DEF AbortAll, Join, ExecuteToPriority
<1>6. ASSUME NEW j \in Jobs,
             \/ \E p \in Levels : ChangePriority(j, p)
             \/ \E call \in {"Execute", "TryExecute", "Abort"} : CallJob(call, j)
      PROVE  Blank'
    <2>1. /\ nAdded' = nAdded /\ j \in Added
          /\ \A k \in Jobs : k # j => job'[k] = job[k]
        BY <1>0, <1>6 DEF ChangePriority, CallJob, JobShape
    <2>2. ASSUME NEW k \in Jobs, k > nAdded PROVE k # j
        BY <1>0, <2>1, <2>2 DEF Added
    <2> QED
        BY <1>0, <2>1, <2>2, BlankStep
<1>7. ASSUME NEW j \in Jobs, NEW kind \in Kinds, AddJobInPlace(j, kind) \/ AddJob(j, kind)
      PROVE  Blank'
    <2>1. /\ nAdded' = nAdded + 1 /\ j = nAdded'
          /\ \A k \in Jobs : k # j => job'[k] = job[k]
        BY <1>0, <1>7 DEF AddJobInPlace, AddJob, Add, JobShape
    <2>2. nAdded <= nAdded' /\ nAdded' \in Int /\ \A k \in Jobs : k > nAdded' => k # j
        BY <1>0, <2>1 DEF Jobs
    <2> QED
        BY <1>0, <2>1, <2>2, BlankStep
<1>8. ASSUME NEW w \in Workers, WorkerStep(w) PROVE Blank'
    <2>1. CASE Service(w) \/ Run(w)
        BY <1>2, <2>1
    <2>2. CASE ~(Service(w) \/ Run(w))
        BY <1>1, <1>8, <2>2 DEF WorkerStep, Wake, PopDirect, PopShared, NextLevel, TakeJob, Taken, Released,
            EndTurn, Reply, FallAsleep, Awake, Exit
    <2> QED
        BY <2>1, <2>2
<1>9. CASE \/ PushItem \/ CountItem \/ CountJob \/ Yield \/ YieldPop \/ Block
           \/ NextLevel(Main) \/ TakeJob(Main) \/ Released(Main) \/ GiveUp
           \/ CallSuspend \/ AwaitAsleep \/ Suspend \/ CallExit
    BY <1>1, <1>9 DEF PushItem, CountItem, CountJob, Yield, YieldPop, Block, NextLevel, TakeJob, Released,
        GiveUp, CallSuspend, AwaitAsleep, Suspend, CallExit, CallWorker
<1>10. CASE \/ (\E j \in Jobs : Wait(j)) \/ WaitFrame \/ (\E call \in Suspenders : SuspendExecution(call))
            \/ Stop \/ Resume \/ UNCHANGED vars
    BY <1>1, <1>10 DEF Wait, WaitFrame, SuspendExecution, Stop, Resume, vars
<1> QED
    BY <1>2, <1>4, <1>5, <1>6, <1>7, <1>8, <1>9, <1>10 DEF Next, MasterStep, Call

\* What the master does that has to do with no job.
LEMMA MasterAside ==
    ASSUME InOrder, Others(Main), queue' = queue, job' = job, nAdded' = nAdded,
           pc[Main] \notin Hands \cup {"pushItem"}, pc'[Main] \notin Hands \cup {"pushItem", "lockJob"}
    PROVE  InOrder'
<1>1. SameJobs
    BY NoJobs
<1>2. Stopped => Stopped'
    BY Numbers DEF Others, Stopped
<1>3. ~InHand(Main) /\ ~InHand(Main)' /\ SameErrand
    BY DEF InHand, Hands, SameErrand, Bringing
<1> QED
    BY <1>1, <1>2, <1>3, Numbers, ThreadAside

\* Most of what the master does.
LEMMA OrderMaster ==
    ASSUME InOrder, Running,
           \/ CountItem \/ CountJob \/ Yield \/ YieldPop \/ Block \/ NextLevel(Main) \/ Released(Main)
           \/ GiveUp \/ CallSuspend \/ AwaitAsleep \/ Suspend \/ CallExit
           \/ (\E j \in Jobs : Wait(j)) \/ WaitFrame \/ (\E call \in Suspenders : SuspendExecution(call))
           \/ Stop \/ Resume
    PROVE  InOrder'
<1> USE Numbers
<1>1. Others(Main)
    BY MasterOthers DEF MasterStep, Call
<1>2. queue' = queue /\ job' = job /\ nAdded' = nAdded
    BY DEF CountItem, CountJob, Yield, YieldPop, Block, NextLevel, Released, GiveUp, CallSuspend, AwaitAsleep,
           Suspend, CallExit, CallWorker, Wait, WaitFrame, SuspendExecution, Stop, Resume
<1>3. pc[Main] \notin Hands \cup {"pushItem"} /\ pc'[Main] \notin Hands \cup {"pushItem", "lockJob"}
    <2> USE DEF Running, Shape, Goto, Hands, Return
    <2>1. CASE CountItem \/ CountJob \/ Yield \/ YieldPop \/ Block
        BY <2>1 DEF CountItem, CountJob, Yield, YieldPop, Block, Ticket
    <2>2. CASE NextLevel(Main) \/ Released(Main) \/ GiveUp
        BY <2>2 DEF NextLevel, Released, GiveUp
    <2>3. CASE CallSuspend \/ AwaitAsleep \/ Suspend \/ CallExit
        BY <2>3 DEF CallSuspend, AwaitAsleep, Suspend, CallExit, CallWorker
    <2>4. CASE (\E j \in Jobs : Wait(j)) \/ WaitFrame \/ (\E call \in Suspenders : SuspendExecution(call)) \/ Stop
        BY <2>4 DEF Wait, WaitFrame, SuspendExecution, Stop, Begin
    <2>5. CASE Resume
        BY <2>5 DEF Resume
    <2> QED
        BY <2>1, <2>2, <2>3, <2>4, <2>5
<1> QED
    BY <1>1, <1>2, <1>3, MasterAside

\* A client moves a job: its order is promised no longer.
LEMMA OrderMark ==
    ASSUME InOrder, Running, NEW j \in Jobs,
           \/ \E p \in Levels : ChangePriority(j, p)
           \/ \E call \in {"Execute", "TryExecute", "Abort"} : CallJob(call, j)
    PROVE  InOrder'
<1> USE Numbers
<1>1. Others(Main)
    BY MasterOthers DEF Call
<1>2. /\ queue' = queue /\ nAdded' = nAdded /\ pc[Main] = "idle"
      /\ pc'[Main] \in {"pushItem", "lockJob"} /\ loc'[Main].job = j
      /\ job'[j].moved /\ \A k \in Jobs : k # j => job'[k] = job[k]
    <2> USE DEF Running, Shape, JobShape, JobFields, LocFields, Goto, Begin
    <2>1. ASSUME NEW p, ChangePriority(j, p)
          PROVE  /\ queue' = queue /\ nAdded' = nAdded /\ pc[Main] = "idle"
                 /\ pc'[Main] \in {"pushItem", "lockJob"} /\ loc'[Main].job = j
                 /\ job'[j].moved /\ \A k \in Jobs : k # j => job'[k] = job[k]
        BY <2>1 DEF ChangePriority
    <2>2. ASSUME NEW call, CallJob(call, j)
          PROVE  /\ queue' = queue /\ nAdded' = nAdded /\ pc[Main] = "idle"
                 /\ pc'[Main] \in {"pushItem", "lockJob"} /\ loc'[Main].job = j
                 /\ job'[j].moved /\ \A k \in Jobs : k # j => job'[k] = job[k]
        BY <2>2 DEF CallJob
    <2> QED
        BY <2>1, <2>2
<1>3. j \notin Strict' /\ SameJobs
    BY <1>2 DEF Strict, SameJobs
<1>4. ~InHand(Main) /\ ~InHand(Main)' /\ SameErrand
    BY <1>2, <1>3 DEF InHand, SameErrand, Bringing
<1>5. Stopped => Stopped'
    BY <1>1 DEF Others, Stopped
<1> QED
    BY <1>1, <1>2, <1>3, <1>4, <1>5, ThreadAside

\* The lock a client waited for is that of a job it moved.
LEMMA OrderLock ==
    ASSUME InOrder, Running, LockJob
    PROVE  InOrder'
<1> USE Numbers
<1> DEFINE j == loc[Main].job
<1>1. Others(Main)
    BY MasterOthers DEF MasterStep
<1>2. /\ queue' = queue /\ nAdded' = nAdded /\ pc[Main] = "lockJob" /\ j \notin Strict
      /\ \/ pc'[Main] = "run" /\ loc' = loc
         \/ pc'[Main] = "idle"
    BY DEF LockJob, Return, Goto, InOrder, Latest, Running, Shape
<1>3. \A k \in Jobs : /\ job'[k].kind = job[k].kind /\ job'[k].moved = job[k].moved
                      /\ k # j => job'[k] = job[k]
    <2>1. CASE Start(Main, j)
        BY <2>1, StartedJob
    <2>2. CASE ~Start(Main, j)
        <3>1. job' = job \/ job' = [job EXCEPT ![j].status = "aborted"]
            BY <2>2 DEF LockJob
        <3> QED
            BY <3>1 DEF Running, Shape, JobShape, JobFields
    <2> QED
        BY <2>1, <2>2
<1>4. Strict' = Strict /\ SameJobs
    <2>1. Strict' = Strict
        BY <1>2, <1>3, SameStrict
    <2> QED
        BY <1>2, <1>3, <2>1 DEF SameJobs, Strict
<1>5. ~InHand(Main) /\ ~InHand(Main)' /\ SameErrand
    BY <1>2, <1>4 DEF InHand, SameErrand, Bringing
<1>6. Stopped => Stopped'
    BY <1>1 DEF Others, Stopped
<1> QED
    BY <1>1, <1>2, <1>4, <1>5, <1>6, ThreadAside

\* A step that adds a job: the others are what they were.
Adds(j) ==
    /\ pc[Main] = "idle" /\ j \in Jobs /\ j = nAdded + 1 /\ nAdded' = j /\ queue' = queue
    /\ \A k \in Jobs : k # j => job'[k] = job[k]
    /\ loc'[Main].job = j
    /\ Others(Main) /\ (Stopped' <=> Stopped)

\* Where the others are, it is not, and they are there still.
LEMMA AddedJob ==
    ASSUME InOrder, Made, Running, NEW j, Adds(j)
    PROVE  /\ \A k \in Strict : k \in Strict' /\ k < j /\ job'[k] = job[k]
           /\ \A k \in Strict' : k # j => k \in Strict
           /\ \A q \in Queues, l \in Levels : \A i \in 1 .. Len(queue[q][l]) : queue[q][l][i] # j
           /\ Line' = Line /\ \A i \in Int : (Waits(i)' <=> Waits(i)) /\ (Waits(i) => Line[i] # j)
           /\ \A u \in Threads \ {Main} : (InHand(u)' <=> InHand(u)) /\ loc'[u] = loc[u] /\ pc'[u] = pc[u]
           /\ \A u \in Threads : InHand(u) => u # Main /\ loc[u].job # j
           /\ ~Bringing
<1> USE Numbers
<1>1. /\ nAdded \in Int /\ j \in Int /\ j \in Jobs /\ nAdded' = j /\ j = nAdded + 1
      /\ \A k \in Jobs : k # j => job'[k] = job[k]
    <2>1. nAdded \in Int
        BY DEF Running, Shape
    <2>2. j \in Jobs /\ nAdded' = j /\ j = nAdded + 1 /\ \A k \in Jobs : k # j => job'[k] = job[k]
        BY DEF Adds
    <2> QED
        BY <2>1, <2>2
<1>2. \A k \in Jobs : k # j => (k <= nAdded <=> k <= nAdded')
    BY <1>1 DEF Jobs
<1>3. ASSUME NEW k \in Strict PROVE k \in Strict' /\ k < j /\ job'[k] = job[k]
    <2>1. k \in Jobs /\ k <= nAdded /\ k < j /\ k # j
        BY <1>1 DEF Strict, Jobs
    <2> QED
        BY <1>1, <1>2, <2>1 DEF Strict
<1>4. \A k \in Strict' : k # j => k \in Strict
    BY <1>1, <1>2 DEF Strict
<1>5. ASSUME NEW q \in Queues, NEW l \in Levels, NEW i \in 1 .. Len(queue[q][l])
      PROVE  queue[q][l][i] # j
    <2>1. queue[q][l][i] <= nAdded
        BY DEF Made
    <2> QED
        BY <1>1, <2>1
<1>6. ASSUME NEW u \in Threads PROVE loc[u].job # j
    <2>1. loc[u].job <= nAdded
        BY DEF Made
    <2> QED
        BY <1>1, <2>1
<1>7. Line' = Line
    BY DEF Adds, Line
<1>8. ASSUME NEW i \in Int PROVE (Waits(i)' <=> Waits(i)) /\ (Waits(i) => Line[i] # j)
    <2>1. i \in 1 .. Len(Line) => Line[i] # j
        BY <1>5, FirstWorker DEF Line
    <2> QED
        BY <1>3, <1>4, <1>7, <2>1 DEF Waits
<1>9. ASSUME NEW u \in Threads \ {Main}
      PROVE  (InHand(u)' <=> InHand(u)) /\ loc'[u] = loc[u] /\ pc'[u] = pc[u]
    <2>1. loc'[u] = loc[u] /\ pc'[u] = pc[u]
        BY DEF Adds, Others
    <2> QED
        BY <1>3, <1>4, <1>6, <2>1 DEF InHand
<1>10. ~InHand(Main) /\ ~Bringing
    BY DEF Adds, InHand, Bringing
<1> QED
    BY <1>3, <1>4, <1>5, <1>6, <1>7, <1>8, <1>9, <1>10

\* A job whose order is not promised is added.
LEMMA OrderAddOther ==
    ASSUME InOrder, Made, Running, NEW j, Adds(j), j \notin Strict', pc'[Main] # "lockJob"
    PROVE  InOrder'
<1> USE Numbers
<1>1. SameJobs
    BY AddedJob DEF SameJobs
<1>2. ~InHand(Main)' /\ ~Bringing'
    BY DEF InHand, Bringing, Adds
<1>3. SameHands
    BY <1>2, AddedJob DEF SameHands
<1>4. SameErrand
    BY <1>2, AddedJob DEF SameErrand
<1>5. Shifted(0) /\ NoneJoins
    BY <1>1, SameQueue DEF Adds
<1> QED
    BY <1>1, <1>3, <1>4, <1>5, OrderAside DEF Adds

\* A serial job is added: the master brings it to the first worker, or, with
\* nobody left, executes it.
LEMMA OrderAddStrict ==
    ASSUME InOrder, Made, Running, NEW j, Adds(j), j \in Strict', job'[j].prio = 0,
           \/ pc'[Main] = "pushItem" /\ loc'[Main].src = 0 /\ j \in Fresh'
           \/ pc'[Main] = "run" /\ Stopped
    PROVE  InOrder'
<1> USE Numbers DEF InOrder
<1>1. /\ \A k \in Strict : k \in Strict' /\ k < j /\ job'[k] = job[k]
      /\ \A k \in Strict' : k # j => k \in Strict
      /\ \A q \in Queues, l \in Levels : \A i \in 1 .. Len(queue[q][l]) : queue[q][l][i] # j
      /\ Line' = Line /\ \A i \in Int : (Waits(i)' <=> Waits(i)) /\ (Waits(i) => Line[i] # j)
      /\ \A u \in Threads \ {Main} : (InHand(u)' <=> InHand(u)) /\ loc'[u] = loc[u] /\ pc'[u] = pc[u]
      /\ \A u \in Threads : InHand(u) => u # Main /\ loc[u].job # j
      /\ ~Bringing
    BY AddedJob
<1>2. queue' = queue /\ nAdded' = j /\ loc'[Main].job = j /\ (Stopped' <=> Stopped)
    BY DEF Adds
<1>3. \A k \in Strict : k \in Fresh => k \in Fresh'
    BY <1>1 DEF Fresh
<1>4. \A k \in Strict : Finished(k)' <=> Finished(k)
    BY <1>1 DEF Finished
<1>5. Lowest'
    BY <1>1 DEF Lowest
<1>6. OnlyThere'
    <2> SUFFICES ASSUME NEW q \in Queues, NEW l \in Levels, NEW i \in 1 .. Len(queue[q][l]),
                        queue[q][l][i] \in Strict'
                 PROVE  q = 0 /\ l = 0 /\ queue[q][l][i] \in Fresh'
        BY <1>2 DEF OnlyThere
    <2>1. queue[q][l][i] \in Strict
        BY <1>1
    <2> QED
        BY <1>3, <2>1 DEF OnlyThere
<1>7. Ascending'
    BY <1>1 DEF Ascending
<1>8. Earliest'
    <2> SUFFICES ASSUME NEW u \in Threads, InHand(u)'
                 PROVE  \/ /\ u = 0
                           /\ \A i \in Int : Waits(i)' => loc'[u].job < Line'[i]
                           /\ pc'[u] # "run" => loc'[u].job \in Fresh'
                        \/ u = Main /\ pc'[u] = "run" /\ Stopped'
        BY DEF Earliest
    <2>1. CASE u = Main
        BY <1>2, <2>1 DEF InHand
    <2>2. CASE u # Main
        <3>1. InHand(u) /\ loc'[u] = loc[u] /\ pc'[u] = pc[u]
            BY <1>1, <2>2
        <3>2. loc[u].job \in Strict
            BY <3>1 DEF InHand
        <3> QED
            BY <1>1, <1>3, <2>2, <3>1, <3>2 DEF Earliest
    <2> QED
        BY <2>1, <2>2
<1>9. Latest'
    <2>1. ASSUME Bringing'
          PROVE  /\ loc'[Main].job = nAdded' /\ loc'[Main].src = 0 /\ nAdded' \in Fresh'
                 /\ \A i \in Int : Waits(i)' => Line'[i] # nAdded'
                 /\ \A u \in Threads : InHand(u)' => loc'[u].job # nAdded'
        <3>1. pc'[Main] = "pushItem"
            BY <2>1 DEF Bringing
        <3>2. ~InHand(Main)'
            BY <3>1 DEF InHand
        <3> QED
            BY <1>1, <1>2, <3>1, <3>2
    <2> QED
        BY <2>1 DEF Latest
<1>10. ASSUME NEW k \in Strict', ~Finished(k)', k # j
       PROVE  \/ \E i \in Int : Waits(i)' /\ Line'[i] = k
              \/ \E u \in Threads \ {Main} : InHand(u)' /\ loc'[u].job = k
    <2>1. k \in Strict /\ ~Finished(k)
        BY <1>1, <1>4, <1>10
    <2> QED
        BY <1>1, <2>1 DEF Somewhere
<1>11. Somewhere'
    <2>1. Bringing' \/ InHand(Main)'
        BY <1>2 DEF Bringing, InHand
    <2> QED
        BY <1>2, <1>10, <2>1 DEF Somewhere
<1>12. InTurn'
    <2> SUFFICES ASSUME NEW i \in Strict', NEW k \in Strict', i < k, job'[k].status \in {"inprogress", "ok"},
                        ~Finished(i)'
                 PROVE  Stopped' /\ \E m \in Int : Waits(m)' /\ Line'[m] = i
        BY DEF InTurn
    <2>1. i # j /\ i \in Strict
        <3>1. k \in Int /\ i \in Int /\ k <= j /\ j \in Int
            BY <1>2 DEF Strict, Jobs
        <3> QED
            BY <1>1, <3>1
    <2>2. CASE k = j
        <3>1. Stopped
            BY <2>2 DEF Fresh
        <3>2. ASSUME NEW u \in Threads \ {Main}, InHand(u)' PROVE FALSE
            <4>1. u \in Workers /\ pc[u] \in {"taken", "service", "run"}
                BY <1>1, <3>2 DEF Threads, InHand
            <4> QED
                BY <3>1, <4>1 DEF Stopped
        <3> QED
            BY <1>2, <1>10, <2>1, <3>1, <3>2
    <2>3. CASE k # j
        <3>1. k \in Strict /\ job[k].status \in {"inprogress", "ok"} /\ ~Finished(i)
            BY <1>1, <1>4, <2>1, <2>3
        <3> QED
            BY <1>1, <1>2, <2>1, <3>1 DEF InTurn
    <2> QED
        BY <2>2, <2>3
<1> QED
    BY <1>5, <1>6, <1>7, <1>8, <1>9, <1>11, <1>12

\* AddJob and its shortcut.
LEMMA OrderAdd ==
    ASSUME InOrder, Made, Blank, Running,
           NEW j \in Jobs, NEW kind \in Kinds, AddJobInPlace(j, kind) \/ AddJob(j, kind)
    PROVE  InOrder'
<1> USE Numbers
<1>1. Others(Main)
    BY MasterOthers DEF Call
<1>2. /\ pc[Main] = "idle" /\ j = nAdded + 1 /\ nAdded' = j /\ queue' = queue
      /\ \A k \in Jobs : k # j => job'[k] = job[k]
      /\ loc'[Main].job = j /\ pc'[Main] # "lockJob"
    BY DEF AddJobInPlace, AddJob, Add, Goto, Running, Shape, JobShape, LocFields
<1>3. Stopped' <=> Stopped
    BY <1>1 DEF Others, Stopped
<1>4. Adds(j)
    BY <1>1, <1>2, <1>3 DEF Adds
<1>5. job[j].prio = 0 /\ job[j].owner = None
    <2>1. nAdded \in Int /\ j > nAdded
        BY <1>2 DEF Running, Shape
    <2> QED
        BY <2>1 DEF Blank
<1>6. CASE j \in Strict'
    <2>1. job'[j].kind = kind
        <3>1. DOMAIN job = Jobs /\ DOMAIN job[j] = JobFields
            BY DEF Running, Shape, JobShape
        <3>2. CASE AddJobInPlace(j, kind)
            <4>1. job' = [job EXCEPT ![j] = [Started(Main, j) EXCEPT !.kind = kind]]
                BY <3>2 DEF AddJobInPlace
            <4> QED
                BY <3>1, <4>1 DEF Started, JobFields
        <3>3. CASE AddJob(j, kind)
            <4>1. job' = [job EXCEPT ![j].kind = kind, ![j].status = "pending",
                                     ![j].prio = IF MayHelp(kind) THEN Top ELSE @]
                BY <3>3 DEF AddJob
            <4> QED
                BY <3>1, <4>1 DEF JobFields
        <3> QED
            BY <3>2, <3>3
    <2>2. kind.serial /\ ~MayHelp(kind)
        BY <1>6, <2>1, SerialAssumption DEF Strict, MayHelp
    <2>3. CASE AddJobInPlace(j, kind)
        <3>1. Stopped /\ pc'[Main] = "run"
            BY <2>2, <2>3 DEF AddJobInPlace, Goto, Running, Shape
        <3>2. job'[j].prio = 0
            BY <1>5, <2>3 DEF AddJobInPlace, Started, Running, Shape, JobShape, JobFields
        <3> QED
            BY <1>4, <1>6, <3>1, <3>2, OrderAddStrict
    <2>4. CASE AddJob(j, kind)
        <3>1. pc'[Main] = "pushItem" /\ loc'[Main].src = TargetOf(kind)
            BY <2>4 DEF AddJob, Goto, Running, Shape, LocFields
        <3>2. TargetOf(kind) = 0
            BY <2>2 DEF TargetOf
        <3>3. job'[j].prio = 0 /\ job'[j].status = "pending" /\ job'[j].owner = None
            BY <1>5, <2>2, <2>4 DEF AddJob, Running, Shape, JobShape, JobFields
        <3> QED
            BY <1>4, <1>6, <3>1, <3>2, <3>3, OrderAddStrict DEF Fresh
    <2> QED
        BY <2>3, <2>4
<1>7. CASE j \notin Strict'
    BY <1>2, <1>4, <1>7, OrderAddOther
<1> QED
    BY <1>6, <1>7

\* The job the master brings is the last in line.
LEMMA OrderPush ==
    ASSUME InOrder, Running, Stock, PushItem
    PROVE  InOrder'
<1> USE Numbers
<1>0. PICK q, j, l, s, n : /\ q = loc[Main].src /\ j = loc[Main].job /\ l = job[j].prio
                           /\ s = queue[q][l] /\ n = Len(s) + 1
    OBVIOUS
<1>1. /\ q \in Queues /\ l \in Levels /\ j \in Jobs /\ s \in Seq(Jobs) /\ Len(s) \in Nat
      /\ queue'[q][l] \in Seq(Jobs) /\ Len(queue'[q][l]) = n
      /\ \A i \in 1 .. Len(s) : queue'[q][l][i] = s[i]
      /\ queue'[q][l][n] = j
      /\ \A r \in Queues, m \in Levels : <<r, m>> # <<q, l>> => queue'[r][m] = queue[r][m]
    BY <1>0, PushedEntry
<1>a. Len(s) \in Nat /\ n = Len(s) + 1
    BY <1>0, <1>1
<1>b. n \in Int /\ n \in 1 .. n /\ \A i : i \in 1 .. n <=> i \in 1 .. Len(s) \/ i = n
    BY <1>a
<1>2. /\ job' = job /\ nAdded' = nAdded /\ loc' = loc /\ pc[Main] = "pushItem" /\ pc'[Main] = "countItem"
      /\ \A u \in Threads \ {Main} : pc'[u] = pc[u]
    BY DEF PushItem, Goto, Running, Shape
<1>3. Strict' = Strict /\ SameJobs /\ Fresh' = Fresh
    BY <1>2, NoJobs
<1>4. Stopped' <=> Stopped
    BY <1>2 DEF Stopped
<1>5. \A u \in Threads : /\ InHand(u)' <=> InHand(u)
                         /\ InHand(u) => pc'[u] = pc[u]
    <2> SUFFICES ASSUME NEW u \in Threads
                 PROVE  (InHand(u)' <=> InHand(u)) /\ (InHand(u) => pc'[u] = pc[u])
        OBVIOUS
    <2>1. CASE u = Main
        BY <1>2, <2>1 DEF InHand
    <2>2. CASE u # Main
        BY <1>2, <1>3, <2>2 DEF InHand
    <2> QED
        BY <2>1, <2>2
<1>6. ASSUME NEW r \in Queues, NEW m \in Levels, NEW i \in 1 .. Len(queue'[r][m])
      PROVE  \/ i \in 1 .. Len(queue[r][m]) /\ queue'[r][m][i] = queue[r][m][i]
             \/ r = q /\ m = l /\ i = n /\ queue'[r][m][i] = j
    <2>1. CASE r = q /\ m = l
        <3>1. i \in 1 .. n /\ queue[r][m] = s
            BY <1>0, <1>1, <2>1
        <3>2. i \in 1 .. Len(s) \/ i = n
            BY <1>b, <3>1
        <3> QED
            BY <1>1, <2>1, <3>1, <3>2
    <2>2. CASE ~(r = q /\ m = l)
        <3>1. queue'[r][m] = queue[r][m]
            BY <1>1, <2>2
        <3> QED
            BY <3>1
    <2> QED
        BY <2>1, <2>2
<1>7. ASSUME NEW i \in 1 .. Len(Line) PROVE i \in 1 .. Len(Line') /\ Line'[i] = Line[i]
    <2>1. CASE q = 0 /\ l = 0
        <3>1. i \in 1 .. Len(s) /\ Line = s
            BY <1>0, <2>1 DEF Line
        <3>2. i \in 1 .. n
            BY <1>b, <3>1
        <3> QED
            BY <1>1, <2>1, <3>1, <3>2 DEF Line
    <2>2. CASE ~(q = 0 /\ l = 0)
        <3>1. Line' = Line
            BY <1>1, <2>2, FirstWorker DEF Line
        <3> QED
            BY <3>1
    <2> QED
        BY <2>1, <2>2
<1>8. \A i \in Int : Waits(i) => Waits(i)' /\ Line'[i] = Line[i]
    BY <1>3, <1>7 DEF Waits
<1>9. ASSUME NEW i \in Int, Waits(i)'
      PROVE  \/ Waits(i) /\ Line'[i] = Line[i]
             \/ q = 0 /\ l = 0 /\ i = n /\ Line'[i] = j /\ j \in Strict
    <2>1. i \in 1 .. Len(queue'[0][0]) /\ queue'[0][0][i] \in Strict
        BY <1>3, <1>9 DEF Waits, Line
    <2>2. \/ i \in 1 .. Len(queue[0][0]) /\ queue'[0][0][i] = queue[0][0][i]
          \/ 0 = q /\ 0 = l /\ i = n /\ queue'[0][0][i] = j
        BY <1>6, <2>1, FirstWorker
    <2> QED
        BY <2>1, <2>2 DEF Waits, Line
<1>10. CASE j \notin Strict
    <2>1. NoneJoins
        BY <1>3, <1>6, <1>10 DEF NoneJoins
    <2>2. \A i \in Int : i + 0 = i /\ i - 0 = i
        OBVIOUS
    <2>3. Shifted(0)
        BY <1>8, <1>9, <1>10, <2>2 DEF Shifted
    <2>4. SameHands
        BY <1>2, <1>5 DEF SameHands
    <2>5. SameErrand
        BY <1>0, <1>2, <1>10 DEF SameErrand, Bringing
    <2> QED
        BY <1>3, <1>4, <2>1, <2>3, <2>4, <2>5, OrderAside
<1>11. CASE j \in Strict
    <2> USE DEF InOrder
    <2>1. /\ j = nAdded /\ q = 0 /\ j \in Fresh
          /\ \A i \in Int : Waits(i) => Line[i] # j
          /\ \A t \in Threads : InHand(t) => loc[t].job # j
        BY <1>0, <1>2, <1>11 DEF Latest, Bringing
    <2>2. l = 0
        BY <1>0, <1>11 DEF Lowest
    <2>3. \A k \in Strict : k \in Int /\ k <= j /\ j \in Int
        BY <2>1 DEF Strict, Jobs, Running, Shape
    <2>4. Line' = queue'[q][l] /\ Line = s /\ Len(Line') = n
        <3>1. Line' = queue'[q][l]
            BY <2>1, <2>2 DEF Line
        <3>2. Line = s
            BY <1>0, <2>1, <2>2 DEF Line
        <3> QED
            BY <1>1, <3>1, <3>2
    <2>5. n \in Int /\ Waits(n)' /\ Line'[n] = j
        <3>1. n \in 1 .. Len(Line') /\ Line'[n] = j
            BY <1>1, <1>b, <2>4
        <3> QED
            BY <1>3, <1>11, <1>b, <3>1 DEF Waits
    <2>6. Lowest'
        BY <1>2, <1>3 DEF Lowest
    <2>7. OnlyThere'
        <3> SUFFICES ASSUME NEW r \in Queues, NEW m \in Levels, NEW i \in 1 .. Len(queue'[r][m]),
                            queue'[r][m][i] \in Strict
                     PROVE  r = 0 /\ m = 0 /\ queue'[r][m][i] \in Fresh
            BY <1>3 DEF OnlyThere
        <3>1. \/ i \in 1 .. Len(queue[r][m]) /\ queue'[r][m][i] = queue[r][m][i]
              \/ r = q /\ m = l /\ i = n /\ queue'[r][m][i] = j
            BY <1>6
        <3> QED
            BY <2>1, <2>2, <3>1 DEF OnlyThere
    <2>8. Ascending'
        <3> SUFFICES ASSUME NEW i \in Int, NEW k \in Int, Waits(i)', Waits(k)', i < k
                     PROVE  Line'[i] < Line'[k]
            BY DEF Ascending
        <3>1. Waits(i) /\ Line'[i] = Line[i]
            <4>1. i # n
                <5>1. k \in 1 .. Len(Line')
                    BY DEF Waits
                <5>2. k <= n
                    BY <1>b, <2>4, <5>1
                <5> QED
                    BY <1>b, <5>2
            <4> QED
                BY <1>9, <4>1
        <3>2. CASE Waits(k) /\ Line'[k] = Line[k]
            BY <3>1, <3>2 DEF Ascending
        <3>3. CASE Line'[k] = j
            <4>1. Line[i] \in Strict /\ Line[i] # j
                BY <2>1, <3>1 DEF Waits
            <4>2. Line[i] <= j /\ Line[i] \in Int /\ j \in Int
                BY <2>3, <4>1
            <4> QED
                BY <3>1, <3>3, <4>1, <4>2
        <3> QED
            BY <1>9, <3>2, <3>3
    <2>9. Earliest'
        <3> SUFFICES ASSUME NEW u \in Threads, InHand(u)
                     PROVE  \/ /\ u = 0
                               /\ \A i \in Int : Waits(i)' => loc[u].job < Line'[i]
                               /\ pc[u] # "run" => loc[u].job \in Fresh
                            \/ u = Main /\ pc[u] = "run" /\ Stopped
            BY <1>2, <1>3, <1>4, <1>5 DEF Earliest
        <3>1. CASE u = Main
            BY <1>2, <3>1 DEF InHand
        <3>2. CASE u # Main
            <4>1. /\ u = 0 /\ \A i \in Int : Waits(i) => loc[u].job < Line[i]
                  /\ pc[u] # "run" => loc[u].job \in Fresh
                BY <3>2 DEF Earliest
            <4>2. loc[u].job < j
                <5>1. loc[u].job \in Strict /\ loc[u].job # j
                    BY <2>1 DEF InHand
                <5>2. loc[u].job \in Int /\ loc[u].job <= j /\ j \in Int
                    BY <2>3, <5>1
                <5> QED
                    BY <5>1, <5>2
            <4> QED
                BY <1>9, <4>1, <4>2
        <3> QED
            BY <3>1, <3>2
    <2>10. Latest'
        BY <1>2 DEF Latest, Bringing
    <2>11. Somewhere'
        <3> SUFFICES ASSUME NEW k \in Strict, ~Finished(k)
                     PROVE  \/ \E i \in Int : Waits(i)' /\ Line'[i] = k
                            \/ \E u \in Threads : InHand(u) /\ loc[u].job = k
            BY <1>2, <1>3, <1>5 DEF Somewhere, Finished
        <3>1. CASE k = j
            <4>1. n \in Int /\ Waits(n)' /\ Line'[n] = k
                BY <2>5, <3>1
            <4> QED
                BY <4>1
        <3>2. CASE k # j
            <4>1. ~(Bringing /\ loc[Main].job = k)
                BY <1>0, <3>2
            <4> QED
                BY <1>8, <4>1 DEF Somewhere
        <3> QED
            BY <3>1, <3>2
    <2>12. InTurn'
        <3> SUFFICES ASSUME NEW i \in Strict, NEW k \in Strict, i < k, job[k].status \in {"inprogress", "ok"},
                            ~Finished(i)
                     PROVE  Stopped /\ \E m \in Int : Waits(m)' /\ Line'[m] = i
            BY <1>2, <1>3, <1>4 DEF InTurn, Finished
        <3> QED
            BY <1>8 DEF InTurn
    <2> QED
        BY <2>6, <2>7, <2>8, <2>9, <2>10, <2>11, <2>12
<1> QED
    BY <1>10, <1>11

\* The entries of one queue.
LEMMA QueueEntries ==
    ASSUME NEW q, queue[q] \in Stacks, NEW x
    PROVE  x \in ToSet(Entries(queue, q)) <=> \E l \in Levels : Has(queue[q][l], x)
<1> DEFINE n == NumPriorities
           g == [k \in 1 .. n |-> queue[q][n - k]]
<1>1. n \in Nat /\ \A k \in 1 .. n : n - k \in Levels
    BY LevelNumbers
<1>2. \A l \in Levels : n - l \in 1 .. n /\ n - (n - l) = l
    BY LevelNumbers
<1>3. g \in [1 .. n -> Seq(Jobs)] /\ \A k \in 1 .. n : g[k] = queue[q][n - k]
    BY <1>1 DEF Stacks
<1>4. Entries(queue, q) = FlattenSeq(g)
    BY DEF Entries
<1> HIDE DEF g
<1>5. /\ Entries(queue, q) \in Seq(Jobs)
      /\ Has(Entries(queue, q), x) <=> \E k \in 1 .. n : Has(g[k], x)
    BY <1>1, <1>3, <1>4, FlattenEntries
<1>6. x \in ToSet(Entries(queue, q)) <=> Has(Entries(queue, q), x)
    BY <1>5, LenProperties DEF ToSet, Has
<1>7. (\E k \in 1 .. n : Has(g[k], x)) <=> \E l \in Levels : Has(queue[q][l], x)
    <2>1. ASSUME NEW k \in 1 .. n, Has(g[k], x) PROVE \E l \in Levels : Has(queue[q][l], x)
        BY <1>1, <1>3, <2>1
    <2>2. ASSUME NEW l \in Levels, Has(queue[q][l], x) PROVE \E k \in 1 .. n : Has(g[k], x)
        <3>1. n - l \in 1 .. n /\ g[n - l] = queue[q][l]
            BY <1>2, <1>3
        <3>2. Has(g[n - l], x)
            BY <2>2, <3>1
        <3> QED
            BY <3>1, <3>2
    <2> QED
        BY <2>1, <2>2
<1> QED
    BY <1>5, <1>6, <1>7

\* While the pool is suspended, nobody has a promised job.
LEMMA NobodyHas ==
    ASSUME Protocol, pc[Main] = "suspended"
    PROVE  /\ \A u \in Threads : pc[u] \in {"asleep", "suspended"} /\ ~InHand(u)
           /\ ~Bringing /\ ~Stopped
<1> USE Numbers
<1>1. \A w \in Workers : pc[w] = "asleep"
    BY DEF Protocol, Sleepers
<1>2. \A u \in Threads : pc[u] \in {"asleep", "suspended"}
    BY <1>1 DEF Threads
<1> QED
    BY <1>1, <1>2, FirstWorker DEF InHand, Bringing, Stopped

\* All promised jobs are over, and none is queued.
LEMMA OrderCleared ==
    ASSUME InOrder, Strict' = Strict, \A k \in Strict : job'[k].prio = job[k].prio,
           \A k \in Strict : Finished(k)',
           \A u \in Threads : pc'[u] \notin Hands, pc'[Main] \notin {"pushItem", "lockJob"},
           \A q \in Queues, l \in Levels : \A i \in 1 .. Len(queue'[q][l]) : queue'[q][l][i] \notin Strict
    PROVE  InOrder'
<1>1. \A i \in Int : ~Waits(i)'
    BY FirstWorker DEF Waits, Line
<1>2. \A u \in Threads : ~InHand(u)'
    BY DEF InHand, Hands
<1>3. Lowest' /\ OnlyThere'
    BY DEF InOrder, Lowest, OnlyThere
<1>4. Ascending' /\ Earliest' /\ Latest'
    BY <1>1, <1>2 DEF Ascending, Earliest, Latest, Bringing
<1>5. Somewhere' /\ InTurn'
    BY DEF Somewhere, InTurn
<1> QED
    BY <1>3, <1>4, <1>5 DEF InOrder

\* Everything that was queued is aborted.
LEMMA OrderAbort ==
    ASSUME InOrder, Running, Protocol, Stock, AbortAll
    PROVE  InOrder'
<1> USE Numbers
<1> DEFINE S == UNION {ToSet(Entries(queue, q)) : q \in Queues}
<1>1. /\ pc[Main] = "suspended" /\ AbortJobs(S) /\ nAdded' = nAdded
      /\ queue' = [q \in Queues |-> [l \in Levels |-> <<>>]]
      /\ pc' = [pc EXCEPT ![Main] = "idle"]
    BY DEF AbortAll, Return, Goto
<1>2. JobShape /\ queue \in [Queues -> Stacks]
    BY DEF Running, Shape, Stock, Stocked
<1>3. \A q \in Queues : \A x : (\E l \in Levels : Has(queue[q][l], x)) => x \in S
    BY <1>2, QueueEntries
<1> HIDE DEF S
<1>4. /\ \A j \in Jobs : /\ job'[j].kind = job[j].kind /\ job'[j].moved = job[j].moved
                         /\ job'[j].prio = job[j].prio
                         /\ j \in S /\ CanExecute(j) => Finished(j)'
                         /\ Finished(j) => Finished(j)'
    BY <1>1, <1>2, SettledJobs
<1>5. Strict' = Strict /\ \A k \in Strict : k \in Jobs
    BY <1>1, <1>4, SameStrict DEF Strict
<1>6. ASSUME NEW k \in Strict PROVE Finished(k)'
    <2>1. CASE Finished(k)
        BY <1>4, <1>5, <2>1
    <2>2. CASE ~Finished(k)
        <3>1. PICK i \in Int : Waits(i) /\ Line[i] = k
            BY <1>1, <2>2, NobodyHas DEF InOrder, Somewhere
        <3>2. i \in 1 .. Len(queue[0][0]) /\ queue[0][0][i] = k
            BY <3>1 DEF Waits, Line
        <3>3. k \in Fresh
            BY <3>2, FirstWorker DEF InOrder, OnlyThere
        <3>4. k \in S
            BY <1>3, <3>2, FirstWorker DEF Has
        <3> QED
            BY <1>4, <1>5, <3>3, <3>4 DEF Fresh, CanExecute
    <2> QED
        BY <2>1, <2>2
<1>7. \A u \in Threads : pc'[u] \notin Hands
    BY <1>1, NobodyHas DEF Hands, Running, Shape
<1>8. pc'[Main] = "idle"
    BY <1>1 DEF Running, Shape
<1>9. \A q \in Queues, l \in Levels : \A i \in 1 .. Len(queue'[q][l]) : queue'[q][l][i] \notin Strict
    BY <1>1, EmptySeq
<1> QED
    BY <1>4, <1>5, <1>6, <1>7, <1>8, <1>9, OrderCleared

\* Those above level p are executed or put back: if p is not the lowest, the
\* promised ones stay where they are.
LEMMA OrderExecute ==
    ASSUME InOrder, Running, Protocol, Stock, NEW p \in Levels, NEW filtered \in BOOLEAN,
           ExecuteToPriority(p, filtered)
    PROVE  InOrder'
<1> USE Numbers
<1> DEFINE S == {j \in ToSet(Popped(queue, p)) : filtered => job[j].kind.serial}
<1>1. pc[Main] = "suspended" /\ nAdded' = nAdded /\ pc' = [pc EXCEPT ![Main] = "idle"] /\ loc' = loc
    BY DEF ExecuteToPriority, Return, Goto
<1>2. ExecuteJobs(S)
    BY DEF ExecuteToPriority, Popped, AtLevel
<1>3. JobShape /\ queue \in [Queues -> Stacks]
    BY DEF Running, Shape, Stock, Stocked
<1>4. \A x : x \in ToSet(Popped(queue, p)) <=> Queued(x, p)
    BY <1>3, PoppedEntries, LenProperties DEF ToSet, Has
<1>5. \A x : x \in S <=> Queued(x, p) /\ (filtered => job[x].kind.serial)
    BY <1>4
<1> HIDE DEF S
<1>6. \A j \in Jobs : /\ job'[j].kind = job[j].kind /\ job'[j].moved = job[j].moved
                      /\ job'[j].prio = job[j].prio
                      /\ j \notin S => job'[j] = job[j]
                      /\ j \in S /\ CanExecute(j) => Finished(j)'
                      /\ Finished(j) => Finished(j)'
    BY <1>2, <1>3, SettledJobs
<1>7. Strict' = Strict /\ \A k \in Strict : k \in Jobs /\ job[k].kind.serial
    BY <1>1, <1>6, SameStrict DEF Strict
<1>8. /\ \A q \in Queues, l \in Levels : \A i \in 1 .. Len(queue'[q][l]) :
                queue'[q][l][i] \in Strict
                    => l < p /\ i \in 1 .. Len(queue[q][l]) /\ queue'[q][l][i] = queue[q][l][i]
      /\ \A q \in Queues, l \in Levels : \A i \in 1 .. Len(queue[q][l]) :
                l < p => i \in 1 .. Len(queue'[q][l]) /\ queue'[q][l][i] = queue[q][l][i]
    <2>1. \A q \in Queues, l \in Levels : \A i \in 1 .. Len(queue'[q][l]) :
            \/ l < p /\ i \in 1 .. Len(queue[q][l]) /\ queue'[q][l][i] = queue[q][l][i]
            \/ ~job[queue'[q][l][i]].kind.serial
        BY <1>3, ExecuteEntries
    <2>2. \A q \in Queues, l \in Levels : \A i \in 1 .. Len(queue[q][l]) :
            l < p => i \in 1 .. Len(queue'[q][l]) /\ queue'[q][l][i] = queue[q][l][i]
        BY <1>3, ExecuteEntries
    <2>3. ASSUME NEW q \in Queues, NEW l \in Levels, NEW i \in 1 .. Len(queue'[q][l]),
                 queue'[q][l][i] \in Strict
          PROVE  l < p /\ i \in 1 .. Len(queue[q][l]) /\ queue'[q][l][i] = queue[q][l][i]
        <3>1. job[queue'[q][l][i]].kind.serial
            BY <1>7, <2>3
        <3> QED
            BY <2>1, <3>1
    <2> QED
        BY <2>2, <2>3
<1>9. pc'[Main] = "idle" /\ \A u \in Threads : pc'[u] \notin Hands
    BY <1>1, NobodyHas DEF Hands, Running, Shape
<1>10. CASE p = 0
    <2>1. ASSUME NEW k \in Strict PROVE Finished(k)'
        <3>1. CASE Finished(k)
            BY <1>6, <1>7, <3>1
        <3>2. CASE ~Finished(k)
            <4>1. PICK i \in Int : Waits(i) /\ Line[i] = k
                BY <1>1, <3>2, NobodyHas DEF InOrder, Somewhere
            <4>2. i \in 1 .. Len(queue[0][0]) /\ queue[0][0][i] = k
                BY <4>1 DEF Waits, Line
            <4>3. k \in Fresh
                BY <4>2, FirstWorker DEF InOrder, OnlyThere
            <4>4. Queued(k, p)
                BY <1>10, <4>2, FirstWorker DEF Queued, Has
            <4> QED
                BY <1>5, <1>6, <1>7, <4>3, <4>4 DEF Fresh, CanExecute
        <3> QED
            BY <3>1, <3>2
    <2>2. \A q \in Queues, l \in Levels : \A i \in 1 .. Len(queue'[q][l]) : queue'[q][l][i] \notin Strict
        <3>1. \A l \in Levels : ~(l < p)
            BY <1>10, LevelNumbers DEF Levels
        <3> QED
            BY <1>8, <3>1
    <2> QED
        BY <1>6, <1>7, <1>9, <2>1, <2>2, OrderCleared
<1>11. CASE p # 0
    <2>1. 0 < p /\ ~(0 >= p)
        BY <1>11, LevelNumbers DEF Levels
    <2>2. SameJobs
        <3>1. ASSUME NEW k \in Strict, Queued(k, p) PROVE FALSE
            <4>1. PICK q \in Queues, l \in Levels : l >= p /\ Has(queue[q][l], k)
                BY <3>1 DEF Queued
            <4>2. l = 0
                BY <3>1, <4>1 DEF Has, InOrder, OnlyThere
            <4> QED
                BY <2>1, <4>1, <4>2
        <3> QED
            BY <1>5, <1>6, <1>7, <3>1 DEF SameJobs
    <2>3. NoneJoins
        BY <1>7, <1>8 DEF NoneJoins
    <2>4. /\ \A i \in Int : Waits(i)' => Waits(i) /\ Line[i] = Line'[i]
          /\ \A i \in Int : Waits(i) => Waits(i)' /\ Line'[i] = Line[i]
        BY <1>7, <1>8, <2>1, FirstWorker DEF Waits, Line
    <2>5. \A i \in Int : i + 0 = i /\ i - 0 = i
        OBVIOUS
    <2>6. Shifted(0)
        BY <2>4, <2>5 DEF Shifted
    <2>7. SameHands
        BY <1>1, <1>9, NobodyHas DEF SameHands, InHand, Hands
    <2>8. SameErrand /\ ~Stopped
        BY <1>1, <1>9, NobodyHas DEF SameErrand, Bringing
    <2> QED
        BY <2>2, <2>3, <2>6, <2>7, <2>8, OrderAside
<1> QED
    BY <1>10, <1>11

\* Stop aborts what is shared: no promised job is.
LEMMA OrderJoin ==
    ASSUME InOrder, Running, Stock, Join
    PROVE  InOrder'
<1> USE Numbers
<1> DEFINE S == ToSet(Entries(queue, Shared))
<1>1. /\ pc[Main] = "join" /\ Stopped /\ AbortJobs(S) /\ nAdded' = nAdded /\ loc' = loc
      /\ queue' = [queue EXCEPT ![Shared] = [l \in Levels |-> <<>>]]
      /\ pc' = [pc EXCEPT ![Main] = "idle"]
    BY DEF Join, Return, Goto
<1>2. JobShape /\ queue \in [Queues -> Stacks]
    BY DEF Running, Shape, Stock, Stocked
<1>3. ASSUME NEW k \in Strict PROVE k \notin S
    <2> SUFFICES ASSUME k \in S PROVE FALSE
        OBVIOUS
    <2>1. PICK l \in Levels : Has(queue[Shared][l], k)
        BY <1>2, QueueEntries
    <2> QED
        BY <1>3, <2>1, FirstWorker DEF Has, InOrder, OnlyThere
<1> HIDE DEF S
<1>4. \A j \in Jobs : /\ job'[j].kind = job[j].kind /\ job'[j].moved = job[j].moved
                      /\ j \notin S => job'[j] = job[j]
    BY <1>1, <1>2, SettledJobs
<1>5. Strict' = Strict /\ \A k \in Strict : k \in Jobs
    BY <1>1, <1>4, SameStrict DEF Strict
<1>6. SameJobs
    BY <1>3, <1>4, <1>5 DEF SameJobs
<1>7. \A q \in Queues, l \in Levels : queue'[q][l] = <<>> \/ queue'[q][l] = queue[q][l]
    BY <1>1, <1>2
<1>8. NoneJoins
    <2>1. ASSUME NEW q \in Queues, NEW l \in Levels, NEW i \in 1 .. Len(queue'[q][l])
          PROVE  i \in 1 .. Len(queue[q][l]) /\ queue[q][l][i] = queue'[q][l][i]
        <3>1. queue'[q][l] = queue[q][l]
            BY <1>7, EmptySeq
        <3> QED
            BY <3>1
    <2> QED
        BY <2>1 DEF NoneJoins
<1>9. Shifted(0)
    <2>1. Line' = Line
        BY <1>1, <1>2, FirstWorker DEF Line
    <2>2. \A i \in Int : i + 0 = i /\ i - 0 = i
        OBVIOUS
    <2> QED
        BY <1>5, <2>1, <2>2 DEF Shifted, Waits
<1>10. /\ pc'[Main] = "idle" /\ \A u \in Threads \ {Main} : pc'[u] = pc[u]
    BY <1>1 DEF Running, Shape
<1>11. \A u \in Threads : ~InHand(u)' /\ ~InHand(u)
    <2>1. \A w \in Workers : pc[w] = "dead"
        BY <1>1 DEF Stopped
    <2> QED
        BY <1>1, <1>10, <2>1 DEF InHand, Threads
<1>12. SameHands /\ SameErrand
    BY <1>1, <1>10, <1>11 DEF SameHands, SameErrand, Bringing
<1>13. Stopped'
    BY <1>1, <1>10 DEF Stopped
<1> QED
    BY <1>6, <1>8, <1>9, <1>12, <1>13, OrderAside

\* Everything that puts serial jobs in order.
Serial == Made /\ OwnQueue /\ Blank /\ InOrder

\* Nothing was added yet.
LEMMA SerialInit == Init => Serial
<1> SUFFICES ASSUME Init PROVE Serial
    OBVIOUS
<1> USE Numbers
<1>1. \A q \in Queues, l \in Levels : queue[q][l] = <<>>
    BY DEF Init
<1>2. nAdded = 0 /\ \A t \in Threads : pc[t] \in {"idle", "wait"} /\ loc[t] = NoLocals /\ NoLocals.job = -1
    BY DEF Init, NoLocals, None
<1>3. Strict = {} /\ \A i \in Int : ~Waits(i)
    BY <1>2 DEF Strict, Jobs, Waits
<1>4. Made
    <2>1. \A q \in Queues, l \in Levels : \A i \in 1 .. Len(queue[q][l]) : FALSE
        BY <1>1, EmptySeq
    <2> QED
        BY <1>2, <2>1 DEF Made
<1>5. OwnQueue
    BY <1>2 DEF OwnQueue
<1>6. InOrder
    BY <1>2, <1>3 DEF InOrder, Lowest, OnlyThere, Ascending, Earliest, Latest, Bringing, Somewhere, InTurn, InHand
<1> QED
    BY <1>4, <1>5, <1>6, BlankInit DEF Serial

\* Nothing happens.
LEMMA OrderStutter == InOrder /\ UNCHANGED vars => InOrder'
<1> SUFFICES ASSUME InOrder, UNCHANGED vars PROVE InOrder'
    OBVIOUS
<1>1. job' = job /\ queue' = queue /\ pc' = pc /\ loc' = loc /\ nAdded' = nAdded
    BY DEF vars
<1>2. Strict' = Strict /\ SameJobs
    BY <1>1, NoJobs
<1>3. SameHands /\ SameErrand
    BY <1>1, <1>2 DEF SameHands, SameErrand, InHand, Bringing, InOrder, Latest
<1>4. Shifted(0) /\ NoneJoins
    BY <1>1, <1>2, SameQueue
<1>5. Stopped => Stopped'
    BY <1>1 DEF Stopped
<1> QED
    BY <1>2, <1>3, <1>4, <1>5, OrderAside

\* Every step keeps it.
LEMMA SerialNext ==
    ASSUME Running, Running', Protocol, Stock, Typed, Serial, [Next]_vars
    PROVE  Serial'
<1> USE Numbers DEF Serial
<1>1. Blank'
    BY BlankNext
<1>2. CASE \E w \in Workers : WorkerStep(w)
    <2>1. PICK w \in Workers : WorkerStep(w)
        BY <1>2
    <2>2. Others(w) /\ w \in Threads
        BY <2>1, WorkerOthers
    <2>3. Made' /\ OwnQueue'
        BY <2>1, MadeWorker
    <2>4. InOrder'
        <3>1. CASE TakeJob(w)
            BY <2>2, <3>1, OrderTake
        <3>2. CASE Service(w)
            BY <2>2, <3>2, OrderService
        <3>3. CASE Run(w)
            BY <2>2, <3>3, OrderRun
        <3>4. CASE ~(TakeJob(w) \/ Service(w) \/ Run(w))
            BY <2>1, <3>4, OrderIdle DEF WorkerStep
        <3> QED
            BY <3>1, <3>2, <3>3, <3>4
    <2> QED
        BY <1>1, <2>3, <2>4
<1>3. CASE MasterStep \/ Call \/ Resume
    <2>1. Others(Main) /\ Made' /\ OwnQueue'
        BY <1>3, MasterOthers, MadeMaster
    <2>2. InOrder'
        <3>1. CASE TakeJob(Main) \/ Service(Main) \/ Run(Main)
            BY <2>1, <3>1, OrderTake, OrderService, OrderRun
        <3>2. CASE PushItem \/ LockJob \/ AbortAll \/ Join
            BY <3>2, OrderPush, OrderLock, OrderAbort, OrderJoin
        <3>3. CASE \E p \in Levels, filtered \in BOOLEAN : ExecuteToPriority(p, filtered)
            BY <3>3, OrderExecute
        <3>4. CASE \E j \in Jobs, kind \in Kinds : AddJobInPlace(j, kind) \/ AddJob(j, kind)
            BY <3>4, OrderAdd
        <3>5. CASE \E j \in Jobs : \/ \E p \in Levels : ChangePriority(j, p)
                                   \/ \E call \in {"Execute", "TryExecute", "Abort"} : CallJob(call, j)
            BY <3>5, OrderMark
        <3>6. CASE \/ CountItem \/ CountJob \/ Yield \/ YieldPop \/ Block \/ NextLevel(Main) \/ Released(Main)
                   \/ GiveUp \/ CallSuspend \/ AwaitAsleep \/ Suspend \/ CallExit
                   \/ (\E j \in Jobs : Wait(j)) \/ WaitFrame \/ (\E call \in Suspenders : SuspendExecution(call))
                   \/ Stop \/ Resume
            BY <3>6, OrderMaster
        <3> QED
            BY <1>3, <3>1, <3>2, <3>3, <3>4, <3>5, <3>6 DEF MasterStep, Call
    <2> QED
        BY <1>1, <2>1, <2>2
<1>4. CASE UNCHANGED vars
    <2>1. Made' /\ OwnQueue'
        BY <1>4 DEF vars, Made, OwnQueue
    <2> QED
        BY <1>1, <1>4, <2>1, OrderStutter
<1> QED
    BY <1>2, <1>3, <1>4 DEF Next

\* A serial job that overtakes an earlier one is one a client moved, or the
\* earlier one is moved, or lost with the first worker's queue.
LEMMA SerialOrder ==
    ASSUME Running, Stock, Serial
    PROVE  SerialInOrder
<1> USE Numbers
<1> SUFFICES ASSUME NEW j \in Added, NEW k \in Added, Overtakes(j, k), ~job[j].moved, ~job[k].moved
             PROVE  Dropped(j)
    BY DEF SerialInOrder
<1>1. j \in Jobs /\ k \in Jobs /\ j <= nAdded /\ k <= nAdded
    BY DEF Added, Jobs, Running, Shape
<1>2. j \in Strict /\ k \in Strict /\ j < k /\ job[k].status \in {"inprogress", "ok"} /\ ~Finished(j)
    BY <1>1 DEF Overtakes, Strict
<1>3. Stopped /\ \E i \in Int : Waits(i) /\ Line[i] = j
    BY <1>2 DEF Serial, InOrder, InTurn
<1>4. Has(queue[0][0], j)
    BY <1>3 DEF Waits, Line, Has
<1>5. j \in ToSet(Entries(queue, 0))
    <2>1. queue[0] \in Stacks
        BY FirstWorker DEF Stock, Stocked
    <2> QED
        BY <1>4, <2>1, QueueEntries, FirstWorker
<1> QED
    BY <1>3, <1>5, FirstWorker DEF Dropped

(* Serial jobs that clients only add run one after the other in the order    *)
(* they were added, whatever else the master does, for any number of threads *)
(* and jobs.                                                                 *)
THEOREM SerialOrdered == Spec => []SerialInOrder
<1>1. Running /\ Stock /\ Serial => SerialInOrder
    BY SerialOrder
<1>2. Running /\ Running' /\ Protocol /\ Stock /\ Settled /\ Serial /\ [Next]_vars => Serial'
    BY SerialNext DEF Settled
<1> QED
    BY <1>1, <1>2, RunningInit, ProtocolInit, StockInit, SettledNext, SerialInit, RunningNext, ProtocolNext,
       StockNext, PTL DEF Spec
=============================================================================
