-------------------------- MODULE Lifecycle_proofs --------------------------
(***************************************************************************)
(* Proofs about Lifecycle, for any sets of sources and cron goroutines and *)
(* any bounds: type correctness, and the invariants that relate the        *)
(* persisted rows to the memory of the process that runs.                  *)
(***************************************************************************)
EXTENDS Lifecycle, TLAPS

-----------------------------------------------------------------------------
(* Type correctness *)

LEMMA IdleWorkerType == IdleWorker \in WorkerStates
BY DEF IdleWorker, WorkerStates

\* The ways a step of ProcessJob changes what the worker holds.
LEMMA WorkerType ==
  ASSUME worker \in WorkerStates, worker.at \in JobSteps, NEW step \in JobSteps,
         NEW s \in Sources \cup {NoSource}, NEW g \in BOOLEAN
  PROVE  /\ worker.job \in Jobs
         /\ [worker EXCEPT !.at = step] \in WorkerStates
         /\ [worker EXCEPT !.at = step, !.source = s] \in WorkerStates
         /\ [worker EXCEPT !.at = step, !.go = g] \in WorkerStates
         /\ [worker EXCEPT !.at = step, !.source = s, !.go = g] \in WorkerStates
BY DEF WorkerStates, JobSteps

\* Every variable keeps its type: the queue holds job ids only, the worker is
\* at a step of ProcessJob, and the bounds are kept.
THEOREM TypeCorrect == Spec => []TypeOK
<1>1. Init => TypeOK
  <2> SUFFICES ASSUME Init PROVE TypeOK
    OBVIOUS
  <2>1. created \in 0..MaxJobs /\ boots \in 0..MaxBoots /\ faults \in 0..MaxFaults
    BY BoundsAssumption DEF Init
  <2>2. /\ open \in BOOLEAN /\ pending \in SUBSET Jobs
        /\ taken \in SUBSET Jobs /\ refused \in SUBSET Jobs
    BY DEF Init, Queue!PoolInit
  <2>3. status \in [Jobs -> Rows!Statuses] /\ main \in MainSteps
    BY DEF Init, Rows!Statuses, MainSteps
  <2>4. QED  BY <2>1, <2>2, <2>3, IdleWorkerType DEF Init, TypeOK
<1>2. TypeOK /\ [Next]_vars => TypeOK'
  <2> SUFFICES ASSUME TypeOK, [Next]_vars PROVE TypeOK'
    OBVIOUS
  <2> USE DEF TypeOK, rowVars, queueVars, cronVars, MainSteps, BootSteps, ShutdownSteps
  <2>1. CASE Boot
    BY <2>1, BoundsAssumption DEF Boot
  <2>2. CASE GetJobsForRecovery
    BY <2>2, BoundsAssumption DEF GetJobsForRecovery, Fault, Unfinished
  <2>3. CASE RecoverRunningJobs
    BY <2>3, BoundsAssumption DEF RecoverRunningJobs, Fault, Rows!Recover, Rows!Statuses,
       Rows!Finished
  <2>4. CASE MarkJobsForRecovery
    BY <2>4, BoundsAssumption DEF MarkJobsForRecovery, Fault
  <2>5. CASE EnqueueRecovered
    BY <2>5 DEF EnqueueRecovered
  <2>6. CASE Wire
    BY <2>6 DEF Wire, NewQueue
  <2>7. CASE CloseQueue
    BY <2>7 DEF CloseQueue, Queue!Shut
  <2>8. CASE StopRunner
    BY <2>8 DEF StopRunner
  <2>9. CASE StopScheduler
    BY <2>9 DEF StopScheduler
  <2>10. CASE Exit
    <3>1. faults' \in 0..MaxFaults
      BY <2>10, BoundsAssumption DEF Exit, ProcessEnds
    <3>2. fired' \in [Crons -> Jobs \cup {NoJob}]
      BY <2>10 DEF Exit, ProcessEnds
    <3>3. QED  BY <2>10, <3>1, <3>2, IdleWorkerType DEF Exit, ProcessEnds, NewQueue
  <2>11. CASE Crash
    <3>1. faults' \in 0..MaxFaults
      BY <2>11, BoundsAssumption DEF Crash, ProcessEnds
    <3>2. fired' \in [Crons -> Jobs \cup {NoJob}]
      BY <2>11 DEF Crash, ProcessEnds
    <3>3. QED  BY <2>11, <3>1, <3>2, IdleWorkerType DEF Crash, ProcessEnds, NewQueue
  <2>12. CASE Signal
    BY <2>12 DEF Signal
  <2>13. ASSUME NEW s \in Sources, DeleteSource(s) PROVE TypeOK'
    BY <2>13 DEF DeleteSource, SourceStates
  <2>14. ASSUME NEW s \in Sources, NEW to \in SourceStates, ChangeSource(s, to)
        PROVE  TypeOK'
    BY <2>14 DEF ChangeSource, SourceStates
  <2>15. ASSUME NEW f \in Crons, NEW s \in Sources, CreateJob(f, s) PROVE TypeOK'
    <3>1. created + 1 \in Jobs /\ created + 1 \in 0..MaxJobs
      BY <2>15, BoundsAssumption DEF CreateJob, Jobs
    <3>2. QED
      BY <2>15, <3>1 DEF CreateJob, Rows!Create, Rows!Statuses, Rows!Finished
  <2>16. ASSUME NEW f \in Crons, CreateJobFails(f) PROVE TypeOK'
    BY <2>16, BoundsAssumption DEF CreateJobFails, Fault
  <2>17. ASSUME NEW f \in Crons, EnqueueFired(f) PROVE TypeOK'
    BY <2>17 DEF EnqueueFired, Queue!Accept, Queue!Refuse, Queue!Offered
  <2>18. CASE StopCron
    BY <2>18 DEF StopCron
  <2>19. CASE Dequeue
    <3>1. \A j \in Jobs : [IdleWorker EXCEPT !.at = "load", !.job = j] \in WorkerStates
      BY DEF IdleWorker, WorkerStates, JobSteps
    <3>2. worker.at = "idle" => [worker EXCEPT !.at = "exited"] \in WorkerStates
      BY DEF WorkerStates, JobSteps
    <3>3. worker' \in WorkerStates
      <4>1. ASSUME NEW j \in pending, worker' = [IdleWorker EXCEPT !.at = "load", !.job = j]
            PROVE  worker' \in WorkerStates
        BY <4>1, <3>1
      <4>2. CASE GoTo("exited")
        BY <2>19, <4>2, <3>2 DEF Dequeue, WorkerAt, GoTo
      <4>3. QED  BY <2>19, <4>1, <4>2 DEF Dequeue
    <3>4. pending' \in SUBSET Jobs /\ taken' \in SUBSET Jobs /\ refused' = refused /\ open' = open
      BY <2>19 DEF Dequeue, Queue!HandOver
    <3>5. QED  BY <2>19, <3>3, <3>4 DEF Dequeue, WorkerFrame
  <2>20. CASE Load
    <3>1. worker' \in WorkerStates
      <4>1. worker.at \in JobSteps /\ "start" \in JobSteps /\ "checkSource" \in JobSteps
        BY <2>20 DEF Load, WorkerAt, JobSteps
      <4>2. jobSource[worker.job] \in Sources \cup {NoSource}
        BY <4>1, WorkerType
      <4>3. /\ [worker EXCEPT !.at = "start", !.go = TRUE] \in WorkerStates
            /\ [worker EXCEPT !.at = "checkSource", !.source = jobSource[worker.job]]
                 \in WorkerStates
        BY <4>1, <4>2, WorkerType
      <4>4. QED  BY <2>20, <4>3, IdleWorkerType DEF Load, Done
    <3>2. faults' \in 0..MaxFaults
      BY <2>20, BoundsAssumption DEF Load, WorkerOK, WorkerFault, Fault
    <3>3. QED  BY <2>20, <3>1, <3>2 DEF Load, WorkerFrame
  <2>21. CASE CheckSource
    <3>1. worker' \in WorkerStates
      BY <2>21, IdleWorkerType, WorkerType DEF CheckSource, WorkerAt, Done, GoTo, JobSteps
    <3>2. faults' \in 0..MaxFaults
      BY <2>21, BoundsAssumption DEF CheckSource, WorkerOK, WorkerFault, Fault
    <3>3. QED  BY <2>21, <3>1, <3>2 DEF CheckSource, WorkerFrame
  <2>22. CASE CheckDevices
    <3>1. worker' \in WorkerStates
      BY <2>22, IdleWorkerType, WorkerType DEF CheckDevices, WorkerAt, Done, JobSteps
    <3>2. faults' \in 0..MaxFaults
      BY <2>22, BoundsAssumption DEF CheckDevices, WorkerOK, WorkerFault, Fault
    <3>3. QED  BY <2>22, <3>1, <3>2 DEF CheckDevices, WorkerFrame
  <2>23. CASE StartJob
    <3>1. worker' \in WorkerStates
      BY <2>23, IdleWorkerType, WorkerType DEF StartJob, WorkerAt, Done, GoTo, JobSteps
    <3>2. status' \in [Jobs -> Rows!Statuses]
      BY <2>23 DEF StartJob, Rows!Move, Rows!Statuses, Rows!Finished
    <3>3. faults' \in 0..MaxFaults
      BY <2>23, BoundsAssumption DEF StartJob, WorkerOK, WorkerFault, Fault
    <3>4. QED  BY <2>23, <3>1, <3>2, <3>3 DEF StartJob, WorkerFrame
  <2>24. CASE RereadJob
    <3>1. worker' \in WorkerStates
      BY <2>24, IdleWorkerType, WorkerType DEF RereadJob, WorkerAt, GoTo, Done, JobSteps
    <3>2. faults' \in 0..MaxFaults
      BY <2>24, BoundsAssumption DEF RereadJob, WorkerOK, WorkerFault, Fault
    <3>3. QED  BY <2>24, <3>1, <3>2 DEF RereadJob, WorkerFrame
  <2>25. CASE SyncSource
    BY <2>25, WorkerType DEF SyncSource, WorkerAt, WorkerFrame, GoTo, JobSteps
  <2>26. CASE FinishJob
    <3>1. worker' \in WorkerStates
      BY <2>26, IdleWorkerType, WorkerType DEF FinishJob, Done, JobSteps
    <3>2. status' \in [Jobs -> Rows!Statuses]
      BY <2>26 DEF FinishJob, Rows!Move, Rows!Statuses, Rows!Finished
    <3>3. faults' \in 0..MaxFaults
      BY <2>26, BoundsAssumption DEF FinishJob, WorkerOK, WorkerFault, Fault
    <3>4. QED  BY <2>26, <3>1, <3>2, <3>3 DEF FinishJob, WorkerFrame
  <2>27. CASE UNCHANGED vars
    BY <2>27 DEF vars
  <2>28. QED
    BY <2>1, <2>2, <2>3, <2>4, <2>5, <2>6, <2>7, <2>8, <2>9, <2>10, <2>11, <2>12, <2>13, <2>14, <2>15,
       <2>16, <2>17, <2>18, <2>19, <2>20, <2>21, <2>22, <2>23, <2>24, <2>25, <2>26, <2>27
    DEF Next, MainStep, Process
<1>3. QED  BY <1>1, <1>2, PTL DEF Spec

-----------------------------------------------------------------------------
(* The queue, the cron goroutines and the worker *)

\* What a process has in memory before its scheduler and its worker start, and
\* that its queue accepts jobs while it serves.
ProcessMemory ==
  /\ main \in {"down"} \cup BootSteps =>
       /\ ~cronOn
       /\ taken = {}
       /\ worker = IdleWorker
       /\ \A f \in Crons : fired[f] = NoJob
  /\ main = "serving" => open

\* What a cron goroutine is about to enqueue is a queued row nobody else knows of.
FiredIsNew ==
  \A f \in Crons : fired[f] # NoJob =>
    /\ status[fired[f]] = "queued"
    /\ fired[f] \notin pending \cup taken \cup refused
    /\ \A g \in Crons : fired[g] = fired[f] => g = f

\* The worker's job came out of the queue.
WorkerHasTaken == worker.at \in JobSteps => worker.job \in taken

\* No id without a row gets into the memory of the process.
IdsHaveRows == \A j \in pending \cup taken \cup refused \cup batch : status[j] # "none"

\* The strengthening that makes PendingIsQueued inductive.
QueueInv == ProcessMemory /\ FiredIsNew /\ WorkerHasTaken /\ IdsHaveRows /\ PendingIsQueued

\* Updating where the worker stands does not change its job.
LEMMA WorkerKeepsJob ==
  ASSUME worker \in WorkerStates
  PROVE  /\ \A step : [worker EXCEPT !.at = step].job = worker.job
         /\ \A step, s : [worker EXCEPT !.at = step, !.source = s].job = worker.job
         /\ \A step : \A g \in BOOLEAN : [worker EXCEPT !.at = step, !.go = g].job = worker.job
         /\ IdleWorker.at \notin JobSteps
BY DEF WorkerStates, IdleWorker, JobSteps

\* One step of ProcessJob that leaves the rows and the queue alone.
LEMMA QuietWorkerStep ==
  ASSUME TypeOK, QueueInv, main \notin {"down"} \cup BootSteps,
         UNCHANGED <<status, queueVars>>, WorkerFrame,
         worker'.at \in JobSteps => worker.at \in JobSteps /\ worker'.job = worker.job
  PROVE  QueueInv'
BY DEF QueueInv, ProcessMemory, FiredIsNew, WorkerHasTaken, IdsHaveRows, PendingIsQueued,
       WorkerFrame, queueVars, cronVars

\* One step of ProcessJob that changes the status of the worker's own job.
LEMMA MoveWorkerJob ==
  ASSUME TypeOK, QueueInv, main \notin {"down"} \cup BootSteps, worker.at \in JobSteps,
         NEW to \in Rows!Statuses \ {"none"}, status' = [status EXCEPT ![worker.job] = to],
         UNCHANGED queueVars, WorkerFrame,
         worker'.at \in JobSteps => worker'.job = worker.job
  PROVE  QueueInv'
<1>1. worker.job \in Jobs /\ worker.job \in taken
  BY WorkerType DEF QueueInv, WorkerHasTaken, TypeOK, WorkerStates
<1>2. \A j \in Jobs : status'[j] = IF j = worker.job THEN to ELSE status[j]
  BY <1>1 DEF TypeOK
<1>3. to # "none"
  OBVIOUS
<1>4. FiredIsNew'
  BY <1>1, <1>2 DEF QueueInv, FiredIsNew, TypeOK, WorkerFrame, queueVars, cronVars
<1>5. PendingIsQueued'
  BY <1>1, <1>2 DEF QueueInv, PendingIsQueued, TypeOK, WorkerFrame, queueVars, cronVars
<1>6. IdsHaveRows'
  BY <1>2, <1>3 DEF QueueInv, IdsHaveRows, TypeOK, WorkerFrame, queueVars
<1>7. ProcessMemory' /\ WorkerHasTaken'
  BY DEF QueueInv, ProcessMemory, WorkerHasTaken, WorkerFrame, queueVars
<1>8. QED  BY <1>4, <1>5, <1>6, <1>7 DEF QueueInv

LEMMA QueueInvCorrect == Spec => []QueueInv
<1>1. Init => QueueInv
  BY DEF Init, Queue!PoolInit, QueueInv, ProcessMemory, FiredIsNew, WorkerHasTaken, IdsHaveRows,
         PendingIsQueued, IdleWorker, JobSteps
<1>2. TypeOK /\ QueueInv /\ [Next]_vars => QueueInv'
  <2> SUFFICES ASSUME TypeOK, QueueInv, [Next]_vars PROVE QueueInv'
    OBVIOUS
  <2> USE DEF rowVars, queueVars, cronVars, BootSteps, ShutdownSteps
  <2>1. CASE Boot
    BY <2>1 DEF Boot, QueueInv, ProcessMemory, FiredIsNew, WorkerHasTaken, IdsHaveRows,
       PendingIsQueued
  <2>2. CASE GetJobsForRecovery
    BY <2>2 DEF GetJobsForRecovery, Fault, QueueInv, ProcessMemory, FiredIsNew,
       WorkerHasTaken, IdsHaveRows, PendingIsQueued, Unfinished
  <2>3. CASE RecoverRunningJobs
    BY <2>3 DEF RecoverRunningJobs, Fault, Rows!Recover, QueueInv, ProcessMemory,
       FiredIsNew, WorkerHasTaken, IdsHaveRows, PendingIsQueued, TypeOK
  <2>4. CASE MarkJobsForRecovery
    BY <2>4 DEF MarkJobsForRecovery, Fault, QueueInv, ProcessMemory, FiredIsNew,
       WorkerHasTaken, IdsHaveRows, PendingIsQueued
  <2>5. CASE EnqueueRecovered
    BY <2>5 DEF EnqueueRecovered, QueueInv, ProcessMemory, FiredIsNew, WorkerHasTaken,
       IdsHaveRows, PendingIsQueued
  <2>6. CASE Wire
    BY <2>6 DEF Wire, NewQueue, QueueInv, ProcessMemory, FiredIsNew, WorkerHasTaken,
       IdsHaveRows, PendingIsQueued
  <2>7. CASE CloseQueue
    BY <2>7 DEF CloseQueue, Queue!Shut, QueueInv, ProcessMemory, FiredIsNew,
       WorkerHasTaken, IdsHaveRows, PendingIsQueued
  <2>8. CASE StopRunner
    BY <2>8 DEF StopRunner, QueueInv, ProcessMemory, FiredIsNew, WorkerHasTaken,
       IdsHaveRows, PendingIsQueued
  <2>9. CASE StopScheduler
    BY <2>9 DEF StopScheduler, QueueInv, ProcessMemory, FiredIsNew, WorkerHasTaken,
       IdsHaveRows, PendingIsQueued
  <2>10. CASE Exit
    BY <2>10 DEF Exit, ProcessEnds, NewQueue, QueueInv, ProcessMemory, FiredIsNew,
       WorkerHasTaken, IdsHaveRows, PendingIsQueued, IdleWorker, JobSteps
  <2>11. CASE Crash
    BY <2>11 DEF Crash, ProcessEnds, NewQueue, QueueInv, ProcessMemory, FiredIsNew,
       WorkerHasTaken, IdsHaveRows, PendingIsQueued, IdleWorker, JobSteps
  <2>12. CASE Signal
    BY <2>12 DEF Signal, QueueInv, ProcessMemory, FiredIsNew, WorkerHasTaken, IdsHaveRows,
       PendingIsQueued
  <2>13. ASSUME NEW s \in Sources, DeleteSource(s) PROVE QueueInv'
    BY <2>13 DEF DeleteSource, QueueInv, ProcessMemory, FiredIsNew, WorkerHasTaken,
       IdsHaveRows, PendingIsQueued
  <2>14. ASSUME NEW s \in Sources, NEW to \in SourceStates, ChangeSource(s, to)
        PROVE  QueueInv'
    BY <2>14 DEF ChangeSource, QueueInv, ProcessMemory, FiredIsNew, WorkerHasTaken,
       IdsHaveRows, PendingIsQueued
  <2>15. ASSUME NEW f \in Crons, NEW s \in Sources, CreateJob(f, s) PROVE QueueInv'
    <3>1. /\ status[created + 1] = "none" /\ created + 1 \in Jobs
          /\ status' = [status EXCEPT ![created + 1] = "queued"]
          /\ fired' = [fired EXCEPT ![f] = created + 1]
          /\ UNCHANGED <<open, pending, taken, refused, batch, main, cronOn, worker>>
          /\ cronOn
      BY <2>15, BoundsAssumption DEF CreateJob, Rows!Create, Jobs, TypeOK
    <3>2. created + 1 \notin pending \cup taken \cup refused \cup batch
      BY <3>1 DEF QueueInv, IdsHaveRows
    <3>3. \A g \in Crons : fired[g] # created + 1
      BY <3>1 DEF QueueInv, FiredIsNew, TypeOK, NoJob
    <3>4. FiredIsNew'
      BY <3>1, <3>2, <3>3 DEF QueueInv, FiredIsNew, TypeOK
    <3>5. IdsHaveRows' /\ PendingIsQueued'
      BY <3>1, <3>2, <3>3 DEF QueueInv, IdsHaveRows, PendingIsQueued, TypeOK
    <3>6. ProcessMemory' /\ WorkerHasTaken'
      BY <3>1 DEF QueueInv, ProcessMemory, WorkerHasTaken
    <3>7. QED  BY <3>4, <3>5, <3>6 DEF QueueInv
  <2>16. ASSUME NEW f \in Crons, CreateJobFails(f) PROVE QueueInv'
    <3>1. fired' = [fired EXCEPT ![f] = NoJob]
          /\ UNCHANGED <<status, open, pending, taken, refused, batch, main, cronOn, worker>>
      BY <2>16 DEF CreateJobFails
    <3>2. \A g \in Crons : fired'[g] = IF g = f THEN NoJob ELSE fired[g]
      BY <3>1 DEF TypeOK
    <3>3. NoJob \notin pending
      BY DEF TypeOK, Jobs, NoJob
    <3>4. QED
      BY <3>1, <3>2, <3>3
      DEF QueueInv, ProcessMemory, FiredIsNew, WorkerHasTaken, IdsHaveRows, PendingIsQueued
  <2>17. ASSUME NEW f \in Crons, EnqueueFired(f) PROVE QueueInv'
    <3>1. /\ fired[f] # NoJob
          /\ \/ pending' = pending \cup {fired[f]} /\ refused' = refused
             \/ refused' = refused \cup {fired[f]} /\ pending' = pending
          /\ UNCHANGED <<status, open, taken, batch, main, cronOn, worker>>
      BY <2>17 DEF EnqueueFired, Queue!Accept, Queue!Refuse
    <3>2. \A g \in Crons : fired'[g] = IF g = f THEN NoJob ELSE fired[g]
      BY <2>17 DEF EnqueueFired, TypeOK
    <3>3. /\ main \notin BootSteps
          /\ status[fired[f]] = "queued"
          /\ fired[f] \notin pending \cup taken \cup refused
          /\ \A g \in Crons : fired[g] = fired[f] => g = f
      BY <3>1 DEF QueueInv, ProcessMemory, FiredIsNew
    <3>4. NoJob \notin pending
      BY DEF TypeOK, Jobs, NoJob
    <3>5. FiredIsNew'
      BY <3>1, <3>2, <3>3 DEF QueueInv, FiredIsNew
    <3>6. PendingIsQueued' /\ IdsHaveRows'
      BY <3>1, <3>2, <3>3, <3>4 DEF QueueInv, PendingIsQueued, IdsHaveRows
    <3>7. ProcessMemory' /\ WorkerHasTaken'
      BY <3>1, <3>2 DEF QueueInv, ProcessMemory, WorkerHasTaken
    <3>8. QED  BY <3>5, <3>6, <3>7 DEF QueueInv
  <2>18. CASE StopCron
    BY <2>18 DEF StopCron, QueueInv, ProcessMemory, FiredIsNew, WorkerHasTaken,
       IdsHaveRows, PendingIsQueued
  <2>19. CASE Dequeue
    <3>1. /\ worker.at = "idle" /\ main \notin {"down"} \cup BootSteps
          /\ UNCHANGED <<status, open, refused, batch, main, cronOn, fired>>
      BY <2>19 DEF Dequeue, WorkerAt, WorkerFrame, Queue!HandOver
    <3>2. ASSUME NEW j \in pending, Queue!HandOver(j),
                 worker' = [IdleWorker EXCEPT !.at = "load", !.job = j]
          PROVE  QueueInv'
      <4>1. pending' = pending \ {j} /\ taken' = taken \cup {j} /\ worker'.job = j
        BY <3>2 DEF Queue!HandOver, IdleWorker
      <4>2. QED
        BY <3>1, <4>1
        DEF QueueInv, ProcessMemory, FiredIsNew, WorkerHasTaken, IdsHaveRows, PendingIsQueued
    <3>3. ASSUME GoTo("exited"), UNCHANGED queueVars PROVE QueueInv'
      <4>1. worker'.at = "exited"
        BY <3>3 DEF GoTo, TypeOK, WorkerStates
      <4>2. QED
        BY <3>1, <3>3, <4>1
        DEF QueueInv, ProcessMemory, FiredIsNew, WorkerHasTaken, IdsHaveRows, PendingIsQueued, JobSteps
    <3>4. QED  BY <2>19, <3>2, <3>3 DEF Dequeue
  <2>20. CASE Load
    <3>1. /\ UNCHANGED <<status, queueVars>> /\ WorkerFrame
          /\ worker.at \in JobSteps /\ main \notin {"down"} \cup BootSteps
      BY <2>20 DEF Load, WorkerAt, JobSteps
    <3>2. worker'.at \in JobSteps => worker'.job = worker.job
      <4>1. worker \in WorkerStates
        BY DEF TypeOK
      <4>2. [worker EXCEPT !.at = "start", !.go = TRUE].job = worker.job
        BY <4>1, WorkerKeepsJob
      <4>3. [worker EXCEPT !.at = "checkSource", !.source = jobSource[worker.job]].job = worker.job
        BY <4>1, WorkerKeepsJob
      <4>4. IdleWorker.at \notin JobSteps
        BY <4>1, WorkerKeepsJob
      <4>5. QED  BY <2>20, <4>2, <4>3, <4>4 DEF Load, Done
    <3>3. QED  BY <3>1, <3>2, QuietWorkerStep
  <2>21. CASE CheckSource
    <3>1. /\ UNCHANGED <<status, queueVars>> /\ WorkerFrame
          /\ worker.at \in JobSteps /\ main \notin {"down"} \cup BootSteps
      BY <2>21 DEF CheckSource, WorkerAt, JobSteps
    <3>2. worker'.at \in JobSteps => worker'.job = worker.job
      BY <2>21, WorkerKeepsJob DEF CheckSource, Done, GoTo, TypeOK
    <3>3. QED  BY <3>1, <3>2, QuietWorkerStep
  <2>22. CASE CheckDevices
    <3>1. /\ UNCHANGED <<status, queueVars>> /\ WorkerFrame
          /\ worker.at \in JobSteps /\ main \notin {"down"} \cup BootSteps
      BY <2>22 DEF CheckDevices, WorkerAt, JobSteps
    <3>2. worker'.at \in JobSteps => worker'.job = worker.job
      BY <2>22, WorkerKeepsJob DEF CheckDevices, Done, TypeOK
    <3>3. QED  BY <3>1, <3>2, QuietWorkerStep
  <2>23. CASE StartJob
    <3>1. /\ worker.at \in JobSteps /\ main \notin {"down"} \cup BootSteps
          /\ UNCHANGED queueVars /\ WorkerFrame
      BY <2>23 DEF StartJob, WorkerAt, JobSteps
    <3>2. worker'.at \in JobSteps => worker'.job = worker.job
      BY <2>23, WorkerKeepsJob DEF StartJob, Done, GoTo, TypeOK
    <3>3. CASE Rows!Move(worker.job, "running")
      <4>1. status' = [status EXCEPT ![worker.job] = "running"]
        BY <3>3 DEF Rows!Move
      <4>2. QED  BY <3>1, <3>2, <4>1, MoveWorkerJob DEF Rows!Statuses
    <3>4. CASE UNCHANGED status
      BY <3>1, <3>2, <3>4, QuietWorkerStep
    <3>5. QED  BY <2>23, <3>3, <3>4 DEF StartJob
  <2>24. CASE RereadJob
    <3>1. /\ UNCHANGED <<status, queueVars>> /\ WorkerFrame
          /\ worker.at \in JobSteps /\ main \notin {"down"} \cup BootSteps
      BY <2>24 DEF RereadJob, WorkerAt, JobSteps
    <3>2. worker'.at \in JobSteps => worker'.job = worker.job
      BY <2>24, WorkerKeepsJob DEF RereadJob, Done, GoTo, TypeOK
    <3>3. QED  BY <3>1, <3>2, QuietWorkerStep
  <2>25. CASE SyncSource
    <3>1. /\ UNCHANGED <<status, queueVars>> /\ WorkerFrame
          /\ worker.at \in JobSteps /\ main \notin {"down"} \cup BootSteps
      BY <2>25 DEF SyncSource, WorkerAt, JobSteps
    <3>2. worker'.at \in JobSteps => worker'.job = worker.job
      BY <2>25, WorkerKeepsJob DEF SyncSource, GoTo, TypeOK
    <3>3. QED  BY <3>1, <3>2, QuietWorkerStep
  <2>26. CASE FinishJob
    <3>1. /\ worker.at \in JobSteps /\ main \notin {"down"} \cup BootSteps
          /\ UNCHANGED queueVars /\ WorkerFrame
      BY <2>26 DEF FinishJob, JobSteps
    <3>2. worker'.at \in JobSteps => worker'.job = worker.job
      BY <2>26 DEF FinishJob, Done, IdleWorker, JobSteps
    <3>3. ASSUME NEW to \in {"succeeded", "failed"}, Rows!Move(worker.job, to)
          PROVE  QueueInv'
      <4>1. status' = [status EXCEPT ![worker.job] = to]
        BY <3>3 DEF Rows!Move
      <4>2. QED  BY <3>1, <3>2, <4>1, MoveWorkerJob DEF Rows!Statuses, Rows!Finished
    <3>4. CASE UNCHANGED status
      BY <3>1, <3>2, <3>4, QuietWorkerStep
    <3>5. QED  BY <2>26, <3>3, <3>4 DEF FinishJob
  <2>27. CASE UNCHANGED vars
    BY <2>27 DEF vars, QueueInv, ProcessMemory, FiredIsNew, WorkerHasTaken, IdsHaveRows, PendingIsQueued
  <2>28. QED
    BY <2>1, <2>2, <2>3, <2>4, <2>5, <2>6, <2>7, <2>8, <2>9, <2>10, <2>11, <2>12, <2>13, <2>14, <2>15,
       <2>16, <2>17, <2>18, <2>19, <2>20, <2>21, <2>22, <2>23, <2>24, <2>25, <2>26, <2>27
    DEF Next, MainStep, Process
<1>3. QED  BY <1>1, <1>2, TypeCorrect, PTL DEF Spec

\* A job waits in the queue only while its row is queued, is handed out once,
\* and is enqueued by one goroutine: StartJob never refuses a job of this run.
THEOREM PendingIsQueuedCorrect == Spec => []PendingIsQueued
<1>1. QueueInv => PendingIsQueued
  BY DEF QueueInv
<1>2. QED  BY <1>1, QueueInvCorrect, PTL

-----------------------------------------------------------------------------
(* The rows *)

\* The rows keep to the state machine of the jobs service whatever the process
\* does: the refinement of JobRows.
THEOREM RowsImplemented == Spec => ImplementsRows
<1>1. Init => Rows!RowsInit
  BY DEF Init, Rows!RowsInit
<1>2. TypeOK /\ [Next]_vars => [Rows!RowsNext]_status
  <2> SUFFICES ASSUME TypeOK, [Next]_vars PROVE [Rows!RowsNext]_status
    OBVIOUS
  <2> USE DEF rowVars
  <2>1. CASE Boot
    BY <2>1 DEF Boot
  <2>2. CASE GetJobsForRecovery
    BY <2>2 DEF GetJobsForRecovery
  <2>3. CASE RecoverRunningJobs
    BY <2>3 DEF RecoverRunningJobs, Rows!RowsNext
  <2>4. CASE MarkJobsForRecovery
    BY <2>4 DEF MarkJobsForRecovery
  <2>5. CASE EnqueueRecovered
    BY <2>5 DEF EnqueueRecovered
  <2>6. CASE Wire
    BY <2>6 DEF Wire
  <2>7. CASE CloseQueue
    BY <2>7 DEF CloseQueue
  <2>8. CASE StopRunner
    BY <2>8 DEF StopRunner
  <2>9. CASE StopScheduler
    BY <2>9 DEF StopScheduler
  <2>10. CASE Exit
    BY <2>10 DEF Exit, ProcessEnds
  <2>11. CASE Crash
    BY <2>11 DEF Crash, ProcessEnds
  <2>12. CASE Signal
    BY <2>12 DEF Signal
  <2>13. ASSUME NEW s \in Sources, DeleteSource(s) PROVE [Rows!RowsNext]_status
    BY <2>13 DEF DeleteSource
  <2>14. ASSUME NEW s \in Sources, NEW to \in SourceStates, ChangeSource(s, to)
        PROVE  [Rows!RowsNext]_status
    BY <2>14 DEF ChangeSource
  <2>15. ASSUME NEW f \in Crons, NEW s \in Sources, CreateJob(f, s)
        PROVE  [Rows!RowsNext]_status
    <3>1. created + 1 \in Jobs
      BY <2>15, BoundsAssumption DEF CreateJob, Jobs, TypeOK
    <3>2. QED  BY <2>15, <3>1 DEF CreateJob, Rows!RowsNext
  <2>16. ASSUME NEW f \in Crons, CreateJobFails(f) PROVE [Rows!RowsNext]_status
    BY <2>16 DEF CreateJobFails
  <2>17. ASSUME NEW f \in Crons, EnqueueFired(f) PROVE [Rows!RowsNext]_status
    BY <2>17 DEF EnqueueFired
  <2>18. CASE StopCron
    BY <2>18 DEF StopCron
  <2>19. CASE Dequeue
    BY <2>19 DEF Dequeue
  <2>20. CASE Load
    BY <2>20 DEF Load
  <2>21. CASE CheckSource
    BY <2>21 DEF CheckSource
  <2>22. CASE CheckDevices
    BY <2>22 DEF CheckDevices
  <2>23. CASE StartJob
    <3>1. worker.job \in Jobs /\ "running" \in Rows!Statuses
      BY <2>23, WorkerType DEF StartJob, WorkerAt, TypeOK, JobSteps, Rows!Statuses
    <3>2. QED  BY <2>23, <3>1 DEF StartJob, Rows!RowsNext
  <2>24. CASE RereadJob
    BY <2>24 DEF RereadJob
  <2>25. CASE SyncSource
    BY <2>25 DEF SyncSource
  <2>26. CASE FinishJob
    <3>1. worker.job \in Jobs /\ {"succeeded", "failed"} \subseteq Rows!Statuses
      BY <2>26, WorkerType DEF FinishJob, TypeOK, JobSteps, Rows!Statuses, Rows!Finished
    <3>2. QED  BY <2>26, <3>1 DEF FinishJob, Rows!RowsNext
  <2>27. CASE UNCHANGED vars
    BY <2>27 DEF vars
  <2>28. QED
    BY <2>1, <2>2, <2>3, <2>4, <2>5, <2>6, <2>7, <2>8, <2>9, <2>10, <2>11, <2>12, <2>13, <2>14, <2>15,
       <2>16, <2>17, <2>18, <2>19, <2>20, <2>21, <2>22, <2>23, <2>24, <2>25, <2>26, <2>27
    DEF Next, MainStep, Process
<1>3. QED  BY <1>1, <1>2, TypeCorrect, PTL DEF Spec, ImplementsRows, Rows!RowsSpec

-----------------------------------------------------------------------------
(* The recovery pass *)

\* What the pass has achieved before each of its steps, if no statement failed.
RecoveryInv ==
  /\ main \in {"down"} \cup (BootSteps \ {"wire"}) => pending = {}
  /\ (faults = 0 /\ main \in {"reset", "mark", "enqueue", "wire"}) => batch = Unfinished
  /\ (faults = 0 /\ main \in {"mark", "enqueue", "wire"}) =>
        \A j \in Jobs : status[j] # "running"
  /\ (faults = 0 /\ main \in {"enqueue", "wire"}) => \A j \in batch : trigger[j] = "recovery"
  /\ (faults = 0 /\ main = "wire") => pending = batch

\* A fault leaves its mark until the process ends.
LEMMA FaultsCount == ASSUME TypeOK, Fault PROVE faults' # 0
BY BoundsAssumption DEF TypeOK, Fault

\* Outside of the boot there is nothing to show, and nothing but the main
\* goroutine and the environment runs in a boot.
LEMMA OutsideBoot ==
  ASSUME main \notin BootSteps, main' = main
  PROVE  main # "down" => RecoveryInv'
BY DEF RecoveryInv, BootSteps

LEMMA RecoveryInvCorrect == Spec => []RecoveryInv
<1>1. Init => RecoveryInv
  BY DEF Init, Queue!PoolInit, RecoveryInv
<1>2. TypeOK /\ QueueInv /\ RecoveryInv /\ [Next]_vars => RecoveryInv'
  <2> SUFFICES ASSUME TypeOK, QueueInv, RecoveryInv, [Next]_vars PROVE RecoveryInv'
    OBVIOUS
  <2> USE DEF rowVars, queueVars, cronVars
  <2>1. CASE Boot
    BY <2>1 DEF Boot, RecoveryInv, BootSteps, Unfinished
  <2>2. CASE GetJobsForRecovery
    BY <2>2, FaultsCount DEF GetJobsForRecovery, RecoveryInv, BootSteps, Unfinished
  <2>3. CASE RecoverRunningJobs
    <3>1. CASE Fault
      BY <2>3, <3>1, FaultsCount DEF RecoverRunningJobs, RecoveryInv, BootSteps
    <3>2. CASE Rows!Recover /\ UNCHANGED faults
      <4>1. \A j \in Jobs : status'[j] = IF status[j] = "running" THEN "queued" ELSE status[j]
        BY <3>2 DEF Rows!Recover
      <4>2. Unfinished' = Unfinished /\ \A j \in Jobs : status'[j] # "running"
        BY <4>1 DEF Unfinished
      <4>3. QED  BY <2>3, <3>2, <4>2 DEF RecoverRunningJobs, RecoveryInv, BootSteps
    <3>3. QED  BY <2>3, <3>1, <3>2 DEF RecoverRunningJobs
  <2>4. CASE MarkJobsForRecovery
    BY <2>4, FaultsCount DEF MarkJobsForRecovery, RecoveryInv, BootSteps, Unfinished, TypeOK
  <2>5. CASE EnqueueRecovered
    BY <2>5 DEF EnqueueRecovered, RecoveryInv, BootSteps, Unfinished
  <2>6. CASE Wire
    BY <2>6 DEF Wire, NewQueue, RecoveryInv, BootSteps, Unfinished
  <2>7. CASE CloseQueue
    BY <2>7 DEF CloseQueue, Queue!Shut, RecoveryInv, BootSteps, Unfinished
  <2>8. CASE StopRunner
    BY <2>8 DEF StopRunner, RecoveryInv, BootSteps, Unfinished
  <2>9. CASE StopScheduler
    BY <2>9 DEF StopScheduler, RecoveryInv, BootSteps, Unfinished
  <2>10. CASE Exit
    BY <2>10 DEF Exit, ProcessEnds, NewQueue, RecoveryInv, BootSteps, Unfinished
  <2>11. CASE Crash
    BY <2>11 DEF Crash, ProcessEnds, NewQueue, RecoveryInv, BootSteps, Unfinished
  <2>12. CASE Signal
    BY <2>12 DEF Signal, RecoveryInv, BootSteps, Unfinished
  <2>13. ASSUME NEW s \in Sources, DeleteSource(s) PROVE RecoveryInv'
    BY <2>13 DEF DeleteSource, RecoveryInv, BootSteps, Unfinished
  <2>14. ASSUME NEW s \in Sources, NEW to \in SourceStates, ChangeSource(s, to)
        PROVE  RecoveryInv'
    BY <2>14 DEF ChangeSource, RecoveryInv, BootSteps, Unfinished
  <2>15. ASSUME NEW f \in Crons, NEW s \in Sources, CreateJob(f, s) PROVE RecoveryInv'
    <3>1. main \notin {"down"} \cup BootSteps /\ main' = main
      BY <2>15 DEF CreateJob, QueueInv, ProcessMemory
    <3>2. QED  BY <3>1, OutsideBoot
  <2>16. ASSUME NEW f \in Crons, CreateJobFails(f) PROVE RecoveryInv'
    <3>1. main \notin {"down"} \cup BootSteps /\ main' = main
      BY <2>16 DEF CreateJobFails, QueueInv, ProcessMemory
    <3>2. QED  BY <3>1, OutsideBoot
  <2>17. ASSUME NEW f \in Crons, EnqueueFired(f) PROVE RecoveryInv'
    <3>1. main \notin {"down"} \cup BootSteps /\ main' = main
      BY <2>17 DEF EnqueueFired, QueueInv, ProcessMemory
    <3>2. QED  BY <3>1, OutsideBoot
  <2>18. CASE StopCron
    <3>1. main \notin {"down"} \cup BootSteps /\ main' = main
      BY <2>18 DEF StopCron, QueueInv, ProcessMemory
    <3>2. QED  BY <3>1, OutsideBoot
  <2>19. CASE Dequeue
    <3>1. main \notin {"down"} \cup BootSteps /\ main' = main
      BY <2>19 DEF Dequeue, WorkerAt, WorkerFrame
    <3>2. QED  BY <3>1, OutsideBoot
  <2>20. CASE Load
    <3>1. main \notin {"down"} \cup BootSteps /\ main' = main
      BY <2>20 DEF Load, WorkerAt, WorkerFrame
    <3>2. QED  BY <3>1, OutsideBoot
  <2>21. CASE CheckSource
    <3>1. main \notin {"down"} \cup BootSteps /\ main' = main
      BY <2>21 DEF CheckSource, WorkerAt, WorkerFrame
    <3>2. QED  BY <3>1, OutsideBoot
  <2>22. CASE CheckDevices
    <3>1. main \notin {"down"} \cup BootSteps /\ main' = main
      BY <2>22 DEF CheckDevices, WorkerAt, WorkerFrame
    <3>2. QED  BY <3>1, OutsideBoot
  <2>23. CASE StartJob
    <3>1. main \notin {"down"} \cup BootSteps /\ main' = main
      BY <2>23 DEF StartJob, WorkerAt, WorkerFrame
    <3>2. QED  BY <3>1, OutsideBoot
  <2>24. CASE RereadJob
    <3>1. main \notin {"down"} \cup BootSteps /\ main' = main
      BY <2>24 DEF RereadJob, WorkerAt, WorkerFrame
    <3>2. QED  BY <3>1, OutsideBoot
  <2>25. CASE SyncSource
    <3>1. main \notin {"down"} \cup BootSteps /\ main' = main
      BY <2>25 DEF SyncSource, WorkerAt, WorkerFrame
    <3>2. QED  BY <3>1, OutsideBoot
  <2>26. CASE FinishJob
    <3>1. main \notin {"down"} \cup BootSteps /\ main' = main
      BY <2>26 DEF FinishJob, WorkerFrame
    <3>2. QED  BY <3>1, OutsideBoot
  <2>27. CASE UNCHANGED vars
    BY <2>27 DEF vars, RecoveryInv, Unfinished
  <2>28. QED
    BY <2>1, <2>2, <2>3, <2>4, <2>5, <2>6, <2>7, <2>8, <2>9, <2>10, <2>11, <2>12, <2>13, <2>14, <2>15,
       <2>16, <2>17, <2>18, <2>19, <2>20, <2>21, <2>22, <2>23, <2>24, <2>25, <2>26, <2>27
    DEF Next, MainStep, Process
<1>3. QED  BY <1>1, <1>2, TypeCorrect, QueueInvCorrect, PTL DEF Spec

\* A recovery pass none of whose statements fails covers every unfinished row.
THEOREM RecoveryCompleteCorrect == Spec => []RecoveryComplete
<1>1. TypeOK /\ RecoveryInv => RecoveryComplete
  BY DEF RecoveryInv, RecoveryComplete, Unfinished
<1>2. QED  BY <1>1, TypeCorrect, RecoveryInvCorrect, PTL

-----------------------------------------------------------------------------
(* The worker and its job *)

\* What a statement of ProcessJob may rely on from the ones before it: the row
\* is still queued until StartJob, and its source was deleted only together
\* with the row's reference to it.
WorkerKnows ==
  /\ worker.at \in {"load", "checkSource", "checkDevices", "start"} =>
        status[worker.job] = "queued"
  /\ worker.at = "checkSource" => jobSource[worker.job] \in {worker.source, NoSource}
  /\ \A s \in Sources : source[s] = "deleted" => \A j \in Jobs : jobSource[j] # s

\* The worker only reaches a step before StartJob from the one before that.
LEMMA WorkerMovesOn ==
  ASSUME TypeOK, WorkerKnows, UNCHANGED status, WorkerFrame,
         worker'.at \in {"load", "checkSource", "checkDevices", "start"} =>
           /\ worker.at \in {"load", "checkSource", "checkDevices", "start"}
           /\ worker'.job = worker.job,
         worker'.at = "checkSource" => worker'.source = jobSource[worker.job]
  PROVE  WorkerKnows'
BY DEF WorkerKnows, WorkerFrame

LEMMA WorkerKnowsCorrect == Spec => []WorkerKnows
<1>1. Init => WorkerKnows
  BY NoSourceAssumption DEF Init, WorkerKnows, IdleWorker
<1>2. TypeOK /\ QueueInv /\ WorkerKnows /\ [Next]_vars => WorkerKnows'
  <2> SUFFICES ASSUME TypeOK, QueueInv, WorkerKnows, [Next]_vars PROVE WorkerKnows'
    OBVIOUS
  <2> USE DEF rowVars, queueVars, cronVars
  <2>1. CASE Boot
    BY <2>1 DEF Boot, WorkerKnows
  <2>2. CASE GetJobsForRecovery
    BY <2>2 DEF GetJobsForRecovery, WorkerKnows
  <2>3. CASE RecoverRunningJobs
    <3>1. worker.at = "idle" /\ UNCHANGED <<worker, jobSource, source>>
      BY <2>3 DEF RecoverRunningJobs, QueueInv, ProcessMemory, BootSteps, IdleWorker
    <3>2. QED  BY <3>1 DEF WorkerKnows
  <2>4. CASE MarkJobsForRecovery
    BY <2>4 DEF MarkJobsForRecovery, WorkerKnows
  <2>5. CASE EnqueueRecovered
    BY <2>5 DEF EnqueueRecovered, WorkerKnows
  <2>6. CASE Wire
    BY <2>6 DEF Wire, WorkerKnows
  <2>7. CASE CloseQueue
    BY <2>7 DEF CloseQueue, WorkerKnows
  <2>8. CASE StopRunner
    BY <2>8 DEF StopRunner, WorkerKnows
  <2>9. CASE StopScheduler
    BY <2>9 DEF StopScheduler, WorkerKnows
  <2>10. CASE Exit
    BY <2>10 DEF Exit, ProcessEnds, WorkerKnows, IdleWorker
  <2>11. CASE Crash
    BY <2>11 DEF Crash, ProcessEnds, WorkerKnows, IdleWorker
  <2>12. CASE Signal
    BY <2>12 DEF Signal, WorkerKnows
  <2>13. ASSUME NEW s \in Sources, DeleteSource(s) PROVE WorkerKnows'
    <3>1. \A j \in Jobs : jobSource'[j] = IF jobSource[j] = s THEN NoSource ELSE jobSource[j]
      BY <2>13 DEF DeleteSource
    <3>2. \A r \in Sources : r # s => source'[r] = source[r]
      BY <2>13 DEF DeleteSource, TypeOK
    <3>3. worker.at = "checkSource" => worker.job \in Jobs
      BY DEF TypeOK, WorkerStates
    <3>4. UNCHANGED <<status, worker>>
      BY <2>13 DEF DeleteSource
    <3>5. QED  BY <3>1, <3>2, <3>3, <3>4, NoSourceAssumption DEF WorkerKnows
  <2>14. ASSUME NEW s \in Sources, NEW to \in SourceStates, ChangeSource(s, to)
        PROVE  WorkerKnows'
    BY <2>14 DEF ChangeSource, WorkerKnows
  <2>15. ASSUME NEW f \in Crons, NEW s \in Sources, CreateJob(f, s) PROVE WorkerKnows'
    <3>1. /\ status[created + 1] = "none" /\ created + 1 \in Jobs
          /\ status' = [status EXCEPT ![created + 1] = "queued"]
          /\ jobSource' = [jobSource EXCEPT ![created + 1] = s]
          /\ source[s] # "deleted"
          /\ UNCHANGED <<source, worker>>
      BY <2>15, BoundsAssumption DEF CreateJob, Rows!Create, Jobs, TypeOK
    <3>2. worker.at \in JobSteps => worker.job # created + 1
      BY <3>1 DEF QueueInv, WorkerHasTaken, IdsHaveRows
    <3>3. QED  BY <3>1, <3>2 DEF WorkerKnows, TypeOK, JobSteps
  <2>16. ASSUME NEW f \in Crons, CreateJobFails(f) PROVE WorkerKnows'
    BY <2>16 DEF CreateJobFails, WorkerKnows
  <2>17. ASSUME NEW f \in Crons, EnqueueFired(f) PROVE WorkerKnows'
    BY <2>17 DEF EnqueueFired, WorkerKnows
  <2>18. CASE StopCron
    BY <2>18 DEF StopCron, WorkerKnows
  <2>19. CASE Dequeue
    <3>1. /\ main \notin BootSteps /\ UNCHANGED <<status, jobSource, source>>
      BY <2>19 DEF Dequeue, WorkerAt, WorkerFrame
    <3>2. ASSUME NEW j \in pending, worker' = [IdleWorker EXCEPT !.at = "load", !.job = j]
          PROVE  WorkerKnows'
      <4>1. worker'.at = "load" /\ worker'.job = j
        BY <3>2 DEF IdleWorker
      <4>2. QED  BY <3>1, <4>1 DEF WorkerKnows, QueueInv, PendingIsQueued
    <3>3. ASSUME GoTo("exited") PROVE WorkerKnows'
      <4>1. worker'.at = "exited"
        BY <3>3 DEF GoTo, TypeOK, WorkerStates
      <4>2. QED  BY <3>1, <4>1 DEF WorkerKnows
    <3>4. QED  BY <2>19, <3>2, <3>3 DEF Dequeue
  <2>20. CASE Load
    <3>1. UNCHANGED status /\ WorkerFrame
      BY <2>20 DEF Load
    <3>2. worker \in WorkerStates /\ IdleWorker.at = "idle"
      BY DEF TypeOK, IdleWorker
    <3>3. /\ [worker EXCEPT !.at = "start", !.go = TRUE].at = "start"
          /\ [worker EXCEPT !.at = "start", !.go = TRUE].job = worker.job
          /\ LET w == [worker EXCEPT !.at = "checkSource", !.source = jobSource[worker.job]]
             IN  w.at = "checkSource" /\ w.job = worker.job /\ w.source = jobSource[worker.job]
      BY <3>2 DEF WorkerStates
    <3>4. QED  BY <2>20, <3>1, <3>2, <3>3, WorkerMovesOn DEF Load, WorkerAt, Done
  <2>21. CASE CheckSource
    <3>1. UNCHANGED status /\ WorkerFrame
      BY <2>21 DEF CheckSource
    <3>2. worker \in WorkerStates /\ IdleWorker.at = "idle"
      BY DEF TypeOK, IdleWorker
    <3>3. /\ [worker EXCEPT !.at = "start"].at = "start"
          /\ [worker EXCEPT !.at = "start"].job = worker.job
          /\ [worker EXCEPT !.at = "checkDevices"].at = "checkDevices"
          /\ [worker EXCEPT !.at = "checkDevices"].job = worker.job
      BY <3>2 DEF WorkerStates
    <3>4. QED  BY <2>21, <3>1, <3>2, <3>3, WorkerMovesOn DEF CheckSource, WorkerAt, Done, GoTo
  <2>22. CASE CheckDevices
    <3>1. UNCHANGED status /\ WorkerFrame
      BY <2>22 DEF CheckDevices
    <3>2. worker \in WorkerStates /\ IdleWorker.at = "idle"
      BY DEF TypeOK, IdleWorker
    <3>3. \A g \in BOOLEAN : /\ [worker EXCEPT !.at = "start", !.go = g].at = "start"
                              /\ [worker EXCEPT !.at = "start", !.go = g].job = worker.job
      BY <3>2 DEF WorkerStates
    <3>4. QED  BY <2>22, <3>1, <3>2, <3>3, WorkerMovesOn DEF CheckDevices, WorkerAt, Done
  <2>23. CASE StartJob
    <3>1. [worker EXCEPT !.at = "reread"].at = "reread" /\ IdleWorker.at = "idle"
      BY DEF IdleWorker, TypeOK, WorkerStates
    <3>2. worker'.at \in {"reread", "idle"}
      BY <2>23, <3>1 DEF StartJob, GoTo, Done
    <3>3. QED  BY <2>23, <3>2 DEF StartJob, WorkerFrame, WorkerKnows
  <2>24. CASE RereadJob
    <3>1. UNCHANGED status /\ WorkerFrame
      BY <2>24 DEF RereadJob
    <3>2. worker \in WorkerStates /\ IdleWorker.at = "idle"
      BY DEF TypeOK, IdleWorker
    <3>3. \A step : [worker EXCEPT !.at = step].at = step
      BY <3>2 DEF WorkerStates
    <3>4. QED  BY <2>24, <3>1, <3>2, <3>3, WorkerMovesOn DEF RereadJob, WorkerAt, Done, GoTo
  <2>25. CASE SyncSource
    <3>1. UNCHANGED status /\ WorkerFrame
      BY <2>25 DEF SyncSource
    <3>2. worker \in WorkerStates /\ IdleWorker.at = "idle"
      BY DEF TypeOK, IdleWorker
    <3>3. \A step : [worker EXCEPT !.at = step].at = step
      BY <3>2 DEF WorkerStates
    <3>4. QED  BY <2>25, <3>1, <3>2, <3>3, WorkerMovesOn DEF SyncSource, WorkerAt, GoTo
  <2>26. CASE FinishJob
    <3>1. worker'.at = "idle"
      BY <2>26 DEF FinishJob, Done, IdleWorker
    <3>2. QED  BY <2>26, <3>1 DEF FinishJob, WorkerFrame, WorkerKnows
  <2>27. CASE UNCHANGED vars
    BY <2>27 DEF vars, WorkerKnows
  <2>28. QED
    BY <2>1, <2>2, <2>3, <2>4, <2>5, <2>6, <2>7, <2>8, <2>9, <2>10, <2>11, <2>12, <2>13, <2>14, <2>15,
       <2>16, <2>17, <2>18, <2>19, <2>20, <2>21, <2>22, <2>23, <2>24, <2>25, <2>26, <2>27
    DEF Next, MainStep, Process
<1>3. QED  BY <1>1, <1>2, TypeCorrect, QueueInvCorrect, PTL DEF Spec

-----------------------------------------------------------------------------
(* Healthy runs *)

\* The three properties of healthy runs are inductive together.
HealthyInv == RunningIsWorkedOn /\ TakenIsFinished /\ NewJobsAreHeld

\* Outside of a healthy run there is nothing to show.
LEMMA NotHealthy == ~Healthy' => HealthyInv'
BY DEF HealthyInv, RunningIsWorkedOn, TakenIsFinished, NewJobsAreHeld

\* A step of ProcessJob that leaves the rows alone keeps the worker's job, or
\* drops it when the source is gone and StartJob has not run.
LEMMA WorkerStepKeepsHealth ==
  ASSUME TypeOK, HealthyInv, Healthy, UNCHANGED <<status, queueVars>>, WorkerFrame,
         worker.at \in JobSteps,
         \/ /\ worker'.job = worker.job
            /\ worker.at \in {"reread", "work", "finish", "fail"} =>
                 worker'.at \in {"reread", "work", "finish", "fail"}
         \/ /\ worker.at \in {"load", "checkSource", "checkDevices", "start"}
            /\ jobSource[worker.job] = NoSource
  PROVE  HealthyInv'
<1>1. RunningIsWorkedOn'
  BY DEF HealthyInv, RunningIsWorkedOn, WorkerFrame, Healthy
<1>2. TakenIsFinished'
  BY DEF HealthyInv, TakenIsFinished, WorkerFrame, Healthy, queueVars
<1>3. NewJobsAreHeld'
  BY DEF HealthyInv, NewJobsAreHeld, Unfinished, WorkerFrame, Healthy, queueVars, cronVars
<1>4. QED  BY <1>1, <1>2, <1>3 DEF HealthyInv

LEMMA HealthyInvCorrect == Spec => []HealthyInv
<1>1. Init => HealthyInv
  BY DEF Init, HealthyInv, RunningIsWorkedOn, TakenIsFinished, NewJobsAreHeld, Healthy
<1>2. TypeOK /\ QueueInv /\ RecoveryInv /\ WorkerKnows /\ HealthyInv /\ [Next]_vars => HealthyInv'
  <2> SUFFICES ASSUME TypeOK, QueueInv, RecoveryInv, WorkerKnows, HealthyInv, [Next]_vars
               PROVE  HealthyInv'
    OBVIOUS
  <2> USE DEF rowVars, queueVars, cronVars
  <2>1. CASE Boot
    BY <2>1, NotHealthy DEF Boot, Healthy
  <2>2. CASE GetJobsForRecovery
    BY <2>2, NotHealthy DEF GetJobsForRecovery, Healthy
  <2>3. CASE RecoverRunningJobs
    BY <2>3, NotHealthy DEF RecoverRunningJobs, Healthy
  <2>4. CASE MarkJobsForRecovery
    BY <2>4, NotHealthy DEF MarkJobsForRecovery, Healthy
  <2>5. CASE EnqueueRecovered
    BY <2>5, NotHealthy DEF EnqueueRecovered, Healthy
  <2>6. CASE Wire
    <3>1. CASE faults # 0
      BY <2>6, <3>1, NotHealthy DEF Wire, Healthy
    <3>2. CASE faults = 0
      <4>1. batch = Unfinished /\ \A j \in Jobs : status[j] # "running"
        BY <2>6, <3>2 DEF Wire, RecoveryInv
      <4>2. taken' = {} /\ UNCHANGED <<status, batch>>
        BY <2>6 DEF Wire, NewQueue
      <4>3. QED
        BY <4>1, <4>2
        DEF HealthyInv, RunningIsWorkedOn, TakenIsFinished, NewJobsAreHeld, Unfinished
    <3>3. QED  BY <3>1, <3>2
  <2>7. CASE CloseQueue
    BY <2>7, NotHealthy DEF CloseQueue, Healthy
  <2>8. CASE StopRunner
    BY <2>8, NotHealthy DEF StopRunner, Healthy
  <2>9. CASE StopScheduler
    BY <2>9, NotHealthy DEF StopScheduler, Healthy
  <2>10. CASE Exit
    BY <2>10, NotHealthy DEF Exit, Healthy, ProcessEnds
  <2>11. CASE Crash
    BY <2>11, NotHealthy DEF Crash, Healthy, ProcessEnds
  <2>12. CASE Signal
    BY <2>12, NotHealthy DEF Signal, Healthy
  <2>13. ASSUME NEW s \in Sources, DeleteSource(s) PROVE HealthyInv'
    <3>1. \A j \in Jobs : jobSource[j] = NoSource => jobSource'[j] = NoSource
      BY <2>13 DEF DeleteSource
    <3>2. UNCHANGED <<status, main, ctxDone, faults, batch, pending, taken, fired, worker>>
      BY <2>13 DEF DeleteSource
    <3>3. QED
      BY <3>1, <3>2 DEF TypeOK,
         HealthyInv, RunningIsWorkedOn, TakenIsFinished, NewJobsAreHeld, Unfinished, Healthy
  <2>14. ASSUME NEW s \in Sources, NEW to \in SourceStates, ChangeSource(s, to)
        PROVE  HealthyInv'
    <3>1. UNCHANGED <<status, jobSource, main, ctxDone, faults, batch, pending, taken, fired,
                      worker>>
      BY <2>14 DEF ChangeSource
    <3>2. QED  BY <3>1 DEF HealthyInv, RunningIsWorkedOn, TakenIsFinished, NewJobsAreHeld, Unfinished, Healthy
  <2>15. ASSUME NEW f \in Crons, NEW s \in Sources, CreateJob(f, s) PROVE HealthyInv'
    <3>1. /\ status[created + 1] = "none" /\ created + 1 \in Jobs
          /\ status' = [status EXCEPT ![created + 1] = "queued"]
          /\ jobSource' = [jobSource EXCEPT ![created + 1] = s]
          /\ fired' = [fired EXCEPT ![f] = created + 1] /\ fired[f] = NoJob
          /\ UNCHANGED <<main, ctxDone, faults, batch, pending, taken, worker>>
      BY <2>15, BoundsAssumption DEF CreateJob, Rows!Create, Jobs, TypeOK
    <3>2. created + 1 \notin taken /\ NoJob \notin Jobs
      BY <3>1 DEF QueueInv, IdsHaveRows, Jobs, NoJob
    <3>3. \A j \in Jobs : j # created + 1 => status'[j] = status[j] /\ jobSource'[j] = jobSource[j]
      BY <3>1 DEF TypeOK
    <3>4. /\ status'[created + 1] = "queued" /\ fired'[f] = created + 1
          /\ \A g \in Crons : g # f => fired'[g] = fired[g]
      BY <3>1 DEF TypeOK
    <3>5. RunningIsWorkedOn'
      BY <3>1, <3>3, <3>4 DEF HealthyInv, RunningIsWorkedOn, Healthy
    <3>6. TakenIsFinished'
      BY <3>1, <3>2, <3>3 DEF HealthyInv, TakenIsFinished, Healthy, TypeOK
    <3>7. NewJobsAreHeld'
      BY <3>1, <3>2, <3>3, <3>4 DEF HealthyInv, NewJobsAreHeld, Healthy, Unfinished
    <3>8. QED  BY <3>5, <3>6, <3>7 DEF HealthyInv
  <2>16. ASSUME NEW f \in Crons, CreateJobFails(f) PROVE HealthyInv'
    <3>1. ~Healthy'
      BY <2>16, FaultsCount DEF CreateJobFails, Healthy
    <3>2. QED  BY <3>1, NotHealthy
  <2>17. ASSUME NEW f \in Crons, EnqueueFired(f) PROVE HealthyInv'
    <3>1. CASE ~Healthy
      BY <2>17, <3>1, NotHealthy DEF EnqueueFired, Healthy
    <3>2. CASE Healthy
      <4>1. open
        BY <3>2 DEF Healthy, QueueInv, ProcessMemory
      <4>2. pending' = pending \cup {fired[f]} /\ taken' = taken
        BY <2>17, <4>1 DEF EnqueueFired, Queue!Accept, Queue!Refuse
      <4>3. \A g \in Crons : g # f => fired'[g] = fired[g]
        BY <2>17 DEF EnqueueFired, TypeOK
      <4>4. UNCHANGED <<status, jobSource, main, ctxDone, faults, batch, worker>>
        BY <2>17 DEF EnqueueFired
      <4>5. RunningIsWorkedOn' /\ TakenIsFinished'
        BY <4>2, <4>4 DEF HealthyInv, RunningIsWorkedOn, TakenIsFinished, Healthy
      <4>6. NewJobsAreHeld'
        BY <4>2, <4>3, <4>4 DEF HealthyInv, NewJobsAreHeld, Healthy, Unfinished
      <4>7. QED  BY <4>5, <4>6 DEF HealthyInv
    <3>3. QED  BY <3>1, <3>2
  <2>18. CASE StopCron
    BY <2>18, NotHealthy DEF StopCron, Healthy
  <2>19. CASE Dequeue
    <3>1. /\ worker.at = "idle" /\ worker.job = NoJob
          /\ UNCHANGED <<status, jobSource, main, ctxDone, faults, batch, fired>>
      BY <2>19 DEF Dequeue, WorkerAt, WorkerFrame, TypeOK, WorkerStates, JobSteps
    <3>2. ASSUME NEW j \in pending, Queue!HandOver(j),
                 worker' = [IdleWorker EXCEPT !.at = "load", !.job = j]
          PROVE  HealthyInv'
      <4>1. /\ pending' = pending \ {j} /\ taken' = taken \cup {j}
            /\ worker'.job = j /\ worker'.at = "load"
        BY <3>2 DEF Queue!HandOver, IdleWorker
      <4>2. NoJob \notin taken /\ NoJob \notin Jobs
        BY DEF TypeOK, Jobs, NoJob
      <4>3. RunningIsWorkedOn' /\ TakenIsFinished'
        BY <3>1, <4>1, <4>2 DEF HealthyInv, RunningIsWorkedOn, TakenIsFinished, Healthy
      <4>4. NewJobsAreHeld'
        BY <3>1, <4>1, <4>2 DEF HealthyInv, NewJobsAreHeld, Healthy, Unfinished
      <4>5. QED  BY <4>3, <4>4 DEF HealthyInv
    <3>3. CASE GoTo("exited") /\ (~open \/ ctxDone) /\ UNCHANGED queueVars
      BY <3>1, <3>3, NotHealthy DEF Healthy, QueueInv, ProcessMemory
    <3>4. QED  BY <2>19, <3>2, <3>3 DEF Dequeue
  <2>20. CASE Load
    <3>1. CASE Healthy'
      <4>1. /\ Healthy /\ ~ctxDone /\ faults' = faults /\ ~Fault
            /\ UNCHANGED <<status, queueVars>> /\ WorkerFrame
        BY <2>20, <3>1, FaultsCount DEF Healthy, Load, WorkerOK, WorkerFault, WorkerFrame
      <4>2. worker \in WorkerStates /\ worker.at \in JobSteps
        BY <2>20 DEF Load, WorkerAt, JobSteps, TypeOK
      <4>3. /\ [worker EXCEPT !.at = "start", !.go = TRUE].job = worker.job
            /\ [worker EXCEPT !.at = "checkSource", !.source = jobSource[worker.job]].job = worker.job
        BY <4>2 DEF WorkerStates
      <4>4. worker'.job = worker.job
        BY <2>20, <4>1, <4>3 DEF Load, WorkerFault
      <4>5. worker.at = "load"
        BY <2>20 DEF Load, WorkerAt
      <4>6. QED  BY <4>1, <4>2, <4>4, <4>5, WorkerStepKeepsHealth
    <3>2. QED  BY <3>1, NotHealthy
  <2>21. CASE CheckSource
    <3>1. CASE Healthy'
      <4>1. /\ Healthy /\ ~ctxDone /\ faults' = faults /\ ~Fault
            /\ UNCHANGED <<status, queueVars>> /\ WorkerFrame
        BY <2>21, <3>1, FaultsCount DEF Healthy, CheckSource, WorkerOK, WorkerFault, WorkerFrame
      <4>2. worker \in WorkerStates /\ worker.at \in JobSteps
        BY <2>21 DEF CheckSource, WorkerAt, JobSteps, TypeOK
      <4>3. \A step : [worker EXCEPT !.at = step].job = worker.job
        BY <4>2 DEF WorkerStates
      <4>4. worker.at = "checkSource" /\ worker.job \in Jobs
        BY <2>21, <4>2 DEF CheckSource, WorkerAt, WorkerStates
      <4>5. CASE source[worker.source] = "deleted"
        <5>1. jobSource[worker.job] = NoSource
          BY <4>4, <4>5 DEF WorkerKnows, TypeOK
        <5>2. QED  BY <4>1, <4>2, <4>4, <5>1, WorkerStepKeepsHealth
      <4>6. CASE source[worker.source] # "deleted"
        <5>1. worker'.job = worker.job
          BY <2>21, <4>1, <4>3, <4>6 DEF CheckSource, WorkerFault, GoTo
        <5>2. QED  BY <4>1, <4>2, <4>4, <5>1, WorkerStepKeepsHealth
      <4>7. QED  BY <4>5, <4>6
    <3>2. QED  BY <3>1, NotHealthy
  <2>22. CASE CheckDevices
    <3>1. CASE Healthy'
      <4>1. /\ Healthy /\ ~ctxDone /\ faults' = faults /\ ~Fault
            /\ UNCHANGED <<status, queueVars>> /\ WorkerFrame
        BY <2>22, <3>1, FaultsCount DEF Healthy, CheckDevices, WorkerOK, WorkerFault, WorkerFrame
      <4>2. worker \in WorkerStates /\ worker.at \in JobSteps
        BY <2>22 DEF CheckDevices, WorkerAt, JobSteps, TypeOK
      <4>3. \A g \in BOOLEAN : [worker EXCEPT !.at = "start", !.go = g].job = worker.job
        BY <4>2 DEF WorkerStates
      <4>4. worker'.job = worker.job
        BY <2>22, <4>1, <4>3 DEF CheckDevices, WorkerFault
      <4>5. worker.at = "checkDevices"
        BY <2>22 DEF CheckDevices, WorkerAt
      <4>6. QED  BY <4>1, <4>2, <4>4, <4>5, WorkerStepKeepsHealth
    <3>2. QED  BY <3>1, NotHealthy
  <2>23. CASE StartJob
    <3>1. CASE Healthy'
      <4>1. /\ Healthy /\ ~ctxDone /\ faults' = faults /\ ~Fault
            /\ UNCHANGED queueVars /\ WorkerFrame
        BY <2>23, <3>1, FaultsCount DEF Healthy, StartJob, WorkerOK, WorkerFault, WorkerFrame
      <4>2. worker \in WorkerStates /\ worker.at \in JobSteps /\ worker.job \in Jobs
        BY <2>23 DEF StartJob, WorkerAt, JobSteps, TypeOK, WorkerStates
      <4>3. worker.at = "start" /\ status[worker.job] = "queued"
        BY <2>23 DEF StartJob, WorkerAt, WorkerKnows
      <4>4. GoTo("reread") /\ status' = [status EXCEPT ![worker.job] = "running"]
        BY <2>23, <4>1, <4>3 DEF StartJob, WorkerFault, Rows!Move, Rows!ValidTransitions
      <4>5. worker'.job = worker.job /\ worker'.at = "reread"
        BY <4>2, <4>4 DEF GoTo, WorkerStates
      <4>6. \A j \in Jobs : j # worker.job => status'[j] = status[j]
        BY <4>4 DEF TypeOK
      <4>7. RunningIsWorkedOn'
        BY <4>1, <4>3, <4>5, <4>6 DEF HealthyInv, RunningIsWorkedOn
      <4>8. TakenIsFinished'
        BY <4>1, <4>5, <4>6 DEF HealthyInv, TakenIsFinished, WorkerFrame, TypeOK
      <4>9. NewJobsAreHeld'
        BY <4>1, <4>5, <4>6 DEF HealthyInv, NewJobsAreHeld, WorkerFrame, Unfinished
      <4>10. QED  BY <4>7, <4>8, <4>9 DEF HealthyInv
    <3>2. QED  BY <3>1, NotHealthy
  <2>24. CASE RereadJob
    <3>1. CASE Healthy'
      <4>1. /\ Healthy /\ ~ctxDone /\ faults' = faults /\ ~Fault
            /\ UNCHANGED <<status, queueVars>> /\ WorkerFrame
        BY <2>24, <3>1, FaultsCount DEF Healthy, RereadJob, WorkerOK, WorkerFault, WorkerFrame
      <4>2. worker \in WorkerStates /\ worker.at \in JobSteps
        BY <2>24 DEF RereadJob, WorkerAt, JobSteps, TypeOK
      <4>3. \A step : /\ [worker EXCEPT !.at = step].job = worker.job
                      /\ [worker EXCEPT !.at = step].at = step
        BY <4>2 DEF WorkerStates
      <4>4. worker'.job = worker.job /\ worker'.at \in {"work", "finish"}
        BY <2>24, <4>1, <4>3 DEF RereadJob, WorkerFault, GoTo
      <4>5. QED  BY <4>1, <4>2, <4>4, WorkerStepKeepsHealth
    <3>2. QED  BY <3>1, NotHealthy
  <2>25. CASE SyncSource
    <3>1. CASE Healthy'
      <4>1. /\ Healthy /\ ~ctxDone /\ faults' = faults /\ ~Fault
            /\ UNCHANGED <<status, queueVars>> /\ WorkerFrame
        BY <2>25, <3>1, FaultsCount DEF Healthy, SyncSource, WorkerOK, WorkerFault, WorkerFrame
      <4>2. worker \in WorkerStates /\ worker.at \in JobSteps
        BY <2>25 DEF SyncSource, WorkerAt, JobSteps, TypeOK
      <4>3. \A step : /\ [worker EXCEPT !.at = step].job = worker.job
                      /\ [worker EXCEPT !.at = step].at = step
        BY <4>2 DEF WorkerStates
      <4>4. worker'.job = worker.job /\ worker'.at \in {"finish", "fail"}
        BY <2>25, <4>1, <4>3 DEF SyncSource, GoTo
      <4>5. QED  BY <4>1, <4>2, <4>4, WorkerStepKeepsHealth
    <3>2. QED  BY <3>1, NotHealthy
  <2>26. CASE FinishJob
    <3>1. CASE Healthy'
      <4>1. /\ Healthy /\ ~ctxDone /\ faults' = faults /\ ~Fault
            /\ UNCHANGED queueVars /\ WorkerFrame
        BY <2>26, <3>1, FaultsCount DEF Healthy, FinishJob, WorkerOK, WorkerFault, WorkerFrame
      <4>2. worker \in WorkerStates /\ worker.at \in JobSteps /\ worker.job \in Jobs
        BY <2>26 DEF FinishJob, WorkerAt, JobSteps, TypeOK, WorkerStates
      <4>3. PICK to \in {"succeeded", "failed"} : status' = [status EXCEPT ![worker.job] = to]
        BY <2>26, <4>1 DEF FinishJob, WorkerFault, Rows!Move
      <4>4. \A j \in Jobs : status'[j] = IF j = worker.job THEN to ELSE status[j]
        BY <4>2, <4>3 DEF TypeOK
      <4>5. RunningIsWorkedOn'
        BY <4>1, <4>4 DEF HealthyInv, RunningIsWorkedOn
      <4>6. TakenIsFinished'
        BY <4>1, <4>4 DEF HealthyInv, TakenIsFinished, WorkerFrame, TypeOK, Rows!Finished
      <4>7. NewJobsAreHeld'
        BY <4>1, <4>4 DEF HealthyInv, NewJobsAreHeld, WorkerFrame, Unfinished
      <4>8. QED  BY <4>5, <4>6, <4>7 DEF HealthyInv
    <3>2. QED  BY <3>1, NotHealthy
  <2>27. CASE UNCHANGED vars
    BY <2>27 DEF vars, HealthyInv, RunningIsWorkedOn, TakenIsFinished, NewJobsAreHeld, Unfinished, Healthy
  <2>28. QED
    BY <2>1, <2>2, <2>3, <2>4, <2>5, <2>6, <2>7, <2>8, <2>9, <2>10, <2>11, <2>12, <2>13, <2>14, <2>15,
       <2>16, <2>17, <2>18, <2>19, <2>20, <2>21, <2>22, <2>23, <2>24, <2>25, <2>26, <2>27
    DEF Next, MainStep, Process
<1>3. QED
  BY <1>1, <1>2, TypeCorrect, QueueInvCorrect, RecoveryInvCorrect, WorkerKnowsCorrect, PTL DEF Spec

\* In a healthy run a row says running only while the worker is on it.
THEOREM RunningIsWorkedOnCorrect == Spec => []RunningIsWorkedOn
<1>1. HealthyInv => RunningIsWorkedOn
  BY DEF HealthyInv
<1>2. QED  BY <1>1, HealthyInvCorrect, PTL

\* In a healthy run every job the worker is done with is finished, unless its
\* source was deleted under the precheck.
THEOREM TakenIsFinishedCorrect == Spec => []TakenIsFinished
<1>1. HealthyInv => TakenIsFinished
  BY DEF HealthyInv
<1>2. QED  BY <1>1, HealthyInvCorrect, PTL

\* In a healthy run no job created by cron is lost on its way to the worker.
THEOREM NewJobsAreHeldCorrect == Spec => []NewJobsAreHeld
<1>1. HealthyInv => NewJobsAreHeld
  BY DEF HealthyInv
<1>2. QED  BY <1>1, HealthyInvCorrect, PTL
=============================================================================
