------------------------------ MODULE Lifecycle ------------------------------
(***************************************************************************)
(* One installation of Walens over many runs of the process: boot with its *)
(* recovery pass (internal/app), cron goroutines that create and enqueue   *)
(* jobs (internal/scheduler), the worker that processes them               *)
(* (internal/runner with internal/services/jobs), the shutdown sequence,   *)
(* and crashes between any two steps.  Job rows survive; the queue, the    *)
(* worker and the cron goroutines do not.                                  *)
(*                                                                         *)
(* One action per database statement that matters, so that signals,        *)
(* crashes, other goroutines and the user's changes to sources fall        *)
(* between them.  A statement of the worker fails once its context is      *)
(* cancelled; any statement can fail for a reason of its own (a "fault").  *)
(* The queue is the pool of module WorkPool, which JobQueue implements.    *)
(***************************************************************************)
EXTENDS Naturals, FiniteSets

CONSTANTS Sources,    \* configured source rows
          NoSource,   \* source_id IS NULL
          Crons,      \* goroutines cron runs executeScheduledJob on
          MaxJobs,    \* bound: job rows ever created; rows are numbered as created
          MaxBoots,   \* bound: runs of the process
          MaxFaults   \* bound: statements that fail on their own, per run

ASSUME BoundsAssumption == MaxJobs \in Nat /\ MaxBoots \in Nat /\ MaxFaults \in Nat
ASSUME NoSourceAssumption == NoSource \notin Sources

Jobs     == 1..MaxJobs
NoJob    == 0

VARIABLES
  source,    \* per source row: what the precheck will see of it
  status,    \* per job row: its status
  trigger,   \* per job row: its trigger_kind
  jobSource, \* per job row: its source_id
  created,   \* how many rows exist: the jobs 1..created
  \* memory of the process:
  main,      \* where the main goroutine stands
  ctxDone,   \* whether the signal context is cancelled
  batch,     \* recoverJobs: jobsToRecover
  open, pending, taken, refused,   \* the current queue (see WorkPool)
  cronOn,    \* whether cron fires entries
  fired,     \* per cron goroutine: the job it created and has not enqueued, or NoJob
  worker,    \* the runner's worker: where it stands and what it read of its job
  \* bookkeeping of the bounds:
  boots,     \* runs of the process so far
  faults     \* statements that failed on their own in this run

rowVars    == <<status, trigger, jobSource, created>>
queueVars  == <<open, pending, taken, refused>>
cronVars   == <<cronOn, fired>>
vars == <<source, rowVars, main, ctxDone, batch, queueVars, cronVars, worker, boots, faults>>

Rows  == INSTANCE JobRows
Queue == INSTANCE WorkPool WITH handedOver <- taken, discarded <- {}

SourceStates == {"ready", "unsubscribed", "disabled", "deleted"}

BootSteps     == {"select", "reset", "mark", "enqueue", "wire"}
ShutdownSteps == {"stopRunner", "stopScheduler", "exit"}
MainSteps     == {"down", "serving"} \cup BootSteps \cup ShutdownSteps

JobSteps == {"load", "checkSource", "checkDevices", "start", "reread", "work", "finish", "fail"}

\* go: the precheck's verdict; source: the source_id of the row as last read.
WorkerStates ==
  [at : JobSteps, job : Jobs, source : Sources \cup {NoSource}, go : BOOLEAN] \cup
  [at : {"idle", "exited"}, job : {NoJob}, source : {NoSource}, go : {FALSE}]

IdleWorker == [at |-> "idle", job |-> NoJob, source |-> NoSource, go |-> FALSE]

TypeOK ==
  /\ source \in [Sources -> SourceStates]
  /\ status \in [Jobs -> Rows!Statuses]
  /\ trigger \in [Jobs -> {"schedule", "recovery"}]
  /\ jobSource \in [Jobs -> Sources \cup {NoSource}]
  /\ created \in 0..MaxJobs
  /\ main \in MainSteps
  /\ ctxDone \in BOOLEAN
  /\ batch \in SUBSET Jobs
  /\ open \in BOOLEAN
  /\ pending \in SUBSET Jobs /\ taken \in SUBSET Jobs /\ refused \in SUBSET Jobs
  /\ cronOn \in BOOLEAN
  /\ fired \in [Crons -> Jobs \cup {NoJob}]
  /\ worker \in WorkerStates
  /\ boots \in 0..MaxBoots
  /\ faults \in 0..MaxFaults

Init ==
  /\ source \in [Sources -> SourceStates \ {"deleted"}]
  /\ status = [j \in Jobs |-> "none"]
  /\ trigger = [j \in Jobs |-> "schedule"]
  /\ jobSource = [j \in Jobs |-> NoSource]
  /\ created = 0
  /\ main = "down"
  /\ ctxDone = FALSE
  /\ batch = {}
  /\ Queue!PoolInit
  /\ cronOn = FALSE
  /\ fired = [f \in Crons |-> NoJob]
  /\ worker = IdleWorker
  /\ boots = 0
  /\ faults = 0
-----------------------------------------------------------------------------
(* Statements that fail *)

\* A statement under context.Background() fails only on its own.
Fault == faults < MaxFaults /\ faults' = faults + 1

\* A statement under the worker's context also fails once that is cancelled.
WorkerFault == IF ctxDone THEN UNCHANGED faults ELSE Fault
WorkerOK    == ~ctxDone /\ UNCHANGED faults
-----------------------------------------------------------------------------
(* Boot: initDB and Start *)

Boot ==
  /\ main = "down"
  /\ boots < MaxBoots
  /\ boots' = boots + 1
  /\ main' = "select"
  /\ UNCHANGED <<source, rowVars, ctxDone, batch, queueVars, cronVars, worker, faults>>

Unfinished == {j \in Jobs : status[j] \in {"queued", "running"}}

\* Fault: only the interrupted rows are selected.
GetJobsForRecovery_RunningOnly ==
  /\ main = "select"
  /\ batch' = {j \in Jobs : status[j] = "running"}
  /\ main' = "reset"
  /\ UNCHANGED <<source, rowVars, ctxDone, queueVars, cronVars, worker, boots, faults>>

\* An error ends the recovery pass, with a warning; so does an empty result.
GetJobsForRecovery ==
  /\ main = "select"
  /\ \/ /\ batch' = Unfinished
        /\ main' = IF batch' = {} THEN "wire" ELSE "reset"
        /\ UNCHANGED faults
     \/ Fault /\ main' = "wire" /\ UNCHANGED batch
  /\ UNCHANGED <<source, rowVars, ctxDone, queueVars, cronVars, worker, boots>>

\* Fault: the WHERE clause is missing.
RecoverRunningJobs_AllRows ==
  /\ main = "reset"
  /\ main' = "mark"
  /\ status' = [j \in Jobs |-> IF status[j] = "none" THEN "none" ELSE "queued"]
  /\ UNCHANGED <<source, trigger, jobSource, created, ctxDone, batch, queueVars, cronVars,
                 worker, boots, faults>>

\* Fault: the interrupted rows are left as they are.
RecoverRunningJobs_Skipped ==
  /\ main = "reset"
  /\ main' = "mark"
  /\ UNCHANGED <<source, rowVars, ctxDone, batch, queueVars, cronVars, worker, boots, faults>>

\* An error of this statement or of the next one is only logged.
RecoverRunningJobs ==
  /\ main = "reset"
  /\ main' = "mark"
  /\ \/ Rows!Recover /\ UNCHANGED faults
     \/ Fault /\ UNCHANGED status
  /\ UNCHANGED <<source, trigger, jobSource, created, ctxDone, batch, queueVars, cronVars,
                 worker, boots>>

\* Fault: the kind written is not one of the kinds of jobs.
MarkJobsForRecovery_UnknownKind ==
  /\ main = "mark"
  /\ main' = "enqueue"
  /\ trigger' = [j \in Jobs |-> IF j \in batch THEN "recovered" ELSE trigger[j]]
  /\ UNCHANGED <<source, status, jobSource, created, ctxDone, batch, queueVars, cronVars,
                 worker, boots, faults>>

MarkJobsForRecovery ==
  /\ main = "mark"
  /\ main' = "enqueue"
  /\ \/ /\ trigger' = [j \in Jobs |-> IF j \in batch THEN "recovery" ELSE trigger[j]]
        /\ UNCHANGED faults
     \/ Fault /\ UNCHANGED trigger
  /\ UNCHANGED <<source, status, jobSource, created, ctxDone, batch, queueVars, cronVars,
                 worker, boots>>

\* The loop that enqueues jobsToRecover, into the queue New created.
EnqueueRecovered ==
  /\ main = "enqueue"
  /\ main' = "wire"
  /\ pending' = pending \cup batch
  /\ UNCHANGED <<source, rowVars, ctxDone, batch, open, taken, refused, cronVars, worker,
                 boots, faults>>

\* queue.New
NewQueue == open' = TRUE /\ pending' = {} /\ taken' = {} /\ refused' = {}

\* The rest of initDB, which replaces the queue by a new one, then the start
\* of the scheduler, the worker and the HTTP server.
Wire ==
  /\ main = "wire"
  /\ main' = "serving"
  /\ NewQueue
  /\ cronOn' = TRUE
  /\ UNCHANGED <<source, rowVars, ctxDone, batch, fired, worker, boots, faults>>
-----------------------------------------------------------------------------
(* The environment of a running process *)

\* SIGINT or SIGTERM.
Signal ==
  /\ main # "down"
  /\ ~ctxDone
  /\ ctxDone' = TRUE
  /\ UNCHANGED <<source, rowVars, main, batch, queueVars, cronVars, worker, boots, faults>>

\* A user enables, disables, subscribes to or unsubscribes from a source row.
ChangeSource(s, to) ==
  /\ main \in {"serving"} \cup ShutdownSteps
  /\ source[s] # "deleted"
  /\ to \in SourceStates \ {"deleted", source[s]}
  /\ source' = [source EXCEPT ![s] = to]
  /\ UNCHANGED <<rowVars, main, ctxDone, batch, queueVars, cronVars, worker, boots, faults>>

\* A user deletes a source row: ON DELETE SET NULL on jobs.source_id.
DeleteSource(s) ==
  /\ main \in {"serving"} \cup ShutdownSteps
  /\ source[s] # "deleted"
  /\ source' = [source EXCEPT ![s] = "deleted"]
  /\ jobSource' = [j \in Jobs |-> IF jobSource[j] = s THEN NoSource ELSE jobSource[j]]
  /\ UNCHANGED <<status, trigger, created, main, ctxDone, batch, queueVars, cronVars, worker,
                 boots, faults>>
-----------------------------------------------------------------------------
(* executeScheduledJob, on a cron goroutine *)

\* CreateJob's INSERT, for any source whose entry cron still has: a deleted
\* source fails the foreign key, and then nothing else happens.
CreateJob(f, s) ==
  /\ cronOn
  /\ fired[f] = NoJob
  /\ source[s] # "deleted"
  /\ created < MaxJobs
  /\ created' = created + 1
  /\ Rows!Create(created + 1)
  /\ jobSource' = [jobSource EXCEPT ![created + 1] = s]
  /\ fired' = [fired EXCEPT ![f] = created + 1]
  /\ UNCHANGED <<source, trigger, main, ctxDone, batch, queueVars, cronOn, worker, boots, faults>>

\* CreateJob's read-back fails after the INSERT: the job is not enqueued.
CreateJobFails(f) ==
  /\ fired[f] # NoJob
  /\ Fault
  /\ fired' = [fired EXCEPT ![f] = NoJob]
  /\ UNCHANGED <<source, rowVars, main, ctxDone, batch, queueVars, cronOn, worker, boots>>

\* Fault: the goroutine enqueues its job again.
EnqueueFired_Twice(f) ==
  /\ fired[f] # NoJob
  /\ open
  /\ pending' = pending \cup {fired[f]}
  /\ UNCHANGED <<source, rowVars, main, ctxDone, batch, open, taken, refused, cronVars, worker,
                 boots, faults>>

EnqueueFired(f) ==
  /\ fired[f] # NoJob
  /\ Queue!Accept(fired[f]) \/ Queue!Refuse(fired[f])
  /\ fired' = [fired EXCEPT ![f] = NoJob]
  /\ UNCHANGED <<source, rowVars, main, ctxDone, batch, cronOn, worker, boots, faults>>

\* Scheduler.run: the cancelled context stops cron, not the goroutines it started.
StopCron ==
  /\ main # "down"
  /\ cronOn
  /\ ctxDone
  /\ cronOn' = FALSE
  /\ UNCHANGED <<source, rowVars, main, ctxDone, batch, queueVars, fired, worker, boots, faults>>
-----------------------------------------------------------------------------
(* The worker: run, ProcessJob, PrecheckAndStartJob, processSourceSyncJob *)

WorkerAt(step) == worker.at = step /\ main \notin {"down"} \cup BootSteps

\* What a step of the worker never touches.
WorkerFrame == UNCHANGED <<source, trigger, jobSource, created, main, ctxDone, batch, cronVars, boots>>

GoTo(step) == worker' = [worker EXCEPT !.at = step]

\* Back to the loop of run; an error was logged.
Done == worker' = IdleWorker

\* DequeueBlocks hands out a pending job, cancelled context or not; with none
\* pending it returns false once the queue is closed or the context cancelled.
Dequeue ==
  /\ WorkerAt("idle")
  /\ \/ \E j \in pending : /\ Queue!HandOver(j)
                           /\ worker' = [IdleWorker EXCEPT !.at = "load", !.job = j]
     \/ /\ pending = {} /\ (~open \/ ctxDone)
        /\ GoTo("exited")
        /\ UNCHANGED queueVars
  /\ UNCHANGED <<status, faults>> /\ WorkerFrame

\* PrecheckAndStartJob's GetJob: a row without a source needs no precheck.
Load ==
  /\ WorkerAt("load")
  /\ \/ /\ WorkerOK
        /\ jobSource[worker.job] = NoSource
        /\ worker' = [worker EXCEPT !.at = "start", !.go = TRUE]
     \/ /\ WorkerOK
        /\ jobSource[worker.job] # NoSource
        /\ worker' = [worker EXCEPT !.at = "checkSource", !.source = jobSource[worker.job]]
     \/ WorkerFault /\ Done
  /\ UNCHANGED <<status, queueVars>> /\ WorkerFrame

\* CheckSourceAndSubscriptions: a source deleted since then is an error.
CheckSource ==
  /\ WorkerAt("checkSource")
  /\ \/ /\ WorkerOK
        /\ CASE source[worker.source] = "deleted"  -> Done
             [] source[worker.source] = "disabled" -> GoTo("start")
             [] OTHER                              -> GoTo("checkDevices")
     \/ WorkerFault /\ Done
  /\ UNCHANGED <<status, queueVars>> /\ WorkerFrame

\* Its second query: the enabled devices subscribed to the source.
CheckDevices ==
  /\ WorkerAt("checkDevices")
  /\ \/ /\ WorkerOK
        /\ worker' = [worker EXCEPT !.at = "start",
                                    !.go = source[worker.source] \notin {"unsubscribed", "deleted"}]
     \/ WorkerFault /\ Done
  /\ UNCHANGED <<status, queueVars>> /\ WorkerFrame

\* Fault: the skipped job is neither started nor completed.
StartJob_SkipsRow ==
  /\ WorkerAt("start")
  /\ WorkerOK
  /\ IF worker.go THEN status' = [status EXCEPT ![worker.job] = "running"] /\ GoTo("reread")
                  ELSE Done /\ UNCHANGED status
  /\ UNCHANGED queueVars /\ WorkerFrame

\* StartJob up to its UPDATE, refused when the row is not queued.
StartJob ==
  /\ WorkerAt("start")
  /\ \/ /\ WorkerOK
        /\ \/ Rows!Move(worker.job, "running") /\ GoTo("reread")
           \/ /\ <<status[worker.job], "running">> \notin Rows!ValidTransitions
              /\ Done /\ UNCHANGED status
     \/ WorkerFault /\ Done /\ UNCHANGED status
  /\ UNCHANGED queueVars /\ WorkerFrame

\* StartJob's read-back, the row ProcessJob goes on with: a skipped job, or a
\* job without a source, goes straight to CompleteJob.
RereadJob ==
  /\ WorkerAt("reread")
  /\ \/ /\ WorkerOK
        /\ GoTo(IF worker.go /\ jobSource[worker.job] # NoSource THEN "work" ELSE "finish")
     \/ WorkerFault /\ Done
  /\ UNCHANGED <<status, queueVars>> /\ WorkerFrame

\* processSourceSyncJob, whose images other modules model: it succeeds (also
\* when nobody is subscribed any more) or fails, and fails for sure at its
\* first statement under a cancelled context.
SyncSource ==
  /\ WorkerAt("work")
  /\ \/ ~ctxDone /\ GoTo("finish")
     \/ GoTo("fail")
  /\ UNCHANGED <<status, queueVars, faults>> /\ WorkerFrame

\* Fault: an error of the sync is returned without FailJob.
FinishJob_OnlySuccess ==
  /\ worker.at \in {"finish", "fail"} /\ main \notin {"down"} \cup BootSteps
  /\ \/ /\ worker.at = "finish" /\ WorkerOK
        /\ Rows!Move(worker.job, "succeeded")
     \/ /\ worker.at = "fail" /\ UNCHANGED <<status, faults>>
  /\ Done
  /\ UNCHANGED queueVars /\ WorkerFrame

\* CompleteJob and FailJob, whose own errors are only logged.
FinishJob ==
  /\ worker.at \in {"finish", "fail"} /\ main \notin {"down"} \cup BootSteps
  /\ \/ /\ WorkerOK
        /\ Rows!Move(worker.job, IF worker.at = "finish" THEN "succeeded" ELSE "failed")
     \/ WorkerFault /\ UNCHANGED status
  /\ Done
  /\ UNCHANGED queueVars /\ WorkerFrame
-----------------------------------------------------------------------------
(* Shutdown: startHTTPServer returns, then waitForShutdown *)

\* The HTTP server has shut down, and a.queue.Close() refuses what comes now.
CloseQueue ==
  /\ main = "serving"
  /\ ctxDone
  /\ Queue!Shut
  /\ main' = "stopRunner"
  /\ UNCHANGED <<source, rowVars, ctxDone, batch, cronVars, worker, boots, faults>>

\* Fault: Stop waits for the worker without a time limit.
StopRunner_NoTimeout ==
  /\ main = "stopRunner"
  /\ worker.at = "exited"
  /\ main' = "stopScheduler"
  /\ UNCHANGED <<source, rowVars, ctxDone, batch, queueVars, cronVars, worker, boots, faults>>

\* Runner.Stop, which cancels nothing as the queue is closed: the worker has
\* exited, or 30 seconds are over.
StopRunner ==
  /\ main = "stopRunner"
  /\ main' = "stopScheduler"
  /\ UNCHANGED <<source, rowVars, ctxDone, batch, queueVars, cronVars, worker, boots, faults>>

StopScheduler ==
  /\ main = "stopScheduler"
  /\ main' = "exit"
  /\ cronOn' = FALSE
  /\ UNCHANGED <<source, rowVars, ctxDone, batch, queueVars, fired, worker, boots, faults>>

\* The process ends: after db.Close(), or at any moment -- a crash, a panic of
\* a cron goroutine, an error returned from Start.  Its memory is gone.
ProcessEnds ==
  /\ main' = "down"
  /\ ctxDone' = FALSE
  /\ batch' = {}
  /\ NewQueue
  /\ cronOn' = FALSE
  /\ fired' = [f \in Crons |-> NoJob]
  /\ worker' = IdleWorker
  /\ faults' = 0
  /\ UNCHANGED <<source, rowVars, boots>>

Exit == main = "exit" /\ ProcessEnds

Crash == main \notin {"down", "exit"} /\ ProcessEnds
-----------------------------------------------------------------------------
MainStep ==
  \/ GetJobsForRecovery \/ RecoverRunningJobs \/ MarkJobsForRecovery \/ EnqueueRecovered \/ Wire
  \/ CloseQueue \/ StopRunner \/ StopScheduler \/ Exit

Process == Load \/ CheckSource \/ CheckDevices \/ StartJob \/ RereadJob \/ SyncSource \/ FinishJob

Next ==
  \/ Boot \/ MainStep \/ Crash \/ Signal
  \/ \E s \in Sources : DeleteSource(s) \/ \E to \in SourceStates : ChangeSource(s, to)
  \/ \E f \in Crons : \/ \E s \in Sources : CreateJob(f, s)
                      \/ CreateJobFails(f) \/ EnqueueFired(f)
  \/ StopCron
  \/ Dequeue \/ Process

Spec == Init /\ [][Next]_vars

\* The main goroutine takes its next step, the 30 s timer of Runner.Stop
\* included.  Nothing else has to happen: the worker may hang in a sync.
Fairness == WF_vars(MainStep)

FairSpec == Spec /\ Fairness
-----------------------------------------------------------------------------
(* Properties *)

\* Nothing has gone wrong in this run: no statement failed, no shutdown began.
Healthy == main = "serving" /\ ~ctxDone /\ faults = 0

\* What the current queue holds is a job of this run whose row is queued, which
\* no cron goroutine is about to enqueue once more and which the worker has not
\* had: StartJob never refuses a job for its status, and none is run twice.
PendingIsQueued ==
  main \notin BootSteps =>
    \A j \in pending : /\ status[j] = "queued"
                       /\ j \notin taken
                       /\ \A f \in Crons : fired[f] # j

\* The rows implement the state machine of the jobs service across crashes,
\* recovery passes and failing statements: a finished job is never reopened,
\* and a running one goes back to queued only in a recovery pass.
ImplementsRows == Rows!RowsSpec

\* In a healthy run a row says running only while the worker is working on it:
\* nothing of an earlier run that ended anywhere is left running, and every
\* way out of ProcessJob finishes what it started.
RunningIsWorkedOn ==
  Healthy =>
    \A j \in Jobs : status[j] = "running" =>
                     worker.job = j /\ worker.at \in {"reread", "work", "finish", "fail"}

\* In a healthy run every job the worker is done with is finished, unless its
\* source was deleted under the precheck.
TakenIsFinished ==
  Healthy =>
    \A j \in taken \ {worker.job} : status[j] \in Rows!Finished \/ jobSource[j] = NoSource

\* In a healthy run every unfinished row that this run did not take over from
\* an earlier one is in some goroutine's or the queue's hands: a job created
\* by cron is not lost between its INSERT, its Enqueue and the worker.
NewJobsAreHeld ==
  Healthy =>
    \A j \in Unfinished \ batch :
       \/ j \in pending \cup {worker.job}
       \/ \E f \in Crons : fired[f] = j
       \/ jobSource[j] = NoSource

\* The recovery pass, when none of its statements fails, covers every
\* unfinished row, wherever the earlier runs ended: all of them are queued
\* again, marked as recovered, and in the queue it filled.
RecoveryComplete ==
  (main = "wire" /\ faults = 0) =>
    /\ pending = Unfinished
    /\ \A j \in Unfinished : status[j] = "queued" /\ trigger[j] = "recovery"

\* A signalled process ends, however many statements fail and whatever the
\* worker is doing.
ShutdownCompletes == ctxDone ~> main = "down"

\* recoverJobs "marks them for recovery, and enqueues them in the in-memory
\* queue": once the process serves, each recovered job is in its queue or was
\* taken from it.
RecoveredJobsAreEnqueued ==
  Healthy => batch \subseteq pending \cup taken
=============================================================================
