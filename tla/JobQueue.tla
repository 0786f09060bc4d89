------------------------------ MODULE JobQueue ------------------------------
(***************************************************************************)
(* internal/queue: the in-memory queue between the scheduler's cron        *)
(* goroutines (Enqueue), the runner's worker loop (DequeueBlocks) and the  *)
(* shutdown path (Close), one action per critical section of q.mu and per  *)
(* operation on the unbuffered channel q.ch.  What happens between two     *)
(* critical sections of one goroutine is where the other ones interleave.  *)
(*                                                                         *)
(* A send in `select { case ch <- id: default: }` succeeds only if a       *)
(* receiver is already parked on the channel, and panics if the channel    *)
(* is closed.  A parked receiver leaves the channel the moment its context *)
(* is cancelled or the channel is closed, whichever comes first.           *)
(*                                                                         *)
(* Ids are UUIDs the queue only compares for equality, and each is offered *)
(* once, so the model numbers them in the order in which the critical      *)
(* sections of Enqueue handle them: 1, 2, ...                              *)
(***************************************************************************)
EXTENDS Naturals, Sequences, FiniteSets, SequencesExt

CONSTANTS MaxJobs,     \* bound: how many ids are offered to the queue
          Producers,   \* goroutines that call Enqueue
          Consumers,   \* goroutines that loop over DequeueBlocks
          Closers      \* goroutines that call Close

ASSUME MaxJobsAssumption == MaxJobs \in Nat
ASSUME ConsumersAssumption == IsFiniteSet(Consumers) /\ Consumers # {}

VARIABLES
  jobs,       \* q.jobs
  closed,     \* q.closed
  chClosed,   \* whether close(q.ch) has run
  sending,    \* per producer: the id appended and not yet signalled, or NoJob
  cons,       \* per consumer: where it stands in its loop
  signal,     \* per consumer: the value it received from the channel
  closing,    \* the closers between their unlock and close(q.ch)
  ctxDone,    \* whether the consumers' context is cancelled
  panicked,   \* whether a goroutine panicked (the process is gone)
  \* history, never read by the program:
  accepted,   \* how many ids were appended to q.jobs: the ids 1..accepted
  delivered,  \* ids DequeueBlocks or Dequeue returned, in order
  drained,    \* ids Drain discarded
  dropped     \* how many ids Enqueue refused after those

queueVars   == <<jobs, closed, chClosed>>
threadVars  == <<sending, cons, signal, closing>>
historyVars == <<accepted, delivered, drained, dropped>>
vars == <<queueVars, threadVars, ctxDone, panicked, historyVars>>

Jobs == 1..MaxJobs

NoJob == 0   \* the zero value ("") a closed channel yields

\* A panic in any goroutine ends the process.
Running == ~panicked

ConsumerPCs == {"call", "select", "parked", "received", "busy", "exited"}

TypeOK ==
  /\ jobs \in Seq(Jobs)
  /\ closed \in BOOLEAN
  /\ chClosed \in BOOLEAN
  /\ sending \in [Producers -> Jobs \cup {NoJob}]
  /\ cons \in [Consumers -> ConsumerPCs]
  /\ signal \in [Consumers -> Jobs \cup {NoJob}]
  /\ closing \in SUBSET Closers
  /\ ctxDone \in BOOLEAN
  /\ panicked \in BOOLEAN
  /\ accepted \in 0..MaxJobs
  /\ delivered \in Seq(Jobs)
  /\ drained \in SUBSET Jobs
  /\ dropped \in 0..MaxJobs

Init ==
  /\ jobs = <<>>
  /\ closed = FALSE
  /\ chClosed = FALSE
  /\ sending = [p \in Producers |-> NoJob]
  /\ cons = [c \in Consumers |-> "call"]
  /\ signal = [c \in Consumers |-> NoJob]
  /\ closing = {}
  /\ ctxDone = FALSE
  /\ panicked = FALSE
  /\ accepted = 0
  /\ delivered = <<>>
  /\ drained = {}
  /\ dropped = 0
-----------------------------------------------------------------------------
(* Enqueue *)

\* Fault: the closed flag is not looked at.
EnqueueLocked_IgnoresClosed(p) ==
  /\ Running
  /\ sending[p] = NoJob
  /\ accepted + dropped < MaxJobs
  /\ jobs' = Append(jobs, accepted + 1)
  /\ accepted' = accepted + 1
  /\ sending' = [sending EXCEPT ![p] = accepted + 1]
  /\ UNCHANGED <<closed, chClosed, cons, signal, closing, ctxDone, panicked,
                 delivered, drained, dropped>>

\* Fault: the id signalled is not the one appended.
EnqueueLocked_WrongSignal(p) ==
  /\ Running
  /\ sending[p] = NoJob
  /\ ~closed
  /\ accepted < MaxJobs
  /\ jobs' = Append(jobs, accepted + 1)
  /\ accepted' = accepted + 1
  /\ sending' = [sending EXCEPT ![p] = accepted + 2]
  /\ UNCHANGED <<closed, chClosed, cons, signal, closing, ctxDone, panicked,
                 delivered, drained, dropped>>

\* The critical section of Enqueue: refuse on a closed queue, append otherwise.
EnqueueLocked(p) ==
  /\ Running
  /\ sending[p] = NoJob
  /\ accepted + dropped < MaxJobs
  /\ IF closed
     THEN /\ dropped' = dropped + 1
          /\ UNCHANGED <<jobs, sending, accepted>>
     ELSE LET id == accepted + 1
          IN /\ jobs' = Append(jobs, id)
             /\ accepted' = id
             /\ sending' = [sending EXCEPT ![p] = id]
             /\ UNCHANGED dropped
  /\ UNCHANGED <<closed, chClosed, cons, signal, closing, ctxDone, panicked, delivered, drained>>

\* The non-blocking send after the unlock, with a receiver parked on the channel.
SignalParked(p, c) ==
  /\ Running
  /\ sending[p] # NoJob
  /\ ~chClosed
  /\ cons[c] = "parked"
  /\ cons' = [cons EXCEPT ![c] = "received"]
  /\ signal' = [signal EXCEPT ![c] = sending[p]]
  /\ sending' = [sending EXCEPT ![p] = NoJob]
  /\ UNCHANGED <<queueVars, closing, ctxDone, panicked, historyVars>>

\* The non-blocking send with nobody parked: the default branch.
SignalNobody(p) ==
  /\ Running
  /\ sending[p] # NoJob
  /\ ~chClosed
  /\ \A c \in Consumers : cons[c] # "parked"
  /\ sending' = [sending EXCEPT ![p] = NoJob]
  /\ UNCHANGED <<queueVars, cons, signal, closing, ctxDone, panicked, historyVars>>

\* The same send once the channel is closed: Go panics, default branch or not,
\* and nothing recovers it in a cron goroutine.
SignalClosed(p) ==
  /\ Running
  /\ sending[p] # NoJob
  /\ chClosed
  /\ panicked' = TRUE
  /\ UNCHANGED <<queueVars, threadVars, ctxDone, historyVars>>
-----------------------------------------------------------------------------
(* DequeueBlocks, called in a loop by the runner's worker *)

PopHead ==
  /\ jobs # <<>>
  /\ delivered' = Append(delivered, Head(jobs))
  /\ jobs' = Tail(jobs)

\* Fault: closed is checked before the pending jobs.
DequeueLocked_ClosedFirst(c) ==
  /\ Running
  /\ cons[c] = "call"
  /\ \/ ~closed /\ PopHead /\ cons' = [cons EXCEPT ![c] = "busy"]
     \/ /\ closed \/ jobs = <<>>
        /\ cons' = [cons EXCEPT ![c] = IF closed THEN "exited" ELSE "select"]
        /\ UNCHANGED <<jobs, delivered>>
  /\ UNCHANGED <<closed, chClosed, sending, signal, closing, ctxDone, panicked,
                 accepted, drained, dropped>>

\* Fault: the newest id is taken instead of the oldest.
DequeueLocked_Newest(c) ==
  /\ Running
  /\ cons[c] = "call"
  /\ \/ /\ jobs # <<>>
        /\ delivered' = Append(delivered, jobs[Len(jobs)])
        /\ jobs' = SubSeq(jobs, 1, Len(jobs) - 1)
        /\ cons' = [cons EXCEPT ![c] = "busy"]
     \/ /\ jobs = <<>>
        /\ cons' = [cons EXCEPT ![c] = IF closed THEN "exited" ELSE "select"]
        /\ UNCHANGED <<jobs, delivered>>
  /\ UNCHANGED <<closed, chClosed, sending, signal, closing, ctxDone, panicked,
                 accepted, drained, dropped>>

\* The critical section at the top of the loop: return the head, or return
\* false on a closed empty queue, or go on to the select.
DequeueLocked(c) ==
  /\ Running
  /\ cons[c] = "call"
  /\ \/ /\ PopHead
        /\ cons' = [cons EXCEPT ![c] = "busy"]
     \/ /\ jobs = <<>>
        /\ cons' = [cons EXCEPT ![c] = IF closed THEN "exited" ELSE "select"]
        /\ UNCHANGED <<jobs, delivered>>
  /\ UNCHANGED <<closed, chClosed, sending, signal, closing, ctxDone, panicked,
                 accepted, drained, dropped>>

\* Reaching the select: a closed channel and a cancelled context are both
\* ready cases, and Go picks either; with neither, the goroutine parks.
Select(c) ==
  /\ Running
  /\ cons[c] = "select"
  /\ \/ /\ chClosed
        /\ cons' = [cons EXCEPT ![c] = "received"]
        /\ signal' = [signal EXCEPT ![c] = NoJob]
     \/ /\ ctxDone
        /\ cons' = [cons EXCEPT ![c] = "exited"]
        /\ UNCHANGED signal
     \/ /\ ~chClosed /\ ~ctxDone
        /\ cons' = [cons EXCEPT ![c] = "parked"]
        /\ UNCHANGED signal
  /\ UNCHANGED <<queueVars, sending, closing, ctxDone, panicked, historyVars>>

\* Fault: the received id is returned without looking whether it is still pending.
TakeSignalled_Trusting(c) ==
  /\ Running
  /\ cons[c] = "received"
  /\ signal[c] # NoJob
  /\ jobs' = SelectSeq(jobs, LAMBDA j : j # signal[c])
  /\ delivered' = Append(delivered, signal[c])
  /\ cons' = [cons EXCEPT ![c] = "busy"]
  /\ UNCHANGED <<closed, chClosed, sending, signal, closing, ctxDone, panicked,
                 accepted, drained, dropped>>

\* The critical section after a receive: take the received id out of the
\* pending ones, wherever it stands, or start over when it is gone.
TakeSignalled(c) ==
  /\ Running
  /\ cons[c] = "received"
  /\ \/ \E i \in DOMAIN jobs :
          /\ jobs[i] = signal[c]
          /\ \A k \in 1..(i - 1) : jobs[k] # signal[c]
          /\ jobs' = RemoveAt(jobs, i)
          /\ delivered' = Append(delivered, signal[c])
          /\ cons' = [cons EXCEPT ![c] = "busy"]
     \/ /\ signal[c] \notin Range(jobs)
        /\ cons' = [cons EXCEPT ![c] = "call"]
        /\ UNCHANGED <<jobs, delivered>>
  /\ UNCHANGED <<closed, chClosed, sending, signal, closing, ctxDone, panicked,
                 accepted, drained, dropped>>

\* The worker has processed the job and calls DequeueBlocks again.
NextCall(c) ==
  /\ Running
  /\ cons[c] = "busy"
  /\ cons' = [cons EXCEPT ![c] = "call"]
  /\ UNCHANGED <<queueVars, sending, signal, closing, ctxDone, panicked, historyVars>>
-----------------------------------------------------------------------------
(* The other operations *)

\* Dequeue, the non-blocking variant.
Dequeue ==
  /\ Running
  /\ PopHead
  /\ UNCHANGED <<closed, chClosed, threadVars, ctxDone, panicked, accepted, drained, dropped>>

Drain ==
  /\ Running
  /\ jobs # <<>>
  /\ drained' = drained \cup Range(jobs)
  /\ jobs' = <<>>
  /\ UNCHANGED <<closed, chClosed, threadVars, ctxDone, panicked, accepted, delivered, dropped>>

\* The critical section of Close; a second Close returns without effect.
CloseLocked(k) ==
  /\ Running
  /\ ~closed
  /\ closed' = TRUE
  /\ closing' = closing \cup {k}
  /\ UNCHANGED <<jobs, chClosed, sending, cons, signal, ctxDone, panicked, historyVars>>

\* close(q.ch) after the unlock: every parked receiver gets the zero value;
\* closing a closed channel would panic.
CloseChannel(k) ==
  /\ Running
  /\ k \in closing
  /\ closing' = closing \ {k}
  /\ IF chClosed
     THEN /\ panicked' = TRUE
          /\ UNCHANGED <<chClosed, cons, signal>>
     ELSE /\ chClosed' = TRUE
          /\ signal' = [c \in Consumers |-> IF cons[c] = "parked" THEN NoJob ELSE signal[c]]
          /\ cons' = [c \in Consumers |-> IF cons[c] = "parked" THEN "received" ELSE cons[c]]
          /\ UNCHANGED panicked
  /\ UNCHANGED <<jobs, closed, sending, ctxDone, historyVars>>

\* Fault: the select in DequeueBlocks has no ctx.Done() case.
Cancel_WakesNobody ==
  /\ Running
  /\ ~ctxDone
  /\ ctxDone' = TRUE
  /\ UNCHANGED <<queueVars, threadVars, panicked, historyVars>>

\* The application cancels the context: every parked receiver returns false.
Cancel ==
  /\ Running
  /\ ~ctxDone
  /\ ctxDone' = TRUE
  /\ cons' = [c \in Consumers |-> IF cons[c] = "parked" THEN "exited" ELSE cons[c]]
  /\ UNCHANGED <<queueVars, sending, signal, closing, panicked, historyVars>>
-----------------------------------------------------------------------------
Signal(p) == SignalNobody(p) \/ SignalClosed(p) \/ \E c \in Consumers : SignalParked(p, c)

Consume(c) == DequeueLocked(c) \/ Select(c) \/ TakeSignalled(c) \/ NextCall(c)

Next ==
  \/ \E p \in Producers : EnqueueLocked(p) \/ Signal(p)
  \/ \E c \in Consumers : Consume(c)
  \/ \E k \in Closers : CloseLocked(k) \/ CloseChannel(k)
  \/ Dequeue
  \/ Drain
  \/ Cancel

Spec == Init /\ [][Next]_vars

\* A goroutine that can run eventually runs: the second half of an Enqueue or
\* a Close, and the worker, whose jobs end.  Nobody has to enqueue, close,
\* drain or cancel.
Fairness ==
  /\ \A p \in Producers : WF_vars(Signal(p))
  /\ \A c \in Consumers : WF_vars(Consume(c))
  /\ \A k \in Closers : WF_vars(CloseChannel(k))

FairSpec == Spec /\ Fairness
-----------------------------------------------------------------------------
(* Properties *)

\* Every accepted id is, at any moment, in exactly one place -- still pending,
\* handed out once, or drained -- although two workers can compete for one id
\* (one through the channel, the other through the head of q.jobs) and Drain
\* can run between a signal and its receiver's critical section.
ExactlyOnce ==
  /\ 1..accepted = Range(jobs) \cup Range(delivered) \cup drained
  /\ Range(jobs) \cap Range(delivered) = {}
  /\ drained \cap (Range(jobs) \cup Range(delivered)) = {}
  /\ IsInjective(jobs) /\ IsInjective(delivered)

\* "Jobs already in the queue remain for dequeue until drained" (Close): a
\* worker gives up on a closed queue only when nothing is left behind in it.
NothingLeftBehind ==
  (closed /\ ~ctxDone /\ \E c \in Consumers : cons[c] = "exited") => jobs = <<>>

\* Hand-over through the channel is out of order, but a worker can jump the
\* line of a pending id only with the one signal it received before it looks
\* at the queue again: no id is overtaken by more ids than there are workers.
Overtakers(j) ==
  {k \in (j + 1)..accepted :
     \E d \in DOMAIN delivered :
        /\ delivered[d] = k
        /\ \A e \in 1..d : delivered[e] # j}

BoundedOvertaking ==
  \A j \in (1..accepted) \ drained : Cardinality(Overtakers(j)) <= Cardinality(Consumers)

\* The queue implements the abstract pool: where an id is follows from q.jobs
\* and from what was handed out, drained or refused.
Pool == INSTANCE WorkPool WITH
          open       <- ~closed,
          pending    <- Range(jobs),
          handedOver <- Range(delivered),
          discarded  <- drained,
          refused    <- (accepted + 1)..(accepted + dropped)

ImplementsPool == Pool!PoolSpec

\* Once the queue is closed or the context cancelled, every worker leaves its
\* loop: no worker stays parked, not even one that parked between the two halves
\* of Close.  (The jobs of a run are finite.)
WorkersStop == (closed \/ ctxDone) ~> (panicked \/ \A c \in Consumers : cons[c] = "exited")

\* Enqueue: "receiver always waits via <-q.ch ... We signal via the channel to
\* wake them up": an accepted job does not stay pending while a worker waits.
NoJobStranded ==
  \A j \in Jobs : j \in Range(jobs) ~> (panicked \/ ctxDone \/ j \notin Range(jobs))
=============================================================================
