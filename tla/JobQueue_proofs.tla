--------------------------- MODULE JobQueue_proofs ---------------------------
(***************************************************************************)
(* Proofs about JobQueue, for any number of ids, producers, workers and    *)
(* closers: type correctness, that every accepted id is in exactly one     *)
(* place, that a worker leaves a closed queue only when it is empty, that  *)
(* overtaking is bounded, and that the queue implements WorkPool.          *)
(***************************************************************************)
EXTENDS JobQueue, TLAPS, SequenceTheorems, FiniteSetTheorems

-----------------------------------------------------------------------------
(* Facts about the sequence operators the queue is built from *)

\* RemoveAt drops one position and shifts the ones behind it.
LEMMA RemoveAtProperties ==
  ASSUME NEW S, NEW s \in Seq(S), NEW i \in 1..Len(s)
  PROVE  /\ RemoveAt(s, i) \in Seq(S)
         /\ Len(RemoveAt(s, i)) = Len(s) - 1
         /\ \A k \in 1..(Len(s) - 1) :
              RemoveAt(s, i)[k] = IF k < i THEN s[k] ELSE s[k + 1]
<1> DEFINE front == SubSeq(s, 1, i - 1)
           back  == SubSeq(s, i + 1, Len(s))
<1>1. /\ front \in Seq(S) /\ Len(front) = i - 1
      /\ \A k \in 1..(i - 1) : front[k] = s[k]
  <2>1. \A k \in 1..(i - 1) : s[k] \in S
    BY ElementOfSeq, LenProperties
  <2>2. QED  BY <2>1, SubSeqProperties, LenProperties
<1>2. /\ back \in Seq(S) /\ Len(back) = Len(s) - i
      /\ \A k \in 1..(Len(s) - i) : back[k] = s[k + i]
  <2>1. \A k \in (i + 1)..Len(s) : s[k] \in S
    BY ElementOfSeq, LenProperties
  <2>2. Len(s) \in Nat /\ i \in Int /\ i + 1 \in Int
    BY LenProperties
  <2>3. QED  BY <2>1, <2>2, SubSeqProperties
<1>3. RemoveAt(s, i) = front \o back
  BY DEF RemoveAt
<1> HIDE DEF front, back
<1>4. Len(s) \in Nat /\ i \in 1..Len(s)
  BY LenProperties
<1>5. /\ RemoveAt(s, i) \in Seq(S)
      /\ Len(RemoveAt(s, i)) = Len(front) + Len(back)
      /\ \A k \in 1..(Len(front) + Len(back)) :
           RemoveAt(s, i)[k] = IF k <= Len(front) THEN front[k] ELSE back[k - Len(front)]
  <2>1. front \in Seq(S) /\ back \in Seq(S)
    BY <1>1, <1>2
  <2>2. /\ front \o back \in Seq(S)
        /\ Len(front \o back) = Len(front) + Len(back)
        /\ \A k \in 1..(Len(front) + Len(back)) :
             (front \o back)[k] = IF k <= Len(front) THEN front[k] ELSE back[k - Len(front)]
    BY <2>1, ConcatProperties
  <2>3. QED  BY <1>3, <2>2
<1>6. Len(front) + Len(back) = Len(s) - 1
  BY <1>1, <1>2, <1>4
<1>7. ASSUME NEW k \in 1..(Len(s) - 1)
      PROVE  RemoveAt(s, i)[k] = IF k < i THEN s[k] ELSE s[k + 1]
  <2>1. RemoveAt(s, i)[k] = IF k <= Len(front) THEN front[k] ELSE back[k - Len(front)]
    BY <1>5, <1>6
  <2>2. CASE k < i
    <3>1. k <= Len(front) /\ front[k] = s[k]
      BY <2>2, <1>1, <1>4
    <3>2. QED  BY <2>1, <2>2, <3>1
  <2>3. CASE ~(k < i)
    <3>1. ~(k <= Len(front)) /\ k - Len(front) \in 1..(Len(s) - i)
      BY <2>3, <1>1, <1>4
    <3>2. back[k - Len(front)] = s[(k - Len(front)) + i]
      BY <3>1, <1>2
    <3>3. (k - Len(front)) + i = k + 1
      BY <1>1, <1>4
    <3>4. QED  BY <2>1, <2>3, <3>1, <3>2, <3>3
  <2>4. QED  BY <2>2, <2>3
<1>8. QED  BY <1>5, <1>6, <1>7

\* Taking one position out of a sequence without duplicates removes exactly
\* that element.
LEMMA RemoveAtDistinct ==
  ASSUME NEW S, NEW s \in Seq(S), NEW i \in 1..Len(s), IsInjective(s)
  PROVE  /\ Range(RemoveAt(s, i)) = Range(s) \ {s[i]}
         /\ IsInjective(RemoveAt(s, i))
<1> DEFINE r == RemoveAt(s, i)
<1>1. /\ r \in Seq(S) /\ Len(r) = Len(s) - 1
      /\ \A k \in 1..(Len(s) - 1) : r[k] = IF k < i THEN s[k] ELSE s[k + 1]
  BY RemoveAtProperties
<1>2. /\ Len(s) \in Nat
      /\ DOMAIN s = 1..Len(s)
      /\ DOMAIN r = 1..(Len(s) - 1)
  BY <1>1, LenProperties
<1> HIDE DEF r
<1>3. \A a, b \in 1..Len(s) : s[a] = s[b] => a = b
  BY <1>2 DEF IsInjective
<1>4. IsInjective(r)
  BY <1>1, <1>2, <1>3 DEF IsInjective
<1>5. Range(r) \subseteq Range(s) \ {s[i]}
  <2>1. ASSUME NEW k \in 1..(Len(s) - 1)  PROVE r[k] \in Range(s) \ {s[i]}
    <3>1. CASE k < i
      <4>1. k \in 1..Len(s) /\ k # i  BY <1>2, <3>1
      <4>2. r[k] = s[k]  BY <1>1, <3>1
      <4>. QED  BY <1>2, <1>3, <4>1, <4>2 DEF Range
    <3>2. CASE ~ k < i
      <4>1. k + 1 \in 1..Len(s) /\ k + 1 # i  BY <1>2, <3>2
      <4>2. r[k] = s[k + 1]  BY <1>1, <3>2
      <4>. QED  BY <1>2, <1>3, <4>1, <4>2 DEF Range
    <3>. QED  BY <3>1, <3>2
  <2>. QED  BY <1>2, <2>1 DEF Range
<1>6. ASSUME NEW k \in 1..Len(s), k # i
      PROVE  s[k] \in Range(r)
  <2>1. CASE k < i
    BY <2>1, <1>1, <1>2 DEF Range
  <2>2. CASE k > i
    <3>1. k - 1 \in DOMAIN r /\ r[k - 1] = s[k]
      BY <2>2, <1>1, <1>2
    <3>2. QED  BY <3>1 DEF Range
  <2>3. QED  BY <1>2, <1>6, <2>1, <2>2
<1>7. Range(s) \ {s[i]} \subseteq Range(r)
  BY <1>2, <1>6 DEF Range
<1>8. QED  BY <1>4, <1>5, <1>7 DEF r

\* The head of a sequence without duplicates is in no position of its tail.
LEMMA TailDistinct ==
  ASSUME NEW S, NEW s \in Seq(S), s # <<>>, IsInjective(s)
  PROVE  /\ Head(s) \in Range(s)
         /\ Range(Tail(s)) = Range(s) \ {Head(s)}
         /\ IsInjective(Tail(s))
<1>1. /\ Tail(s) \in Seq(S) /\ Len(Tail(s)) = Len(s) - 1
      /\ \A k \in 1..Len(Tail(s)) : Tail(s)[k] = s[k + 1]
      /\ Head(s) = s[1]
  BY HeadTailProperties
<1>2. /\ Len(s) \in Nat \ {0}
      /\ DOMAIN s = 1..Len(s)
      /\ DOMAIN Tail(s) = 1..(Len(s) - 1)
  BY <1>1, EmptySeq, LenProperties
<1>3. \A a, b \in 1..Len(s) : s[a] = s[b] => a = b
  BY <1>2 DEF IsInjective
<1>4. IsInjective(Tail(s))
  BY <1>1, <1>2, <1>3 DEF IsInjective
<1>5. Head(s) \in Range(s)
  BY <1>1, <1>2 DEF Range
<1>6. Range(Tail(s)) \subseteq Range(s) \ {Head(s)}
  BY <1>1, <1>2, <1>3 DEF Range
<1>7. ASSUME NEW k \in 1..Len(s), k # 1
      PROVE  s[k] \in Range(Tail(s))
  <2>1. k - 1 \in DOMAIN Tail(s) /\ Tail(s)[k - 1] = s[k]
    BY <1>1, <1>2, <1>7
  <2>2. QED  BY <2>1 DEF Range
<1>8. Range(s) \ {Head(s)} \subseteq Range(Tail(s))
  BY <1>1, <1>2, <1>7 DEF Range
<1>9. QED  BY <1>4, <1>5, <1>6, <1>8

\* Appending a new element keeps a sequence free of duplicates.
LEMMA AppendDistinct ==
  ASSUME NEW S, NEW s \in Seq(S), NEW e \in S
  PROVE  /\ Range(Append(s, e)) = Range(s) \cup {e}
         /\ IsInjective(s) /\ e \notin Range(s) => IsInjective(Append(s, e))
<1>1. /\ Append(s, e) \in Seq(S)
      /\ Len(Append(s, e)) = Len(s) + 1
      /\ \A i \in 1..Len(s) : Append(s, e)[i] = s[i]
      /\ Append(s, e)[Len(s) + 1] = e
  BY AppendProperties
<1>2. /\ Len(s) \in Nat
      /\ DOMAIN s = 1..Len(s)
      /\ DOMAIN Append(s, e) = 1..(Len(s) + 1)
  BY <1>1, LenProperties
<1>3. Range(Append(s, e)) \subseteq Range(s) \cup {e}
  BY <1>1, <1>2 DEF Range
<1>4. Range(s) \cup {e} \subseteq Range(Append(s, e))
  <2>1. e \in Range(Append(s, e))
    BY <1>1, <1>2 DEF Range
  <2>2. \A i \in 1..Len(s) : s[i] \in Range(Append(s, e))
    BY <1>1, <1>2 DEF Range
  <2>3. QED  BY <2>1, <2>2, <1>2 DEF Range
<1>5. ASSUME IsInjective(s), e \notin Range(s)
      PROVE  IsInjective(Append(s, e))
  BY <1>1, <1>2, <1>5 DEF IsInjective, Range
<1>6. QED  BY <1>3, <1>4, <1>5
-----------------------------------------------------------------------------
(* Safety of the queue *)

\* Type correctness: every variable of the queue keeps its type, in particular
\* the id a receiver finds in its hand is an id or the channel's zero value.
THEOREM TypeCorrect == Spec => []TypeOK
<1>1. Init => TypeOK
  <2> SUFFICES ASSUME Init PROVE TypeOK
    OBVIOUS
  <2>1. accepted \in 0..MaxJobs /\ dropped \in 0..MaxJobs
    BY MaxJobsAssumption DEF Init
  <2>2. jobs \in Seq(Jobs) /\ delivered \in Seq(Jobs)
    BY EmptySeq DEF Init
  <2>3. QED  BY <2>1, <2>2 DEF Init, TypeOK, ConsumerPCs
<1>2. TypeOK /\ [Next]_vars => TypeOK'
  <2> SUFFICES ASSUME TypeOK, [Next]_vars PROVE TypeOK'
    OBVIOUS
  <2> USE DEF TypeOK, queueVars, threadVars, historyVars
  <2>1. ASSUME NEW p \in Producers, EnqueueLocked(p) PROVE TypeOK'
    <3>1. CASE closed
      BY <2>1, <3>1, MaxJobsAssumption DEF EnqueueLocked
    <3>2. CASE ~closed
      <4>1. accepted + 1 \in Jobs /\ accepted + 1 \in 0..MaxJobs
        BY <2>1, MaxJobsAssumption DEF EnqueueLocked, Jobs
      <4>2. Append(jobs, accepted + 1) \in Seq(Jobs)
        BY <4>1, AppendProperties
      <4>3. QED  BY <2>1, <3>2, <4>1, <4>2 DEF EnqueueLocked
    <3>3. QED  BY <3>1, <3>2
  <2>2. ASSUME NEW p \in Producers, Signal(p) PROVE TypeOK'
    <3>1. CASE SignalNobody(p)
      BY <3>1 DEF SignalNobody
    <3>2. CASE SignalClosed(p)
      BY <3>2 DEF SignalClosed
    <3>3. ASSUME NEW c \in Consumers, SignalParked(p, c) PROVE TypeOK'
      BY <3>3 DEF SignalParked, ConsumerPCs
    <3>4. QED  BY <2>2, <3>1, <3>2, <3>3 DEF Signal
  <2>3. PopHead => delivered' \in Seq(Jobs) /\ jobs' \in Seq(Jobs)
    BY HeadTailProperties, AppendProperties DEF PopHead
  <2>4. ASSUME NEW c \in Consumers, Consume(c) PROVE TypeOK'
    <3>1. CASE DequeueLocked(c)
      BY <3>1, <2>3 DEF DequeueLocked, ConsumerPCs
    <3>2. CASE Select(c)
      BY <3>2 DEF Select, ConsumerPCs
    <3>3. CASE TakeSignalled(c)
      <4>1. ASSUME NEW i \in DOMAIN jobs, jobs[i] = signal[c]
            PROVE  RemoveAt(jobs, i) \in Seq(Jobs) /\ Append(delivered, signal[c]) \in Seq(Jobs)
        <5>1. i \in 1..Len(jobs) /\ signal[c] \in Jobs
          BY <4>1, LenProperties, ElementOfSeq
        <5>2. QED  BY <5>1, RemoveAtProperties, AppendProperties
      <4>2. QED  BY <3>3, <4>1 DEF TakeSignalled, ConsumerPCs
    <3>4. CASE NextCall(c)
      BY <3>4 DEF NextCall, ConsumerPCs
    <3>5. QED  BY <2>4, <3>1, <3>2, <3>3, <3>4 DEF Consume
  <2>5. ASSUME NEW k \in Closers, CloseLocked(k) \/ CloseChannel(k) PROVE TypeOK'
    <3>1. CASE CloseLocked(k)
      BY <3>1 DEF CloseLocked
    <3>2. CASE CloseChannel(k)
      BY <3>2 DEF CloseChannel, ConsumerPCs
    <3>3. QED  BY <2>5, <3>1, <3>2
  <2>6. CASE Dequeue
    BY <2>6, <2>3 DEF Dequeue
  <2>7. CASE Drain
    BY <2>7, EmptySeq, RangeOfSeq DEF Drain
  <2>8. CASE Cancel
    BY <2>8 DEF Cancel, ConsumerPCs
  <2>9. CASE UNCHANGED vars
    BY <2>9 DEF vars
  <2>10. QED
    BY <2>1, <2>2, <2>4, <2>5, <2>6, <2>7, <2>8, <2>9 DEF Next
<1>3. QED  BY <1>1, <1>2, PTL DEF Spec

\* The step facts behind ExactlyOnce, one per way an id can move.
LEMMA PopKeepsExactlyOnce ==
  ASSUME TypeOK, ExactlyOnce, PopHead, UNCHANGED <<accepted, drained>>
  PROVE  ExactlyOnce'
<1>1. /\ jobs \in Seq(Jobs) /\ jobs # <<>> /\ IsInjective(jobs)
      /\ delivered \in Seq(Jobs) /\ IsInjective(delivered)
  BY DEF TypeOK, ExactlyOnce, PopHead
<1>2. /\ Head(jobs) \in Range(jobs) /\ Head(jobs) \in Jobs
      /\ Range(jobs') = Range(jobs) \ {Head(jobs)}
      /\ IsInjective(jobs')
  BY <1>1, TailDistinct, HeadTailProperties DEF PopHead
<1>3. Range(delivered') = Range(delivered) \cup {Head(jobs)} /\ IsInjective(delivered')
  BY <1>1, <1>2, AppendDistinct DEF PopHead, ExactlyOnce
<1>4. QED  BY <1>1, <1>2, <1>3 DEF ExactlyOnce

LEMMA AppendKeepsExactlyOnce ==
  ASSUME TypeOK, ExactlyOnce, accepted < MaxJobs,
         jobs' = Append(jobs, accepted + 1), accepted' = accepted + 1,
         UNCHANGED <<delivered, drained>>
  PROVE  ExactlyOnce'
<1>1. jobs \in Seq(Jobs) /\ accepted \in Nat /\ accepted + 1 \in Jobs
  BY MaxJobsAssumption DEF TypeOK, Jobs
<1>2. accepted + 1 \notin 1..accepted /\ 1..(accepted + 1) = 1..accepted \cup {accepted + 1}
  BY <1>1
<1>3. Range(jobs') = Range(jobs) \cup {accepted + 1} /\ IsInjective(jobs')
  BY <1>1, <1>2, AppendDistinct DEF ExactlyOnce
<1>4. QED  BY <1>2, <1>3 DEF ExactlyOnce

LEMMA TakeKeepsExactlyOnce ==
  ASSUME TypeOK, ExactlyOnce, NEW c \in Consumers, TakeSignalled(c)
  PROVE  ExactlyOnce'
<1>1. CASE UNCHANGED <<jobs, delivered>>
  BY <1>1 DEF TakeSignalled, ExactlyOnce
<1>2. ASSUME NEW i \in DOMAIN jobs, jobs[i] = signal[c], jobs' = RemoveAt(jobs, i),
             delivered' = Append(delivered, signal[c])
      PROVE  ExactlyOnce'
  <2>1. /\ jobs \in Seq(Jobs) /\ IsInjective(jobs) /\ i \in 1..Len(jobs)
        /\ delivered \in Seq(Jobs) /\ IsInjective(delivered)
        /\ signal[c] \in Range(jobs) /\ signal[c] \in Jobs
    <3>1. jobs \in Seq(Jobs)
      BY DEF TypeOK
    <3>2. i \in 1..Len(jobs)
      BY <3>1, LenProperties
    <3>3. QED  BY <1>2, <3>1, <3>2, ElementOfSeq DEF TypeOK, ExactlyOnce, Range
  <2>2. Range(jobs') = Range(jobs) \ {signal[c]} /\ IsInjective(jobs')
    BY <1>2, <2>1, RemoveAtDistinct
  <2>3. Range(delivered') = Range(delivered) \cup {signal[c]} /\ IsInjective(delivered')
    BY <1>2, <2>1, AppendDistinct DEF ExactlyOnce
  <2>4. UNCHANGED <<accepted, drained>>
    BY DEF TakeSignalled
  <2>5. QED  BY <2>1, <2>2, <2>3, <2>4 DEF ExactlyOnce
<1>3. QED  BY <1>1, <1>2 DEF TakeSignalled

LEMMA DrainKeepsExactlyOnce ==
  ASSUME ExactlyOnce, Drain
  PROVE  ExactlyOnce'
<1>1. Range(jobs') = {} /\ IsInjective(jobs')
  BY DEF Drain, Range, IsInjective
<1>2. QED  BY <1>1 DEF Drain, ExactlyOnce

\* Every accepted id is pending, handed out once or drained, and never two of
\* these.  With TypeOK the property is inductive: a receiver that finds its id
\* gone does not hand it out, and a new id is greater than every other one.
THEOREM ExactlyOnceCorrect == Spec => []ExactlyOnce
<1>1. Init => ExactlyOnce
  <2> SUFFICES ASSUME Init PROVE ExactlyOnce
    OBVIOUS
  <2>1. 1..accepted = {} /\ Range(jobs) = {} /\ Range(delivered) = {} /\ drained = {}
    BY DEF Init, Range
  <2>2. IsInjective(jobs) /\ IsInjective(delivered)
    BY DEF Init, IsInjective
  <2>3. QED  BY <2>1, <2>2 DEF ExactlyOnce
<1>2. TypeOK /\ ExactlyOnce /\ [Next]_vars => ExactlyOnce'
  <2> SUFFICES ASSUME TypeOK, ExactlyOnce, [Next]_vars PROVE ExactlyOnce'
    OBVIOUS
  <2> USE DEF queueVars, threadVars, historyVars
  <2>1. UNCHANGED <<jobs, accepted, delivered, drained>> => ExactlyOnce'
    BY DEF ExactlyOnce
  <2>2. ASSUME NEW p \in Producers, EnqueueLocked(p) PROVE ExactlyOnce'
    <3>1. CASE closed
      BY <2>1, <2>2, <3>1 DEF EnqueueLocked
    <3>2. CASE ~closed
      <4>1. accepted < MaxJobs
        BY <2>2, MaxJobsAssumption DEF EnqueueLocked, TypeOK
      <4>2. QED  BY <2>2, <3>2, <4>1, AppendKeepsExactlyOnce DEF EnqueueLocked
    <3>3. QED  BY <3>1, <3>2
  <2>3. ASSUME NEW p \in Producers, Signal(p) PROVE ExactlyOnce'
    BY <2>1, <2>3 DEF Signal, SignalNobody, SignalClosed, SignalParked
  <2>4. ASSUME NEW c \in Consumers, Consume(c) PROVE ExactlyOnce'
    <3>1. CASE DequeueLocked(c)
      BY <2>1, <3>1, PopKeepsExactlyOnce DEF DequeueLocked
    <3>2. CASE Select(c)
      BY <2>1, <3>2 DEF Select
    <3>3. CASE TakeSignalled(c)
      BY <3>3, TakeKeepsExactlyOnce
    <3>4. CASE NextCall(c)
      BY <2>1, <3>4 DEF NextCall
    <3>5. QED  BY <2>4, <3>1, <3>2, <3>3, <3>4 DEF Consume
  <2>5. ASSUME NEW k \in Closers, CloseLocked(k) \/ CloseChannel(k) PROVE ExactlyOnce'
    BY <2>1, <2>5 DEF CloseLocked, CloseChannel
  <2>6. CASE Dequeue
    BY <2>6, PopKeepsExactlyOnce DEF Dequeue
  <2>7. CASE Drain
    BY <2>7, DrainKeepsExactlyOnce
  <2>8. CASE Cancel
    BY <2>1, <2>8 DEF Cancel
  <2>9. CASE UNCHANGED vars
    BY <2>1, <2>9 DEF vars
  <2>10. QED
    BY <2>2, <2>3, <2>4, <2>5, <2>6, <2>7, <2>8, <2>9 DEF Next
<1>3. QED  BY <1>1, <1>2, TypeCorrect, PTL DEF Spec

\* Invariant behind NothingLeftBehind: short of a cancelled context a worker
\* exits only when it finds the queue closed and empty, and it stays so.
ExitedEmpty ==
  (~ctxDone /\ \E c \in Consumers : cons[c] = "exited") => closed /\ jobs = <<>>

\* "Jobs already in the queue remain for dequeue until drained": a worker that
\* leaves a closed queue leaves no job behind, whatever other goroutines do.
THEOREM NothingLeftBehindCorrect == Spec => []NothingLeftBehind
<1>1. Init => ExitedEmpty
  BY DEF Init, ExitedEmpty
<1>2. TypeOK /\ ExitedEmpty /\ [Next]_vars => ExitedEmpty'
  <2> SUFFICES ASSUME TypeOK, ExitedEmpty, [Next]_vars PROVE ExitedEmpty'
    OBVIOUS
  <2> USE DEF ExitedEmpty, queueVars, threadVars, historyVars
  <2>1. ASSUME NEW p \in Producers, EnqueueLocked(p) PROVE ExitedEmpty'
    BY <2>1 DEF EnqueueLocked
  <2>2. ASSUME NEW p \in Producers, Signal(p) PROVE ExitedEmpty'
    BY <2>2 DEF Signal, SignalNobody, SignalClosed, SignalParked, TypeOK
  <2>3. ASSUME NEW c \in Consumers, Consume(c) PROVE ExitedEmpty'
    <3>1. CASE DequeueLocked(c)
      BY <3>1 DEF DequeueLocked, PopHead, TypeOK
    <3>2. CASE Select(c)
      BY <3>2 DEF Select, TypeOK
    <3>3. CASE TakeSignalled(c)
      <4>1. jobs = <<>> => DOMAIN jobs = {}
        OBVIOUS
      <4>2. QED  BY <3>3, <4>1 DEF TakeSignalled, TypeOK
    <3>4. CASE NextCall(c)
      BY <3>4 DEF NextCall, TypeOK
    <3>5. QED  BY <2>3, <3>1, <3>2, <3>3, <3>4 DEF Consume
  <2>4. ASSUME NEW k \in Closers, CloseLocked(k) \/ CloseChannel(k) PROVE ExitedEmpty'
    BY <2>4 DEF CloseLocked, CloseChannel, TypeOK
  <2>5. CASE Dequeue
    BY <2>5 DEF Dequeue, PopHead
  <2>6. CASE Drain
    BY <2>6 DEF Drain
  <2>7. CASE Cancel
    BY <2>7 DEF Cancel
  <2>8. CASE UNCHANGED vars
    BY <2>8 DEF vars
  <2>9. QED
    BY <2>1, <2>2, <2>3, <2>4, <2>5, <2>6, <2>7, <2>8 DEF Next
<1>3. ExitedEmpty => NothingLeftBehind
  BY DEF ExitedEmpty, NothingLeftBehind
<1>4. QED  BY <1>1, <1>2, <1>3, TypeCorrect, PTL DEF Spec
-----------------------------------------------------------------------------
(* No id is overtaken by more ids than there are workers *)

\* The workers that may still be handed an id through the channel.
Awaiting == {c \in Consumers : cons[c] \in {"select", "parked", "received"}}

\* The pending ids stand in the order in which they were accepted.
Increasing == \A a, b \in DOMAIN jobs : a < b => jobs[a] < jobs[b]

\* A worker goes to the channel only when it finds the queue empty: while an id is
\* pending, each one that overtakes it costs one of the workers that were waiting.
LineHeld ==
  \A j \in Range(jobs) :
     Cardinality(Overtakers(j)) + Cardinality(Awaiting) <= Cardinality(Consumers)

Overtaking == Increasing /\ LineHeld /\ BoundedOvertaking

\* Overtakers and waiting workers can be counted.
LEMMA Countable ==
  ASSUME TypeOK, NEW j \in Jobs
  PROVE  /\ IsFiniteSet(Overtakers(j)) /\ Cardinality(Overtakers(j)) \in Nat
         /\ IsFiniteSet(Awaiting) /\ Cardinality(Awaiting) \in Nat
         /\ Cardinality(Consumers) \in Nat /\ Cardinality(Awaiting) <= Cardinality(Consumers)
<1>1. accepted \in Int /\ j + 1 \in Int
  BY MaxJobsAssumption DEF TypeOK, Jobs
<1>2. IsFiniteSet((j + 1)..accepted)  BY <1>1, FS_Interval
<1>3. Overtakers(j) \in SUBSET ((j + 1)..accepted)  BY DEF Overtakers
<1>4. Awaiting \in SUBSET Consumers  BY DEF Awaiting
<1>5. IsFiniteSet(Overtakers(j)) /\ IsFiniteSet(Awaiting) /\ Cardinality(Awaiting) <= Cardinality(Consumers)
  BY <1>2, <1>3, <1>4, FS_Subset, ConsumersAssumption
<1>. QED  BY <1>5, FS_CardinalityType, ConsumersAssumption

\* Handing over a pending id adds to the overtakers of the ids that are pending before it,
\* and to no others.
LEMMA HandOverOvertakes ==
  ASSUME TypeOK, ExactlyOnce, NEW k \in Range(jobs), delivered' = Append(delivered, k),
         accepted' = accepted, NEW j \in 1..accepted
  PROVE  /\ Overtakers(j)' \subseteq Overtakers(j) \cup {k}
         /\ j \in Range(delivered) \/ k <= j => Overtakers(j)' = Overtakers(j)
<1>1. delivered \in Seq(Jobs) /\ k \in Jobs /\ accepted \in Nat
  <2>1. jobs \in Seq(Jobs)  BY DEF TypeOK
  <2>2. k \in Jobs  BY <2>1, RangeOfSeq
  <2>. QED  BY <2>2, MaxJobsAssumption DEF TypeOK
<1>2. /\ Len(delivered) \in Nat /\ DOMAIN delivered = 1..Len(delivered)
      /\ DOMAIN delivered' = 1..(Len(delivered) + 1)
      /\ \A i \in 1..Len(delivered) : delivered'[i] = delivered[i]
      /\ delivered'[Len(delivered) + 1] = k
  BY <1>1, AppendProperties, LenProperties
<1>. DEFINE n == Len(delivered)
            Passes(x) == \E d \in 1..n : delivered[d] = x /\ \A e \in 1..d : delivered[e] # j
<1>3. Overtakers(j) = {x \in (j + 1)..accepted : Passes(x)}
  BY <1>2 DEF Overtakers
<1>4. Overtakers(j)' = {x \in (j + 1)..accepted :
          \E d \in 1..(n + 1) : delivered'[d] = x /\ \A e \in 1..d : delivered'[e] # j}
  BY <1>2 DEF Overtakers
<1>5. ASSUME NEW x, NEW d \in 1..(n + 1), delivered'[d] = x, \A e \in 1..d : delivered'[e] # j
      PROVE  Passes(x) \/ (x = k /\ j \notin Range(delivered))
  <2>1. CASE d \in 1..n
    <3>1. \A e \in 1..d : delivered'[e] = delivered[e]  BY <1>2, <2>1
    <3>. QED  BY <1>2, <1>5, <2>1, <3>1
  <2>2. CASE d = n + 1
    <3>1. x = k  BY <1>2, <1>5, <2>2
    <3>2. \A e \in 1..n : delivered[e] # j  BY <1>2, <1>5, <2>2
    <3>. QED  BY <1>2, <3>1, <3>2 DEF Range
  <2>. QED  BY <1>2, <2>1, <2>2
<1>6. ASSUME NEW x, Passes(x)
      PROVE  \E d \in 1..(n + 1) : delivered'[d] = x /\ \A e \in 1..d : delivered'[e] # j
  <2>. PICK d \in 1..n : delivered[d] = x /\ \A e \in 1..d : delivered[e] # j  BY <1>6
  <2>1. \A e \in 1..d : delivered'[e] = delivered[e]  BY <1>2
  <2>2. d \in 1..(n + 1) /\ d \in 1..d  BY <1>2
  <2>. QED  BY <2>1, <2>2
<1>. HIDE DEF Passes, n
<1>7. Overtakers(j)' \subseteq Overtakers(j) \cup {k}  BY <1>3, <1>4, <1>5
<1>8. Overtakers(j) \subseteq Overtakers(j)'  BY <1>3, <1>4, <1>6
<1>9. ASSUME j \in Range(delivered) \/ k <= j
      PROVE  Overtakers(j)' \subseteq Overtakers(j)
  <2>1. CASE j \in Range(delivered)  BY <1>3, <1>4, <1>5, <2>1
  <2>2. CASE k <= j
    <3>1. k \notin (j + 1)..accepted  BY <1>1, <2>2 DEF Jobs
    <3>. QED  BY <1>4, <1>7, <3>1
  <2>. QED  BY <1>9, <2>1, <2>2
<1>. QED  BY <1>7, <1>8, <1>9

\* An id that was accepted and not drained is pending or was handed over.
LEMMA WhereIdsAre ==
  ASSUME TypeOK, ExactlyOnce
  PROVE  /\ accepted \in Nat
         /\ \A j \in 1..accepted : j \in Jobs
         /\ \A j \in (1..accepted) \ drained : j \in Range(jobs) \/ j \in Range(delivered)
         /\ \A j \in Range(jobs) : j \in (1..accepted) \ drained /\ j \notin Range(delivered)
<1>1. accepted \in 0..MaxJobs  BY DEF TypeOK
<1>2. accepted \in Nat /\ \A j \in 1..accepted : j \in Jobs
  BY <1>1, MaxJobsAssumption DEF Jobs
<1>3. /\ 1..accepted = Range(jobs) \cup Range(delivered) \cup drained
      /\ Range(jobs) \cap Range(delivered) = {}
      /\ drained \cap (Range(jobs) \cup Range(delivered)) = {}
  BY DEF ExactlyOnce
<1>4. /\ \A j \in (1..accepted) \ drained : j \in Range(jobs) \/ j \in Range(delivered)
      /\ \A j \in Range(jobs) : j \in (1..accepted) \ drained /\ j \notin Range(delivered)
  BY <1>3, Zenon
<1>. QED  BY <1>2, <1>4

\* Steps that move no id let no worker go to the channel past a pending one.
LEMMA OvertakingKept ==
  ASSUME TypeOK, ExactlyOnce, Overtaking, UNCHANGED <<jobs, accepted, delivered, drained>>,
         Awaiting' \subseteq Awaiting \/ jobs = <<>>
  PROVE  Overtaking'
<1>1. \A j : Overtakers(j)' = Overtakers(j)  BY DEF Overtakers
<1>2. Increasing' /\ BoundedOvertaking'  BY <1>1 DEF Overtaking, Increasing, BoundedOvertaking
<1>3. LineHeld'
  <2>. SUFFICES ASSUME NEW j \in Range(jobs)
                PROVE  Cardinality(Overtakers(j)) + Cardinality(Awaiting') <= Cardinality(Consumers)
    BY <1>1 DEF LineHeld
  <2>1. jobs # <<>>  BY DEF Range
  <2>2. j \in Jobs  BY WhereIdsAre
  <2>3. IsFiniteSet(Awaiting') /\ Cardinality(Awaiting') <= Cardinality(Awaiting)
    BY <2>1, <2>2, Countable, FS_Subset
  <2>4. Cardinality(Awaiting') \in Nat  BY <2>3, FS_CardinalityType
  <2>. QED  BY <2>2, <2>3, <2>4, Countable DEF Overtaking, LineHeld
<1>. QED  BY <1>2, <1>3 DEF Overtaking

\* A new id has been overtaken by none.
LEMMA AppendKeepsOvertaking ==
  ASSUME TypeOK, ExactlyOnce, Overtaking, accepted < MaxJobs,
         jobs' = Append(jobs, accepted + 1), accepted' = accepted + 1,
         UNCHANGED <<delivered, drained, cons>>
  PROVE  Overtaking'
<1>. DEFINE id == accepted + 1
<1>1. jobs \in Seq(Jobs) /\ accepted \in Nat /\ id \in Jobs /\ delivered \in Seq(Jobs)
  BY MaxJobsAssumption DEF TypeOK, Jobs
<1>2. /\ Len(jobs) \in Nat /\ DOMAIN jobs = 1..Len(jobs) /\ DOMAIN jobs' = 1..(Len(jobs) + 1)
      /\ \A i \in 1..Len(jobs) : jobs'[i] = jobs[i]
      /\ jobs'[Len(jobs) + 1] = id
  BY <1>1, AppendProperties, LenProperties
<1>3. Range(jobs') = Range(jobs) \cup {id}  BY <1>1, AppendDistinct
<1>4. \A d \in DOMAIN delivered : delivered[d] \in 1..accepted
  BY DEF ExactlyOnce, Range
<1>5. ASSUME NEW j \in 1..accepted  PROVE Overtakers(j)' = Overtakers(j)
  <2>1. Overtakers(j)' \subseteq Overtakers(j)  BY <1>1, <1>4 DEF Overtakers
  <2>2. Overtakers(j) \subseteq Overtakers(j)'  BY <1>1 DEF Overtakers
  <2>. QED  BY <2>1, <2>2
<1>6. ASSUME NEW j, j = accepted + 1  PROVE Overtakers(j)' = {}
  BY <1>1, <1>6 DEF Overtakers
<1>7. Awaiting' = Awaiting  BY DEF Awaiting
<1>8. \A i \in 1..Len(jobs) : jobs[i] \in 1..accepted  BY <1>2, WhereIdsAre DEF Range
<1>9. Increasing'
  <2>1. \A a, b \in 1..Len(jobs) : a < b => jobs[a] < jobs[b]
    BY <1>2 DEF Overtaking, Increasing
  <2>. SUFFICES ASSUME NEW a \in 1..(Len(jobs) + 1), NEW b \in 1..(Len(jobs) + 1), a < b
                PROVE  jobs'[a] < jobs'[b]
    BY <1>2 DEF Increasing
  <2>2. a \in 1..Len(jobs)  BY <1>2
  <2>3. CASE b \in 1..Len(jobs)  BY <1>2, <2>1, <2>2, <2>3
  <2>4. CASE b = Len(jobs) + 1
    <3>1. jobs'[a] = jobs[a] /\ jobs[a] \in 1..accepted  BY <1>2, <1>8, <2>2
    <3>2. jobs'[b] = accepted + 1  BY <1>2, <2>4
    <3>3. accepted \in Nat  BY <1>1
    <3>4. \A x \in 1..accepted : x < accepted + 1  BY <3>3
    <3>. QED  BY <3>1, <3>2, <3>4
  <2>. QED  BY <1>2, <2>3, <2>4
<1>10. Cardinality({}) = 0  BY FS_EmptySet
<1>11. LineHeld'
  <2>. SUFFICES ASSUME NEW j \in Range(jobs) \cup {id}
                PROVE  Cardinality(Overtakers(j)') + Cardinality(Awaiting) <= Cardinality(Consumers)
    BY <1>3, <1>7 DEF LineHeld
  <2>1. CASE j \in Range(jobs)
    BY <1>5, <2>1, WhereIdsAre DEF Overtaking, LineHeld
  <2>2. CASE j = id
    <3>1. Cardinality(Overtakers(j)') = 0  BY <1>6, <1>10, <2>2
    <3>2. /\ Cardinality(Awaiting) \in Nat /\ Cardinality(Consumers) \in Nat
          /\ Cardinality(Awaiting) <= Cardinality(Consumers)
      BY <1>1, Countable
    <3>. QED  BY <3>1, <3>2
  <2>. QED  BY <2>1, <2>2
<1>12. BoundedOvertaking'
  <2>. SUFFICES ASSUME NEW j \in (1..(accepted + 1)) \ drained
                PROVE  Cardinality(Overtakers(j)') <= Cardinality(Consumers)
    BY DEF BoundedOvertaking
  <2>1. CASE j \in 1..accepted  BY <1>5, <2>1 DEF Overtaking, BoundedOvertaking
  <2>2. CASE j = id
    <3>1. Cardinality(Overtakers(j)') = 0  BY <1>6, <1>10, <2>2
    <3>2. Cardinality(Consumers) \in Nat  BY FS_CardinalityType, ConsumersAssumption
    <3>. QED  BY <3>1, <3>2
  <2>. QED  BY <1>1, <2>1, <2>2
<1>. QED  BY <1>9, <1>11, <1>12 DEF Overtaking

\* The head of the queue is the oldest id: handing it over overtakes none.
LEMMA PopKeepsOvertaking ==
  ASSUME TypeOK, ExactlyOnce, Overtaking, PopHead, UNCHANGED <<accepted, drained>>,
         Awaiting' \subseteq Awaiting
  PROVE  Overtaking'
<1>1. jobs \in Seq(Jobs) /\ jobs # <<>> /\ IsInjective(jobs)
  BY DEF TypeOK, ExactlyOnce, PopHead
<1>2. /\ Head(jobs) \in Range(jobs) /\ Range(jobs') = Range(jobs) \ {Head(jobs)}
  BY <1>1, TailDistinct DEF PopHead
<1>3. /\ Tail(jobs) \in Seq(Jobs) /\ Len(Tail(jobs)) = Len(jobs) - 1
      /\ \A k \in 1..Len(Tail(jobs)) : Tail(jobs)[k] = jobs[k + 1]
      /\ Head(jobs) = jobs[1]
  BY <1>1, HeadTailProperties
<1>4. Len(jobs) \in Nat \ {0} /\ DOMAIN jobs = 1..Len(jobs) /\ DOMAIN jobs' = 1..(Len(jobs) - 1)
  BY <1>1, <1>3, EmptySeq, LenProperties DEF PopHead
<1>5. \A a, b \in 1..Len(jobs) : a < b => jobs[a] < jobs[b]
  BY <1>4 DEF Overtaking, Increasing
<1>6. Increasing'
  <2>. SUFFICES ASSUME NEW a \in 1..(Len(jobs) - 1), NEW b \in 1..(Len(jobs) - 1), a < b
                PROVE  jobs'[a] < jobs'[b]
    BY <1>4 DEF Increasing
  <2>1. a + 1 \in 1..Len(jobs) /\ b + 1 \in 1..Len(jobs) /\ a + 1 < b + 1  BY <1>4
  <2>2. jobs'[a] = jobs[a + 1] /\ jobs'[b] = jobs[b + 1]  BY <1>3, <1>4 DEF PopHead
  <2>. QED  BY <1>5, <2>1, <2>2
<1>7. \A j \in Range(jobs) : Head(jobs) <= j
  <2>. SUFFICES ASSUME NEW j \in Range(jobs)  PROVE Head(jobs) <= j
    OBVIOUS
  <2>1. PICK b \in 1..Len(jobs) : jobs[b] = j  BY <1>4 DEF Range
  <2>2. Head(jobs) \in Nat /\ j \in Nat
    BY <1>2, WhereIdsAre
  <2>3. b = 1 \/ 1 < b  OBVIOUS
  <2>4. 1 \in 1..Len(jobs)  BY <1>4
  <2>. QED  BY <1>3, <1>5, <2>1, <2>2, <2>3, <2>4
<1>8. \A j \in (1..accepted) \ drained : Overtakers(j)' = Overtakers(j)
  BY <1>2, <1>7, WhereIdsAre, HandOverOvertakes DEF PopHead
<1>9. BoundedOvertaking'  BY <1>8 DEF Overtaking, BoundedOvertaking
<1>10. LineHeld'
  <2>. SUFFICES ASSUME NEW j \in Range(jobs)
                PROVE  Cardinality(Overtakers(j)') + Cardinality(Awaiting') <= Cardinality(Consumers)
    BY <1>2 DEF LineHeld
  <2>1. j \in Jobs /\ Overtakers(j)' = Overtakers(j)  BY <1>8, WhereIdsAre
  <2>2. IsFiniteSet(Awaiting') /\ Cardinality(Awaiting') <= Cardinality(Awaiting)
    BY <2>1, Countable, FS_Subset
  <2>3. Cardinality(Awaiting') \in Nat  BY <2>2, FS_CardinalityType
  <2>. QED  BY <2>1, <2>2, <2>3, Countable DEF Overtaking, LineHeld
<1>. QED  BY <1>6, <1>9, <1>10 DEF Overtaking

\* A worker that takes the id it was signalled no longer waits.
LEMMA TakeKeepsOvertaking ==
  ASSUME TypeOK, ExactlyOnce, Overtaking, NEW c \in Consumers, cons[c] = "received",
         NEW i \in DOMAIN jobs, jobs[i] = signal[c], jobs' = RemoveAt(jobs, i),
         delivered' = Append(delivered, signal[c]), cons' = [cons EXCEPT ![c] = "busy"],
         UNCHANGED <<accepted, drained>>
  PROVE  Overtaking'
<1>1. jobs \in Seq(Jobs) /\ IsInjective(jobs) /\ cons \in [Consumers -> ConsumerPCs]
  BY DEF TypeOK, ExactlyOnce
<1>2. i \in 1..Len(jobs) /\ Len(jobs) \in Nat /\ DOMAIN jobs = 1..Len(jobs)
      /\ signal[c] \in Range(jobs)
  BY <1>1, LenProperties DEF Range
<1>3. /\ jobs' \in Seq(Jobs) /\ Len(jobs') = Len(jobs) - 1
      /\ \A k \in 1..(Len(jobs) - 1) : jobs'[k] = IF k < i THEN jobs[k] ELSE jobs[k + 1]
  BY <1>1, <1>2, RemoveAtProperties
<1>4. Range(jobs') \subseteq Range(jobs)  BY <1>1, <1>2, RemoveAtDistinct
<1>5. Increasing'
  <2>1. DOMAIN jobs' = 1..(Len(jobs) - 1)  BY <1>2, <1>3, LenProperties
  <2>2. \A a, b \in 1..Len(jobs) : a < b => jobs[a] < jobs[b]
    BY <1>2 DEF Overtaking, Increasing
  <2>. SUFFICES ASSUME NEW a \in 1..(Len(jobs) - 1), NEW b \in 1..(Len(jobs) - 1), a < b
                PROVE  jobs'[a] < jobs'[b]
    BY <2>1 DEF Increasing
  <2>3. PICK x \in 1..Len(jobs) : x = IF a < i THEN a ELSE a + 1  BY <1>2
  <2>4. PICK y \in 1..Len(jobs) : y = IF b < i THEN b ELSE b + 1  BY <1>2
  <2>5. x < y  BY <1>2, <2>3, <2>4
  <2>6. jobs'[a] = jobs[x] /\ jobs'[b] = jobs[y]  BY <1>3, <2>3, <2>4
  <2>. QED  BY <2>2, <2>5, <2>6
<1>6. \A j \in 1..accepted :
        /\ Overtakers(j)' \subseteq Overtakers(j) \cup {signal[c]}
        /\ j \in Range(delivered) => Overtakers(j)' = Overtakers(j)
  BY <1>2, HandOverOvertakes
<1>7. c \in Awaiting /\ Awaiting' = Awaiting \ {c}
  BY <1>1 DEF Awaiting
<1>8. ASSUME NEW j \in Range(jobs)
      PROVE  /\ Cardinality(Overtakers(j)') + Cardinality(Awaiting') <= Cardinality(Consumers)
             /\ Cardinality(Overtakers(j)') \in Nat /\ Cardinality(Awaiting') \in Nat
  <2>1. j \in Jobs /\ j \in 1..accepted  BY WhereIdsAre
  <2>2. /\ IsFiniteSet(Overtakers(j)) /\ Cardinality(Overtakers(j)) \in Nat
        /\ IsFiniteSet(Awaiting) /\ Cardinality(Awaiting) \in Nat
        /\ Cardinality(Consumers) \in Nat
    BY <2>1, Countable
  <2>3. IsFiniteSet(Awaiting') /\ Cardinality(Awaiting') = Cardinality(Awaiting) - 1
    BY <1>7, <2>2, FS_RemoveElement
  <2>. DEFINE more == Overtakers(j) \cup {signal[c]}
  <2>4. IsFiniteSet(more) /\ Cardinality(more) <= Cardinality(Overtakers(j)) + 1
        /\ Cardinality(more) \in Nat
    <3>1. /\ IsFiniteSet(more)
          /\ Cardinality(more) = IF signal[c] \in Overtakers(j) THEN Cardinality(Overtakers(j))
                                                              ELSE Cardinality(Overtakers(j)) + 1
      BY <2>2, FS_AddElement
    <3>. HIDE DEF more
    <3>. QED  BY <2>2, <3>1
  <2>5. Overtakers(j)' \in SUBSET more  BY <1>6, <2>1
  <2>. HIDE DEF more
  <2>6. IsFiniteSet(Overtakers(j)') /\ Cardinality(Overtakers(j)') <= Cardinality(more)
    BY <2>4, <2>5, FS_Subset
  <2>7. Cardinality(Overtakers(j)') \in Nat /\ Cardinality(Awaiting') \in Nat
    BY <2>3, <2>6, FS_CardinalityType
  <2>8. Cardinality(Overtakers(j)) + Cardinality(Awaiting) <= Cardinality(Consumers)
    BY DEF Overtaking, LineHeld
  <2>. QED  BY <2>2, <2>3, <2>4, <2>6, <2>7, <2>8
<1>9. LineHeld'  BY <1>4, <1>8 DEF LineHeld
<1>10. BoundedOvertaking'
  <2>. SUFFICES ASSUME NEW j \in (1..accepted) \ drained
                PROVE  Cardinality(Overtakers(j)') <= Cardinality(Consumers)
    BY DEF BoundedOvertaking
  <2>1. CASE j \in Range(delivered)  BY <1>6, <2>1 DEF Overtaking, BoundedOvertaking
  <2>2. CASE j \in Range(jobs)
    <3>1. Cardinality(Consumers) \in Nat  BY FS_CardinalityType, ConsumersAssumption
    <3>. QED  BY <1>8, <2>2, <3>1
  <2>. QED  BY <2>1, <2>2, WhereIdsAre
<1>. QED  BY <1>5, <1>9, <1>10 DEF Overtaking

\* Drained ids are no longer waited for.
LEMMA DrainKeepsOvertaking ==
  ASSUME Overtaking, Drain
  PROVE  Overtaking'
<1>1. \A j : Overtakers(j)' = Overtakers(j)  BY DEF Overtakers, Drain
<1>2. Range(jobs') = {} /\ DOMAIN jobs' = {}  BY DEF Drain, Range
<1>3. drained \subseteq drained' /\ accepted' = accepted  BY DEF Drain
<1>. QED  BY <1>1, <1>2, <1>3 DEF Overtaking, Increasing, LineHeld, BoundedOvertaking

\* Hand-over through the channel is out of order, but no id is overtaken by more ids than
\* there are workers (BoundedOvertaking), with any number of workers and producers.
THEOREM BoundedOvertakingCorrect == Spec => []BoundedOvertaking
<1>1. Init => Overtaking
  <2> SUFFICES ASSUME Init PROVE Overtaking
    OBVIOUS
  <2>1. Range(jobs) = {} /\ DOMAIN jobs = {} /\ 1..accepted = {}
    BY DEF Init, Range
  <2>2. QED  BY <2>1 DEF Overtaking, Increasing, LineHeld, BoundedOvertaking
<1>2. TypeOK /\ ExactlyOnce /\ Overtaking /\ [Next]_vars => Overtaking'
  <2> SUFFICES ASSUME TypeOK, ExactlyOnce, Overtaking, [Next]_vars PROVE Overtaking'
    OBVIOUS
  <2> USE DEF queueVars, threadVars, historyVars
  <2>0. cons \in [Consumers -> ConsumerPCs]  BY DEF TypeOK
  <2>1. ASSUME NEW p \in Producers, EnqueueLocked(p) PROVE Overtaking'
    <3>0. Awaiting' = Awaiting  BY <2>1 DEF EnqueueLocked, Awaiting
    <3>1. CASE closed
      BY <2>1, <3>0, <3>1, OvertakingKept DEF EnqueueLocked
    <3>2. CASE ~closed
      <4>1. accepted < MaxJobs
        BY <2>1, MaxJobsAssumption DEF EnqueueLocked, TypeOK
      <4>2. QED  BY <2>1, <3>2, <4>1, AppendKeepsOvertaking DEF EnqueueLocked
    <3>3. QED  BY <3>1, <3>2
  <2>2. ASSUME NEW p \in Producers, Signal(p) PROVE Overtaking'
    <3>1. Awaiting' \subseteq Awaiting
      BY <2>0, <2>2 DEF Signal, SignalNobody, SignalClosed, SignalParked, Awaiting
    <3>2. UNCHANGED <<jobs, accepted, delivered, drained>>
      BY <2>2 DEF Signal, SignalNobody, SignalClosed, SignalParked
    <3>3. QED  BY <3>1, <3>2, OvertakingKept
  <2>3. ASSUME NEW c \in Consumers, Consume(c) PROVE Overtaking'
    <3>1. CASE DequeueLocked(c)
      <4>1. CASE PopHead /\ cons' = [cons EXCEPT ![c] = "busy"]
        <5>1. Awaiting' \subseteq Awaiting  BY <2>0, <4>1 DEF Awaiting
        <5>2. QED  BY <3>1, <4>1, <5>1, PopKeepsOvertaking DEF DequeueLocked
      <4>2. CASE jobs = <<>> /\ UNCHANGED <<jobs, delivered>>
        BY <3>1, <4>2, OvertakingKept DEF DequeueLocked
      <4>3. QED  BY <3>1, <4>1, <4>2 DEF DequeueLocked
    <3>2. CASE Select(c)
      <4>1. Awaiting' \subseteq Awaiting  BY <2>0, <3>2 DEF Select, Awaiting
      <4>2. QED  BY <3>2, <4>1, OvertakingKept DEF Select
    <3>3. CASE TakeSignalled(c)
      <4>1. ASSUME NEW i \in DOMAIN jobs, jobs[i] = signal[c], jobs' = RemoveAt(jobs, i),
                   delivered' = Append(delivered, signal[c]), cons' = [cons EXCEPT ![c] = "busy"]
            PROVE  Overtaking'
        BY <3>3, <4>1, TakeKeepsOvertaking DEF TakeSignalled
      <4>2. CASE cons' = [cons EXCEPT ![c] = "call"] /\ UNCHANGED <<jobs, delivered>>
        <5>1. Awaiting' \subseteq Awaiting  BY <2>0, <4>2 DEF Awaiting
        <5>2. QED  BY <3>3, <4>2, <5>1, OvertakingKept DEF TakeSignalled
      <4>3. QED  BY <3>3, <4>1, <4>2 DEF TakeSignalled
    <3>4. CASE NextCall(c)
      <4>1. Awaiting' \subseteq Awaiting  BY <2>0, <3>4 DEF NextCall, Awaiting
      <4>2. QED  BY <3>4, <4>1, OvertakingKept DEF NextCall
    <3>5. QED  BY <2>3, <3>1, <3>2, <3>3, <3>4 DEF Consume
  <2>4. ASSUME NEW k \in Closers, CloseLocked(k) \/ CloseChannel(k) PROVE Overtaking'
    <3>1. Awaiting' \subseteq Awaiting
      BY <2>0, <2>4 DEF CloseLocked, CloseChannel, Awaiting
    <3>2. UNCHANGED <<jobs, accepted, delivered, drained>>
      BY <2>4 DEF CloseLocked, CloseChannel
    <3>3. QED  BY <3>1, <3>2, OvertakingKept
  <2>5. CASE Dequeue
    <3>1. Awaiting' = Awaiting  BY <2>5 DEF Dequeue, Awaiting
    <3>2. QED  BY <2>5, <3>1, PopKeepsOvertaking DEF Dequeue
  <2>6. CASE Drain
    BY <2>6, DrainKeepsOvertaking
  <2>7. CASE Cancel
    <3>1. Awaiting' \subseteq Awaiting  BY <2>7 DEF Cancel, Awaiting
    <3>2. QED  BY <2>7, <3>1, OvertakingKept DEF Cancel
  <2>8. CASE UNCHANGED vars
    <3>1. Awaiting' = Awaiting  BY <2>8 DEF vars, Awaiting
    <3>2. QED  BY <2>8, <3>1, OvertakingKept DEF vars
  <2>9. QED
    BY <2>1, <2>2, <2>3, <2>4, <2>5, <2>6, <2>7, <2>8 DEF Next
<1>3. Overtaking => BoundedOvertaking
  BY DEF Overtaking
<1>4. QED  BY <1>1, <1>2, <1>3, TypeCorrect, ExactlyOnceCorrect, PTL DEF Spec
-----------------------------------------------------------------------------
(* The queue implements WorkPool *)

\* Taking the head of q.jobs hands over that id.
LEMMA PopIsHandOver ==
  ASSUME TypeOK, ExactlyOnce, PopHead, UNCHANGED <<closed, accepted, drained, dropped>>
  PROVE  \E j \in Jobs : Pool!HandOver(j)
<1>1. /\ jobs \in Seq(Jobs) /\ jobs # <<>> /\ IsInjective(jobs)
      /\ delivered \in Seq(Jobs)
  BY DEF TypeOK, ExactlyOnce, PopHead
<1>2. /\ Head(jobs) \in Range(jobs) /\ Head(jobs) \in Jobs
      /\ Range(jobs') = Range(jobs) \ {Head(jobs)}
  BY <1>1, TailDistinct, HeadTailProperties DEF PopHead
<1>3. Range(delivered') = Range(delivered) \cup {Head(jobs)}
  BY <1>1, <1>2, AppendDistinct DEF PopHead
<1>4. QED  BY <1>2, <1>3 DEF Pool!HandOver

\* So does taking a signalled id out of the middle; a signal whose id is gone
\* is no step of the pool.
LEMMA TakeIsHandOver ==
  ASSUME TypeOK, ExactlyOnce, NEW c \in Consumers, TakeSignalled(c)
  PROVE  (\E j \in Jobs : Pool!HandOver(j)) \/ UNCHANGED Pool!poolVars
<1>1. CASE UNCHANGED <<jobs, delivered>>
  BY <1>1 DEF TakeSignalled, Pool!poolVars
<1>2. ASSUME NEW i \in DOMAIN jobs, jobs[i] = signal[c], jobs' = RemoveAt(jobs, i),
             delivered' = Append(delivered, signal[c])
      PROVE  \E j \in Jobs : Pool!HandOver(j)
  <2>1. /\ jobs \in Seq(Jobs) /\ IsInjective(jobs) /\ delivered \in Seq(Jobs)
    BY DEF TypeOK, ExactlyOnce
  <2>2. i \in 1..Len(jobs) /\ signal[c] \in Range(jobs) /\ signal[c] \in Jobs
    BY <1>2, <2>1, LenProperties, ElementOfSeq DEF Range
  <2>3. Range(jobs') = Range(jobs) \ {signal[c]}
    BY <1>2, <2>1, <2>2, RemoveAtDistinct
  <2>4. Range(delivered') = Range(delivered) \cup {signal[c]}
    BY <1>2, <2>1, <2>2, AppendDistinct
  <2>5. UNCHANGED <<closed, accepted, drained, dropped>>
    BY DEF TakeSignalled
  <2>6. QED  BY <2>2, <2>3, <2>4, <2>5 DEF Pool!HandOver
<1>3. QED  BY <1>1, <1>2 DEF TakeSignalled

\* Ids are refused by a closed queue only, and it never reopens.
RefusedWhenClosed == dropped > 0 => closed

LEMMA RefusedWhenClosedCorrect == Spec => []RefusedWhenClosed
<1>1. Init => RefusedWhenClosed
  BY DEF Init, RefusedWhenClosed
<1>2. RefusedWhenClosed /\ [Next]_vars => RefusedWhenClosed'
  BY DEF RefusedWhenClosed, Next, EnqueueLocked, Signal, SignalNobody, SignalClosed,
         SignalParked, Consume, DequeueLocked, Select, TakeSignalled, NextCall,
         CloseLocked, CloseChannel, Dequeue, Drain, Cancel, vars, queueVars, threadVars,
         historyVars
<1>3. QED  BY <1>1, <1>2, PTL DEF Spec

\* An Enqueue is accepted or refused by the pool.
LEMMA EnqueueIsOffer ==
  ASSUME TypeOK, ExactlyOnce, RefusedWhenClosed, NEW p \in Producers, EnqueueLocked(p)
  PROVE  \E j \in Jobs : Pool!Accept(j) \/ Pool!Refuse(j)
<1> DEFINE id == accepted + dropped + 1
<1>1. accepted \in Nat /\ dropped \in Nat /\ accepted + dropped < MaxJobs /\ id \in Jobs
  BY MaxJobsAssumption DEF EnqueueLocked, TypeOK, Jobs
<1>2. id \notin Range(jobs) \cup Range(delivered) \cup drained
  <2>1. id \notin 1..accepted
    BY <1>1
  <2>2. QED  BY <2>1 DEF ExactlyOnce
<1>3. CASE closed
  <2>1. (accepted + 1)..(accepted + (dropped + 1))
          = (accepted + 1)..(accepted + dropped) \cup {id}
    BY <1>1
  <2>2. id \notin (accepted + 1)..(accepted + dropped)
    BY <1>1
  <2>3. Pool!Refuse(id)
    BY <1>2, <1>3, <2>1, <2>2 DEF EnqueueLocked, Pool!Refuse, Pool!Offered
  <2>4. QED  BY <1>1, <2>3
<1>4. CASE ~closed
  <2>1. dropped = 0 /\ (accepted + 1)..(accepted + dropped) = {}
    BY <1>1, <1>4 DEF RefusedWhenClosed
  <2>2. ((accepted + 1) + 1)..((accepted + 1) + dropped) = {}
    BY <1>1, <2>1
  <2>3. id = accepted + 1
    BY <1>1, <2>1
  <2>4. Range(jobs') = Range(jobs) \cup {id}
    <3>1. jobs \in Seq(Jobs) /\ jobs' = Append(jobs, id)
      BY <1>4, <2>3 DEF EnqueueLocked, TypeOK
    <3>2. QED  BY <1>1, <3>1, AppendDistinct
  <2>5. Pool!Accept(id)
    BY <1>2, <1>4, <2>1, <2>2, <2>4 DEF EnqueueLocked, Pool!Accept, Pool!Offered
  <2>6. QED  BY <1>1, <2>5
<1>5. QED  BY <1>3, <1>4

\* Enqueue, DequeueBlocks, Dequeue, Drain and Close, step by step and whatever
\* the interleaving, do what the pool promises: the locks, the channel and the
\* order of the ids are invisible from outside.
THEOREM QueueImplementsPool == Spec => ImplementsPool
<1>1. Init => Pool!PoolInit
  <2> SUFFICES ASSUME Init PROVE Pool!PoolInit
    OBVIOUS
  <2>1. Range(jobs) = {} /\ Range(delivered) = {} /\ drained = {}
    BY DEF Init, Range
  <2>2. (accepted + 1)..(accepted + dropped) = {}
    BY DEF Init
  <2>3. QED  BY <2>1, <2>2 DEF Init, Pool!PoolInit
<1>2. TypeOK /\ ExactlyOnce /\ RefusedWhenClosed /\ [Next]_vars
        => [Pool!PoolNext]_(Pool!poolVars)
  <2> SUFFICES ASSUME TypeOK, ExactlyOnce, RefusedWhenClosed, [Next]_vars
               PROVE  Pool!PoolNext \/ UNCHANGED Pool!poolVars
    OBVIOUS
  <2> USE DEF queueVars, threadVars, historyVars
  <2>1. UNCHANGED <<jobs, accepted, delivered, drained, dropped, closed>>
           => UNCHANGED Pool!poolVars
    BY DEF Pool!poolVars
  <2>2. ASSUME NEW p \in Producers, EnqueueLocked(p) PROVE Pool!PoolNext
    BY <2>2, EnqueueIsOffer DEF Pool!PoolNext
  <2>3. ASSUME NEW p \in Producers, Signal(p) PROVE UNCHANGED Pool!poolVars
    BY <2>1, <2>3 DEF Signal, SignalNobody, SignalClosed, SignalParked
  <2>4. ASSUME NEW c \in Consumers, Consume(c)
        PROVE  Pool!PoolNext \/ UNCHANGED Pool!poolVars
    <3>1. CASE DequeueLocked(c)
      BY <2>1, <3>1, PopIsHandOver DEF DequeueLocked, Pool!PoolNext
    <3>2. CASE Select(c)
      BY <2>1, <3>2 DEF Select
    <3>3. CASE TakeSignalled(c)
      BY <3>3, TakeIsHandOver DEF Pool!PoolNext
    <3>4. CASE NextCall(c)
      BY <2>1, <3>4 DEF NextCall
    <3>5. QED  BY <2>4, <3>1, <3>2, <3>3, <3>4 DEF Consume
  <2>5. ASSUME NEW k \in Closers, CloseLocked(k) PROVE Pool!PoolNext
    <3>1. Pool!Shut
      BY <2>5 DEF CloseLocked, Pool!Shut
    <3>2. QED  BY <3>1 DEF Pool!PoolNext
  <2>6. ASSUME NEW k \in Closers, CloseChannel(k) PROVE UNCHANGED Pool!poolVars
    BY <2>1, <2>6 DEF CloseChannel
  <2>7. CASE Dequeue
    BY <2>7, PopIsHandOver DEF Dequeue, Pool!PoolNext
  <2>8. CASE Drain
    <3>1. Range(jobs') = {}
      BY <2>8 DEF Drain, Range
    <3>2. Pool!DiscardAll
      BY <2>8, <3>1 DEF Drain, Pool!DiscardAll
    <3>3. QED  BY <3>2 DEF Pool!PoolNext
  <2>9. CASE Cancel
    BY <2>1, <2>9 DEF Cancel
  <2>10. CASE UNCHANGED vars
    BY <2>1, <2>10 DEF vars
  <2>11. QED
    BY <2>2, <2>3, <2>4, <2>5, <2>6, <2>7, <2>8, <2>9, <2>10 DEF Next
<1>3. QED  BY <1>1, <1>2, TypeCorrect, ExactlyOnceCorrect, RefusedWhenClosedCorrect, PTL
             DEF Spec, ImplementsPool, Pool!PoolSpec

=============================================================================
