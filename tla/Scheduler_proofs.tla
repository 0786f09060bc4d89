-------------------------- MODULE Scheduler_proofs --------------------------
(***************************************************************************)
(* Proofs about module Scheduler, for any rows, threads and bounds: its    *)
(* types, that reloads never mix, and that a reload that runs alone puts   *)
(* the scheduler back in step with the rows.                               *)
(***************************************************************************)
EXTENDS Scheduler, Tables_proofs

-----------------------------------------------------------------------------
(* Statements *)

\* A statement is of the kind its op says.
LEMMA StatementFacts ==
  ASSUME NEW w \in Statement
  PROVE  /\ w.op = "updateSource" => /\ w.id \in Sources
                                     /\ w.row \in SourceRow
                                     /\ w.reload \in BOOLEAN
         /\ w.op \in {"createSchedule", "updateSchedule"} => /\ w.id \in Schedules
                                                             /\ w.row \in ScheduleRow
         /\ w.op = "deleteSchedule" => w.id \in Schedules
BY DEF Statement

\* The snapshot a load reads, and that a schedule occurs in it once.
LEMMA SnapshotFacts ==
  ASSUME TypeOK
  PROVE  /\ EnabledSourceSchedules \in SUBSET Entry
         /\ \A d, e \in EnabledSourceSchedules : d.schedule = e.schedule => d = e
<1>1. \A k \in EnabledSchedules : /\ k \in Schedules
                                  /\ schedules[k] \in ScheduleRow
                                  /\ sources[schedules[k].source] \in SourceRow
  BY TableFacts DEF TypeOK, EnabledSchedules
<1>. QED  BY <1>1 DEF EnabledSourceSchedules, Entry, ScheduleRow, SourceRow
-----------------------------------------------------------------------------
(* Types *)

\* What the two ways out of a statement do to the memory of a thread.
LEMMA FinishType ==
  ASSUME TypeOK, NEW t \in Threads, Finish(t)
  PROVE  /\ at' \in [Threads -> {"idle", "write", "load", "lock", "add"}]
         /\ todo' \in [Threads -> Statement]
         /\ loaded' \in [Threads -> SUBSET Entry]
         /\ overlapped' \in SUBSET Threads
<1>1. Nothing \in Statement  BY DEF Nothing, Statement
<1>. QED  BY <1>1 DEF TypeOK, Finish

LEMMA ToReloadType ==
  ASSUME TypeOK, NEW t \in Threads, ToReload(t)
  PROVE  /\ at' \in [Threads -> {"idle", "write", "load", "lock", "add"}]
         /\ todo' \in [Threads -> Statement]
         /\ loaded' \in [Threads -> SUBSET Entry]
         /\ overlapped' \in SUBSET Threads
<1>1. Nothing \in Statement  BY DEF Nothing, Statement
<1>. QED  BY <1>1 DEF TypeOK, ToReload

\* Begin, whatever it is about to execute.
LEMMA BeginType ==
  ASSUME TypeOK, NEW h \in Handlers, NEW w \in Statement, Begin(h, w),
         used' \in SUBSET (Sources \cup Schedules)
  PROVE  TypeOK'
<1>1. h \in Threads  BY DEF Threads
<1>2. Active \in SUBSET Threads  BY DEF Active
<1>3. requests' \in 0..MaxRequests
  BY BoundsAssumption DEF TypeOK, Begin, Accept
<1>4. /\ overlapped' \in SUBSET Threads
      /\ trusted' \in BOOLEAN
  BY <1>1, <1>2 DEF TypeOK, Begin
<1>5. /\ at' \in [Threads -> {"idle", "write", "load", "lock", "add"}]
      /\ todo' \in [Threads -> Statement]
  BY <1>1 DEF TypeOK, Begin
<1>6. UNCHANGED <<sources, schedules, loaded, entries, lock, ready, ctx, faults, applied>>
  BY DEF Begin, runtimeVars
<1>. QED  BY <1>3, <1>4, <1>5, <1>6 DEF TypeOK

LEMMA UpdateSourceType ==
  ASSUME TypeOK, NEW h \in Handlers, NEW s \in Sources, UpdateSource(h, s)
  PROVE  TypeOK'
<1>1. s \in DOMAIN sources /\ sources[s].on \in BOOLEAN /\ used' \in SUBSET (Sources \cup Schedules)
  <2>1. sources[s] \in SourceRow  BY TableFacts DEF TypeOK, UpdateSource
  <2>. QED  BY <2>1 DEF TypeOK, UpdateSource, SourceRow
<1>2. PICK label \in Labels, on \in BOOLEAN, reload \in BOOLEAN :
        Begin(h, [op |-> "updateSource", id |-> s, reload |-> reload,
                  row |-> [on |-> on, label |-> label]])
  BY <1>1 DEF UpdateSource
<1>3. [op |-> "updateSource", id |-> s, reload |-> reload,
       row |-> [on |-> on, label |-> label]] \in Statement
  BY DEF Statement, SourceRow
<1>. QED  BY <1>1, <1>2, <1>3, BeginType

LEMMA RequestType ==
  ASSUME TypeOK, NEW h \in Handlers, Request(h)
  PROVE  TypeOK'
<1>1. CASE \E s \in Sources : UpdateSource(h, s)  BY <1>1, UpdateSourceType
<1>2. ASSUME NEW k \in Schedules, NEW row \in ScheduleRow, CreateSchedule(h, k, row)
      PROVE  TypeOK'
  <2>1. [op |-> "createSchedule", id |-> k, row |-> row] \in Statement  BY DEF Statement
  <2>2. used' \in SUBSET (Sources \cup Schedules)  BY <1>2 DEF TypeOK, CreateSchedule
  <2>. QED  BY <1>2, <2>1, <2>2, BeginType DEF CreateSchedule
<1>3. ASSUME NEW k \in Schedules, NEW row \in ScheduleRow, UpdateSchedule(h, k, row)
      PROVE  TypeOK'
  <2>1. [op |-> "updateSchedule", id |-> k, row |-> row] \in Statement  BY DEF Statement
  <2>2. used' \in SUBSET (Sources \cup Schedules)  BY <1>3 DEF TypeOK, UpdateSchedule
  <2>. QED  BY <1>3, <2>1, <2>2, BeginType DEF UpdateSchedule
<1>4. ASSUME NEW k \in Schedules, DeleteSchedule(h, k)
      PROVE  TypeOK'
  <2>1. [op |-> "deleteSchedule", id |-> k] \in Statement  BY DEF Statement
  <2>2. used' \in SUBSET (Sources \cup Schedules)  BY <1>4 DEF TypeOK, DeleteSchedule
  <2>. QED  BY <1>4, <2>1, <2>2, BeginType DEF DeleteSchedule
<1>. QED  BY <1>1, <1>2, <1>3, <1>4 DEF Request

LEMMA CreateSourceType ==
  ASSUME TypeOK, NEW s \in Sources, NEW row \in SourceRow, CreateSource(s, row)
  PROVE  TypeOK'
<1>1. /\ sources' \in Table(Sources, SourceRow)
      /\ DOMAIN sources' = DOMAIN sources \cup {s}
  <2>1. sources \in Table(Sources, SourceRow) /\ sources' = With(sources, s, row)
    BY DEF TypeOK, CreateSource
  <2>2. With(sources, s, row) \in Table(Sources, SourceRow)  BY <2>1, WithType
  <2>3. DOMAIN sources' = DOMAIN sources \cup {s}  BY <2>1 DEF With
  <2>. QED  BY <2>1, <2>2, <2>3
<1>2. requests' \in 0..MaxRequests  BY BoundsAssumption DEF TypeOK, CreateSource, Accept
<1>3. used' \in SUBSET (Sources \cup Schedules)  BY DEF TypeOK, CreateSource
<1>4. UNCHANGED <<schedules, at, todo, loaded, entries, lock, ready, ctx, faults, applied,
                  overlapped, trusted>>
  BY DEF CreateSource, threadVars, runtimeVars, historyVars
<1>. QED  BY <1>1, <1>2, <1>3, <1>4 DEF TypeOK

\* The rows DeleteSource leaves: the cascade keeps the foreign key.
LEMMA DeleteSourceRows ==
  ASSUME TypeOK, NEW s \in Sources, DeleteSource(s)
  PROVE  /\ sources' \in Table(Sources, SourceRow)
         /\ schedules' \in Table(Schedules, ScheduleRow)
         /\ DOMAIN sources' = DOMAIN sources \ {s}
         /\ \A i \in DOMAIN sources' : sources'[i] = sources[i]
         /\ DOMAIN schedules' = {k \in DOMAIN schedules : schedules[k].source # s}
         /\ \A k \in DOMAIN schedules' : schedules'[k] = schedules[k]
<1>1. /\ sources' \in Table(Sources, SourceRow)
      /\ DOMAIN sources' = DOMAIN sources \ {s}
      /\ \A i \in DOMAIN sources' : sources'[i] = sources[i]
  <2>1. sources \in Table(Sources, SourceRow) /\ sources' = Without(sources, s)
    BY DEF TypeOK, DeleteSource
  <2>2. Without(sources, s) \in Table(Sources, SourceRow)  BY <2>1, WithoutType
  <2>3. /\ DOMAIN sources' = DOMAIN sources \ {s}
        /\ \A i \in DOMAIN sources' : sources'[i] = sources[i]
    BY <2>1 DEF Without
  <2>. QED  BY <2>1, <2>2, <2>3
<1>2. schedules' = [k \in {i \in DOMAIN schedules : schedules[i].source # s} |-> schedules[k]]
  BY DEF DeleteSource
<1>3. /\ DOMAIN schedules' = {k \in DOMAIN schedules : schedules[k].source # s}
      /\ \A k \in DOMAIN schedules' : schedules'[k] = schedules[k]
  BY <1>2
<1>4. schedules' \in Table(Schedules, ScheduleRow)
  <2>1. schedules' = [k \in DOMAIN schedules' |-> schedules'[k]]  BY <1>2
  <2>2. /\ DOMAIN schedules \subseteq Schedules
        /\ \A k \in DOMAIN schedules : schedules[k] \in ScheduleRow
    BY TableFacts DEF TypeOK
  <2>. QED  BY <1>3, <2>1, <2>2, TableFacts
<1>. QED  BY <1>1, <1>3, <1>4

LEMMA DeleteSourceType ==
  ASSUME TypeOK, NEW s \in Sources, DeleteSource(s)
  PROVE  TypeOK'
<1>1. requests' \in 0..MaxRequests  BY BoundsAssumption DEF TypeOK, DeleteSource, Accept
<1>2. UNCHANGED <<used, at, todo, loaded, entries, lock, ready, ctx, faults, applied,
                  overlapped, trusted>>
  BY DEF DeleteSource, threadVars, runtimeVars, historyVars
<1>3. \A k \in DOMAIN schedules' : schedules'[k].source \in DOMAIN sources'
  <2>1. \A k \in DOMAIN schedules : schedules[k].source \in DOMAIN sources  BY DEF TypeOK
  <2>2. /\ DOMAIN sources' = DOMAIN sources \ {s}
        /\ DOMAIN schedules' = {k \in DOMAIN schedules : schedules[k].source # s}
        /\ \A k \in DOMAIN schedules' : schedules'[k] = schedules[k]
    BY DeleteSourceRows
  <2>. QED  BY <2>1, <2>2
<1>. QED  BY <1>1, <1>2, <1>3, DeleteSourceRows DEF TypeOK

\* The rows WriteSource leaves: it changes one row, if that still exists.
LEMMA WriteSourceRows ==
  ASSUME TypeOK, NEW h \in Threads, WriteSource(h)
  PROVE  /\ sources' \in Table(Sources, SourceRow)
         /\ DOMAIN sources' = DOMAIN sources
         /\ \A i \in DOMAIN sources :
              sources'[i] = IF i = todo[h].id THEN todo[h].row ELSE sources[i]
<1>1. todo[h].id \in Sources /\ todo[h].row \in SourceRow
  BY StatementFacts DEF TypeOK, WriteSource
<1>2. CASE todo[h].id \in DOMAIN sources
  <2>1. sources' = With(sources, todo[h].id, todo[h].row)  BY <1>2 DEF WriteSource
  <2>2. sources \in Table(Sources, SourceRow)  BY DEF TypeOK
  <2>3. /\ sources' \in Table(Sources, SourceRow)
        /\ DOMAIN sources' = DOMAIN sources \cup {todo[h].id}
        /\ \A i \in DOMAIN sources' :
             sources'[i] = IF i = todo[h].id THEN todo[h].row ELSE sources[i]
    <3>1. With(sources, todo[h].id, todo[h].row) \in Table(Sources, SourceRow)
      BY <1>1, <2>2, WithType
    <3>. QED  BY <2>1, <3>1 DEF With
  <2>. QED  BY <1>2, <2>3
<1>3. CASE todo[h].id \notin DOMAIN sources
  BY <1>3 DEF TypeOK, WriteSource
<1>. QED  BY <1>2, <1>3

LEMMA WriteType ==
  ASSUME TypeOK, NEW h \in Threads, Write(h)
  PROVE  TypeOK'
<1>1. CASE WriteSource(h)
  <2>1. Finish(h) \/ ToReload(h)  BY <1>1 DEF WriteSource
  <2>2. UNCHANGED <<schedules, used, entries, lock, ready, ctx, requests, faults, applied, trusted>>
    BY <1>1 DEF WriteSource, runtimeVars
  <2>. QED  BY <1>1, <2>1, <2>2, FinishType, ToReloadType, WriteSourceRows DEF TypeOK
<1>2. CASE WriteSchedule(h)
  <2>1. Finish(h) \/ ToReload(h)  BY <1>2 DEF WriteSchedule
  <2>2. UNCHANGED <<sources, used, entries, lock, ready, ctx, requests, faults, applied, trusted>>
    BY <1>2 DEF WriteSchedule, runtimeVars
  <2>3. todo[h].id \in Schedules /\ todo[h].row \in ScheduleRow
    BY <1>2, StatementFacts DEF TypeOK, WriteSchedule
  <2>4. /\ schedules' \in Table(Schedules, ScheduleRow)
        /\ \A k \in DOMAIN schedules' : schedules'[k].source \in DOMAIN sources
    <3>1. CASE schedules' = schedules  BY <3>1 DEF TypeOK
    <3>2. CASE /\ todo[h].row.source \in DOMAIN sources
               /\ schedules' = With(schedules, todo[h].id, todo[h].row)
      <4>1. /\ schedules \in Table(Schedules, ScheduleRow)
            /\ \A k \in DOMAIN schedules : schedules[k].source \in DOMAIN sources
        BY DEF TypeOK
      <4>2. /\ schedules' \in Table(Schedules, ScheduleRow)
            /\ DOMAIN schedules' = DOMAIN schedules \cup {todo[h].id}
            /\ \A k \in DOMAIN schedules' :
                 schedules'[k] = IF k = todo[h].id THEN todo[h].row ELSE schedules[k]
        <5>1. With(schedules, todo[h].id, todo[h].row) \in Table(Schedules, ScheduleRow)
          BY <2>3, <4>1, WithType
        <5>. QED  BY <3>2, <5>1 DEF With
      <4>. QED  BY <3>2, <4>1, <4>2
    <3>. QED  BY <1>2, <3>1, <3>2 DEF WriteSchedule
  <2>. QED  BY <2>1, <2>2, <2>4, FinishType, ToReloadType DEF TypeOK
<1>3. CASE RemoveSchedule(h)
  <2>1. UNCHANGED <<sources, used, entries, lock, ready, ctx, requests, faults, applied, trusted>>
    BY <1>3 DEF RemoveSchedule, runtimeVars
  <2>2. ToReload(h) /\ schedules' = Without(schedules, todo[h].id)  BY <1>3 DEF RemoveSchedule
  <2>3. /\ schedules \in Table(Schedules, ScheduleRow)
        /\ \A k \in DOMAIN schedules : schedules[k].source \in DOMAIN sources
    BY DEF TypeOK
  <2>4. /\ schedules' \in Table(Schedules, ScheduleRow)
        /\ DOMAIN schedules' = DOMAIN schedules \ {todo[h].id}
        /\ \A k \in DOMAIN schedules' : schedules'[k] = schedules[k]
    <3>1. Without(schedules, todo[h].id) \in Table(Schedules, ScheduleRow)  BY <2>3, WithoutType
    <3>. QED  BY <2>2, <3>1 DEF Without
  <2>. QED  BY <2>1, <2>2, <2>3, <2>4, ToReloadType DEF TypeOK
<1>4. CASE WriteFails(h)
  <2>1. UNCHANGED <<sources, schedules, used, entries, lock, ready, ctx, requests, faults, applied,
                    trusted>>
    BY <1>4 DEF WriteFails, rowVars, runtimeVars
  <2>2. Finish(h)  BY <1>4 DEF WriteFails
  <2>. QED  BY <2>1, <2>2, FinishType DEF TypeOK
<1>. QED  BY <1>1, <1>2, <1>3, <1>4 DEF Write

LEMMA ReloadType ==
  ASSUME TypeOK, NEW t \in Threads, Reload(t)
  PROVE  TypeOK'
<1>1. CASE Load(t)
  <2>1. UNCHANGED <<sources, schedules, used, entries, lock, ready, ctx, requests, applied>>
    BY <1>1 DEF Load, rowVars, runtimeVars
  <2>2. CASE /\ at' = [at EXCEPT ![t] = "lock"]
             /\ loaded' = [loaded EXCEPT ![t] = EnabledSourceSchedules]
             /\ UNCHANGED <<todo, faults, overlapped, trusted>>
    BY <2>1, <2>2, SnapshotFacts DEF TypeOK
  <2>3. CASE /\ faults' = faults \/ (faults < MaxFaults /\ faults' = faults + 1)
             /\ Finish(t)
             /\ trusted' = FALSE
    <3>1. faults' \in 0..MaxFaults  BY <2>3, BoundsAssumption DEF TypeOK
    <3>. QED  BY <2>1, <2>3, <3>1, FinishType DEF TypeOK
  <2>. QED  BY <1>1, <2>2, <2>3 DEF Load
<1>2. CASE Lock(t)
  BY <1>2 DEF TypeOK, Lock, rowVars, historyVars
<1>3. ASSUME NEW e \in loaded[t], AddSchedule(t, e)
      PROVE  TypeOK'
  <2>1. entries' \in SUBSET Entry  BY <1>3 DEF TypeOK, AddSchedule
  <2>2. UNCHANGED <<sources, schedules, used, at, todo, loaded, lock, ready, ctx, requests, faults,
                    applied, overlapped, trusted>>
    BY <1>3 DEF AddSchedule, rowVars, threadVars, historyVars
  <2>. QED  BY <2>1, <2>2 DEF TypeOK
<1>4. CASE Unlock(t)
  <2>1. UNCHANGED <<sources, schedules, used, entries, ctx, requests, faults>>
    BY <1>4 DEF Unlock, rowVars
  <2>2. /\ Finish(t)
        /\ ready' \in BOOLEAN
        /\ lock' \in SUBSET Threads
        /\ applied' \in SUBSET Entry
        /\ trusted' \in BOOLEAN
    BY <1>4 DEF TypeOK, Unlock
  <2>. QED  BY <2>1, <2>2, FinishType DEF TypeOK
<1>. QED  BY <1>1, <1>2, <1>3, <1>4 DEF Reload

\* Every variable keeps its type, every schedule its source, for any constants.
THEOREM TypeCorrect == Spec => []TypeOK
<1>1. ASSUME Init PROVE TypeOK
  <2>. USE <1>1
  <2>1. DOMAIN sources \subseteq Sources
    <3>1. sources \in Table(Sources, SourceRow)  BY DEF Init
    <3>. QED  BY <3>1, TableFacts
  <2>2. /\ schedules = [k \in DOMAIN schedules |-> schedules[k]]
        /\ DOMAIN schedules \subseteq Schedules
        /\ \A k \in DOMAIN schedules :
             schedules[k] \in [source : DOMAIN sources, on : BOOLEAN, expr : Exprs]
    <3>1. schedules \in Table(Schedules, [source : DOMAIN sources, on : BOOLEAN, expr : Exprs])
      BY DEF Init
    <3>. QED  BY <3>1 DEF Table
  <2>3. \A k \in DOMAIN schedules : /\ schedules[k] \in ScheduleRow
                                    /\ schedules[k].source \in DOMAIN sources
    BY <2>1, <2>2 DEF ScheduleRow
  <2>4. schedules \in Table(Schedules, ScheduleRow)  BY <2>2, <2>3, TableFacts
  <2>5. used \in SUBSET (Sources \cup Schedules)  BY <2>1, <2>2 DEF Init
  <2>6. Nothing \in Statement  BY DEF Nothing, Statement
  <2>7. requests \in 0..MaxRequests /\ faults \in 0..MaxFaults  BY BoundsAssumption DEF Init
  <2>. QED  BY <2>3, <2>4, <2>5, <2>6, <2>7 DEF Init, TypeOK
<1>2. ASSUME TypeOK, [Next]_vars PROVE TypeOK'
  <2>. USE <1>2
  <2>1. CASE UNCHANGED vars
    BY <2>1 DEF TypeOK, vars, rowVars, threadVars, runtimeVars, historyVars
  <2>2. CASE \E h \in Handlers : Request(h) \/ Write(h)
    BY <2>2, RequestType, WriteType DEF Threads
  <2>3. CASE \E t \in Threads : Reload(t)  BY <2>3, ReloadType
  <2>4. CASE \E s \in Sources : DeleteSource(s) \/ \E row \in SourceRow : CreateSource(s, row)
    BY <2>4, DeleteSourceType, CreateSourceType
  <2>5. CASE Signal  BY <2>5 DEF Signal, TypeOK, rowVars, threadVars, historyVars
  <2>6. CASE Stop  BY <2>6 DEF Stop, TypeOK, rowVars, threadVars, historyVars
  <2>. QED  BY <2>1, <2>2, <2>3, <2>4, <2>5, <2>6 DEF Next
<1>. QED  BY <1>1, <1>2, PTL DEF Spec
-----------------------------------------------------------------------------
(* Reloads do not mix *)

\* The threads between Lock and Unlock are the holders of the mutex, of which
\* there is one at most.
LockInv == /\ lock = {t \in Threads : at[t] = "add"}
           /\ \A t, u \in lock : t = u

\* A schedule occurs once in a snapshot, so that addScheduleLocked, which skips a
\* key that has an entry, adds all of it.
KeyInv == \A t \in Threads : \A d, e \in loaded[t] : d.schedule = e.schedule => d = e

\* Between Lock and Unlock the entries are some of the holder's snapshot.
AddInv == \A t \in lock : entries \subseteq loaded[t]

MixInv == LockInv /\ KeyInv /\ AddInv /\ ReloadsDoNotMix

\* A thread outside the mutex moves outside it.
LEMMA OutsideMix ==
  ASSUME TypeOK, MixInv, NEW t \in Threads, at[t] # "add",
         NEW place, place # "add", at' = [at EXCEPT ![t] = place],
         loaded' \in {loaded, [loaded EXCEPT ![t] = {}],
                     [loaded EXCEPT ![t] = EnabledSourceSchedules]},
         UNCHANGED <<entries, lock, applied>>
  PROVE  MixInv'
<1>1. /\ at'[t] # "add"
      /\ \A u \in Threads : u # t => at'[u] = at[u] /\ loaded'[u] = loaded[u]
      /\ loaded'[t] \in {loaded[t], {}, EnabledSourceSchedules}
      /\ t \notin lock /\ lock \in SUBSET Threads
  BY DEF TypeOK, MixInv, LockInv
<1>2. LockInv'  BY <1>1 DEF MixInv, LockInv
<1>3. KeyInv'  BY <1>1, SnapshotFacts DEF MixInv, KeyInv
<1>4. AddInv'  BY <1>1 DEF MixInv, AddInv
<1>5. ReloadsDoNotMix'  BY DEF MixInv, ReloadsDoNotMix
<1>. QED  BY <1>2, <1>3, <1>4, <1>5 DEF MixInv

\* A step that neither moves a thread nor touches the entries.
LEMMA FrameMix ==
  ASSUME MixInv, UNCHANGED <<at, loaded, entries, lock, applied>>
  PROVE  MixInv'
BY DEF MixInv, LockInv, KeyInv, AddInv, ReloadsDoNotMix

LEMMA RequestMix ==
  ASSUME TypeOK, MixInv, NEW h \in Handlers, Request(h)
  PROVE  MixInv'
<1>1. PICK w : Begin(h, w)
  BY DEF Request, UpdateSource, CreateSchedule, UpdateSchedule, DeleteSchedule
<1>2. /\ h \in Threads /\ at[h] # "add"
      /\ at' = [at EXCEPT ![h] = "write"]
      /\ loaded' = loaded
      /\ UNCHANGED <<entries, lock, applied>>
  BY <1>1 DEF Begin, Threads, runtimeVars
<1>. QED  BY <1>2, OutsideMix

LEMMA WriteMix ==
  ASSUME TypeOK, MixInv, NEW h \in Threads, Write(h)
  PROVE  MixInv'
<1>1. /\ at[h] # "add"
      /\ Finish(h) \/ ToReload(h)
      /\ UNCHANGED <<entries, lock, applied>>
  BY DEF Write, WriteSource, WriteSchedule, RemoveSchedule, WriteFails, runtimeVars
<1>2. \E place \in {"idle", "load"} : at' = [at EXCEPT ![h] = place]
  BY <1>1 DEF Finish, ToReload
<1>3. loaded' \in {loaded, [loaded EXCEPT ![h] = {}]}  BY <1>1 DEF Finish, ToReload
<1>. QED  BY <1>1, <1>2, <1>3, OutsideMix

LEMMA LockMix ==
  ASSUME TypeOK, MixInv, NEW t \in Threads, Lock(t)
  PROVE  MixInv'
<1>1. /\ lock = {} /\ lock' = {t} /\ entries' = {} /\ loaded' = loaded
      /\ at'[t] = "add"
      /\ \A u \in Threads : u # t => at'[u] = at[u]
  BY DEF TypeOK, Lock
<1>. QED  BY <1>1 DEF MixInv, LockInv, KeyInv, AddInv, ReloadsDoNotMix

LEMMA AddScheduleMix ==
  ASSUME TypeOK, MixInv, NEW t \in Threads, NEW e \in loaded[t], AddSchedule(t, e)
  PROVE  MixInv'
<1>1. /\ t \in lock
      /\ \A u \in lock : u = t
      /\ entries' = entries \cup {e}
      /\ UNCHANGED <<at, loaded, lock, applied>>
  BY DEF AddSchedule, MixInv, LockInv, threadVars, historyVars
<1>. QED  BY <1>1 DEF MixInv, LockInv, KeyInv, AddInv, ReloadsDoNotMix

\* Every row of the snapshot is in, and so the entries are the snapshot.
LEMMA UnlockEntries ==
  ASSUME TypeOK, MixInv, NEW t \in Threads, Unlock(t)
  PROVE  entries = loaded[t]
<1>1. at[t] = "add" /\ \A e \in loaded[t] : \E d \in entries : d.schedule = e.schedule
  BY DEF Unlock, Present, SameKey
<1>2. entries \subseteq loaded[t]  BY <1>1 DEF MixInv, LockInv, AddInv
<1>3. ASSUME NEW e \in loaded[t] PROVE e \in entries
  <2>1. PICK d \in entries : d.schedule = e.schedule  BY <1>1
  <2>2. d = e  BY <1>2, <2>1 DEF MixInv, KeyInv
  <2>. QED  BY <2>2
<1>. QED  BY <1>2, <1>3

LEMMA UnlockMix ==
  ASSUME TypeOK, MixInv, NEW t \in Threads, Unlock(t)
  PROVE  MixInv'
<1>1. /\ lock = {t} /\ lock' = {} /\ entries' = entries /\ applied' = loaded[t]
      /\ at'[t] = "idle" /\ loaded'[t] = {}
      /\ \A u \in Threads : u # t => at'[u] = at[u] /\ loaded'[u] = loaded[u]
  <2>1. lock = {t}  BY DEF Unlock, MixInv, LockInv
  <2>. QED  BY <2>1 DEF TypeOK, Unlock, Finish
<1>2. LockInv'  BY <1>1 DEF MixInv, LockInv
<1>3. KeyInv'  BY <1>1 DEF MixInv, KeyInv
<1>4. AddInv'  BY <1>1 DEF AddInv
<1>5. ReloadsDoNotMix'  BY <1>1, UnlockEntries DEF ReloadsDoNotMix
<1>. QED  BY <1>2, <1>3, <1>4, <1>5 DEF MixInv

LEMMA ReloadMix ==
  ASSUME TypeOK, MixInv, NEW t \in Threads, Reload(t)
  PROVE  MixInv'
<1>1. CASE Load(t)
  <2>1. /\ at[t] # "add"
        /\ \E place \in {"idle", "lock"} : at' = [at EXCEPT ![t] = place]
        /\ loaded' \in {[loaded EXCEPT ![t] = {}],
                        [loaded EXCEPT ![t] = EnabledSourceSchedules]}
        /\ UNCHANGED <<entries, lock, applied>>
    BY <1>1 DEF Load, Finish, runtimeVars
  <2>. QED  BY <2>1, OutsideMix
<1>2. CASE Lock(t)  BY <1>2, LockMix
<1>3. CASE \E e \in loaded[t] : AddSchedule(t, e)  BY <1>3, AddScheduleMix
<1>4. CASE Unlock(t)  BY <1>4, UnlockMix
<1>. QED  BY <1>1, <1>2, <1>3, <1>4 DEF Reload

\* Whenever the mutex is free the entries are one reload's snapshot, whatever
\* threads wait for it: the invariant below names the holder of the mutex and
\* what it has put in so far.
LEMMA MixInvariant == Spec => []MixInv
<1>1. ASSUME Init PROVE MixInv
  BY <1>1 DEF Init, MixInv, LockInv, KeyInv, AddInv, ReloadsDoNotMix
<1>2. ASSUME TypeOK, MixInv, [Next]_vars PROVE MixInv'
  <2>. USE <1>2
  <2>1. CASE UNCHANGED vars
    BY <2>1, FrameMix DEF vars, threadVars, runtimeVars, historyVars
  <2>2. CASE \E h \in Handlers : Request(h) \/ Write(h)
    BY <2>2, RequestMix, WriteMix DEF Threads
  <2>3. CASE \E t \in Threads : Reload(t)  BY <2>3, ReloadMix
  <2>4. CASE \E s \in Sources : DeleteSource(s) \/ \E row \in SourceRow : CreateSource(s, row)
    BY <2>4, FrameMix DEF DeleteSource, CreateSource, threadVars, runtimeVars, historyVars
  <2>5. CASE Signal \/ Stop
    BY <2>5, FrameMix DEF Signal, Stop, threadVars, historyVars
  <2>. QED  BY <2>1, <2>2, <2>3, <2>4, <2>5 DEF Next
<1>. QED  BY <1>1, <1>2, TypeCorrect, PTL DEF Spec

\* Reload's mutex keeps reloads apart: whenever it is free, the entries are what
\* one reload read, for any number of requests, sources and schedules.
THEOREM ReloadsDoNotMixCorrect == Spec => []ReloadsDoNotMix
<1>1. MixInv => ReloadsDoNotMix  BY DEF MixInv
<1>. QED  BY <1>1, MixInvariant, PTL
-----------------------------------------------------------------------------
(* A reload that runs alone repairs the entries *)

\* InSync, for any entries and any rows, one enabled row and one entry at a time.
InStep(es, srcs, scheds) ==
  /\ \A e \in es : e.source \in DOMAIN srcs =>
       /\ e.schedule \in DOMAIN scheds
       /\ scheds[e.schedule].on /\ srcs[e.source].on
       /\ scheds[e.schedule].source = e.source
       /\ scheds[e.schedule].expr = e.expr
  /\ \A k \in DOMAIN scheds : scheds[k].on /\ srcs[scheds[k].source].on =>
       \E e \in es : /\ e.schedule = k
                    /\ e.source = scheds[k].source
                    /\ e.expr = scheds[k].expr

\* Nothing mentions an id of a source that was not created yet.
UsedInv ==
  /\ DOMAIN sources \subseteq used
  /\ \A e \in entries : e.source \in used
  /\ \A t \in Threads : \A e \in loaded[t] : e.source \in used
  /\ \A t \in Threads : todo[t].op = "updateSource" => todo[t].id \in used

\* A request that no other one overlapped is the only one.
AloneInv ==
  /\ overlapped \subseteq Active
  /\ \A t \in Active : t \notin overlapped => Active = {t}

\* The snapshot of a lone reload still says what the rows say.
FreshInv ==
  \A t \in Threads : at[t] \in {"lock", "add"} /\ t \notin overlapped =>
    InStep(loaded[t], sources, schedules)

\* So does what a lone UpdateSource without is_enabled read.
StaleInv ==
  \A h \in Threads :
    /\ at[h] = "write" /\ h \notin overlapped
    /\ todo[h].op = "updateSource" /\ ~todo[h].reload
    /\ todo[h].id \in DOMAIN sources
    => sources[todo[h].id].on = todo[h].row.on

Reloading == \E t \in Threads : at[t] \in {"load", "lock", "add"}

CalmInv ==
  trusted => /\ overlapped = {}
             /\ InStep(entries, sources, schedules) \/ Reloading

RepairInv == UsedInv /\ AloneInv /\ FreshInv /\ StaleInv /\ CalmInv

\* The rows agree with themselves.
LEMMA SnapshotInStep ==
  ASSUME TypeOK
  PROVE  InStep(EnabledSourceSchedules, sources, schedules)
<1>1. \A k \in DOMAIN schedules : schedules[k].source \in DOMAIN sources  BY DEF TypeOK
<1>2. ASSUME NEW e \in EnabledSourceSchedules, e.source \in DOMAIN sources
      PROVE  /\ e.schedule \in DOMAIN schedules
             /\ schedules[e.schedule].on /\ sources[e.source].on
             /\ schedules[e.schedule].source = e.source
             /\ schedules[e.schedule].expr = e.expr
  BY <1>2 DEF EnabledSourceSchedules, EnabledSchedules
<1>3. ASSUME NEW k \in DOMAIN schedules, schedules[k].on, sources[schedules[k].source].on
      PROVE  \E e \in EnabledSourceSchedules : /\ e.schedule = k
                                               /\ e.source = schedules[k].source
                                               /\ e.expr = schedules[k].expr
  <2>1. k \in EnabledSchedules  BY <1>3 DEF EnabledSchedules
  <2>. DEFINE d == [schedule |-> k, source |-> schedules[k].source, expr |-> schedules[k].expr,
                    label |-> sources[schedules[k].source].label]
  <2>2. d \in EnabledSourceSchedules  BY <2>1 DEF EnabledSourceSchedules
  <2>3. d.schedule = k /\ d.source = schedules[k].source /\ d.expr = schedules[k].expr
    OBVIOUS
  <2>. HIDE DEF d
  <2>. QED  BY <2>2, <2>3
<1>. QED  BY <1>2, <1>3 DEF InStep

LEMMA InStepMeans ==
  ASSUME TypeOK, InStep(entries, sources, schedules)
  PROVE  InSync
<1>1. \A k \in DOMAIN schedules : schedules[k].source \in DOMAIN sources  BY DEF TypeOK
<1>2. ASSUME NEW x \in Triggers(entries) PROVE x \in Triggers(EnabledSourceSchedules)
  <2>1. PICK e \in entries : /\ e.source \in DOMAIN sources
                            /\ x = <<e.schedule, e.source, e.expr>>
    BY <1>2 DEF Triggers
  <2>2. /\ e.schedule \in EnabledSchedules
        /\ schedules[e.schedule].source = e.source
        /\ schedules[e.schedule].expr = e.expr
    BY <2>1 DEF InStep, EnabledSchedules
  <2>. DEFINE d == [schedule |-> e.schedule, source |-> e.source, expr |-> e.expr,
                    label |-> sources[e.source].label]
  <2>3. d \in EnabledSourceSchedules  BY <2>2 DEF EnabledSourceSchedules
  <2>4. d.source \in DOMAIN sources /\ x = <<d.schedule, d.source, d.expr>>  BY <2>1
  <2>. HIDE DEF d
  <2>. QED  BY <2>3, <2>4 DEF Triggers
<1>3. ASSUME NEW x \in Triggers(EnabledSourceSchedules) PROVE x \in Triggers(entries)
  <2>1. PICK d \in EnabledSourceSchedules : x = <<d.schedule, d.source, d.expr>>
    BY <1>3 DEF Triggers
  <2>2. PICK k \in EnabledSchedules :
          d.schedule = k /\ d.source = schedules[k].source /\ d.expr = schedules[k].expr
    BY DEF EnabledSourceSchedules
  <2>3. PICK e \in entries : /\ e.schedule = k
                            /\ e.source = schedules[k].source
                            /\ e.expr = schedules[k].expr
    BY <2>2 DEF InStep, EnabledSchedules
  <2>4. e.source \in DOMAIN sources  BY <1>1, <2>2, <2>3 DEF EnabledSchedules
  <2>. QED  BY <2>1, <2>2, <2>3, <2>4 DEF Triggers
<1>. QED  BY <1>2, <1>3 DEF InSync

\* Sources come and go without a reload, and nothing falls out of step.
LEMMA DeleteInStep ==
  ASSUME TypeOK, NEW s \in Sources, DeleteSource(s), NEW es,
         InStep(es, sources, schedules)
  PROVE  InStep(es, sources', schedules')
<1>1. \A k \in DOMAIN schedules : schedules[k].source \in DOMAIN sources  BY DEF TypeOK
<1>2. /\ DOMAIN sources' = DOMAIN sources \ {s}
      /\ \A i \in DOMAIN sources' : sources'[i] = sources[i]
      /\ DOMAIN schedules' = {k \in DOMAIN schedules : schedules[k].source # s}
      /\ \A k \in DOMAIN schedules' : schedules'[k] = schedules[k]
  BY DeleteSourceRows
<1>3. ASSUME NEW e \in es, e.source \in DOMAIN sources'
      PROVE  /\ e.schedule \in DOMAIN schedules'
             /\ schedules'[e.schedule].on /\ sources'[e.source].on
             /\ schedules'[e.schedule].source = e.source
             /\ schedules'[e.schedule].expr = e.expr
  BY <1>2, <1>3 DEF InStep
<1>4. ASSUME NEW k \in DOMAIN schedules', schedules'[k].on, sources'[schedules'[k].source].on
      PROVE  \E e \in es : /\ e.schedule = k
                           /\ e.source = schedules'[k].source
                           /\ e.expr = schedules'[k].expr
  BY <1>1, <1>2, <1>4 DEF InStep
<1>. QED  BY <1>3, <1>4 DEF InStep

LEMMA CreateInStep ==
  ASSUME TypeOK, UsedInv, NEW s \in Sources, NEW row \in SourceRow, CreateSource(s, row),
         NEW es, \A e \in es : e.source \in used,
         InStep(es, sources, schedules)
  PROVE  InStep(es, sources', schedules')
<1>1. \A k \in DOMAIN schedules : schedules[k].source \in DOMAIN sources  BY DEF TypeOK
<1>2. s \notin DOMAIN sources /\ s \notin used /\ schedules' = schedules
  BY DEF CreateSource, UsedInv
<1>3. /\ DOMAIN sources' = DOMAIN sources \cup {s}
      /\ \A i \in DOMAIN sources : sources'[i] = sources[i]
  BY <1>2 DEF CreateSource, With
<1>. QED  BY <1>1, <1>2, <1>3 DEF InStep

LEMMA DeleteSourceRepair ==
  ASSUME TypeOK, RepairInv, NEW s \in Sources, DeleteSource(s)
  PROVE  RepairInv'
<1>1. UNCHANGED <<used, at, todo, loaded, entries, overlapped, trusted>>
  BY DEF DeleteSource, threadVars, runtimeVars, historyVars
<1>2. UsedInv'  BY <1>1, DeleteSourceRows DEF RepairInv, UsedInv
<1>3. AloneInv'  BY <1>1 DEF RepairInv, AloneInv, Active
<1>4. FreshInv'  BY <1>1, DeleteInStep DEF RepairInv, FreshInv
<1>5. StaleInv'  BY <1>1, DeleteSourceRows DEF RepairInv, StaleInv
<1>6. CalmInv'  BY <1>1, DeleteInStep DEF RepairInv, CalmInv, Reloading
<1>. QED  BY <1>2, <1>3, <1>4, <1>5, <1>6 DEF RepairInv

LEMMA CreateSourceRepair ==
  ASSUME TypeOK, RepairInv, NEW s \in Sources, NEW row \in SourceRow, CreateSource(s, row)
  PROVE  RepairInv'
<1>1. /\ UNCHANGED <<at, todo, loaded, entries, overlapped, trusted>>
      /\ used' = used \cup {s} /\ s \notin used
  BY DEF CreateSource, threadVars, runtimeVars, historyVars
<1>2. /\ DOMAIN sources' = DOMAIN sources \cup {s}
      /\ \A i \in DOMAIN sources : i # s => sources'[i] = sources[i]
  BY DEF CreateSource, With
<1>3. UsedInv'  BY <1>1, <1>2 DEF RepairInv, UsedInv
<1>4. AloneInv'  BY <1>1 DEF RepairInv, AloneInv, Active
<1>5. FreshInv'
  <2>1. ASSUME NEW t \in Threads, InStep(loaded[t], sources, schedules)
        PROVE  InStep(loaded[t], sources', schedules')
    <3>1. \A e \in loaded[t] : e.source \in used  BY DEF RepairInv, UsedInv
    <3>. QED  BY <2>1, <3>1, CreateInStep DEF RepairInv
  <2>. QED  BY <1>1, <2>1 DEF RepairInv, FreshInv
<1>6. StaleInv'  BY <1>1, <1>2 DEF RepairInv, UsedInv, StaleInv
<1>7. CalmInv'
  <2>1. \A e \in entries : e.source \in used  BY DEF RepairInv, UsedInv
  <2>2. InStep(entries, sources, schedules) => InStep(entries, sources', schedules')
    BY <2>1, CreateInStep DEF RepairInv
  <2>. QED  BY <1>1, <2>2 DEF RepairInv, CalmInv, Reloading
<1>. QED  BY <1>3, <1>4, <1>5, <1>6, <1>7 DEF RepairInv

\* The types the lemmas on threads need.
LEMMA ThreadTypes ==
  ASSUME TypeOK
  PROVE  /\ at \in [Threads -> {"idle", "write", "load", "lock", "add"}]
         /\ todo \in [Threads -> Statement]
         /\ loaded \in [Threads -> SUBSET Entry]
         /\ overlapped \in SUBSET Threads
         /\ \A k \in DOMAIN schedules : schedules[k].source \in DOMAIN sources
BY DEF TypeOK

LEMMA BeginRepair ==
  ASSUME TypeOK, RepairInv, NEW h \in Handlers, NEW w \in Statement, Begin(h, w),
         used \subseteq used',
         w.op = "updateSource" => /\ w.id \in used
                                  /\ ~w.reload => sources[w.id].on = w.row.on
  PROVE  RepairInv'
<1>1. /\ h \in Threads /\ at[h] = "idle"
      /\ at'[h] = "write" /\ todo'[h] = w
      /\ \A t \in Threads : t # h => at'[t] = at[t] /\ todo'[t] = todo[t]
      /\ UNCHANGED <<sources, schedules, loaded, entries>>
  BY ThreadTypes DEF Begin, Threads, runtimeVars
<1>2. CASE Active = {}
  <2>1. overlapped' = overlapped /\ trusted' = trusted /\ overlapped = {}
    BY <1>2 DEF Begin, RepairInv, AloneInv
  <2>2. Active' = {h} /\ \A t \in Threads : at[t] = "idle"  BY <1>1, <1>2 DEF Active
  <2>3. ~Reloading  BY <2>2 DEF Reloading
  <2>4. UsedInv'  BY <1>1 DEF RepairInv, UsedInv
  <2>5. AloneInv'  BY <2>1, <2>2 DEF AloneInv
  <2>6. FreshInv'  BY <1>1, <2>1, <2>2 DEF FreshInv
  <2>7. StaleInv'  BY <1>1, <2>1, <2>2 DEF StaleInv
  <2>8. CalmInv'  BY <1>1, <2>1, <2>3 DEF RepairInv, CalmInv
  <2>. QED  BY <2>4, <2>5, <2>6, <2>7, <2>8 DEF RepairInv
<1>3. CASE Active # {}
  <2>1. overlapped' = overlapped \cup Active \cup {h} /\ trusted' = FALSE
    BY <1>3 DEF Begin
  <2>2. Active' = Active \cup {h}  BY <1>1 DEF Active
  <2>3. \A t \in Threads : at'[t] # "idle" => t \in overlapped'  BY <1>1, <2>1 DEF Active
  <2>4. UsedInv'  BY <1>1 DEF RepairInv, UsedInv
  <2>5. AloneInv'  BY <2>1, <2>2 DEF RepairInv, AloneInv
  <2>6. FreshInv'  BY <2>3 DEF FreshInv
  <2>7. StaleInv'  BY <2>3 DEF StaleInv
  <2>8. CalmInv'  BY <2>1 DEF CalmInv
  <2>. QED  BY <2>4, <2>5, <2>6, <2>7, <2>8 DEF RepairInv
<1>. QED  BY <1>2, <1>3

LEMMA RequestRepair ==
  ASSUME TypeOK, RepairInv, NEW h \in Handlers, Request(h)
  PROVE  RepairInv'
<1>1. ASSUME NEW s \in Sources, UpdateSource(h, s) PROVE RepairInv'
  <2>1. PICK label \in Labels, on \in BOOLEAN, reload \in BOOLEAN :
          /\ Begin(h, [op |-> "updateSource", id |-> s, reload |-> reload,
                       row |-> [on |-> on, label |-> label]])
          /\ ~reload => on = sources[s].on
    <3>1. s \in DOMAIN sources /\ sources[s].on \in BOOLEAN
      <4>1. sources[s] \in SourceRow  BY <1>1, TableFacts DEF TypeOK, UpdateSource
      <4>. QED  BY <1>1, <4>1 DEF UpdateSource, SourceRow
    <3>. QED  BY <1>1, <3>1 DEF UpdateSource
  <2>. DEFINE w == [op |-> "updateSource", id |-> s, reload |-> reload,
                    row |-> [on |-> on, label |-> label]]
  <2>2. w \in Statement  BY DEF Statement, SourceRow
  <2>3. w.id \in used /\ (~w.reload => sources[w.id].on = w.row.on)
    BY <1>1, <2>1 DEF UpdateSource, RepairInv, UsedInv
  <2>4. Begin(h, w) /\ used' = used  BY <1>1, <2>1 DEF UpdateSource
  <2>. HIDE DEF w
  <2>. QED  BY <2>2, <2>3, <2>4, BeginRepair
<1>2. ASSUME NEW w \in Statement, Begin(h, w), w.op # "updateSource", used \subseteq used'
      PROVE  RepairInv'
  BY <1>2, BeginRepair
<1>3. ASSUME NEW k \in Schedules, NEW row \in ScheduleRow,
             CreateSchedule(h, k, row) \/ UpdateSchedule(h, k, row)
      PROVE  RepairInv'
  <2>1. PICK w \in Statement : Begin(h, w) /\ w.op # "updateSource"
    <3>1. /\ [op |-> "createSchedule", id |-> k, row |-> row] \in Statement
          /\ [op |-> "updateSchedule", id |-> k, row |-> row] \in Statement
      BY DEF Statement
    <3>. QED  BY <1>3, <3>1 DEF CreateSchedule, UpdateSchedule
  <2>2. used \subseteq used'  BY <1>3 DEF CreateSchedule, UpdateSchedule
  <2>. QED  BY <2>1, <2>2, <1>2
<1>4. ASSUME NEW k \in Schedules, DeleteSchedule(h, k) PROVE RepairInv'
  <2>1. [op |-> "deleteSchedule", id |-> k] \in Statement  BY DEF Statement
  <2>. QED  BY <1>2, <1>4, <2>1 DEF DeleteSchedule
<1>. QED  BY <1>1, <1>3, <1>4 DEF Request

\* A statement runs and its request goes on or ends, with the entries as they are.
\* What the statement did to the rows is harmless if the request is alone and
\* ends: either nothing was changed, or nothing the scheduler keeps in step.
LEMMA StatementRepair ==
  ASSUME TypeOK, RepairInv, NEW h \in Threads, at[h] = "write",
         Finish(h) \/ ToReload(h),
         UNCHANGED <<used, entries, trusted>>,
         DOMAIN sources' = DOMAIN sources,
         h \notin overlapped /\ Finish(h) /\ InStep(entries, sources, schedules) =>
           InStep(entries, sources', schedules')
  PROVE  RepairInv'
<1>1. /\ at'[h] \in {"idle", "load"} /\ todo'[h] = Nothing /\ loaded'[h] \in {loaded[h], {}}
      /\ \A t \in Threads : t # h => at'[t] = at[t] /\ todo'[t] = todo[t] /\ loaded'[t] = loaded[t]
      /\ overlapped' \in {overlapped, overlapped \ {h}}
      /\ at'[h] = "idle" => Finish(h) /\ overlapped' = overlapped \ {h}
      /\ at'[h] = "load" => overlapped' = overlapped
  BY ThreadTypes DEF Finish, ToReload
<1>2. h \in Active  BY DEF Active
<1>3. \A t \in Active : t \notin overlapped => t = h /\ Active = {h}
  BY <1>2 DEF RepairInv, AloneInv
<1>4. UsedInv'
  <2>1. Nothing.op # "updateSource"  BY DEF Nothing
  <2>. QED  BY <1>1, <2>1 DEF RepairInv, UsedInv
<1>5. AloneInv'
  <2>1. Active' = IF at'[h] = "idle" THEN Active \ {h} ELSE Active  BY <1>1, <1>2 DEF Active
  <2>. QED  BY <1>1, <1>3, <2>1 DEF RepairInv, AloneInv
<1>6. \A t \in Threads : t # h /\ t \notin overlapped' => at'[t] = "idle"
  BY <1>1, <1>3 DEF Active
<1>7. FreshInv'  BY <1>1, <1>6 DEF FreshInv
<1>8. StaleInv'  BY <1>1, <1>6 DEF StaleInv
<1>9. CalmInv'
  <2>. SUFFICES ASSUME trusted PROVE CalmInv'  BY DEF CalmInv
  <2>1. overlapped = {} /\ (InStep(entries, sources, schedules) \/ Reloading)
    BY DEF RepairInv, CalmInv
  <2>2. ~Reloading  BY <1>3, <2>1 DEF Reloading, Active
  <2>3. CASE at'[h] = "load"  BY <1>1, <2>1, <2>3 DEF CalmInv, Reloading
  <2>4. CASE at'[h] = "idle"  BY <1>1, <2>1, <2>2, <2>4 DEF CalmInv
  <2>. QED  BY <1>1, <2>3, <2>4
<1>. QED  BY <1>4, <1>5, <1>7, <1>8, <1>9 DEF RepairInv

LEMMA WriteRepair ==
  ASSUME TypeOK, RepairInv, NEW h \in Threads, Write(h)
  PROVE  RepairInv'
<1>1. ~(Finish(h) /\ ToReload(h))
  <2>1. at \in [Threads -> {"idle", "write", "load", "lock", "add"}]  BY ThreadTypes
  <2>. QED  BY <2>1 DEF Finish, ToReload
<1>2. CASE WriteSource(h)
  <2>1. /\ at[h] = "write" /\ todo[h].op = "updateSource"
        /\ Finish(h) \/ ToReload(h)
        /\ Finish(h) => ~todo[h].reload
        /\ UNCHANGED <<schedules, used, entries, trusted>>
    BY <1>1, <1>2 DEF WriteSource, runtimeVars
  <2>2. /\ DOMAIN sources' = DOMAIN sources
        /\ \A i \in DOMAIN sources :
             sources'[i] = IF i = todo[h].id THEN todo[h].row ELSE sources[i]
    BY <1>2, WriteSourceRows
  <2>3. ASSUME h \notin overlapped, Finish(h), InStep(entries, sources, schedules)
        PROVE  InStep(entries, sources', schedules')
    <3>1. \A i \in DOMAIN sources : sources'[i].on = sources[i].on
      BY <2>1, <2>2, <2>3 DEF RepairInv, StaleInv
    <3>. QED  BY <2>1, <2>2, <2>3, <3>1, ThreadTypes DEF InStep
  <2>. QED  BY <2>1, <2>2, <2>3, StatementRepair
<1>3. CASE WriteSchedule(h) \/ RemoveSchedule(h) \/ WriteFails(h)
  <2>1. /\ at[h] = "write"
        /\ Finish(h) \/ ToReload(h)
        /\ Finish(h) => schedules' = schedules
        /\ UNCHANGED <<sources, used, entries, trusted>>
    BY <1>1, <1>3 DEF WriteSchedule, RemoveSchedule, WriteFails, rowVars, runtimeVars
  <2>. QED  BY <2>1, StatementRepair
<1>. QED  BY <1>2, <1>3 DEF Write

LEMMA LoadRepair ==
  ASSUME TypeOK, RepairInv, NEW t \in Threads, Load(t)
  PROVE  RepairInv'
<1>1. at[t] = "load" /\ UNCHANGED <<sources, schedules, used, entries>>
  BY DEF Load, rowVars, runtimeVars
<1>2. CASE /\ at' = [at EXCEPT ![t] = "lock"]
           /\ loaded' = [loaded EXCEPT ![t] = EnabledSourceSchedules]
           /\ UNCHANGED <<todo, overlapped, trusted>>
  <2>1. /\ at'[t] = "lock" /\ loaded'[t] = EnabledSourceSchedules
        /\ \A u \in Threads : u # t => at'[u] = at[u] /\ loaded'[u] = loaded[u]
    BY <1>2, ThreadTypes
  <2>2. \A e \in EnabledSourceSchedules : e.source \in DOMAIN sources
    BY ThreadTypes DEF EnabledSourceSchedules, EnabledSchedules
  <2>3. UsedInv'  BY <1>1, <1>2, <2>1, <2>2 DEF RepairInv, UsedInv
  <2>4. AloneInv'
    <3>1. Active' = Active  BY <1>1, <2>1 DEF Active
    <3>. QED  BY <1>2, <3>1 DEF RepairInv, AloneInv
  <2>5. FreshInv'  BY <1>1, <1>2, <2>1, SnapshotInStep DEF RepairInv, FreshInv
  <2>6. StaleInv'  BY <1>1, <1>2, <2>1 DEF RepairInv, StaleInv
  <2>7. CalmInv'  BY <1>2, <2>1 DEF RepairInv, CalmInv, Reloading
  <2>. QED  BY <2>3, <2>4, <2>5, <2>6, <2>7 DEF RepairInv
<1>3. CASE Finish(t) /\ trusted' = FALSE
  <2>1. /\ at'[t] = "idle" /\ loaded'[t] = {} /\ todo'[t] = Nothing
        /\ \A u \in Threads : u # t =>
             at'[u] = at[u] /\ loaded'[u] = loaded[u] /\ todo'[u] = todo[u]
        /\ overlapped' = overlapped \ {t}
    BY <1>3, ThreadTypes DEF Finish
  <2>2. Nothing.op # "updateSource"  BY DEF Nothing
  <2>3. UsedInv'  BY <1>1, <2>1, <2>2 DEF RepairInv, UsedInv
  <2>4. AloneInv'
    <3>1. Active' = Active \ {t}  BY <2>1 DEF Active
    <3>. QED  BY <2>1, <3>1 DEF RepairInv, AloneInv
  <2>5. FreshInv'  BY <1>1, <2>1 DEF RepairInv, FreshInv
  <2>6. StaleInv'  BY <1>1, <2>1 DEF RepairInv, StaleInv
  <2>7. CalmInv'  BY <1>3 DEF CalmInv
  <2>. QED  BY <2>3, <2>4, <2>5, <2>6, <2>7 DEF RepairInv
<1>. QED  BY <1>2, <1>3 DEF Load

\* Lock and AddSchedule: the entries change while a reload is on its way.
LEMMA LockedRepair ==
  ASSUME TypeOK, RepairInv, NEW t \in Threads,
         Lock(t) \/ \E e \in loaded[t] : AddSchedule(t, e)
  PROVE  RepairInv'
<1>1. /\ at[t] \in {"lock", "add"} /\ at'[t] = "add"
      /\ \A u \in Threads : u # t => at'[u] = at[u]
      /\ UNCHANGED <<sources, schedules, used, todo, loaded, overlapped, trusted>>
      /\ entries' \subseteq entries \cup loaded[t]
  <2>1. CASE Lock(t)  BY <2>1, ThreadTypes DEF Lock, rowVars, historyVars
  <2>2. CASE \E e \in loaded[t] : AddSchedule(t, e)
    BY <2>2 DEF AddSchedule, rowVars, threadVars, historyVars
  <2>. QED  BY <2>1, <2>2
<1>2. UsedInv'  BY <1>1 DEF RepairInv, UsedInv
<1>3. AloneInv'
  <2>1. Active' = Active  BY <1>1 DEF Active
  <2>. QED  BY <1>1, <2>1 DEF RepairInv, AloneInv
<1>4. FreshInv'  BY <1>1 DEF RepairInv, FreshInv
<1>5. StaleInv'  BY <1>1 DEF RepairInv, StaleInv
<1>6. CalmInv'  BY <1>1 DEF RepairInv, CalmInv, Reloading
<1>. QED  BY <1>2, <1>3, <1>4, <1>5, <1>6 DEF RepairInv

LEMMA UnlockRepair ==
  ASSUME TypeOK, MixInv, RepairInv, NEW t \in Threads, Unlock(t)
  PROVE  RepairInv'
<1>1. /\ at[t] = "add" /\ at'[t] = "idle" /\ loaded'[t] = {} /\ todo'[t] = Nothing
      /\ \A u \in Threads : u # t =>
           at'[u] = at[u] /\ loaded'[u] = loaded[u] /\ todo'[u] = todo[u]
      /\ overlapped' = overlapped \ {t}
      /\ trusted' = (trusted \/ t \notin overlapped)
      /\ UNCHANGED <<sources, schedules, used, entries>>
  BY ThreadTypes DEF Unlock, Finish, rowVars
<1>2. Nothing.op # "updateSource"  BY DEF Nothing
<1>3. UsedInv'  BY <1>1, <1>2 DEF RepairInv, UsedInv
<1>4. Active' = Active \ {t} /\ t \in Active  BY <1>1 DEF Active
<1>5. AloneInv'  BY <1>1, <1>4 DEF RepairInv, AloneInv
<1>6. FreshInv'  BY <1>1 DEF RepairInv, FreshInv
<1>7. StaleInv'  BY <1>1 DEF RepairInv, StaleInv
<1>8. CalmInv'
  <2>. SUFFICES ASSUME trusted' PROVE CalmInv'  BY DEF CalmInv
  <2>1. t \notin overlapped  BY <1>1 DEF RepairInv, CalmInv
  <2>2. overlapped' = {}  BY <1>1, <1>4, <2>1 DEF RepairInv, AloneInv
  <2>3. InStep(loaded[t], sources, schedules)  BY <1>1, <2>1 DEF RepairInv, FreshInv
  <2>4. entries = loaded[t]  BY UnlockEntries
  <2>. QED  BY <1>1, <2>2, <2>3, <2>4 DEF CalmInv
<1>. QED  BY <1>3, <1>5, <1>6, <1>7, <1>8 DEF RepairInv

LEMMA FrameRepair ==
  ASSUME RepairInv, UNCHANGED <<rowVars, threadVars, entries, overlapped, trusted>>
  PROVE  RepairInv'
<1>1. UNCHANGED <<sources, schedules, used, at, todo, loaded, entries, overlapped, trusted>>
  BY DEF rowVars, threadVars
<1>2. UsedInv'  BY <1>1 DEF RepairInv, UsedInv
<1>3. AloneInv'  BY <1>1 DEF RepairInv, AloneInv, Active
<1>4. FreshInv'  BY <1>1 DEF RepairInv, FreshInv
<1>5. StaleInv'  BY <1>1 DEF RepairInv, StaleInv
<1>6. CalmInv'  BY <1>1 DEF RepairInv, CalmInv, Reloading
<1>. QED  BY <1>2, <1>3, <1>4, <1>5, <1>6 DEF RepairInv

\* What a lone request read is still what the rows say when it writes and when
\* its reload applies its snapshot; so the entries it leaves are those of the rows.
LEMMA RepairInvariant == Spec => []RepairInv
<1>1. ASSUME Init PROVE RepairInv
  <2>1. /\ entries = {} /\ overlapped = {} /\ ~trusted
        /\ \A t \in Threads : loaded[t] = {} /\ todo[t] = Nothing
        /\ \A t \in Threads : at[t] = IF t = Main THEN "load" ELSE "idle"
        /\ DOMAIN sources \subseteq used
    BY <1>1 DEF Init
  <2>2. UsedInv  BY <2>1 DEF UsedInv, Nothing
  <2>3. AloneInv
    <3>1. Active = {Main}  BY <2>1 DEF Active, Threads
    <3>. QED  BY <2>1, <3>1 DEF AloneInv
  <2>4. FreshInv /\ StaleInv  BY <2>1 DEF FreshInv, StaleInv
  <2>5. CalmInv  BY <2>1 DEF CalmInv
  <2>. QED  BY <2>2, <2>3, <2>4, <2>5 DEF RepairInv
<1>2. ASSUME TypeOK, MixInv, RepairInv, [Next]_vars PROVE RepairInv'
  <2>. USE <1>2
  <2>1. CASE UNCHANGED vars
    BY <2>1, FrameRepair DEF vars, runtimeVars, historyVars
  <2>2. CASE \E h \in Handlers : Request(h) \/ Write(h)
    BY <2>2, RequestRepair, WriteRepair DEF Threads
  <2>3. CASE \E t \in Threads : Reload(t)
    BY <2>3, LoadRepair, LockedRepair, UnlockRepair DEF Reload
  <2>4. CASE \E s \in Sources : DeleteSource(s) \/ \E row \in SourceRow : CreateSource(s, row)
    BY <2>4, DeleteSourceRepair, CreateSourceRepair
  <2>5. CASE Signal \/ Stop
    BY <2>5, FrameRepair DEF Signal, Stop, historyVars
  <2>. QED  BY <2>1, <2>2, <2>3, <2>4, <2>5 DEF Next
<1>. QED  BY <1>1, <1>2, TypeCorrect, MixInvariant, PTL DEF Spec

\* A reload that runs alone puts the scheduler in step with the rows, whatever
\* raced or failed before, and it stays in step until requests overlap again or a
\* load fails; for any number of rows and requests.
THEOREM ReloadRepairsCorrect == Spec => []ReloadRepairs
<1>1. TypeOK /\ RepairInv => ReloadRepairs
  BY InStepMeans DEF RepairInv, CalmInv, ReloadRepairs, Reloading
<1>. QED  BY <1>1, TypeCorrect, RepairInvariant, PTL
=============================================================================
