----------------------------- MODULE Scheduler -----------------------------
(***************************************************************************)
(* internal/scheduler beside the rows it is rebuilt from: concurrent HTTP  *)
(* requests change sources and source_schedules                            *)
(* (internal/services/sources, internal/services/source_schedules), each   *)
(* then calls Reload, which reads a snapshot of the rows before it takes   *)
(* the scheduler's mutex and replaces the cron entries one by one under    *)
(* it.  Requests and the boot (Start) are threads; the database executes   *)
(* one statement at a time, and the threads interleave between statements. *)
(*                                                                         *)
(* What an entry does when it fires is in module Lifecycle, where cron may *)
(* create a job of any source at any time.                                 *)
(***************************************************************************)
EXTENDS Naturals, Tables

CONSTANTS Sources,     \* ids a source row can have; an id is never used again
          Schedules,   \* ids a schedule row can have; likewise
          Labels,      \* what the rest of a source row says (name, type)
          Exprs,       \* cron expressions
          Handlers,    \* HTTP requests being served at the same time
          Main,        \* the goroutine that runs App.Start
          MaxRequests, \* bound: requests that change rows
          MaxFaults    \* bound: statements that fail on their own

ASSUME BoundsAssumption == MaxRequests \in Nat /\ MaxFaults \in Nat
ASSUME MainAssumption == Main \notin Handlers

Threads == Handlers \cup {Main}

VARIABLES
  sources,   \* the table sources: a function on the ids that exist
  schedules, \* the table source_schedules
  used,      \* ids of rows created so far, deleted ones included
  at,        \* per thread: where it stands
  todo,      \* per thread: the statement it is about to execute
  loaded,    \* per thread: the snapshot its Reload read
  entries,   \* s.schedules, and the entries of cron, which change with it
  lock,      \* the holder of s.mu: at most one thread, as a set
  ready,     \* s.ready
  ctx,       \* s.ctx: live, cancelled by the signal, or none after Stop
  \* bookkeeping of the bounds:
  requests, faults,
  \* history, never read by the program:
  applied,   \* the snapshot of the last Reload that completed
  overlapped,\* threads that another thread's request overlapped
  trusted    \* whether nothing overlapped and no load failed since a lone Reload

rowVars     == <<sources, schedules, used>>
threadVars  == <<at, todo, loaded>>
runtimeVars == <<entries, lock, ready, ctx>>
historyVars == <<applied, overlapped, trusted>>
vars == <<rowVars, threadVars, runtimeVars, requests, faults, historyVars>>

SourceRow   == [on : BOOLEAN, label : Labels]
ScheduleRow == [source : Sources, on : BOOLEAN, expr : Exprs]

\* What Reload hands to addScheduleLocked, and what an entry of cron keeps of it.
Entry == [schedule : Schedules, source : Sources, expr : Exprs, label : Labels]

\* The statements of the requests that call Reload; "none" after it.
Statement ==
  [op : {"updateSource"}, id : Sources, row : SourceRow, reload : BOOLEAN] \cup
  [op : {"createSchedule", "updateSchedule"}, id : Schedules, row : ScheduleRow] \cup
  [op : {"deleteSchedule"}, id : Schedules] \cup
  [op : {"none"}]

Nothing == [op |-> "none"]

TypeOK ==
  /\ sources \in Table(Sources, SourceRow)
  /\ schedules \in Table(Schedules, ScheduleRow)
  /\ \A k \in DOMAIN schedules : schedules[k].source \in DOMAIN sources
  /\ used \in SUBSET (Sources \cup Schedules)
  /\ at \in [Threads -> {"idle", "write", "load", "lock", "add"}]
  /\ todo \in [Threads -> Statement]
  /\ loaded \in [Threads -> SUBSET Entry]
  /\ entries \in SUBSET Entry
  /\ lock \in SUBSET Threads
  /\ ready \in BOOLEAN
  /\ ctx \in {"live", "cancelled", "none"}
  /\ requests \in 0..MaxRequests
  /\ faults \in 0..MaxFaults
  /\ applied \in SUBSET Entry
  /\ overlapped \in SUBSET Threads
  /\ trusted \in BOOLEAN

\* Any rows of an earlier run; Start is about to do its initial Reload.
Init ==
  /\ sources \in Table(Sources, SourceRow)
  /\ schedules \in Table(Schedules, [source : DOMAIN sources, on : BOOLEAN, expr : Exprs])
  /\ used = DOMAIN sources \cup DOMAIN schedules
  /\ at = [t \in Threads |-> IF t = Main THEN "load" ELSE "idle"]
  /\ todo = [t \in Threads |-> Nothing]
  /\ loaded = [t \in Threads |-> {}]
  /\ entries = {}
  /\ lock = {}
  /\ ready = FALSE
  /\ ctx = "live"
  /\ requests = 0
  /\ faults = 0
  /\ applied = {}
  /\ overlapped = {}
  /\ trusted = FALSE
-----------------------------------------------------------------------------
(* Requests up to their statement *)

Active == {t \in Threads : at[t] # "idle"}

\* The server runs once Start's Reload is over, until its Shutdown.
Serving == at[Main] = "idle" /\ ctx = "live"

Accept == Serving /\ requests < MaxRequests /\ requests' = requests + 1

\* A request that has read what it needs and is about to execute statement.
\* In the history, it overlaps the ones being served.
Begin(h, statement) ==
  /\ at[h] = "idle"
  /\ Accept
  /\ at' = [at EXCEPT ![h] = "write"]
  /\ todo' = [todo EXCEPT ![h] = statement]
  /\ IF Active = {} THEN UNCHANGED <<overlapped, trusted>>
     ELSE overlapped' = overlapped \cup Active \cup {h} /\ trusted' = FALSE
  /\ UNCHANGED <<sources, schedules, loaded, runtimeVars, faults, applied>>

\* GetSource, then the fields of the request over those of the row: the
\* statement writes the whole row.  Reload follows when is_enabled was given.
UpdateSource(h, s) ==
  /\ s \in DOMAIN sources
  /\ \E label \in Labels :
       \/ \E on \in BOOLEAN :
            Begin(h, [op |-> "updateSource", id |-> s, reload |-> TRUE,
                      row |-> [on |-> on, label |-> label]])
       \/ Begin(h, [op |-> "updateSource", id |-> s, reload |-> FALSE,
                    row |-> [on |-> sources[s].on, label |-> label]])
  /\ UNCHANGED used

\* countSources, then a row with a fresh id.
CreateSchedule(h, k, row) ==
  /\ k \notin used
  /\ used' = used \cup {k}
  /\ row.source \in DOMAIN sources
  /\ Begin(h, [op |-> "createSchedule", id |-> k, row |-> row])

UpdateSchedule(h, k, row) ==
  /\ k \in DOMAIN schedules
  /\ row.source \in DOMAIN sources
  /\ Begin(h, [op |-> "updateSchedule", id |-> k, row |-> row])
  /\ UNCHANGED used

DeleteSchedule(h, k) ==
  /\ k \in DOMAIN schedules
  /\ Begin(h, [op |-> "deleteSchedule", id |-> k])
  /\ UNCHANGED used
-----------------------------------------------------------------------------
(* Requests that do not call Reload *)

CreateSource(s, row) ==
  /\ Accept
  /\ s \notin used
  /\ sources' = With(sources, s, row)
  /\ used' = used \cup {s}
  /\ UNCHANGED <<schedules, threadVars, runtimeVars, faults, historyVars>>

\* Fault: the schema does not cascade.
DeleteSource_NoCascade(s) ==
  /\ Accept
  /\ s \in DOMAIN sources
  /\ sources' = Without(sources, s)
  /\ UNCHANGED <<schedules, used, threadVars, runtimeVars, faults, historyVars>>

\* The DELETE, which cascades to the schedules of the source.
DeleteSource(s) ==
  /\ Accept
  /\ s \in DOMAIN sources
  /\ sources' = Without(sources, s)
  /\ schedules' = [k \in {i \in DOMAIN schedules : schedules[i].source # s} |-> schedules[k]]
  /\ UNCHANGED <<used, threadVars, runtimeVars, faults, historyVars>>
-----------------------------------------------------------------------------
(* The statement *)

\* Where a thread goes when its request is over.
Finish(t) == /\ at' = [at EXCEPT ![t] = "idle"]
             /\ todo' = [todo EXCEPT ![t] = Nothing]
             /\ loaded' = [loaded EXCEPT ![t] = {}]
             /\ overlapped' = overlapped \ {t}

ToReload(t) == /\ at' = [at EXCEPT ![t] = "load"]
               /\ todo' = [todo EXCEPT ![t] = Nothing]
               /\ UNCHANGED <<loaded, overlapped>>

\* A foreign key refuses a schedule of a source deleted since it was checked,
\* and an error ends the request; an UPDATE or DELETE of a row that is gone is
\* none.
WriteSource(h) ==
  LET w == todo[h] IN
  /\ at[h] = "write" /\ w.op = "updateSource"
  /\ sources' = IF w.id \in DOMAIN sources THEN With(sources, w.id, w.row) ELSE sources
  /\ IF w.reload THEN ToReload(h) ELSE Finish(h)
  /\ UNCHANGED <<schedules, used, runtimeVars, requests, faults, applied, trusted>>

WriteSchedule(h) ==
  LET w == todo[h] IN
  /\ at[h] = "write" /\ w.op \in {"createSchedule", "updateSchedule"}
  /\ IF w.op = "updateSchedule" /\ w.id \notin DOMAIN schedules
     THEN ToReload(h) /\ UNCHANGED schedules
     ELSE \/ /\ w.row.source \in DOMAIN sources
             /\ schedules' = With(schedules, w.id, w.row)
             /\ ToReload(h)
          \/ /\ w.row.source \notin DOMAIN sources
             /\ Finish(h) /\ UNCHANGED schedules
  /\ UNCHANGED <<sources, used, runtimeVars, requests, faults, applied, trusted>>

RemoveSchedule(h) ==
  LET w == todo[h] IN
  /\ at[h] = "write" /\ w.op = "deleteSchedule"
  /\ schedules' = Without(schedules, w.id)
  /\ ToReload(h)
  /\ UNCHANGED <<sources, used, runtimeVars, requests, faults, applied, trusted>>

\* The statement fails, for instance because the client has gone.
WriteFails(h) ==
  /\ at[h] = "write"
  /\ Finish(h)
  /\ UNCHANGED <<rowVars, runtimeVars, requests, faults, applied, trusted>>
-----------------------------------------------------------------------------
(* Reload *)

\* LoadEnabledSourceSchedules
EnabledSchedules ==
  {k \in DOMAIN schedules : schedules[k].on /\ sources[schedules[k].source].on}

EnabledSourceSchedules ==
  {[schedule |-> k, source |-> schedules[k].source, expr |-> schedules[k].expr,
    label |-> sources[schedules[k].source].label] : k \in EnabledSchedules}

\* The snapshot, read under s.ctx, or under context.Background() without one.
\* Every caller ignores an error, and keeps the entries there are.
Load(t) ==
  /\ at[t] = "load"
  /\ \/ /\ ctx # "cancelled"
        /\ at' = [at EXCEPT ![t] = "lock"]
        /\ loaded' = [loaded EXCEPT ![t] = EnabledSourceSchedules]
        /\ UNCHANGED <<todo, faults, overlapped, trusted>>
     \/ /\ IF ctx = "cancelled" THEN UNCHANGED faults
                                ELSE faults < MaxFaults /\ faults' = faults + 1
        /\ Finish(t)
        /\ trusted' = FALSE
  /\ UNCHANGED <<rowVars, runtimeVars, requests, applied>>

\* Fault: the entries are not cleared.
Lock_KeepsEntries(t) ==
  /\ at[t] = "lock"
  /\ lock = {}
  /\ lock' = {t}
  /\ at' = [at EXCEPT ![t] = "add"]
  /\ UNCHANGED <<rowVars, todo, loaded, entries, ready, ctx, requests, faults, historyVars>>

\* Fault: the mutex is not taken.
Lock_Unguarded(t) ==
  /\ at[t] = "lock"
  /\ entries' = {}
  /\ at' = [at EXCEPT ![t] = "add"]
  /\ UNCHANGED <<rowVars, todo, loaded, lock, ready, ctx, requests, faults, historyVars>>

\* s.mu.Lock(), then every entry is removed.
Lock(t) ==
  /\ at[t] = "lock"
  /\ lock = {}
  /\ lock' = {t}
  /\ entries' = {}
  /\ at' = [at EXCEPT ![t] = "add"]
  /\ UNCHANGED <<rowVars, todo, loaded, ready, ctx, requests, faults, historyVars>>

SameKey(d, e) == d.schedule = e.schedule /\ d.source = e.source

Present(e) == \E d \in entries : SameKey(d, e)

\* addScheduleLocked, for the next row of the snapshot whose key has no entry;
\* the expression was parsed when the row was written, by the same parser.
AddSchedule(t, e) ==
  /\ at[t] = "add"
  /\ e \in loaded[t]
  /\ ~Present(e)
  /\ entries' = entries \cup {e}
  /\ UNCHANGED <<rowVars, threadVars, lock, ready, ctx, requests, faults, historyVars>>

\* Fault: a path out of Reload without s.mu.Unlock().
Unlock_KeepsLock(t) ==
  /\ at[t] = "add"
  /\ \A e \in loaded[t] : Present(e)
  /\ ready' = TRUE
  /\ applied' = loaded[t]
  /\ trusted' = (trusted \/ t \notin overlapped)
  /\ Finish(t)
  /\ UNCHANGED <<rowVars, entries, lock, ctx, requests, faults>>

\* Every row is added: Reload returns, and with it the request, after reads.
Unlock(t) ==
  /\ at[t] = "add"
  /\ \A e \in loaded[t] : Present(e)
  /\ ready' = TRUE
  /\ lock' = {}
  /\ applied' = loaded[t]
  /\ trusted' = (trusted \/ t \notin overlapped)
  /\ Finish(t)
  /\ UNCHANGED <<rowVars, entries, ctx, requests, faults>>
-----------------------------------------------------------------------------
(* Shutdown *)

\* The signal cancels the context s.ctx derives from, which stops cron.
Signal ==
  /\ ctx = "live"
  /\ ctx' = "cancelled"
  /\ UNCHANGED <<rowVars, threadVars, entries, lock, ready, requests, faults, historyVars>>

\* Stop, once Start is over; requests that outlast the server's Shutdown (5 s)
\* may still be on their way.
Stop ==
  /\ at[Main] = "idle"
  /\ ctx = "cancelled"
  /\ lock = {}
  /\ ctx' = "none"
  /\ ready' = FALSE
  /\ UNCHANGED <<rowVars, threadVars, entries, lock, requests, faults, historyVars>>
-----------------------------------------------------------------------------
Request(h) ==
  \/ \E s \in Sources : UpdateSource(h, s)
  \/ \E k \in Schedules : \/ \E row \in ScheduleRow : CreateSchedule(h, k, row)
                          \/ \E row \in ScheduleRow : UpdateSchedule(h, k, row)
                          \/ DeleteSchedule(h, k)

Write(h) == WriteSource(h) \/ WriteSchedule(h) \/ RemoveSchedule(h) \/ WriteFails(h)

Reload(t) == Load(t) \/ Lock(t) \/ (\E e \in loaded[t] : AddSchedule(t, e)) \/ Unlock(t)

Next ==
  \/ \E h \in Handlers : Request(h) \/ Write(h)
  \/ \E t \in Threads : Reload(t)
  \/ \E s \in Sources : DeleteSource(s) \/ \E row \in SourceRow : CreateSource(s, row)
  \/ Signal \/ Stop

Spec == Init /\ [][Next]_vars

\* A thread that is on its way goes on; sync.RWMutex starves no waiter.
Fairness == \A t \in Threads : WF_vars(Write(t)) /\ WF_vars(Reload(t))

FairSpec == Spec /\ Fairness
-----------------------------------------------------------------------------
(* Properties *)

\* Two reloads never mix: whenever the mutex is free, the entries are all that
\* one reload read from the rows, and nothing else -- although cron sees them
\* being removed and added one by one, and other reloads wait in the middle.
ReloadsDoNotMix == lock = {} => entries = applied

\* The entries of sources that exist are those of the enabled rows.  The source
\* name an entry carries, and entries whose source was deleted without a reload,
\* which find no source when they fire, are left out.
Triggers(es) ==
  {<<e.schedule, e.source, e.expr>> : e \in {d \in es : d.source \in DOMAIN sources}}

InSync == Triggers(entries) = Triggers(EnabledSourceSchedules)

\* A request that runs alone and whose reload succeeds repairs whatever races
\* and failed reloads did before it; from then on, as long as no two requests
\* overlap and no load fails, the scheduler is out of step with the rows only
\* while a reload is on its way.
ReloadRepairs ==
  trusted => InSync \/ \E t \in Threads : at[t] \in {"load", "lock", "add"}

\* No request waits forever on the scheduler's mutex.
RequestsEnd == \A t \in Threads : at[t] # "idle" ~> at[t] = "idle"
=============================================================================
