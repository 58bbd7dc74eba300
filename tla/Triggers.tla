------------------------------- MODULE Triggers -------------------------------
(***************************************************************************)
(* Timed triggers: the trigger application (src/apps/trigger) and the      *)
(* Redis lock it fires under (src/apps/common/redis_lock.py).              *)
(*                                                                         *)
(* Every server process has a scheduler of its own with its jobs in        *)
(* memory, restored from the table when the process starts.  A request     *)
(* changes a row, statement by statement in autocommit, and then the jobs  *)
(* of the process that serves it.  A job fires run_trigger in a thread of  *)
(* its process; run_trigger takes the trigger's lock, reads the row and    *)
(* hands the task to Celery.                                               *)
(***************************************************************************)
EXTENDS Integers, Sequences, FiniteSets

CONSTANTS
  Process,      \* server processes, each with a BackgroundScheduler
  Trigger,      \* trigger ids
  Settings,     \* what requests ask for
  Free,         \* the lock's key is absent
  MaxRequests,  \* bound: requests that change a trigger
  MaxCrashes,   \* bound: processes that end
  MaxTime       \* bound: times at which the jobs are due

ASSUME TriggerAssumption ==
  /\ Process # {}
  /\ MaxRequests \in Nat /\ MaxCrashes \in Nat /\ MaxTime \in Nat
  /\ Settings \subseteq [active : BOOLEAN, timer : BOOLEAN, good : BOOLEAN]
  /\ Free \notin Process \X Trigger

VARIABLES
  rows,      \* the trigger table; task: it has its TriggerTask
  jobs,      \* scheduler of a process: the triggers it has a job for
  up,        \* processes that run
  request,   \* the request a process serves
  requests,  \* how many there were
  firing,    \* the thread in which a process runs a trigger
  lock,      \* lock:trigger:<id>, the token of its holder
  now,       \* how many times the jobs were due
  sent,      \* what was handed to Celery
  crashes,   \* how many processes ended
  expired,   \* history: threads whose lock expired under them
  overlap,   \* history: triggers changed by two requests at once
  torn,      \* history: triggers whose request ended half way
  poisoned   \* history: a process met a setting it cannot read at its start

table == <<rows, request, requests, overlap, torn>>
server == <<jobs, up, crashes, poisoned>>
firings == <<firing, lock, sent, expired>>
vars == <<table, server, firings, now>>

Thread == Process \X Trigger

\* A row; good: _build_job_trigger understands its setting.
RowOf(s, task) ==
  [state |-> "row", active |-> s.active, timer |-> s.timer, good |-> s.good, task |-> task]
NoRow(state) == [state |-> state, active |-> FALSE, timer |-> FALSE, good |-> FALSE, task |-> FALSE]
Exists(t) == rows[t].state = "row"
Timers == {t \in Trigger : Exists(t) /\ rows[t].active /\ rows[t].timer}

NoRequest == [todo |-> <<>>]
Busy(t) == {p \in Process : request[p] # NoRequest /\ request[p].trigger = t}
Idle == [pc |-> "idle", time |-> 0]

Init ==
  /\ rows \in [Trigger -> {NoRow("unborn")} \cup {RowOf(s, TRUE) : s \in Settings}]
  /\ jobs = [p \in Process |-> {}]
  /\ up = {}
  /\ request = [p \in Process |-> NoRequest]
  /\ firing = [c \in Thread |-> Idle]
  /\ lock = [t \in Trigger |-> Free]
  /\ now = 0 /\ requests = 0 /\ crashes = 0
  /\ sent = {} /\ expired = {} /\ overlap = {} /\ torn = {}
  /\ poisoned = FALSE

-----------------------------------------------------------------------------
(* Processes and their jobs.                                               *)

\* Variant: a process restores none of its jobs.
LoadNone(p) == UNCHANGED <<jobs, poisoned>>

(***************************************************************************)
(* load_all_triggers registers the enabled timers in the order the         *)
(* database returns them; ready() swallows the exception of a setting that *)
(* cannot be read, and the timers behind it are left out.                  *)
(***************************************************************************)
LoadAllTriggers(p) ==
  LET bad == {t \in Timers : ~rows[t].good}
  IN  /\ \E loaded \in IF bad = {} THEN {Timers} ELSE SUBSET (Timers \ bad) :
           jobs' = [jobs EXCEPT ![p] = loaded]
      /\ poisoned' = (poisoned \/ bad # {})

Ready(p) ==
  /\ p \notin up
  /\ up' = up \cup {p}
  /\ LoadAllTriggers(p)
  /\ UNCHANGED <<table, firings, crashes, now>>

\* The process ends, with its jobs, its request and its threads.
Crash(p) ==
  /\ p \in up /\ crashes < MaxCrashes
  /\ up' = up \ {p}
  /\ crashes' = crashes + 1
  /\ jobs' = [jobs EXCEPT ![p] = {}]
  /\ torn' = torn \cup {t \in Trigger : p \in Busy(t)}
  /\ request' = [request EXCEPT ![p] = NoRequest]
  /\ firing' = [c \in Thread |-> IF c[1] = p THEN Idle ELSE firing[c]]
  /\ expired' = {c \in expired : c[1] # p}
  /\ UNCHANGED <<rows, requests, overlap, lock, sent, poisoned, now>>

-----------------------------------------------------------------------------
(* Requests.  row is the model instance the view works on; todo are the    *)
(* statements to come.                                                     *)

Begin(p, t, row, todo) ==
  /\ p \in up /\ request[p] = NoRequest
  /\ requests < MaxRequests
  /\ requests' = requests + 1
  /\ request' = [request EXCEPT ![p] = [trigger |-> t, row |-> row, todo |-> todo]]
  /\ overlap' = IF Busy(t) = {} THEN overlap ELSE overlap \cup {t}
  /\ UNCHANGED <<rows, torn, server, firings, now>>

\* TriggerListView.post: create, then update with the same data.
Post(p, t) ==
  /\ rows[t].state = "unborn" /\ Busy(t) = {}
  /\ \E s \in Settings :
       Begin(p, t, RowOf(s, FALSE), <<"save", "add", "save", "drop", "add", "job">>)

\* Variant: the task list is deleted and not created again.
PutDropping(p, t) ==
  /\ Exists(t)
  /\ \E s \in Settings : Begin(p, t, RowOf(s, TRUE), <<"save", "drop", "save", "drop", "job">>)

\* TriggerOperateView.put: serializer.update twice, with a task list or without.
Put(p, t) ==
  /\ Exists(t)
  /\ \E s \in Settings, todo \in {<<"save", "save", "job">>,
                                 <<"save", "drop", "add", "save", "drop", "add", "job">>} :
       Begin(p, t, RowOf(s, TRUE), todo)

\* delete() sets t.id to None: no job has that name, and deleting again raises.
Delete(p, t) == Exists(t) /\ Begin(p, t, rows[t], <<"delete">>)

Toggle(p, t) ==
  /\ Exists(t)
  /\ Begin(p, t, [rows[t] EXCEPT !.active = ~@], <<"flip", "flip", "job">>)

\* p is at statement step of a request for t.
At(p, t, step) ==
  request[p] # NoRequest /\ request[p].trigger = t /\ Head(request[p].todo) = step

Proceed(p) ==
  LET todo == request[p].todo
  IN  request' = [request EXCEPT ![p] = IF Len(todo) = 1 THEN NoRequest
                                        ELSE [@ EXCEPT !.todo = Tail(todo)]]

\* An exception: the rest of the request is skipped.
Fail(p) == request' = [request EXCEPT ![p] = NoRequest]

\* save() of the whole instance, which inserts the row when it is gone.
Save(p, t) ==
  /\ At(p, t, "save")
  /\ rows' = [rows EXCEPT ![t] = RowOf(request[p].row, Exists(t) /\ rows[t].task)]
  /\ Proceed(p)

\* instance.tasks.all().delete()
DropTasks(p, t) ==
  /\ At(p, t, "drop")
  /\ rows' = IF Exists(t) THEN [rows EXCEPT ![t].task = FALSE] ELSE rows
  /\ Proceed(p)

\* TriggerTask.objects.create; without its trigger it violates the foreign key.
AddTask(p, t) ==
  /\ At(p, t, "add")
  /\ \/ Exists(t) /\ rows' = [rows EXCEPT ![t].task = TRUE] /\ Proceed(p)
     \/ ~Exists(t) /\ Fail(p) /\ UNCHANGED rows

\* save(update_fields=...), which raises when the row is gone.
Flip(p, t) ==
  /\ At(p, t, "flip")
  /\ \/ Exists(t) /\ rows' = [rows EXCEPT ![t].active = request[p].row.active] /\ Proceed(p)
     \/ ~Exists(t) /\ Fail(p) /\ UNCHANGED rows

Remove(p, t) ==
  /\ At(p, t, "delete")
  /\ rows' = [rows EXCEPT ![t] = NoRow("gone")]
  /\ Fail(p)

\* register_trigger, which raises on a bad setting, or unregister_trigger.
SetJob(p, t) ==
  /\ At(p, t, "job")
  /\ LET row == request[p].row
     IN  jobs' = [jobs EXCEPT ![p] = IF ~(row.active /\ row.timer) THEN @ \ {t}
                                     ELSE IF row.good THEN @ \cup {t} ELSE @]
  /\ Proceed(p)

Serve(p, t) ==
  /\ \/ UNCHANGED jobs /\ (Save(p, t) \/ DropTasks(p, t) \/ AddTask(p, t) \/ Flip(p, t) \/ Remove(p, t))
     \/ UNCHANGED rows /\ SetJob(p, t)
  /\ UNCHANGED <<requests, overlap, torn, up, crashes, poisoned, firings, now>>

-----------------------------------------------------------------------------
(* run_trigger under redis_lock.                                           *)

\* The jobs are due.
Tick ==
  /\ now < MaxTime
  /\ now' = now + 1
  /\ UNCHANGED <<table, server, firings>>

\* A thread goes on to phase; nothing of the tables changes.
Move(c, phase) == firing' = [firing EXCEPT ![c].pc = phase]

\* APScheduler starts the job of p for t, one instance at a time.
Fire(c) ==
  /\ c[2] \in jobs[c[1]]
  /\ firing[c].pc = "idle" /\ firing[c].time < now
  /\ firing' = [firing EXCEPT ![c] = [pc |-> "waiting", time |-> now]]
  /\ UNCHANGED <<lock, sent, expired>>

\* SET NX EX
Acquire(c) ==
  /\ firing[c].pc = "waiting" /\ lock[c[2]] = Free
  /\ lock' = [lock EXCEPT ![c[2]] = c]
  /\ Move(c, "locked")
  /\ UNCHANGED <<sent, expired>>

\* TimeoutError after max_wait.
GiveUp(c) ==
  /\ firing[c].pc = "waiting" /\ lock[c[2]] # Free
  /\ Move(c, "idle")
  /\ UNCHANGED <<lock, sent, expired>>

\* The row is read; a trigger that is gone or inactive is left alone.
ReadTrigger(c) ==
  /\ firing[c].pc = "locked"
  /\ Move(c, IF Exists(c[2]) /\ rows[c[2]].active THEN "sending" ELSE "leaving")
  /\ UNCHANGED <<lock, sent, expired>>

\* The tasks there are now go to Celery.
Send(c) ==
  /\ firing[c].pc = "sending"
  /\ sent' = IF Exists(c[2]) /\ rows[c[2]].task
                THEN sent \cup {[by |-> c[1], trigger |-> c[2], time |-> firing[c].time]}
                ELSE sent
  /\ Move(c, "leaving")
  /\ UNCHANGED <<lock, expired>>

\* Variant: __exit__ deletes the key whatever token it holds.
LeaveAnyway(c) ==
  /\ firing[c].pc = "leaving"
  /\ lock' = [lock EXCEPT ![c[2]] = Free]
  /\ Move(c, "idle")
  /\ expired' = expired \ {c}
  /\ UNCHANGED sent

\* __exit__: the key is deleted if it still holds this token.
Leave(c) ==
  /\ firing[c].pc = "leaving"
  /\ lock' = [lock EXCEPT ![c[2]] = IF @ = c THEN Free ELSE @]
  /\ Move(c, "idle")
  /\ expired' = expired \ {c}
  /\ UNCHANGED sent

\* The key's time is over, whether its holder works, is late or has ended.
Expire(t) ==
  /\ lock[t] # Free
  /\ lock' = [lock EXCEPT ![t] = Free]
  /\ expired' = expired \cup {c \in {lock[t]} : firing[c].pc \in {"locked", "sending", "leaving"}}
  /\ UNCHANGED <<table, server, firing, sent, now>>

Run(c) ==
  /\ Fire(c) \/ Acquire(c) \/ GiveUp(c) \/ ReadTrigger(c) \/ Send(c) \/ Leave(c)
  /\ UNCHANGED <<table, server, now>>

-----------------------------------------------------------------------------
Next ==
  \/ \E p \in Process : Ready(p) \/ Crash(p)
  \/ \E p \in Process, t \in Trigger :
       Post(p, t) \/ Put(p, t) \/ Delete(p, t) \/ Toggle(p, t) \/ Serve(p, t)
  \/ \E c \in Thread : Run(c)
  \/ \E t \in Trigger : Expire(t)
  \/ Tick

Spec == Init /\ [][Next]_vars

-----------------------------------------------------------------------------
(* Properties.                                                             *)

Inside(c) == firing[c].pc \in {"locked", "sending", "leaving"}

(***************************************************************************)
(* A thread inside the lock whose time is not over owns the key: the late  *)
(* exit of one that was overtaken does not take the lock from another, and *)
(* the key left by a process that ended does not admit two.                *)
(***************************************************************************)
HolderKeepsLock == \A c \in Thread : Inside(c) /\ c \notin expired => lock[c[2]] = c

\* Hence two threads are inside the lock of a trigger only if one overran it.
OneInside ==
  \A c, d \in Thread : Inside(c) /\ Inside(d) /\ c[2] = d[2] /\ c # d => c \in expired \/ d \in expired

(***************************************************************************)
(* An enabled timer with a readable setting has a job in some process once *)
(* all processes run, through creation, edits, toggles, ends and restarts  *)
(* of processes; excepted are triggers that two requests changed at once   *)
(* and starts that met an unreadable setting.                              *)
(***************************************************************************)
EnabledHasJob ==
  up = Process /\ ~poisoned =>
    \A t \in Timers \ overlap :
      rows[t].good /\ Busy(t) = {} => \E p \in Process : t \in jobs[p]

(***************************************************************************)
(* A trigger has its task when no request is at work on it: the double     *)
(* delete-and-create of an edit loses it only if another request or the    *)
(* end of the process cuts in.                                             *)
(***************************************************************************)
EditKeepsTask ==
  \A t \in Trigger : Exists(t) /\ Busy(t) = {} /\ t \notin overlap \cup torn => rows[t].task
=============================================================================
