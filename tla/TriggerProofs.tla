----------------------------- MODULE TriggerProofs -----------------------------
(***************************************************************************)
(* Proofs about the lock triggers fire under, and about their rows, jobs   *)
(* and tasks, for every number of processes, triggers, requests, crashes   *)
(* and due times.                                                          *)
(***************************************************************************)
EXTENDS Triggers, TLAPS

Phase == {"idle", "waiting", "locked", "sending", "leaving"}

LockType ==
  /\ firing \in [Thread -> [pc : Phase, time : Int]]
  /\ lock \in [Trigger -> Thread \cup {Free}]
  /\ now \in Int

(***************************************************************************)
(* The key names the thread that may be inside; those that are inside      *)
(* without it have overrun their time.                                     *)
(***************************************************************************)
LockInv == LockType /\ HolderKeepsLock

(* A thread has a process and a trigger. *)
LEMMA ThreadOf ==
  ASSUME NEW c \in Thread PROVE c[1] \in Process /\ c[2] \in Trigger
BY DEF Thread

(* A thread that moves on where it is: outside, or inside. *)
LEMMA MoveKeeps ==
  ASSUME LockInv, NEW c \in Thread, NEW phase \in Phase, Move(c, phase),
         phase \in {"locked", "sending", "leaving"} => Inside(c),
         UNCHANGED <<lock, expired, now>>
  PROVE  LockInv'
<1>1. LockType'
  BY DEF LockInv, LockType, Move, Phase
<1>2. \A d \in Thread : Inside(d)' => Inside(d)
  BY DEF LockInv, LockType, Move, Inside
<1>3. HolderKeepsLock'
  BY <1>2 DEF LockInv, HolderKeepsLock
<1> QED
  BY <1>1, <1>3 DEF LockInv

LEMMA FireKeeps ==
  ASSUME LockInv, NEW c \in Thread, Fire(c), UNCHANGED now
  PROVE  LockInv'
<1>1. LockType'
  BY DEF LockInv, LockType, Fire, Phase
<1>2. \A d \in Thread : Inside(d)' => Inside(d)
  BY DEF LockInv, LockType, Fire, Inside
<1>3. HolderKeepsLock'
  BY <1>2 DEF LockInv, HolderKeepsLock, Fire
<1> QED
  BY <1>1, <1>3 DEF LockInv

(* The key is free, so whoever else is inside has overrun its time. *)
LEMMA AcquireKeeps ==
  ASSUME LockInv, NEW c \in Thread, Acquire(c), UNCHANGED now
  PROVE  LockInv'
<1>1. lock[c[2]] = Free /\ lock' = [lock EXCEPT ![c[2]] = c] /\ expired' = expired
  BY DEF Acquire
<1>2. LockType'
  BY <1>1, ThreadOf DEF LockInv, LockType, Acquire, Move, Phase
<1>3. ASSUME NEW d \in Thread, Inside(d)', d \notin expired' PROVE lock'[d[2]] = d
  <2>1. CASE d = c
    BY <1>1, <2>1, ThreadOf DEF LockInv, LockType
  <2>2. CASE d # c
    <3>1. Inside(d) /\ lock[d[2]] = d
      BY <1>1, <1>3, <2>2 DEF LockInv, LockType, HolderKeepsLock, Acquire, Move, Inside
    <3>2. d # Free
      BY TriggerAssumption DEF Thread
    <3>3. d[2] # c[2]
      BY <1>1, <3>1, <3>2
    <3> QED
      BY <1>1, <3>1, <3>3, ThreadOf DEF LockInv, LockType
  <2> QED
    BY <2>1, <2>2
<1>4. HolderKeepsLock'
  BY <1>3 DEF HolderKeepsLock
<1> QED
  BY <1>2, <1>4 DEF LockInv

LEMMA LeaveKeeps ==
  ASSUME LockInv, NEW c \in Thread, Leave(c), UNCHANGED now
  PROVE  LockInv'
<1>1. /\ lock' = [lock EXCEPT ![c[2]] = IF @ = c THEN Free ELSE @]
      /\ expired' = expired \ {c}
  BY DEF Leave
<1>2. LockType'
  BY <1>1, ThreadOf DEF LockInv, LockType, Leave, Move, Phase
<1>3. ASSUME NEW d \in Thread, Inside(d)', d \notin expired' PROVE lock'[d[2]] = d
  <2>1. d # c /\ Inside(d)
    BY <1>3 DEF LockInv, LockType, Leave, Move, Inside
  <2>2. lock[d[2]] = d
    BY <1>1, <1>3, <2>1 DEF LockInv, HolderKeepsLock
  <2> QED
    BY <1>1, <2>1, <2>2, ThreadOf DEF LockInv, LockType
<1>4. HolderKeepsLock'
  BY <1>3 DEF HolderKeepsLock
<1> QED
  BY <1>2, <1>4 DEF LockInv

LEMMA ExpireKeeps ==
  ASSUME LockInv, NEW t \in Trigger, Expire(t)
  PROVE  LockInv'
<1>1. /\ lock[t] # Free /\ lock' = [lock EXCEPT ![t] = Free] /\ firing' = firing
      /\ expired' = expired \cup
           {c \in {lock[t]} : firing[c].pc \in {"locked", "sending", "leaving"}}
  BY DEF Expire
<1>2. LockType'
  BY <1>1 DEF LockInv, LockType, Expire
<1>3. ASSUME NEW d \in Thread, Inside(d)', d \notin expired' PROVE lock'[d[2]] = d
  <2>1. Inside(d) /\ lock[d[2]] = d
    BY <1>1, <1>3 DEF LockInv, HolderKeepsLock, Inside
  <2>2. d # lock[t]
    BY <1>1, <1>3, <2>1 DEF Inside
  <2> QED
    BY <1>1, <2>1, <2>2, ThreadOf DEF LockInv, LockType
<1>4. HolderKeepsLock'
  BY <1>3 DEF HolderKeepsLock
<1> QED
  BY <1>2, <1>4 DEF LockInv

(* A process that ends leaves its keys behind, and no thread. *)
LEMMA CrashKeeps ==
  ASSUME LockInv, NEW p \in Process, Crash(p)
  PROVE  LockInv'
<1>1. /\ firing' = [c \in Thread |-> IF c[1] = p THEN Idle ELSE firing[c]]
      /\ expired' = {c \in expired : c[1] # p}
      /\ lock' = lock /\ now' = now
  BY DEF Crash
<1>2. LockType'
  BY <1>1 DEF LockInv, LockType, Idle, Phase
<1>3. \A d \in Thread : Inside(d)' => Inside(d) /\ d[1] # p
  BY <1>1 DEF Inside, Idle
<1>4. HolderKeepsLock'
  BY <1>1, <1>3 DEF LockInv, HolderKeepsLock
<1> QED
  BY <1>2, <1>4 DEF LockInv

(* What does not touch the lock. *)
LEMMA OthersKeep ==
  ASSUME LockInv, now' \in Int, UNCHANGED firings
  PROVE  LockInv'
BY DEF LockInv, LockType, HolderKeepsLock, Inside, firings

LEMMA LockStep ==
  ASSUME LockInv, Next \/ UNCHANGED vars
  PROVE  LockInv'
<1>1. ASSUME NEW p \in Process, Ready(p) PROVE LockInv'
  BY <1>1, OthersKeep DEF Ready, LockInv, LockType
<1>2. ASSUME NEW p \in Process, Crash(p) PROVE LockInv'
  BY <1>2, CrashKeeps
<1>3. ASSUME NEW p \in Process, NEW t \in Trigger,
             Post(p, t) \/ Put(p, t) \/ Delete(p, t) \/ Toggle(p, t) \/ Serve(p, t)
      PROVE  LockInv'
  BY <1>3, OthersKeep DEF Post, Put, Delete, Toggle, Serve, Begin, LockInv, LockType
<1>4. ASSUME NEW c \in Thread, Run(c) PROVE LockInv'
  <2>0. now' = now
    BY <1>4 DEF Run
  <2>1. CASE Fire(c)
    BY <2>0, <2>1, FireKeeps
  <2>2. CASE Acquire(c)
    BY <2>0, <2>2, AcquireKeeps
  <2>3. CASE GiveUp(c)
    BY <2>0, <2>3, MoveKeeps DEF GiveUp, Phase
  <2>4. CASE ReadTrigger(c)
    BY <2>0, <2>4, MoveKeeps DEF ReadTrigger, Inside, Phase
  <2>5. CASE Send(c)
    BY <2>0, <2>5, MoveKeeps DEF Send, Inside, Phase
  <2>6. CASE Leave(c)
    BY <2>0, <2>6, LeaveKeeps
  <2> QED
    BY <1>4, <2>1, <2>2, <2>3, <2>4, <2>5, <2>6 DEF Run
<1>5. ASSUME NEW t \in Trigger, Expire(t) PROVE LockInv'
  BY <1>5, ExpireKeeps
<1>6. CASE Tick
  BY <1>6, OthersKeep DEF Tick, LockInv, LockType
<1>7. CASE UNCHANGED vars
  BY <1>7, OthersKeep DEF vars, LockInv, LockType
<1> QED
  BY <1>1, <1>2, <1>3, <1>4, <1>5, <1>6, <1>7 DEF Next

(***************************************************************************)
(* redis_lock keeps two threads out of the lock of one trigger, crashes    *)
(* and late exits included, unless one of them has overrun its time.       *)
(***************************************************************************)
THEOREM MutualExclusion == Spec => []OneInside
<1>1. Init => LockInv
  BY DEF Init, LockInv, LockType, HolderKeepsLock, Inside, Idle, Phase
<1>2. LockInv /\ [Next]_vars => LockInv'
  BY LockStep
<1>3. LockInv => OneInside
  BY DEF LockInv, HolderKeepsLock, OneInside
<1> QED
  BY <1>1, <1>2, <1>3, PTL DEF Spec

-----------------------------------------------------------------------------
(* Requests, their rows and the jobs.                                      *)

(* What is left to do of the requests: of Post, Put, Delete and Toggle. *)
PostAll == <<"save", "add", "save", "drop", "add", "job">>
PutShort == <<"save", "save", "job">>
PutAll == <<"save", "drop", "add", "save", "drop", "add", "job">>
DeleteAll == <<"delete">>
ToggleAll == <<"flip", "flip", "job">>

Starts == {PostAll, PutShort, PutAll, DeleteAll, ToggleAll}

Adding ==
  {<<"drop", "add", "save", "drop", "add", "job">>, <<"add", "save", "drop", "add", "job">>,
   <<"save", "drop", "add", "job">>, <<"drop", "add", "job">>, <<"add", "job">>}

Ending == {<<"save", "job">>, <<"flip", "job">>, <<"job">>}

Todos == Starts \cup Adding \cup Ending

(* What is left creates the task again. *)
Adds(todo) == todo \in Adding \cup {PostAll, PutAll}

Row == [state : {"row", "unborn", "gone"}, active : BOOLEAN, timer : BOOLEAN,
        good : BOOLEAN, task : BOOLEAN]

RequestType ==
  /\ rows \in [Trigger -> Row]
  /\ request \in [Process -> {NoRequest} \cup [trigger : Trigger, row : Row, todo : Todos]]
  /\ jobs \in [Process -> SUBSET Trigger]
  /\ up \subseteq Process
  /\ poisoned \in BOOLEAN

(* The row has the settings the request works with. *)
Matches(p, t) ==
  /\ rows[t].active = request[p].row.active
  /\ rows[t].timer = request[p].row.timer
  /\ rows[t].good = request[p].row.good

(* A request that has a trigger to itself. *)
AloneInv(t) ==
  t \notin overlap =>
    /\ \A p, q \in Busy(t) : p = q
    /\ \A p \in Busy(t) :
         /\ request[p].todo # PostAll => Exists(t)
         /\ request[p].todo \notin Starts => Matches(p, t)
         /\ request[p].todo = ToggleAll =>
              rows[t].timer = request[p].row.timer /\ rows[t].good = request[p].row.good

(* The task is there, unless somebody is about to create it. *)
TaskInv(t) ==
  t \notin overlap \cup torn =>
    \/ Exists(t) => rows[t].task
    \/ \E p \in Busy(t) : Adds(request[p].todo)

(* An enabled timer has a job, unless a request or a start is to give it. *)
JobInv(t) ==
  t \in Timers \ overlap /\ rows[t].good /\ up = Process /\ ~poisoned /\ Busy(t) = {} =>
    \E p \in Process : t \in jobs[p]

TriggerInv == RequestType /\ \A t \in Trigger : AloneInv(t) /\ TaskInv(t) /\ JobInv(t)

(* What is left after a statement. *)
LEMMA Apart == (Adding \cup Ending) \cap Starts = {} /\ <<>> \notin Todos
BY DEF Todos, Starts, Adding, Ending, PostAll, PutShort, PutAll, DeleteAll, ToggleAll

LEMMA Tails ==
  /\ Tail(PostAll) = <<"add", "save", "drop", "add", "job">>
  /\ Tail(PutAll) = <<"drop", "add", "save", "drop", "add", "job">>
  /\ Tail(PutShort) = <<"save", "job">>
  /\ Tail(ToggleAll) = <<"flip", "job">>
  /\ Tail(<<"drop", "add", "save", "drop", "add", "job">>) = <<"add", "save", "drop", "add", "job">>
  /\ Tail(<<"add", "save", "drop", "add", "job">>) = <<"save", "drop", "add", "job">>
  /\ Tail(<<"save", "drop", "add", "job">>) = <<"drop", "add", "job">>
  /\ Tail(<<"drop", "add", "job">>) = <<"add", "job">>
  /\ Tail(<<"add", "job">>) = <<"job">>
  /\ Tail(<<"save", "job">>) = <<"job">>
  /\ Tail(<<"flip", "job">>) = <<"job">>
BY DEF PostAll, PutShort, PutAll, DeleteAll, ToggleAll

LEMMA Heads ==
  ASSUME NEW todo \in Todos
  PROVE  /\ Head(todo) = "delete" => todo = DeleteAll
         /\ Head(todo) = "job" => todo = <<"job">>
         /\ Head(todo) = "flip" => todo \in {ToggleAll, <<"flip", "job">>}
         /\ Head(todo) \in {"save", "drop", "add", "flip"} => Len(todo) # 1
         /\ Head(todo) \in {"drop", "add"} => todo \notin Starts
BY DEF Todos, Starts, Adding, Ending, PostAll, PutShort, PutAll, DeleteAll, ToggleAll

LEMMA Lengths ==
  ASSUME NEW todo \in Todos
  PROVE  Len(todo) = 1 <=> todo \in {<<"job">>, DeleteAll}
BY DEF Todos, Starts, Adding, Ending, PostAll, PutShort, PutAll, DeleteAll, ToggleAll

LEMMA Rests ==
  ASSUME NEW todo \in Todos, Len(todo) # 1
  PROVE  Tail(todo) \in Todos \ Starts
<1>1. todo \in Adding \cup {<<"save", "job">>, <<"flip", "job">>, PostAll, PutAll, PutShort, ToggleAll}
  BY Lengths DEF Todos, Starts, Ending
<1>2. Tail(todo) \in Adding \cup Ending
  BY <1>1, Tails DEF Adding, Ending
<1> QED
  BY <1>2, Apart DEF Todos

LEMMA AddsHere ==
  ASSUME NEW todo \in Todos
  PROVE  /\ Head(todo) = "drop" => Adds(todo)
         /\ Head(todo) \in {"flip", "job", "delete"} => ~Adds(todo)
BY DEF Adds, Todos, Starts, Adding, Ending, PostAll, PutShort, PutAll, DeleteAll, ToggleAll

LEMMA AddsLater ==
  ASSUME NEW todo \in Todos, Head(todo) \in {"save", "drop"}
  PROVE  Adds(todo) <=> Adds(Tail(todo))
<1>1. todo \in {<<"drop", "add", "save", "drop", "add", "job">>, <<"save", "drop", "add", "job">>,
                <<"drop", "add", "job">>, <<"save", "job">>, PostAll, PutAll, PutShort}
  BY DEF Todos, Starts, Adding, Ending, PostAll, PutShort, PutAll, DeleteAll, ToggleAll
<1>2. /\ Adds(PostAll) /\ Adds(PutAll) /\ ~Adds(PutShort)
      /\ ~Adds(<<"save", "job">>) /\ ~Adds(<<"job">>)
  BY DEF Adds, Adding, PostAll, PutShort, PutAll
<1> QED
  BY <1>1, <1>2, Tails DEF Adding, Adds

-----------------------------------------------------------------------------
(* Steps.                                                                  *)

Requests == [trigger : Trigger, row : Row, todo : Todos]

LEMMA RowTypes ==
  /\ \A s \in Settings, task \in BOOLEAN : RowOf(s, task) \in Row
  /\ \A r \in Row, task \in BOOLEAN : RowOf(r, task) \in Row
  /\ \A state \in {"unborn", "gone"} : NoRow(state) \in Row
BY TriggerAssumption DEF RowOf, NoRow, Row

(* Nobody is at work in a process without a request. *)
LEMMA Serving ==
  ASSUME RequestType, NEW p \in Process
  PROVE  /\ request[p] = NoRequest \/ request[p] \in Requests
         /\ request[p] \in Requests => request[p] # NoRequest
<1>1. \A q \in Requests : q.todo # <<>>
  BY Apart DEF Requests
<1> QED
  BY <1>1 DEF RequestType, Requests, NoRequest

(* A trigger that a step leaves alone. *)
LEMMA Elsewhere ==
  ASSUME TriggerInv, NEW u \in Trigger, rows'[u] = rows[u],
         u \in overlap => u \in overlap', u \in torn => u \in torn',
         Busy(u)' = Busy(u), \A p \in Busy(u) : request'[p] = request[p],
         up' = up, poisoned' = poisoned, \A p \in Process : u \in jobs[p] => u \in jobs'[p]
  PROVE  AloneInv(u)' /\ TaskInv(u)' /\ JobInv(u)'
<1>1. AloneInv(u) /\ TaskInv(u) /\ JobInv(u)
  BY DEF TriggerInv
<1>2. Exists(u)' <=> Exists(u)
  BY DEF Exists
<1>3. u \in Timers' <=> u \in Timers
  BY <1>2 DEF Timers
<1>4. \A p \in Busy(u) : Matches(p, u)' <=> Matches(p, u)
  BY DEF Matches
<1>5. AloneInv(u)'
  BY <1>1, <1>2, <1>4 DEF AloneInv
<1>6. TaskInv(u)'
  BY <1>1, <1>2 DEF TaskInv
<1>7. JobInv(u)'
  BY <1>1, <1>3 DEF JobInv
<1> QED
  BY <1>5, <1>6, <1>7

(* A request goes on, or ends. *)
LEMMA Proceeds ==
  ASSUME RequestType, NEW p \in Process, request[p] \in Requests, Proceed(p) \/ Fail(p)
  PROVE  /\ \A q \in Process \ {p} : request'[q] = request[q]
         /\ Proceed(p) /\ Len(request[p].todo) # 1 =>
              /\ request'[p] \in Requests
              /\ request'[p].trigger = request[p].trigger /\ request'[p].row = request[p].row
              /\ request'[p].todo = Tail(request[p].todo)
              /\ \A u \in Trigger : Busy(u)' = Busy(u)
         /\ Fail(p) \/ Len(request[p].todo) = 1 =>
              /\ request'[p] = NoRequest
              /\ \A u \in Trigger : Busy(u)' = Busy(u) \ {p}
         /\ request' \in [Process -> {NoRequest} \cup Requests]
<1>0. request \in [Process -> {NoRequest} \cup Requests] /\ request[p].todo \in Todos
  BY DEF RequestType, Requests
<1>1. \A q \in Process \ {p} : request'[q] = request[q]
  BY <1>0 DEF Proceed, Fail
<1>2. ASSUME Proceed(p), Len(request[p].todo) # 1
      PROVE  /\ request'[p] \in Requests
             /\ request'[p].trigger = request[p].trigger /\ request'[p].row = request[p].row
             /\ request'[p].todo = Tail(request[p].todo)
             /\ \A u \in Trigger : Busy(u)' = Busy(u)
             /\ request' \in [Process -> {NoRequest} \cup Requests]
  <2>1. request' = [request EXCEPT ![p] = [request[p] EXCEPT !.todo = Tail(request[p].todo)]]
    BY <1>2 DEF Proceed
  <2>2. Tail(request[p].todo) \in Todos
    BY <1>0, <1>2, Rests
  <2>3. [request[p] EXCEPT !.todo = Tail(request[p].todo)] \in Requests
    BY <2>2 DEF Requests
  <2>4. /\ request'[p] \in Requests /\ request'[p].todo = Tail(request[p].todo)
        /\ request'[p].trigger = request[p].trigger /\ request'[p].row = request[p].row
        /\ request' \in [Process -> {NoRequest} \cup Requests]
    BY <1>0, <2>1, <2>3 DEF Requests
  <2>5. request'[p] # NoRequest /\ request[p] # NoRequest
    <3>1. \A q \in Requests : q.todo # <<>>
      BY Apart DEF Requests
    <3> QED
      BY <2>4, <3>1 DEF NoRequest
  <2> QED
    BY <1>1, <2>4, <2>5 DEF Busy
<1>3. ASSUME Fail(p) \/ (Proceed(p) /\ Len(request[p].todo) = 1)
      PROVE  /\ request'[p] = NoRequest
             /\ \A u \in Trigger : Busy(u)' = Busy(u) \ {p}
             /\ request' \in [Process -> {NoRequest} \cup Requests]
  <2>1. request' = [request EXCEPT ![p] = NoRequest]
    BY <1>3 DEF Proceed, Fail
  <2>2. request'[p] = NoRequest /\ request' \in [Process -> {NoRequest} \cup Requests]
    BY <1>0, <2>1
  <2> QED
    BY <1>1, <2>2 DEF Busy
<1> QED
  BY <1>1, <1>2, <1>3

(* A request that has the trigger to itself goes on. *)
LEMMA GoesOn ==
  ASSUME TriggerInv, NEW p \in Process, NEW t \in Trigger, p \in Busy(t), request[p] \in Requests,
         Proceed(p), Len(request[p].todo) # 1,
         overlap' = overlap, torn' = torn,
         t \notin overlap => Exists(t)' /\ Matches(p, t)',
         t \notin overlap \cup torn => (Exists(t)' => rows'[t].task) \/ Adds(Tail(request[p].todo))
  PROVE  AloneInv(t)' /\ TaskInv(t)' /\ JobInv(t)'
<1>1. AloneInv(t) /\ RequestType
  BY DEF TriggerInv
<1>2. Busy(t)' = Busy(t) /\ request'[p].todo = Tail(request[p].todo)
  BY <1>1, Proceeds
<1>3. request[p].todo \in Todos
  BY DEF Requests
<1>4. request'[p].todo \notin Starts
  BY <1>2, <1>3, Rests
<1>5. AloneInv(t)'
  BY <1>1, <1>2, <1>4 DEF AloneInv, Starts
<1>6. TaskInv(t)'
  BY <1>2 DEF TaskInv
<1>7. JobInv(t)'
  BY <1>2 DEF JobInv
<1> QED
  BY <1>5, <1>6, <1>7

(* A request that has the trigger to itself ends. *)
LEMMA Ends ==
  ASSUME TriggerInv, NEW p \in Process, NEW t \in Trigger, p \in Busy(t), request[p] \in Requests,
         Fail(p) \/ (Proceed(p) /\ Len(request[p].todo) = 1),
         overlap' = overlap, torn' = torn,
         t \notin overlap \cup torn /\ Exists(t)' => rows'[t].task,
         t \in Timers' \ overlap /\ rows'[t].good => \E q \in Process : t \in jobs'[q]
  PROVE  AloneInv(t)' /\ TaskInv(t)' /\ JobInv(t)'
<1>1. AloneInv(t) /\ RequestType
  BY DEF TriggerInv
<1>2. Busy(t)' = Busy(t) \ {p}
  BY <1>1, Proceeds
<1>3. AloneInv(t)'
  BY <1>1, <1>2 DEF AloneInv
<1> QED
  BY <1>3 DEF TaskInv, JobInv

(***************************************************************************)
(* What a request knows of the trigger it has to itself: the task is there *)
(* unless it creates it.                                                   *)
(***************************************************************************)
LEMMA Alone ==
  ASSUME TriggerInv, NEW p \in Process, NEW t \in Trigger, p \in Busy(t), t \notin overlap
  PROVE  /\ request[p].todo # PostAll => Exists(t)
         /\ request[p].todo \notin Starts => Matches(p, t)
         /\ request[p].todo = ToggleAll =>
              rows[t].timer = request[p].row.timer /\ rows[t].good = request[p].row.good
         /\ t \notin torn => (Exists(t) => rows[t].task) \/ Adds(request[p].todo)
BY DEF TriggerInv, AloneInv, TaskInv

LEMMA ServeType ==
  ASSUME RequestType, NEW p \in Process, NEW t \in Trigger, Serve(p, t)
  PROVE  RequestType'
<1>1. request[p] \in Requests
  BY Serving DEF Serve, At, Save, DropTasks, AddTask, Flip, Remove, SetJob
<1>2. Proceed(p) \/ Fail(p)
  BY DEF Serve, Save, DropTasks, AddTask, Flip, Remove, SetJob
<1>3. request' \in [Process -> {NoRequest} \cup Requests]
  BY <1>1, <1>2, Proceeds
<1>4. rows \in [Trigger -> Row] /\ rows[t] \in Row /\ request[p].row \in Row /\ rows[t].task \in BOOLEAN
  BY <1>1 DEF RequestType, Requests, Row
<1>5. rows' \in [Trigger -> Row]
  <2>1. ASSUME NEW row \in Row, rows' = rows \/ rows' = [rows EXCEPT ![t] = row] PROVE rows' \in [Trigger -> Row]
    BY <1>4, <2>1
  <2>2. CASE Save(p, t)
    <3>1. (Exists(t) /\ rows[t].task) \in BOOLEAN
      BY DEF Exists
    <3> DEFINE row == RowOf(request[p].row, Exists(t) /\ rows[t].task)
    <3>2. row \in Row
      BY <1>4, <3>1, RowTypes
    <3>3. rows' = [rows EXCEPT ![t] = row]
      BY <2>2 DEF Save
    <3> HIDE DEF row
    <3> QED
      BY <2>1, <3>2, <3>3
  <2>3. CASE Remove(p, t)
    BY <2>1, <2>3, RowTypes DEF Remove
  <2>4. CASE DropTasks(p, t)
    <3>1. [rows[t] EXCEPT !.task = FALSE] \in Row
      BY <1>4 DEF Row
    <3>2. rows' = rows \/ rows' = [rows EXCEPT ![t] = [rows[t] EXCEPT !.task = FALSE]]
      BY <2>4 DEF DropTasks
    <3> QED
      BY <2>1, <3>1, <3>2, <1>4
  <2>5. CASE AddTask(p, t)
    <3>1. [rows[t] EXCEPT !.task = TRUE] \in Row
      BY <1>4 DEF Row
    <3>2. rows' = rows \/ rows' = [rows EXCEPT ![t] = [rows[t] EXCEPT !.task = TRUE]]
      BY <2>5 DEF AddTask
    <3> QED
      BY <2>1, <3>1, <3>2, <1>4
  <2>6. CASE Flip(p, t)
    <3>1. [rows[t] EXCEPT !.active = request[p].row.active] \in Row
      BY <1>4 DEF Row
    <3>2. rows' = rows \/ rows' = [rows EXCEPT ![t] = [rows[t] EXCEPT !.active = request[p].row.active]]
      BY <2>6 DEF Flip
    <3> QED
      BY <2>1, <3>1, <3>2, <1>4
  <2>7. CASE UNCHANGED rows
    BY <1>4, <2>7
  <2> QED
    BY <2>2, <2>3, <2>4, <2>5, <2>6, <2>7 DEF Serve
<1>6. jobs' \in [Process -> SUBSET Trigger]
  BY DEF Serve, SetJob, RequestType
<1> QED
  BY <1>3, <1>5, <1>6 DEF Serve, RequestType, Requests

(* A statement of a request for t concerns t alone. *)
LEMMA ServeElsewhere ==
  ASSUME TriggerInv, NEW p \in Process, NEW t \in Trigger, Serve(p, t),
         NEW u \in Trigger, u # t
  PROVE  AloneInv(u)' /\ TaskInv(u)' /\ JobInv(u)'
<1>0. RequestType
  BY DEF TriggerInv
<1>1. request[p] \in Requests /\ request[p].trigger = t
  BY <1>0, Serving DEF Serve, At, Save, DropTasks, AddTask, Flip, Remove, SetJob
<1>2. Proceed(p) \/ Fail(p)
  BY DEF Serve, Save, DropTasks, AddTask, Flip, Remove, SetJob
<1>3. p \notin Busy(u)
  BY <1>1 DEF Busy
<1>4. Busy(u)' = Busy(u)
  BY <1>0, <1>1, <1>2, <1>3, Proceeds
<1>5. \A q \in Busy(u) : request'[q] = request[q]
  BY <1>0, <1>1, <1>2, <1>3, Proceeds DEF Busy
<1>6. rows'[u] = rows[u]
  BY <1>0 DEF RequestType, Serve, Save, DropTasks, AddTask, Flip, Remove, SetJob
<1>7. \A q \in Process : u \in jobs[q] => u \in jobs'[q]
  BY <1>0 DEF RequestType, Serve, SetJob
<1> QED
  BY <1>4, <1>5, <1>6, <1>7, Elsewhere DEF Serve

LEMMA ServeHere ==
  ASSUME TriggerInv, NEW p \in Process, NEW t \in Trigger, Serve(p, t)
  PROVE  AloneInv(t)' /\ TaskInv(t)' /\ JobInv(t)'
<1> DEFINE todo == request[p].todo
<1>0. /\ RequestType /\ UNCHANGED <<overlap, torn, up, poisoned>>
      /\ rows \in [Trigger -> Row]
  BY DEF TriggerInv, Serve, RequestType
<1>1. request[p] \in Requests /\ request[p] # NoRequest /\ request[p].trigger = t
  BY <1>0, Serving DEF Serve, At, Save, DropTasks, AddTask, Flip, Remove, SetJob
<1>2. p \in Busy(t) /\ todo \in Todos
  BY <1>1 DEF Busy, Requests
<1>3. CASE t \in overlap
  BY <1>0, <1>3 DEF AloneInv, TaskInv, JobInv
<1> SUFFICES ASSUME t \notin overlap PROVE AloneInv(t)' /\ TaskInv(t)' /\ JobInv(t)'
  BY <1>3
<1>4. /\ todo # PostAll => Exists(t)
      /\ todo \notin Starts => Matches(p, t)
      /\ todo = ToggleAll =>
           rows[t].timer = request[p].row.timer /\ rows[t].good = request[p].row.good
      /\ t \notin torn => (Exists(t) => rows[t].task) \/ Adds(todo)
  BY <1>2, Alone
<1>5. Adds(PostAll) /\ PostAll \in Starts /\ ToggleAll \in Starts
  BY DEF Adds, Starts
<1>6. CASE Save(p, t)
  <2>1. /\ Head(todo) = "save" /\ Proceed(p)
        /\ rows' = [rows EXCEPT ![t] = RowOf(request[p].row, Exists(t) /\ rows[t].task)]
    BY <1>6 DEF Save, At
  <2>2. Len(todo) # 1 /\ (Adds(todo) <=> Adds(Tail(todo)))
    BY <1>2, <2>1, Heads, AddsLater
  <2>3. rows'[t] = RowOf(request[p].row, Exists(t) /\ rows[t].task)
    BY <1>0, <2>1
  <2>4. request'[p].row = request[p].row
    BY <1>0, <1>1, <2>1, <2>2, Proceeds
  <2>5. Exists(t)' /\ Matches(p, t)' /\ rows'[t].task = (Exists(t) /\ rows[t].task)
    BY <2>3, <2>4 DEF Exists, Matches, RowOf
  <2>6. t \notin torn => rows'[t].task \/ Adds(Tail(todo))
    BY <1>4, <1>5, <2>2, <2>5
  <2> QED
    BY <1>0, <1>1, <1>2, <2>1, <2>2, <2>5, <2>6, GoesOn
<1>7. CASE DropTasks(p, t)
  <2>1. /\ Head(todo) = "drop" /\ Proceed(p)
        /\ rows' = IF Exists(t) THEN [rows EXCEPT ![t].task = FALSE] ELSE rows
    BY <1>7 DEF DropTasks, At
  <2>2. Len(todo) # 1 /\ Adds(todo) /\ Adds(Tail(todo)) /\ todo \notin Starts
    BY <1>2, <2>1, Heads, AddsLater, AddsHere
  <2>3. rows[t] \in Row /\ (rows'[t] = rows[t] \/ rows'[t] = [rows[t] EXCEPT !.task = FALSE])
    BY <1>0, <2>1
  <2>4. request'[p].row = request[p].row
    BY <1>0, <1>1, <2>1, <2>2, Proceeds
  <2>5. Exists(t)' /\ Matches(p, t)'
    BY <1>4, <1>5, <2>2, <2>3, <2>4 DEF Exists, Matches, Row
  <2> QED
    BY <1>0, <1>1, <1>2, <2>1, <2>2, <2>5, GoesOn
<1>8. CASE AddTask(p, t) /\ Exists(t)
  <2>1. Head(todo) = "add" /\ Proceed(p) /\ rows' = [rows EXCEPT ![t].task = TRUE]
    BY <1>8 DEF AddTask, At
  <2>2. Len(todo) # 1 /\ todo \notin Starts
    BY <1>2, <2>1, Heads
  <2>3. rows[t] \in Row /\ rows'[t] = [rows[t] EXCEPT !.task = TRUE]
    BY <1>0, <2>1
  <2>4. request'[p].row = request[p].row
    BY <1>0, <1>1, <2>1, <2>2, Proceeds
  <2>5. Exists(t)' /\ Matches(p, t)' /\ rows'[t].task
    BY <1>4, <1>8, <2>2, <2>3, <2>4 DEF Exists, Matches, Row
  <2> QED
    BY <1>0, <1>1, <1>2, <2>1, <2>2, <2>5, GoesOn
<1>9. CASE (AddTask(p, t) \/ Flip(p, t)) /\ ~Exists(t)
  <2>1. Fail(p) /\ rows' = rows
    BY <1>9 DEF AddTask, Flip
  <2>2. ~Exists(t)' /\ t \notin Timers'
    BY <1>9, <2>1 DEF Exists, Timers
  <2> QED
    BY <1>0, <1>1, <1>2, <2>1, <2>2, Ends
<1>10. CASE Flip(p, t) /\ Exists(t)
  <2>1. Head(todo) = "flip" /\ Proceed(p) /\ rows' = [rows EXCEPT ![t].active = request[p].row.active]
    BY <1>10 DEF Flip, At
  <2>2. Len(todo) # 1 /\ ~Adds(todo) /\ (todo = ToggleAll \/ todo \notin Starts)
    BY <1>2, <2>1, Heads, AddsHere, Apart DEF Ending
  <2>3. rows[t] \in Row /\ rows'[t] = [rows[t] EXCEPT !.active = request[p].row.active]
    BY <1>0, <2>1
  <2>4. request'[p].row = request[p].row
    BY <1>0, <1>1, <2>1, <2>2, Proceeds
  <2>5. rows[t].timer = request[p].row.timer /\ rows[t].good = request[p].row.good
    BY <1>4, <2>2 DEF Matches
  <2>6. Exists(t)' /\ Matches(p, t)' /\ rows'[t].task = rows[t].task
    BY <1>10, <2>3, <2>4, <2>5 DEF Exists, Matches, Row
  <2>7. t \notin torn => rows'[t].task
    BY <1>4, <1>10, <2>2, <2>6
  <2> QED
    BY <1>0, <1>1, <1>2, <2>1, <2>2, <2>6, <2>7, GoesOn
<1>11. CASE Remove(p, t)
  <2>1. Fail(p) /\ rows' = [rows EXCEPT ![t] = NoRow("gone")]
    BY <1>11 DEF Remove
  <2>2. rows'[t].state = "gone"
    BY <1>0, <2>1 DEF NoRow
  <2>3. ~Exists(t)' /\ t \notin Timers'
    BY <2>2 DEF Exists, Timers
  <2> QED
    BY <1>0, <1>1, <1>2, <2>1, <2>3, Ends
<1>12. CASE SetJob(p, t) /\ rows' = rows
  <2>1. Head(todo) = "job" /\ Proceed(p)
    BY <1>12 DEF SetJob, At
  <2>2. Len(todo) = 1 /\ ~Adds(todo) /\ todo = <<"job">>
    BY <1>2, <2>1, Heads, AddsHere, Lengths
  <2>3. todo \notin Starts
    BY <2>2, Apart DEF Ending
  <2>4. Matches(p, t) /\ (t \notin torn => (Exists(t) => rows[t].task))
    BY <1>4, <2>2, <2>3
  <2>5. ASSUME t \in Timers', rows'[t].good PROVE t \in jobs'[p]
    <3>1. rows[t].active /\ rows[t].timer /\ rows[t].good
      BY <1>12, <2>5 DEF Timers, Exists
    <3>2. request[p].row.active /\ request[p].row.timer /\ request[p].row.good
      BY <2>4, <3>1 DEF Matches
    <3>3. jobs' = [jobs EXCEPT ![p] = @ \cup {t}]
      BY <1>12, <3>2 DEF SetJob
    <3> QED
      BY <1>0, <3>3 DEF RequestType
  <2>6. Exists(t)' <=> Exists(t)
    BY <1>12 DEF Exists
  <2> QED
    BY <1>0, <1>1, <1>2, <1>12, <2>1, <2>2, <2>4, <2>5, <2>6, Ends
<1> QED
  BY <1>6, <1>7, <1>8, <1>9, <1>10, <1>11, <1>12 DEF Serve

(* A request begins: it has the trigger to itself, or there is an overlap. *)
LEMMA BeginKeeps ==
  ASSUME TriggerInv, NEW p \in Process, NEW t \in Trigger, NEW row \in Row, NEW todo \in Starts,
         Begin(p, t, row, todo), todo # PostAll => Exists(t),
         todo = ToggleAll => row.timer = rows[t].timer /\ row.good = rows[t].good
  PROVE  TriggerInv'
<1>0. RequestType /\ request \in [Process -> {NoRequest} \cup Requests]
  BY DEF TriggerInv, RequestType, Requests
<1>1. /\ request[p] = NoRequest /\ UNCHANGED <<rows, torn, jobs, up, poisoned>>
      /\ request' = [request EXCEPT ![p] = [trigger |-> t, row |-> row, todo |-> todo]]
      /\ overlap' = IF Busy(t) = {} THEN overlap ELSE overlap \cup {t}
  BY DEF Begin, server
<1>2. [trigger |-> t, row |-> row, todo |-> todo] \in Requests
  BY DEF Requests, Todos
<1>3. /\ request' \in [Process -> {NoRequest} \cup Requests]
      /\ request'[p] = [trigger |-> t, row |-> row, todo |-> todo]
      /\ \A q \in Process \ {p} : request'[q] = request[q]
  BY <1>0, <1>1, <1>2
<1>4. request'[p] # NoRequest
  <2>1. request'[p].todo # <<>>
    BY <1>3, Apart DEF Todos
  <2> QED
    BY <2>1 DEF NoRequest
<1>5. RequestType'
  BY <1>0, <1>1, <1>3 DEF RequestType, Requests
<1>6. ASSUME NEW u \in Trigger, u # t PROVE AloneInv(u)' /\ TaskInv(u)' /\ JobInv(u)'
  <2>1. Busy(u)' = Busy(u) /\ p \notin Busy(u)
    BY <1>1, <1>3, <1>4, <1>6 DEF Busy
  <2>2. \A q \in Busy(u) : request'[q] = request[q]
    BY <1>3, <2>1 DEF Busy
  <2> QED
    BY <1>1, <1>6, <2>1, <2>2, Elsewhere
<1>7. AloneInv(t)' /\ TaskInv(t)' /\ JobInv(t)'
  <2>1. CASE t \in overlap'
    BY <2>1 DEF AloneInv, TaskInv, JobInv
  <2> SUFFICES ASSUME t \notin overlap' PROVE AloneInv(t)' /\ TaskInv(t)' /\ JobInv(t)'
    BY <2>1
  <2>2. Busy(t) = {} /\ t \notin overlap
    BY <1>1
  <2>3. Busy(t)' = {p}
    BY <1>3, <1>4, <2>2 DEF Busy
  <2>4. Exists(t)' <=> Exists(t)
    BY <1>1 DEF Exists
  <2>5. AloneInv(t)'
    BY <1>1, <1>3, <2>3, <2>4 DEF AloneInv
  <2>6. TaskInv(t)'
    <3>1. t \notin torn => (Exists(t) => rows[t].task)
      BY <2>2 DEF TriggerInv, TaskInv
    <3> QED
      BY <1>1, <2>4, <3>1 DEF TaskInv
  <2>7. JobInv(t)'
    BY <2>3 DEF JobInv
  <2> QED
    BY <2>5, <2>6, <2>7
<1> QED
  BY <1>5, <1>6, <1>7 DEF TriggerInv

LEMMA RequestsBegin ==
  ASSUME TriggerInv, NEW p \in Process, NEW t \in Trigger,
         Post(p, t) \/ Put(p, t) \/ Delete(p, t) \/ Toggle(p, t)
  PROVE  TriggerInv'
<1>0. rows[t] \in Row
  BY DEF TriggerInv, RequestType
<1>1. CASE Post(p, t)
  <2>1. PICK s \in Settings : Begin(p, t, RowOf(s, FALSE), PostAll)
    BY <1>1 DEF Post, PostAll
  <2>2. RowOf(s, FALSE) \in Row /\ PostAll \in Starts /\ PostAll # ToggleAll
    BY RowTypes DEF Starts, PostAll, ToggleAll
  <2> QED
    BY <2>1, <2>2, BeginKeeps
<1>2. CASE Put(p, t)
  <2>1. PICK s \in Settings, todo \in {PutShort, PutAll} : Begin(p, t, RowOf(s, TRUE), todo)
    BY <1>2 DEF Put, PutShort, PutAll
  <2>2. RowOf(s, TRUE) \in Row /\ todo \in Starts
    BY RowTypes DEF Starts
  <2>3. todo # ToggleAll
    BY DEF PutShort, PutAll, ToggleAll
  <2> QED
    BY <1>2, <2>1, <2>2, <2>3, BeginKeeps DEF Put
<1>3. CASE Delete(p, t)
  <2>1. Begin(p, t, rows[t], DeleteAll) /\ Exists(t)
    BY <1>3 DEF Delete, DeleteAll
  <2>2. DeleteAll \in Starts /\ DeleteAll # ToggleAll
    BY DEF Starts, DeleteAll, ToggleAll
  <2> QED
    BY <1>0, <2>1, <2>2, BeginKeeps
<1>4. CASE Toggle(p, t)
  <2> DEFINE row == [rows[t] EXCEPT !.active = ~rows[t].active]
  <2>1. Begin(p, t, row, ToggleAll) /\ Exists(t) /\ ToggleAll \in Starts
    BY <1>4 DEF Toggle, ToggleAll, Starts
  <2>2. row \in Row /\ row.timer = rows[t].timer /\ row.good = rows[t].good
    BY <1>0 DEF Row
  <2> HIDE DEF row
  <2> QED
    BY <2>1, <2>2, BeginKeeps
<1> QED
  BY <1>1, <1>2, <1>3, <1>4

LEMMA ProcessEnds ==
  ASSUME TriggerInv, NEW p \in Process, Crash(p)
  PROVE  TriggerInv'
<1>0. RequestType /\ request \in [Process -> {NoRequest} \cup Requests]
  BY DEF TriggerInv, RequestType, Requests
<1>1. /\ p \in up /\ up' = up \ {p} /\ jobs' = [jobs EXCEPT ![p] = {}]
      /\ torn' = torn \cup {t \in Trigger : p \in Busy(t)}
      /\ request' = [request EXCEPT ![p] = NoRequest]
      /\ UNCHANGED <<rows, overlap, poisoned>>
  BY DEF Crash
<1>2. RequestType'
  BY <1>0, <1>1 DEF RequestType
<1>3. up' # Process
  BY <1>1
<1>4. request'[p] = NoRequest /\ \A q \in Process \ {p} : request'[q] = request[q]
  BY <1>0, <1>1
<1>5. ASSUME NEW u \in Trigger PROVE AloneInv(u)' /\ TaskInv(u)' /\ JobInv(u)'
  <2>1. Busy(u)' = Busy(u) \ {p}
    BY <1>4 DEF Busy
  <2>2. Exists(u)' <=> Exists(u)
    BY <1>1 DEF Exists
  <2>3. \A q \in Busy(u)' : request'[q] = request[q] /\ (Matches(q, u)' <=> Matches(q, u))
    BY <1>1, <1>4, <2>1 DEF Busy, Matches
  <2>4. AloneInv(u) /\ TaskInv(u)
    BY DEF TriggerInv
  <2>5. AloneInv(u)'
    BY <1>1, <2>1, <2>2, <2>3, <2>4 DEF AloneInv
  <2>6. TaskInv(u)'
    BY <1>1, <2>1, <2>2, <2>3, <2>4 DEF TaskInv
  <2>7. JobInv(u)'
    BY <1>3 DEF JobInv
  <2> QED
    BY <2>5, <2>6, <2>7
<1> QED
  BY <1>2, <1>5 DEF TriggerInv

(* A process that starts has a job for every enabled timer. *)
LEMMA ProcessStarts ==
  ASSUME TriggerInv, NEW p \in Process, Ready(p)
  PROVE  TriggerInv'
<1>0. RequestType
  BY DEF TriggerInv
<1>1. UNCHANGED <<rows, request, overlap, torn>> /\ up' = up \cup {p} /\ LoadAllTriggers(p)
  BY DEF Ready, table
<1>2. PICK loaded \in SUBSET Timers : jobs' = [jobs EXCEPT ![p] = loaded]
  BY <1>1 DEF LoadAllTriggers
<1>3. poisoned' \in BOOLEAN /\ (~poisoned' => jobs' = [jobs EXCEPT ![p] = Timers])
  BY <1>0, <1>1 DEF LoadAllTriggers, RequestType
<1>4. Timers \subseteq Trigger
  BY DEF Timers
<1>5. RequestType'
  BY <1>0, <1>1, <1>2, <1>3, <1>4 DEF RequestType
<1>6. ASSUME NEW u \in Trigger PROVE AloneInv(u)' /\ TaskInv(u)' /\ JobInv(u)'
  <2>1. AloneInv(u) /\ TaskInv(u)
    BY DEF TriggerInv
  <2>2. AloneInv(u)' /\ TaskInv(u)'
    BY <1>1, <2>1 DEF AloneInv, TaskInv, Busy, Exists, Matches
  <2>3. Timers' = Timers
    BY <1>1 DEF Timers, Exists
  <2>4. ~poisoned' /\ u \in Timers' => u \in jobs'[p]
    BY <1>0, <1>3, <2>3 DEF RequestType
  <2>5. JobInv(u)'
    BY <2>4 DEF JobInv
  <2> QED
    BY <2>2, <2>5
<1> QED
  BY <1>5, <1>6 DEF TriggerInv

LEMMA TriggerStep ==
  ASSUME TriggerInv, [Next]_vars
  PROVE  TriggerInv'
<1>1. ASSUME UNCHANGED <<table, server>> PROVE TriggerInv'
  <2>1. UNCHANGED <<rows, request, overlap, torn, jobs, up, poisoned>>
    BY <1>1 DEF table, server
  <2>2. RequestType'
    BY <2>1 DEF TriggerInv, RequestType
  <2>3. ASSUME NEW u \in Trigger PROVE AloneInv(u)' /\ TaskInv(u)' /\ JobInv(u)'
    <3>1. Busy(u)' = Busy(u)
      BY <2>1 DEF Busy
    <3> QED
      BY <2>1, <3>1, Elsewhere
  <2> QED
    BY <2>2, <2>3 DEF TriggerInv
<1>2. ASSUME NEW p \in Process, NEW t \in Trigger, Serve(p, t) PROVE TriggerInv'
  <2>1. RequestType'
    BY <1>2, ServeType DEF TriggerInv
  <2>2. ASSUME NEW u \in Trigger PROVE AloneInv(u)' /\ TaskInv(u)' /\ JobInv(u)'
    <3>1. CASE u = t
      BY <1>2, <3>1, ServeHere
    <3>2. CASE u # t
      BY <1>2, <3>2, ServeElsewhere
    <3> QED
      BY <3>1, <3>2
  <2> QED
    BY <2>1, <2>2 DEF TriggerInv
<1>3. ASSUME NEW c \in Thread, Run(c) PROVE TriggerInv'
  BY <1>1, <1>3 DEF Run
<1>4. ASSUME NEW t \in Trigger, Expire(t) PROVE TriggerInv'
  BY <1>1, <1>4 DEF Expire
<1>5. CASE Tick
  BY <1>1, <1>5 DEF Tick
<1>6. CASE UNCHANGED vars
  BY <1>1, <1>6 DEF vars
<1> QED
  BY <1>2, <1>3, <1>4, <1>5, <1>6, ProcessStarts, ProcessEnds, RequestsBegin DEF Next

LEMMA TriggerInvariant == Spec => []TriggerInv
<1>1. ASSUME Init PROVE TriggerInv
  <2>1. /\ request = [p \in Process |-> NoRequest] /\ jobs = [p \in Process |-> {}]
        /\ up = {} /\ poisoned = FALSE
        /\ rows \in [Trigger -> {NoRow("unborn")} \cup {RowOf(s, TRUE) : s \in Settings}]
    BY <1>1 DEF Init
  <2>2. {NoRow("unborn")} \cup {RowOf(s, TRUE) : s \in Settings} \subseteq Row
    BY RowTypes
  <2>3. RequestType
    BY <2>1, <2>2 DEF RequestType
  <2>4. ASSUME NEW t \in Trigger PROVE AloneInv(t) /\ TaskInv(t) /\ JobInv(t)
    <3>1. Busy(t) = {}
      BY <2>1 DEF Busy
    <3>2. rows[t] = NoRow("unborn") \/ \E s \in Settings : rows[t] = RowOf(s, TRUE)
      BY <2>1
    <3>3. Exists(t) => rows[t].task
      <4>1. CASE rows[t] = NoRow("unborn")
        <5>1. rows[t].state = "unborn"
          BY <4>1 DEF NoRow
        <5> QED
          BY <5>1 DEF Exists
      <4>2. ASSUME NEW s \in Settings, rows[t] = RowOf(s, TRUE) PROVE rows[t].task
        <5>1. rows[t].task = TRUE
          BY <4>2 DEF RowOf
        <5> QED
          BY <5>1
      <4> QED
        BY <3>2, <4>1, <4>2
    <3>4. up # Process
      BY <2>1, TriggerAssumption
    <3> QED
      BY <3>1, <3>3, <3>4 DEF AloneInv, TaskInv, JobInv
  <2> QED
    BY <2>3, <2>4 DEF TriggerInv
<1> QED
  BY <1>1, TriggerStep, PTL DEF Spec

(***************************************************************************)
(* The statements of an edit leave a trigger with its task, unless another *)
(* request or the end of the process cuts in: every delete of the tasks is *)
(* followed by a create, and no other statement takes them away.           *)
(***************************************************************************)
THEOREM EditsKeepTasks == Spec => []EditKeepsTask
<1>1. TriggerInv => EditKeepsTask
  BY DEF TriggerInv, TaskInv, EditKeepsTask
<1> QED
  BY <1>1, TriggerInvariant, PTL

(***************************************************************************)
(* An enabled timer has a job in some process once all of them run: each   *)
(* request ends by setting the job to what it saved, and a process that    *)
(* ends takes its jobs with it but finds them in the table when it starts. *)
(***************************************************************************)
THEOREM EnabledTimersHaveJobs == Spec => []EnabledHasJob
<1>1. TriggerInv => EnabledHasJob
  BY DEF TriggerInv, JobInv, EnabledHasJob, Timers
<1> QED
  BY <1>1, TriggerInvariant, PTL

================================================================================
