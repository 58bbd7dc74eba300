---------------------------- MODULE WorkflowProofs ----------------------------
(***************************************************************************)
(* Proofs about workflows: one run of the scheduler, then executing and    *)
(* resuming it through the service, then the validation of a graph; for    *)
(* every set of graphs, pool size, depth limit and number of runs.         *)
(***************************************************************************)
EXTENDS WorkflowService, GraphCheck, FiniteSetTheorems, WellFoundedInduction, TLAPS

-----------------------------------------------------------------------------
(* Facts about graphs.                                                     *)

(* The start node is a node of the graph, and no edge leads to it. *)
LEMMA StartIsSource ==
  ASSUME NEW g, IsGraph(g), HasStart(g)
  PROVE  /\ GetStart(g) \in g.nodes
         /\ \A i \in DOMAIN g.edges : Target(g, i) # GetStart(g)
<1>1. Starts(g) # {}
  <2>1. Cardinality({}) = 0
    BY FS_EmptySet
  <2> QED BY <2>1 DEF HasStart
<1>2. GetStart(g) \in Starts(g)
  BY <1>1 DEF GetStart
<1> QED
  BY <1>2 DEF Starts, Predecessors, Target

(* A target of an edge is a node of the graph. *)
LEMMA TargetIsNode ==
  ASSUME NEW g, IsGraph(g), NEW i \in DOMAIN g.edges
  PROVE  Target(g, i) \in g.nodes /\ Target(g, i) \in Node
BY DEF IsGraph, Target

(* Every non-empty set of natural numbers has a least element. *)
LEMMA LeastNumber ==
  ASSUME NEW T, T \subseteq Nat, T # {}
  PROVE  \E x \in T : \A y \in T : ~(y < x)
<1>1. \E x \in T : \A y \in T : ~(<<y, x>> \in OpToRel(<, Nat))
  BY NatLessThanWellFounded, WFMin
<1> QED BY <1>1 DEF OpToRel

-----------------------------------------------------------------------------
(* Type correctness.                                                       *)

LEMMA AbortType ==
  ASSUME TypeOK, NEW kind \in {"interrupt", "failure", "depth"}, NEW n \in Node,
         Abort(kind, n)
  PROVE  /\ error' \in Errors \cup {NoError}
         /\ error' # NoError
         /\ pending' \in Int
         /\ idle' = TRUE
         /\ done' \subseteq Node
         /\ activated' \subseteq Node
BY GraphAssumption DEF Abort, TypeOK, Errors, NoError

(* The request is fixed once and for all. *)
LEMMA RequestFixed ==
  ASSUME [Next]_vars
  PROVE  graph' = graph /\ entry' = entry /\ submitted' = submitted
<1>1. ASSUME NEW t \in DOMAIN tasks, Worker(t) PROVE UNCHANGED request
  BY <1>1 DEF Worker, Start, Execute, Interrupt, Fail, MarkDone, NextNodes, Acquire,
              ReleaseSelf, Submit
<1>2. Run \/ Wake \/ Join \/ Terminated \/ UNCHANGED vars => UNCHANGED request
  BY DEF Run, Wake, Join, Terminated, vars
<1> QED
  BY <1>1, <1>2 DEF Next, request

(* A step that rewrites the record of one task. *)
LEMMA BecomeTasks ==
  ASSUME TypeOK, NEW t \in DOMAIN tasks, NEW r \in Task, Become(t, r)
  PROVE  /\ tasks' \in Seq(Task)
         /\ Len(tasks') = Len(tasks)
         /\ DOMAIN tasks' = DOMAIN tasks
         /\ \A u \in DOMAIN tasks : tasks'[u] = IF u = t THEN r ELSE tasks[u]
BY DEF Become, TypeOK

LEMMA BecomeType ==
  ASSUME TypeOK, NEW t \in DOMAIN tasks, NEW r \in Task, Become(t, r),
         graph' = graph, r.todo \subseteq r.nxt, r.nxt \subseteq DOMAIN graph.edges,
         r.todo # {} => r.pc = "acquiring"
  PROVE  \A u \in DOMAIN tasks' : /\ tasks'[u].nxt \subseteq DOMAIN graph'.edges
                                  /\ tasks'[u].todo \subseteq tasks'[u].nxt
                                  /\ tasks'[u].todo # {} => tasks'[u].pc = "acquiring"
BY BecomeTasks DEF TypeOK

(* What the type invariant says of one task. *)
LEMMA TaskType ==
  ASSUME TypeOK, NEW t \in DOMAIN tasks
  PROVE  /\ tasks[t] \in Task
         /\ t \in 1 .. Len(tasks)
         /\ tasks[t].node \in Node
         /\ tasks[t].depth \in Nat
         /\ tasks[t].pc \in Phases
         /\ tasks[t].branch \in Branch \cup {NoBranch}
         /\ tasks[t].todo \subseteq tasks[t].nxt
         /\ tasks[t].nxt \subseteq DOMAIN graph.edges
         /\ tasks[t].nxt \in SUBSET Nat
         /\ tasks[t].todo # {} => tasks[t].pc = "acquiring"
<1>1. tasks[t] \in Task /\ t \in 1 .. Len(tasks)
  BY DEF TypeOK
<1>2. /\ tasks[t].todo \subseteq tasks[t].nxt /\ tasks[t].nxt \subseteq DOMAIN graph.edges
      /\ tasks[t].todo # {} => tasks[t].pc = "acquiring"
  BY DEF TypeOK
<1> QED
  BY <1>1, <1>2 DEF Task

(* Records of the phases a task goes through. *)
LEMMA PhaseTask ==
  ASSUME NEW r \in Task, NEW p \in Phases
  PROVE  /\ [r EXCEPT !.pc = p] \in Task
         /\ [r EXCEPT !.pc = p].pc = p
         /\ [r EXCEPT !.pc = p].nxt = r.nxt
         /\ [r EXCEPT !.pc = p].todo = r.todo
         /\ [r EXCEPT !.pc = p].node = r.node
BY DEF Task

(***************************************************************************)
(* A step of task t into record r keeps the part of the type invariant     *)
(* that is about the tasks and the request.                                *)
(***************************************************************************)
TasksOK ==
  /\ IsGraph(graph)
  /\ entry \in Node
  /\ submitted \in BOOLEAN
  /\ tasks \in Seq(Task)
  /\ \A t \in DOMAIN tasks : /\ tasks[t].nxt \subseteq DOMAIN graph.edges
                             /\ tasks[t].todo \subseteq tasks[t].nxt
                             /\ tasks[t].todo # {} => tasks[t].pc = "acquiring"

RestOK ==
  /\ caller \in Callers
  /\ started \in 0 .. Len(tasks)
  /\ pending \in Int
  /\ done \subseteq Node
  /\ activated \subseteq Node
  /\ error \in Errors \cup {NoError}
  /\ idle \in BOOLEAN
  /\ store \subseteq Node

LEMMA BecomeTasksOK ==
  ASSUME TypeOK, NEW t \in DOMAIN tasks, NEW r \in Task, Become(t, r), UNCHANGED request,
         r.todo \subseteq r.nxt, r.nxt \subseteq DOMAIN graph.edges,
         r.todo # {} => r.pc = "acquiring"
  PROVE  TasksOK' /\ Len(tasks') = Len(tasks)
<1>1. graph' = graph /\ entry' = entry /\ submitted' = submitted
  BY DEF request
<1>2. IsGraph(graph)'
  BY <1>1 DEF TypeOK, IsGraph
<1> QED
  BY <1>1, <1>2, BecomeTasks, BecomeType DEF TypeOK, TasksOK

LEMMA TypeStart ==
  ASSUME TypeOK, NEW t \in DOMAIN tasks, Start(t)
  PROVE  TypeOK'
<1>0. tasks[t] \in Task /\ tasks[t].todo = {} /\ tasks[t].node \in Node /\ t \in 1 .. Len(tasks)
      /\ tasks[t].todo \subseteq tasks[t].nxt /\ tasks[t].nxt \subseteq DOMAIN graph.edges
  BY TaskType DEF Start, At
<1>1. CASE tasks[t].depth > MaxDepth
  <2> DEFINE r == [tasks[t] EXCEPT !.pc = "aborted"]
  <2>1. Become(t, r) /\ Abort("depth", tasks[t].node)
    BY <1>1 DEF Start
  <2>2. r \in Task /\ r.todo = tasks[t].todo /\ r.nxt = tasks[t].nxt
    BY <1>0, PhaseTask DEF Phases
  <2> HIDE DEF r
  <2>3. TasksOK' /\ Len(tasks') = Len(tasks)
    BY <1>0, <2>1, <2>2, BecomeTasksOK DEF Start
  <2>4. error' \in Errors \cup {NoError} /\ pending' \in Int /\ idle' = TRUE
        /\ done' \subseteq Node /\ activated' \subseteq Node
    BY <1>0, <2>1, AbortType
  <2>5. RestOK'
    BY <1>0, <2>3, <2>4 DEF Start, RestOK, TypeOK
  <2> QED
    BY <2>3, <2>5 DEF TypeOK, TasksOK, RestOK
<1>2. CASE ~(tasks[t].depth > MaxDepth)
  <2> DEFINE r == [tasks[t] EXCEPT !.pc = "running"]
  <2>1. Become(t, r) /\ UNCHANGED scope
    BY <1>2 DEF Start
  <2>2. r \in Task /\ r.todo = tasks[t].todo /\ r.nxt = tasks[t].nxt
    BY <1>0, PhaseTask DEF Phases
  <2> HIDE DEF r
  <2>3. TasksOK' /\ Len(tasks') = Len(tasks)
    BY <1>0, <2>1, <2>2, BecomeTasksOK DEF Start
  <2>4. RestOK'
    BY <1>0, <2>1, <2>3 DEF Start, RestOK, TypeOK, scope
  <2> QED
    BY <2>3, <2>4 DEF TypeOK, TasksOK, RestOK
<1> QED BY <1>1, <1>2

LEMMA TypeAbort ==
  ASSUME TypeOK, NEW t \in DOMAIN tasks, Interrupt(t) \/ Fail(t)
  PROVE  TypeOK'
<1> DEFINE r == [tasks[t] EXCEPT !.pc = "aborted"]
<1>0. tasks[t] \in Task /\ tasks[t].todo = {} /\ tasks[t].node \in Node
      /\ tasks[t].todo \subseteq tasks[t].nxt /\ tasks[t].nxt \subseteq DOMAIN graph.edges
  BY TaskType DEF Interrupt, Fail, At
<1>1. Become(t, r) /\ UNCHANGED request /\ UNCHANGED <<caller, started, store>>
  BY DEF Interrupt, Fail
<1>2. r \in Task /\ r.todo = tasks[t].todo /\ r.nxt = tasks[t].nxt
  BY <1>0, PhaseTask DEF Phases
<1> HIDE DEF r
<1>3. TasksOK' /\ Len(tasks') = Len(tasks)
  BY <1>0, <1>1, <1>2, BecomeTasksOK
<1>4. PICK kind \in {"interrupt", "failure", "depth"} : Abort(kind, tasks[t].node)
  BY DEF Interrupt, Fail
<1>5. error' \in Errors \cup {NoError} /\ pending' \in Int /\ idle' = TRUE
      /\ done' \subseteq Node /\ activated' \subseteq Node
  BY <1>0, <1>4, AbortType
<1>6. RestOK'
  BY <1>1, <1>3, <1>5 DEF RestOK, TypeOK
<1> QED
  BY <1>3, <1>6 DEF TypeOK, TasksOK, RestOK

LEMMA TypeExecute ==
  ASSUME TypeOK, NEW t \in DOMAIN tasks, NEW b \in Branch \cup {NoBranch}, Execute(t, b)
  PROVE  TypeOK'
<1> DEFINE r == [tasks[t] EXCEPT !.pc = "executed", !.branch = b]
<1>0. tasks[t] \in Task /\ tasks[t].todo = {} /\ tasks[t].node \in Node
      /\ tasks[t].todo \subseteq tasks[t].nxt /\ tasks[t].nxt \subseteq DOMAIN graph.edges
  BY TaskType DEF Execute, At
<1>1. Become(t, r) /\ UNCHANGED request /\ UNCHANGED <<caller, started, scope>>
      /\ store' = store \cup {tasks[t].node}
  BY DEF Execute
<1>2. r \in Task /\ r.todo = tasks[t].todo /\ r.nxt = tasks[t].nxt
  BY <1>0 DEF Task, Phases
<1> HIDE DEF r
<1>3. TasksOK' /\ Len(tasks') = Len(tasks)
  BY <1>0, <1>1, <1>2, BecomeTasksOK
<1>4. RestOK'
  BY <1>0, <1>1, <1>3 DEF RestOK, TypeOK, scope
<1> QED
  BY <1>3, <1>4 DEF TypeOK, TasksOK, RestOK

LEMMA TypeMarkDone ==
  ASSUME TypeOK, NEW t \in DOMAIN tasks, MarkDone(t)
  PROVE  TypeOK'
<1> DEFINE r == [tasks[t] EXCEPT !.pc = "done"]
<1>0. tasks[t] \in Task /\ tasks[t].todo = {} /\ tasks[t].node \in Node
      /\ tasks[t].todo \subseteq tasks[t].nxt /\ tasks[t].nxt \subseteq DOMAIN graph.edges
  BY TaskType DEF MarkDone, At
<1>1. Become(t, r) /\ UNCHANGED request /\ done' = done \cup {tasks[t].node}
      /\ UNCHANGED <<caller, started, pending, activated, error, idle, store>>
  BY DEF MarkDone
<1>2. r \in Task /\ r.todo = tasks[t].todo /\ r.nxt = tasks[t].nxt
  BY <1>0, PhaseTask DEF Phases
<1> HIDE DEF r
<1>3. TasksOK' /\ Len(tasks') = Len(tasks)
  BY <1>0, <1>1, <1>2, BecomeTasksOK
<1>4. RestOK'
  BY <1>0, <1>1, <1>3 DEF RestOK, TypeOK
<1> QED
  BY <1>3, <1>4 DEF TypeOK, TasksOK, RestOK

LEMMA TypeNextNodes ==
  ASSUME TypeOK, NEW t \in DOMAIN tasks, NextNodes(t)
  PROVE  TypeOK'
<1> DEFINE out == Selected(tasks[t].node, tasks[t].branch)
           r   == [tasks[t] EXCEPT !.pc = "acquiring", !.todo = out, !.nxt = out]
<1>0. tasks[t] \in Task
  BY TaskType
<1>1. Become(t, r) /\ UNCHANGED request
      /\ activated' = activated \cup {Target(graph, i) : i \in out}
      /\ UNCHANGED <<caller, started, pending, done, error, idle, store>>
  BY DEF NextNodes
<1>2. out \subseteq DOMAIN graph.edges
  BY DEF Selected, Routed, OutEdges
<1>3. out \subseteq Nat
  BY <1>2 DEF TypeOK, IsGraph
<1>4. {Target(graph, i) : i \in out} \subseteq Node
  BY <1>2, TargetIsNode DEF TypeOK
<1> HIDE DEF out
<1>5. r \in Task /\ r.pc = "acquiring" /\ r.todo = out /\ r.nxt = out
  BY <1>0, <1>3 DEF Task, Phases
<1> HIDE DEF r
<1>6. TasksOK' /\ Len(tasks') = Len(tasks)
  BY <1>1, <1>2, <1>5, BecomeTasksOK
<1>7. RestOK'
  BY <1>1, <1>4, <1>6 DEF RestOK, TypeOK
<1> QED
  BY <1>6, <1>7 DEF TypeOK, TasksOK, RestOK

LEMMA TypeAcquire ==
  ASSUME TypeOK, NEW t \in DOMAIN tasks, NEW i \in tasks[t].todo, Acquire(t, i)
  PROVE  TypeOK'
<1> DEFINE r == [tasks[t] EXCEPT !.todo = tasks[t].todo \ {i}]
<1>0. tasks[t] \in Task /\ tasks[t].pc = "acquiring"
      /\ tasks[t].todo \subseteq tasks[t].nxt /\ tasks[t].nxt \subseteq DOMAIN graph.edges
  BY TaskType DEF Acquire, At
<1>1. Become(t, r) /\ UNCHANGED request /\ pending' = pending + 1
      /\ UNCHANGED <<caller, started, done, activated, error, idle, store>>
  BY DEF Acquire
<1>2. r \in Task /\ r.todo = tasks[t].todo \ {i} /\ r.nxt = tasks[t].nxt
      /\ r.pc = "acquiring"
  BY <1>0 DEF Task
<1> HIDE DEF r
<1>3. TasksOK' /\ Len(tasks') = Len(tasks)
  BY <1>0, <1>1, <1>2, BecomeTasksOK
<1>4. RestOK'
  BY <1>1, <1>3 DEF RestOK, TypeOK
<1> QED
  BY <1>3, <1>4 DEF TypeOK, TasksOK, RestOK

LEMMA TypeReleaseSelf ==
  ASSUME TypeOK, NEW t \in DOMAIN tasks, ReleaseSelf(t)
  PROVE  TypeOK'
<1> DEFINE p == IF tasks[t].nxt = {} THEN "finished" ELSE "submitting"
           r == [tasks[t] EXCEPT !.pc = p]
<1>0. tasks[t] \in Task /\ tasks[t].todo = {}
      /\ tasks[t].todo \subseteq tasks[t].nxt /\ tasks[t].nxt \subseteq DOMAIN graph.edges
  BY TaskType DEF ReleaseSelf, At
<1>1. Become(t, r) /\ UNCHANGED request /\ Release
      /\ UNCHANGED <<caller, started, store>>
  BY DEF ReleaseSelf
<1>2. r \in Task /\ r.todo = tasks[t].todo /\ r.nxt = tasks[t].nxt
  <2>1. p \in Phases
    BY DEF Phases
  <2> QED BY <1>0, <2>1, PhaseTask
<1> HIDE DEF r
<1>3. TasksOK' /\ Len(tasks') = Len(tasks)
  BY <1>0, <1>1, <1>2, BecomeTasksOK
<1>4. RestOK'
  BY <1>1, <1>3 DEF RestOK, TypeOK, Release
<1> QED
  BY <1>3, <1>4 DEF TypeOK, TasksOK, RestOK

(* What a task looks like once it submitted edge i, and the new task. *)
LEMMA SubmittedTasks ==
  ASSUME TypeOK, NEW t \in DOMAIN tasks, NEW i \in tasks[t].nxt,
         NEW r \in Task, NEW new \in Task,
         tasks' = Append([tasks EXCEPT ![t] = r], new)
  PROVE  /\ tasks' \in Seq(Task)
         /\ Len(tasks') = Len(tasks) + 1
         /\ DOMAIN tasks' = (DOMAIN tasks) \cup {Len(tasks) + 1}
         /\ \A u \in DOMAIN tasks : tasks'[u] = IF u = t THEN r ELSE tasks[u]
         /\ tasks'[Len(tasks) + 1] = new
         /\ Len(tasks) + 1 \notin DOMAIN tasks
<1> DEFINE f == [tasks EXCEPT ![t] = r]
<1>1. f \in Seq(Task) /\ Len(f) = Len(tasks) /\ DOMAIN f = DOMAIN tasks
      /\ \A u \in DOMAIN tasks : f[u] = IF u = t THEN r ELSE tasks[u]
  BY DEF TypeOK
<1> HIDE DEF f
<1>2. tasks' = Append(f, new)
  BY DEF f
<1> QED
  BY <1>1, <1>2 DEF TypeOK

LEMMA NewTaskType ==
  ASSUME NEW n \in Node, NEW d \in Nat
  PROVE  /\ NewTask(n, d) \in Task
         /\ NewTask(n, d).todo = {} /\ NewTask(n, d).nxt = {}
         /\ NewTask(n, d).pc = "queued" /\ NewTask(n, d).node = n
BY DEF NewTask, Task, Phases

LEMMA TypeSubmit ==
  ASSUME TypeOK, NEW t \in DOMAIN tasks, NEW i \in tasks[t].nxt, Submit(t, i)
  PROVE  TypeOK'
<1>0. tasks[t] \in Task /\ tasks[t].depth \in Nat /\ tasks[t].todo = {}
      /\ tasks[t].todo \subseteq tasks[t].nxt /\ tasks[t].nxt \subseteq DOMAIN graph.edges
  BY TaskType DEF Submit, At
<1>1. UNCHANGED request /\ UNCHANGED <<caller, started, scope, store>>
  BY DEF Submit
<1>2. CASE caller = "waiting"
  <2> DEFINE rest == tasks[t].nxt \ {i}
             p   == IF rest = {} THEN "finished" ELSE "submitting"
             r   == [tasks[t] EXCEPT !.nxt = rest, !.pc = p]
             new == NewTask(Target(graph, i), tasks[t].depth + 1)
  <2>1. tasks' = Append([tasks EXCEPT ![t] = r], new)
    BY <1>2 DEF Submit
  <2>2. r \in Task /\ r.todo = {} /\ r.nxt = rest
    BY <1>0 DEF Task, Phases
  <2>3. new \in Task /\ new.todo = {} /\ new.nxt = {}
    <3>1. Target(graph, i) \in Node
      BY <1>0, TargetIsNode DEF TypeOK
    <3> QED BY <1>0, <3>1, NewTaskType
  <2>4. rest \subseteq DOMAIN graph.edges
    BY <1>0
  <2> HIDE DEF r, new, rest
  <2>5. /\ tasks' \in Seq(Task)
        /\ Len(tasks') = Len(tasks) + 1
        /\ DOMAIN tasks' = (DOMAIN tasks) \cup {Len(tasks) + 1}
        /\ \A u \in DOMAIN tasks : tasks'[u] = IF u = t THEN r ELSE tasks[u]
        /\ tasks'[Len(tasks) + 1] = new
    BY <2>1, <2>2, <2>3, SubmittedTasks
  <2>6. IsGraph(graph)' /\ graph' = graph
    BY <1>1 DEF IsGraph, TypeOK, request
  <2>7. \A u \in DOMAIN tasks' : /\ tasks'[u].nxt \subseteq DOMAIN graph'.edges
                                 /\ tasks'[u].todo \subseteq tasks'[u].nxt
                                 /\ tasks'[u].todo # {} => tasks'[u].pc = "acquiring"
    BY <2>2, <2>3, <2>4, <2>5, <2>6 DEF TypeOK
  <2>8. TasksOK'
    BY <1>1, <2>5, <2>6, <2>7 DEF TasksOK, TypeOK, request
  <2>9. RestOK'
    BY <1>1, <2>5 DEF RestOK, TypeOK, scope
  <2> QED
    BY <2>8, <2>9 DEF TypeOK, TasksOK, RestOK
<1>3. CASE caller # "waiting"
  <2> DEFINE r == [tasks[t] EXCEPT !.pc = "rejected"]
  <2>1. Become(t, r)
    BY <1>3 DEF Submit
  <2>2. r \in Task /\ r.todo = tasks[t].todo /\ r.nxt = tasks[t].nxt
    BY <1>0, PhaseTask DEF Phases
  <2> HIDE DEF r
  <2>3. TasksOK' /\ Len(tasks') = Len(tasks)
    BY <1>0, <1>1, <2>1, <2>2, BecomeTasksOK
  <2>4. RestOK'
    BY <1>1, <2>3 DEF RestOK, TypeOK, scope
  <2> QED
    BY <2>3, <2>4 DEF TypeOK, TasksOK, RestOK
<1> QED BY <1>2, <1>3

LEMMA TypeCaller ==
  ASSUME TypeOK, Run \/ Wake \/ Join
  PROVE  TypeOK'
<1>1. IsGraph(graph)' /\ graph' = graph /\ entry' = entry /\ submitted' = submitted
  BY DEF Run, Launch, Wake, Join, request, TypeOK, IsGraph
<1>2. CASE Run
  <2> DEFINE new == NewTask(entry, 0)
  <2>1. new \in Task /\ new.todo = {} /\ new.nxt = {}
    BY NewTaskType DEF TypeOK
  <2>2. tasks' = <<new>>
    BY <1>2 DEF Run, Launch
  <2> HIDE DEF new
  <2>3. tasks' \in Seq(Task) /\ Len(tasks') = 1 /\ DOMAIN tasks' = {1} /\ tasks'[1] = new
    BY <2>1, <2>2
  <2>4. TasksOK'
    BY <1>1, <2>1, <2>3 DEF TasksOK, TypeOK
  <2>5. RestOK'
    <3>1. /\ caller' = "waiting" /\ started' = 0 /\ pending' = 1 /\ done' = {}
          /\ activated' = {} /\ error' = NoError /\ idle' = FALSE /\ store' = store
      BY <1>2 DEF Run, Launch
    <3>2. 0 \in 0 .. Len(tasks')
      BY <2>3
    <3>3. started' \in 0 .. Len(tasks') /\ pending' \in Int
      BY <3>1, <3>2
    <3>4. idle' \in BOOLEAN /\ done' \subseteq Node /\ activated' \subseteq Node
          /\ store' \subseteq Node /\ caller' \in Callers
          /\ error' \in Errors \cup {NoError}
      BY <3>1, Zenon DEF TypeOK, Callers
    <3> QED BY <3>3, <3>4 DEF RestOK
  <2> QED BY <2>4, <2>5 DEF TypeOK, TasksOK, RestOK
<1>3. CASE Wake \/ Join
  <2>1. UNCHANGED <<tasks, started, pending, done, activated, error, idle, store>>
        /\ caller' \in Callers
    BY <1>3 DEF Wake, Join, pool, scope, Callers
  <2>2. TasksOK'
    BY <1>1, <2>1 DEF TypeOK, TasksOK
  <2>3. RestOK'
    BY <2>1 DEF TypeOK, RestOK
  <2> QED BY <2>2, <2>3 DEF TypeOK, TasksOK, RestOK
<1> QED BY <1>2, <1>3

(* The shape of the initial states. *)
LEMMA TypeInit ==
  ASSUME Init
  PROVE  TypeOK
<1>1. IsGraph(graph) /\ HasStart(graph)
  BY SchedulerAssumption DEF Init
<1>2. entry = GetStart(graph) /\ graph.nodes \subseteq Node
  BY <1>1 DEF Init, IsGraph
<1>3. entry \in Node
  BY <1>1, <1>2, StartIsSource
<1>4. tasks \in Seq(Task) /\ Len(tasks) = 0 /\ DOMAIN tasks = {}
  BY DEF Init
<1> QED
  <2>1. TasksOK
    BY <1>1, <1>3, <1>4 DEF Init, TasksOK
  <2>2. started \in 0 .. Len(tasks) /\ pending \in Int
    BY <1>4 DEF Init
  <2>3. idle \in BOOLEAN /\ done \subseteq Node /\ activated \subseteq Node
        /\ store \subseteq Node /\ caller \in Callers
        /\ error \in Errors \cup {NoError}
    BY Zenon DEF Init, Callers
  <2>4. RestOK
    BY <2>2, <2>3 DEF RestOK
  <2> QED BY <2>1, <2>4 DEF TypeOK, TasksOK, RestOK

(***************************************************************************)
(* Every state of the scheduler has the shape TypeOK says.                 *)
(***************************************************************************)
THEOREM TypeCorrect == Spec => []TypeOK
<1>1. Init => TypeOK
  BY TypeInit
<1>2. TypeOK /\ [Next]_vars => TypeOK'
  <2> SUFFICES ASSUME TypeOK, [Next]_vars PROVE TypeOK'
    OBVIOUS
  <2>1. CASE Run \/ Wake \/ Join
    BY <2>1, TypeCaller
  <2>2. ASSUME NEW t \in DOMAIN tasks, Worker(t) PROVE TypeOK'
    BY <2>2, TypeStart, TypeExecute, TypeAbort, TypeMarkDone, TypeNextNodes,
       TypeAcquire, TypeReleaseSelf, TypeSubmit DEF Worker
  <2>3. CASE UNCHANGED vars
    BY <2>3 DEF vars, request, pool, scope, TypeOK, IsGraph
  <2> QED
    BY <2>1, <2>2, <2>3 DEF Next, Terminated
<1> QED
  BY <1>1, <1>2, PTL DEF Spec

-----------------------------------------------------------------------------
(* Counting: until an abort, pending is the number of tokens.              *)

LEMMA OwedBound ==
  TypeOK => \A t \in DOMAIN tasks : Owed(tasks[t]) \subseteq 0 .. Len(graph.edges)
<1> SUFFICES ASSUME TypeOK, NEW t \in DOMAIN tasks
             PROVE  Owed(tasks[t]) \subseteq 0 .. Len(graph.edges)
  OBVIOUS
<1>1. tasks[t].nxt \subseteq 1 .. Len(graph.edges)
  BY TaskType DEF TypeOK, IsGraph
<1>2. Len(graph.edges) \in Nat
  BY DEF TypeOK, IsGraph
<1> QED BY <1>1, <1>2 DEF Owed

LEMMA TokensFinite ==
  ASSUME TypeOK
  PROVE  IsFiniteSet(Tokens) /\ Cardinality(Tokens) \in Nat
<1>1. Len(tasks) \in Nat /\ Len(graph.edges) \in Nat /\ DOMAIN tasks = 1 .. Len(tasks)
  BY DEF TypeOK, IsGraph
<1>2. IsFiniteSet(1 .. Len(tasks)) /\ IsFiniteSet(0 .. Len(graph.edges))
  BY <1>1, FS_Interval
<1>3. IsFiniteSet((DOMAIN tasks) \X (0 .. Len(graph.edges)))
  BY <1>1, <1>2, FS_Product
<1>4. Tokens \subseteq (DOMAIN tasks) \X (0 .. Len(graph.edges))
  BY DEF Tokens
<1>5. IsFiniteSet(Tokens)
  BY <1>3, <1>4, FS_Subset
<1> QED
  BY <1>5, FS_CardinalityType

(* A token is a pair of a task and something it owes. *)
LEMMA TokenPairs ==
  TypeOK => /\ \A x \in Tokens : x = <<x[1], x[2]>>
            /\ \A u, i : <<u, i>> \in Tokens <=> u \in DOMAIN tasks /\ i \in Owed(tasks[u])
<1> SUFFICES ASSUME TypeOK
             PROVE  /\ \A x \in Tokens : x = <<x[1], x[2]>>
                    /\ \A u, i : <<u, i>> \in Tokens <=> u \in DOMAIN tasks /\ i \in Owed(tasks[u])
  OBVIOUS
<1>1. \A u \in DOMAIN tasks : Owed(tasks[u]) \subseteq 0 .. Len(graph.edges)
  BY OwedBound
<1> QED
  BY <1>1 DEF Tokens

(* The same of the next state. *)
LEMMA TokenPairsNext ==
  ASSUME TypeOK'
  PROVE  /\ \A x \in Tokens' : x = <<x[1], x[2]>>
         /\ \A u, i : <<u, i>> \in Tokens' <=> u \in DOMAIN tasks' /\ i \in Owed(tasks'[u])
<1>1. (/\ \A x \in Tokens : x = <<x[1], x[2]>>
       /\ \A u, i : <<u, i>> \in Tokens <=> u \in DOMAIN tasks /\ i \in Owed(tasks[u]))'
  BY TokenPairs, PTL
<1> QED BY <1>1

(* The tokens after a step of one task. *)
LEMMA TokensOfStep ==
  ASSUME TypeOK, TypeOK', NEW t \in DOMAIN tasks, NEW r \in Task, Become(t, r)
  PROVE  \A u, i : <<u, i>> \in Tokens' <=>
           IF u = t THEN i \in Owed(r) ELSE <<u, i>> \in Tokens
<1>1. DOMAIN tasks' = DOMAIN tasks /\ \A u \in DOMAIN tasks : tasks'[u] = IF u = t THEN r ELSE tasks[u]
  BY BecomeTasks
<1>2. \A u, i : <<u, i>> \in Tokens <=> u \in DOMAIN tasks /\ i \in Owed(tasks[u])
  BY TokenPairs
<1>3. \A u, i : <<u, i>> \in Tokens' <=> u \in DOMAIN tasks' /\ i \in Owed(tasks'[u])
    BY TokenPairsNext
<1>4. tasks'[t] = r /\ t \in DOMAIN tasks'
  BY <1>1
<1>5. \A u \in DOMAIN tasks : u # t => tasks'[u] = tasks[u]
  BY <1>1
<1> SUFFICES ASSUME NEW u, NEW i
             PROVE  <<u, i>> \in Tokens' <=>
                      IF u = t THEN i \in Owed(r) ELSE <<u, i>> \in Tokens
  OBVIOUS
<1>6. CASE u = t
  BY <1>3, <1>4, <1>6
<1>7. CASE u # t
  <2>1. u \in DOMAIN tasks => (i \in Owed(tasks'[u]) <=> i \in Owed(tasks[u]))
    BY <1>5, <1>7
  <2> QED BY <1>1, <1>2, <1>3, <1>7, <2>1
<1> QED BY <1>6, <1>7

(***************************************************************************)
(* The inductive invariant of the counting argument.  It adds to           *)
(* PendingCounts what makes "no token left" mean "every task is over", and *)
(* that run() only goes on once the idle event is set.                     *)
(***************************************************************************)
Chosen(task) ==
  /\ task.pc = "submitting" => task.nxt # {}
  /\ task.pc \notin {"acquiring", "submitting", "rejected"} => task.nxt = {}

CountInv ==
  /\ \A t \in DOMAIN tasks : Chosen(tasks[t])
  /\ caller = "idle" => tasks = <<>> /\ ~idle /\ error = NoError
  /\ caller \in {"shutdown", "returned", "raised"} => idle
  /\ PendingCounts
  /\ idle /\ error = NoError => Tokens = {}
  /\ RefusedOnlyAfterAbort

(* Without a token every task is over. *)
LEMMA NoTokenMeansDrained ==
  ASSUME TypeOK, CountInv, error = NoError, Tokens = {}
  PROVE  Drained
<1> SUFFICES ASSUME NEW t \in DOMAIN tasks PROVE tasks[t].pc \in Over
  BY DEF Drained
<1>1. Owed(tasks[t]) = {}
  BY TokenPairs
<1>2. tasks[t].pc \notin Unreleased
  BY <1>1 DEF Owed
<1>3. tasks[t].pc # "submitting"
  <2> SUFFICES ASSUME tasks[t].pc = "submitting" PROVE FALSE
    OBVIOUS
  <2>1. tasks[t].todo = {} /\ tasks[t].nxt # {}
    BY TaskType DEF CountInv, Chosen
  <2> QED BY <1>1, <2>1 DEF Owed
<1> QED
  BY <1>2, <1>3, TaskType DEF Unreleased, Phases, Over

LEMMA ChosenStep ==
  ASSUME TypeOK, CountInv, NEW t \in DOMAIN tasks, NEW r \in Task, Become(t, r), Chosen(r)
  PROVE  /\ \A u \in DOMAIN tasks' : Chosen(tasks'[u])
         /\ caller # "idle"
         /\ r.pc # "rejected" /\ error = NoError =>
              \A u \in DOMAIN tasks' : tasks'[u].pc # "rejected"
<1>1. DOMAIN tasks' = DOMAIN tasks
      /\ \A u \in DOMAIN tasks : tasks'[u] = IF u = t THEN r ELSE tasks[u]
  BY BecomeTasks
<1>2. caller # "idle"
  <2> SUFFICES ASSUME caller = "idle" PROVE FALSE
    OBVIOUS
  <2>1. tasks = <<>>
    BY DEF CountInv
  <2> QED BY <2>1
<1>3. \A u \in DOMAIN tasks' : Chosen(tasks'[u])
  <2> SUFFICES ASSUME NEW u \in DOMAIN tasks PROVE Chosen(tasks'[u])
    BY <1>1
  <2>1. Chosen(tasks[u])
    BY DEF CountInv
  <2>2. CASE u = t
    <3>1. tasks'[u] = r
      BY <1>1, <2>2
    <3> QED BY <3>1
  <2>3. CASE u # t
    <3>1. tasks'[u] = tasks[u]
      BY <1>1, <2>3
    <3> QED BY <2>1, <3>1
  <2> QED BY <2>2, <2>3
<1> QED
  BY <1>1, <1>2, <1>3 DEF CountInv, RefusedOnlyAfterAbort

(* A step after which error is set: nothing is promised of pending. *)
LEMMA CountAborted ==
  ASSUME TypeOK, CountInv, NEW t \in DOMAIN tasks, NEW r \in Task, Become(t, r), Chosen(r),
         caller' = caller, error' # NoError,
         caller \in {"shutdown", "returned", "raised"} => idle'
  PROVE  CountInv'
<1>1. (\A u \in DOMAIN tasks' : Chosen(tasks'[u])) /\ caller # "idle"
  BY ChosenStep
<1> QED
  BY <1>1 DEF CountInv, PendingCounts, RefusedOnlyAfterAbort

(* A step that moves no token. *)
LEMMA CountKept ==
  ASSUME TypeOK, TypeOK', CountInv, NEW t \in DOMAIN tasks, NEW r \in Task, Become(t, r),
         Chosen(r), r.pc # "rejected", Owed(r) = Owed(tasks[t]),
         UNCHANGED <<caller, pending, error, idle>>
  PROVE  CountInv'
<1>1. /\ \A u \in DOMAIN tasks' : Chosen(tasks'[u])
      /\ caller # "idle"
      /\ error = NoError => \A u \in DOMAIN tasks' : tasks'[u].pc # "rejected"
  BY ChosenStep
<1>2. Tokens' = Tokens
  <2>1. \A u, i : <<u, i>> \in Tokens' <=>
           IF u = t THEN i \in Owed(r) ELSE <<u, i>> \in Tokens
    BY TokensOfStep
  <2>2. \A u, i : <<u, i>> \in Tokens <=> u \in DOMAIN tasks /\ i \in Owed(tasks[u])
    BY TokenPairs
  <2>3. \A u, i : <<u, i>> \in Tokens' <=> <<u, i>> \in Tokens
    BY <2>1, <2>2
  <2>4. \A x \in Tokens : x = <<x[1], x[2]>>
    BY TokenPairs
  <2>5. \A x \in Tokens' : x = <<x[1], x[2]>>
    BY TokenPairsNext
  <2> QED BY <2>3, <2>4, <2>5
<1> QED
  BY <1>1, <1>2 DEF CountInv, PendingCounts, RefusedOnlyAfterAbort

(* Becoming a record of another phase, when neither phase owes more. *)
LEMMA OwedPhase ==
  ASSUME NEW r \in Task, NEW p \in Phases, r.pc \in Unreleased, r.nxt = {}
  PROVE  /\ p \in Unreleased => Owed([r EXCEPT !.pc = p]) = Owed(r)
         /\ p \notin {"acquiring", "submitting", "rejected"} => Chosen([r EXCEPT !.pc = p])
<1>1. [r EXCEPT !.pc = p].pc = p /\ [r EXCEPT !.pc = p].nxt = r.nxt
      /\ [r EXCEPT !.pc = p].todo = r.todo
  BY PhaseTask
<1> QED BY <1>1 DEF Owed, Chosen

LEMMA CountStart ==
  ASSUME TypeOK, TypeOK', CountInv, NEW t \in DOMAIN tasks, Start(t)
  PROVE  CountInv'
<1>0. tasks[t] \in Task /\ tasks[t].node \in Node
  BY TaskType
<1>1. tasks[t].pc = "queued" /\ tasks[t].nxt = {}
  BY DEF Start, At, CountInv, Chosen
<1>2. CASE tasks[t].depth > MaxDepth
  <2> DEFINE r == [tasks[t] EXCEPT !.pc = "aborted"]
  <2>1. Become(t, r) /\ Abort("depth", tasks[t].node) /\ caller' = caller
    BY <1>2 DEF Start
  <2>2. r \in Task /\ Chosen(r)
    BY <1>0, <1>1, PhaseTask, OwedPhase DEF Phases, Unreleased
  <2>3. error' # NoError /\ idle' = TRUE
    BY <1>0, <2>1, AbortType
  <2> HIDE DEF r
  <2> QED BY <2>1, <2>2, <2>3, CountAborted
<1>3. CASE ~(tasks[t].depth > MaxDepth)
  <2> DEFINE r == [tasks[t] EXCEPT !.pc = "running"]
  <2>1. Become(t, r) /\ UNCHANGED <<caller, pending, error, idle>>
    BY <1>3 DEF Start, scope
  <2>2. r \in Task /\ Chosen(r) /\ Owed(r) = Owed(tasks[t]) /\ r.pc # "rejected"
    BY <1>0, <1>1, PhaseTask, OwedPhase DEF Phases, Unreleased
  <2> HIDE DEF r
  <2> QED BY <2>1, <2>2, CountKept
<1> QED BY <1>2, <1>3

LEMMA CountAbort ==
  ASSUME TypeOK, CountInv, NEW t \in DOMAIN tasks, Interrupt(t) \/ Fail(t)
  PROVE  CountInv'
<1> DEFINE r == [tasks[t] EXCEPT !.pc = "aborted"]
<1>0. tasks[t] \in Task /\ tasks[t].node \in Node
  BY TaskType
<1>1. tasks[t].pc = "running" /\ tasks[t].nxt = {}
  BY DEF Interrupt, Fail, At, CountInv, Chosen
<1>2. Become(t, r) /\ caller' = caller
  BY DEF Interrupt, Fail
<1>3. PICK kind \in {"interrupt", "failure", "depth"} : Abort(kind, tasks[t].node)
  BY DEF Interrupt, Fail
<1>4. r \in Task /\ Chosen(r)
  BY <1>0, <1>1, PhaseTask, OwedPhase DEF Phases, Unreleased
<1>5. error' # NoError /\ idle' = TRUE
  BY <1>0, <1>3, AbortType
<1> HIDE DEF r
<1> QED BY <1>2, <1>4, <1>5, CountAborted

LEMMA CountExecute ==
  ASSUME TypeOK, TypeOK', CountInv, NEW t \in DOMAIN tasks,
         NEW b \in Branch \cup {NoBranch}, Execute(t, b)
  PROVE  CountInv'
<1> DEFINE r == [tasks[t] EXCEPT !.pc = "executed", !.branch = b]
<1>0. tasks[t] \in Task
  BY TaskType
<1>1. tasks[t].pc = "running" /\ tasks[t].nxt = {}
  BY DEF Execute, At, CountInv, Chosen
<1>2. Become(t, r) /\ UNCHANGED <<caller, pending, error, idle>>
  BY DEF Execute, scope
<1>3. r \in Task /\ r.pc = "executed" /\ r.nxt = tasks[t].nxt /\ r.todo = tasks[t].todo
  BY <1>0 DEF Task, Phases
<1> HIDE DEF r
<1>4. Chosen(r) /\ Owed(r) = Owed(tasks[t])
  BY <1>1, <1>3 DEF Chosen, Owed, Unreleased
<1> QED BY <1>2, <1>3, <1>4, CountKept

LEMMA CountMarkDone ==
  ASSUME TypeOK, TypeOK', CountInv, NEW t \in DOMAIN tasks, MarkDone(t)
  PROVE  CountInv'
<1> DEFINE r == [tasks[t] EXCEPT !.pc = "done"]
<1>0. tasks[t] \in Task
  BY TaskType
<1>1. tasks[t].pc = "executed" /\ tasks[t].nxt = {}
  BY DEF MarkDone, At, CountInv, Chosen
<1>2. Become(t, r) /\ UNCHANGED <<caller, pending, error, idle>>
  BY DEF MarkDone
<1>3. r \in Task /\ Chosen(r) /\ Owed(r) = Owed(tasks[t]) /\ r.pc # "rejected"
  BY <1>0, <1>1, PhaseTask, OwedPhase DEF Phases, Unreleased
<1> HIDE DEF r
<1> QED BY <1>2, <1>3, CountKept

LEMMA CountNextNodes ==
  ASSUME TypeOK, TypeOK', CountInv, NEW t \in DOMAIN tasks, NextNodes(t)
  PROVE  CountInv'
<1> DEFINE out == Selected(tasks[t].node, tasks[t].branch)
           r   == [tasks[t] EXCEPT !.pc = "acquiring", !.todo = out, !.nxt = out]
<1>0. tasks[t] \in Task
  BY TaskType
<1>1. tasks[t].pc = "done" /\ tasks[t].nxt = {}
  BY DEF NextNodes, At, CountInv, Chosen
<1>2. Become(t, r) /\ UNCHANGED <<caller, pending, error, idle>>
  BY DEF NextNodes
<1>3. out \subseteq Nat
  BY DEF Selected, Routed, OutEdges, TypeOK, IsGraph
<1> HIDE DEF out
<1>4. r \in Task /\ r.pc = "acquiring" /\ r.nxt = out /\ r.todo = out
  BY <1>0, <1>3 DEF Task, Phases
<1> HIDE DEF r
<1>5. Chosen(r) /\ Owed(r) = Owed(tasks[t])
  BY <1>1, <1>4 DEF Chosen, Owed, Unreleased
<1> QED BY <1>2, <1>4, <1>5, CountKept

LEMMA CountAcquire ==
  ASSUME TypeOK, TypeOK', CountInv, NEW t \in DOMAIN tasks,
         NEW i \in tasks[t].todo, Acquire(t, i)
  PROVE  CountInv'
<1> DEFINE r == [tasks[t] EXCEPT !.todo = tasks[t].todo \ {i}]
<1>0. tasks[t] \in Task /\ tasks[t].todo \subseteq tasks[t].nxt
      /\ tasks[t].nxt \subseteq 1 .. Len(graph.edges) /\ Len(graph.edges) \in Nat
  BY TaskType DEF TypeOK, IsGraph
<1>1. tasks[t].pc = "acquiring"
  BY DEF Acquire, At
<1>2. Become(t, r) /\ pending' = pending + 1 /\ UNCHANGED <<caller, error, idle>>
  BY DEF Acquire
<1>3. r \in Task /\ r.pc = "acquiring" /\ r.nxt = tasks[t].nxt
      /\ r.todo = tasks[t].todo \ {i}
  BY <1>0, <1>1 DEF Task
<1> HIDE DEF r
<1>4. Chosen(r) /\ Owed(r) = Owed(tasks[t]) \cup {i} /\ i \notin Owed(tasks[t])
  BY <1>0, <1>1, <1>3 DEF Chosen, Owed, Unreleased
<1>5. /\ \A u \in DOMAIN tasks' : Chosen(tasks'[u])
      /\ caller # "idle"
      /\ error = NoError => \A u \in DOMAIN tasks' : tasks'[u].pc # "rejected"
  BY <1>2, <1>3, <1>4, ChosenStep
<1>6. Tokens' = Tokens \cup {<<t, i>>} /\ <<t, i>> \notin Tokens /\ Tokens # {}
  <2>1. \A u, j : <<u, j>> \in Tokens' <=>
           IF u = t THEN j \in Owed(r) ELSE <<u, j>> \in Tokens
    BY <1>2, <1>3, TokensOfStep
  <2>2. \A u, j : <<u, j>> \in Tokens <=> u \in DOMAIN tasks /\ j \in Owed(tasks[u])
    BY TokenPairs
  <2>3. \A x \in Tokens : x = <<x[1], x[2]>>
    BY TokenPairs
  <2>4. \A x \in Tokens' : x = <<x[1], x[2]>>
    BY TokenPairsNext
  <2>5. \A u, j : <<u, j>> \in Tokens' <=> <<u, j>> \in Tokens \/ (u = t /\ j = i)
    BY <1>4, <2>1, <2>2
  <2>6. 0 \in Owed(tasks[t])
    BY <1>1 DEF Owed, Unreleased
  <2>7. Tokens' = Tokens \cup {<<t, i>>}
    BY <2>3, <2>4, <2>5
  <2>8. <<t, i>> \notin Tokens /\ <<t, 0>> \in Tokens
    BY <1>4, <2>2, <2>6
  <2> QED BY <2>7, <2>8
<1>7. Cardinality(Tokens') = Cardinality(Tokens) + 1
  BY <1>6, TokensFinite, FS_AddElement
<1> QED
  BY <1>2, <1>5, <1>6, <1>7 DEF CountInv, PendingCounts, RefusedOnlyAfterAbort

LEMMA CountReleaseSelf ==
  ASSUME TypeOK, TypeOK', CountInv, NEW t \in DOMAIN tasks, ReleaseSelf(t)
  PROVE  CountInv'
<1> DEFINE p == IF tasks[t].nxt = {} THEN "finished" ELSE "submitting"
           r == [tasks[t] EXCEPT !.pc = p]
<1>0. tasks[t] \in Task /\ tasks[t].nxt \subseteq 1 .. Len(graph.edges)
      /\ Len(graph.edges) \in Nat
  BY TaskType DEF TypeOK, IsGraph
<1>1. tasks[t].pc = "acquiring" /\ tasks[t].todo = {}
  BY DEF ReleaseSelf, At
<1>2. Become(t, r) /\ Release /\ caller' = caller
  BY DEF ReleaseSelf
<1>3. r \in Task /\ r.pc = p /\ r.nxt = tasks[t].nxt /\ r.todo = tasks[t].todo
  <2>1. p \in Phases
    BY DEF Phases
  <2> QED BY <1>0, <2>1, PhaseTask
<1> HIDE DEF r
<1>4. Chosen(r) /\ Owed(r) = Owed(tasks[t]) \ {0} /\ 0 \in Owed(tasks[t]) /\ r.pc # "rejected"
  BY <1>0, <1>1, <1>3 DEF Chosen, Owed, Unreleased
<1>5. /\ \A u \in DOMAIN tasks' : Chosen(tasks'[u])
      /\ caller # "idle"
      /\ error = NoError => \A u \in DOMAIN tasks' : tasks'[u].pc # "rejected"
  BY <1>2, <1>3, <1>4, ChosenStep
<1>6. Tokens' = Tokens \ {<<t, 0>>} /\ <<t, 0>> \in Tokens
  <2>1. \A u, j : <<u, j>> \in Tokens' <=>
           IF u = t THEN j \in Owed(r) ELSE <<u, j>> \in Tokens
    BY <1>2, <1>3, TokensOfStep
  <2>2. \A u, j : <<u, j>> \in Tokens <=> u \in DOMAIN tasks /\ j \in Owed(tasks[u])
    BY TokenPairs
  <2>3. \A x \in Tokens : x = <<x[1], x[2]>>
    BY TokenPairs
  <2>4. \A x \in Tokens' : x = <<x[1], x[2]>>
    BY TokenPairsNext
  <2>5. \A u, j : <<u, j>> \in Tokens' <=> <<u, j>> \in Tokens /\ ~(u = t /\ j = 0)
    BY <1>4, <2>1, <2>2
  <2> QED BY <1>4, <2>2, <2>3, <2>4, <2>5
<1>7. Cardinality(Tokens') = Cardinality(Tokens) - 1
  BY <1>6, TokensFinite, FS_RemoveElement
<1>8. error' = error /\ pending' = pending - 1
      /\ idle' = (idle \/ (pending' = 0 /\ error = NoError))
  BY <1>2 DEF Release
<1>9. error = NoError => pending' = Cardinality(Tokens')
  BY <1>5, <1>7, <1>8 DEF CountInv, PendingCounts
<1>10. error = NoError => ~idle
  BY <1>6 DEF CountInv
<1>11. error = NoError /\ idle' => Tokens' = {}
  <2>1. SUFFICES ASSUME error = NoError, idle' PROVE Tokens' = {}
    OBVIOUS
  <2>2. pending' = 0
    BY <1>8, <1>10, <2>1
  <2>3. Cardinality(Tokens') = 0
    BY <1>9, <2>1, <2>2
  <2>4. IsFiniteSet(Tokens')
    BY <1>6, TokensFinite, FS_RemoveElement
  <2> QED BY <2>3, <2>4, FS_EmptySet
<1>12. caller \in {"shutdown", "returned", "raised"} => idle'
  BY <1>8 DEF CountInv
<1> QED
  BY <1>2, <1>5, <1>8, <1>9, <1>11, <1>12 DEF CountInv, PendingCounts, RefusedOnlyAfterAbort

LEMMA CountSubmit ==
  ASSUME TypeOK, TypeOK', CountInv, NEW t \in DOMAIN tasks,
         NEW i \in tasks[t].nxt, Submit(t, i)
  PROVE  CountInv'
<1>0. tasks[t] \in Task /\ tasks[t].nxt \subseteq 1 .. Len(graph.edges) /\ tasks[t].depth \in Nat
      /\ Len(graph.edges) \in Nat /\ tasks[t].nxt \subseteq DOMAIN graph.edges
  BY TaskType DEF TypeOK, IsGraph
<1>1. tasks[t].pc = "submitting" /\ tasks[t].todo = {}
  BY TaskType DEF Submit, At
<1>2. UNCHANGED <<caller, pending, error, idle>>
  BY DEF Submit, scope
<1>3. <<t, i>> \in Tokens
  BY <1>1, TokenPairs DEF Owed
<1>4. caller # "idle"
  <2> SUFFICES ASSUME caller = "idle" PROVE FALSE
    OBVIOUS
  <2>1. tasks = <<>>
    BY DEF CountInv
  <2> QED BY <2>1
<1>5. CASE caller # "waiting"
  <2> DEFINE r == [tasks[t] EXCEPT !.pc = "rejected"]
  <2>1. Become(t, r)
    BY <1>5 DEF Submit
  <2>2. r \in Task /\ Chosen(r)
    BY <1>0, PhaseTask DEF Phases, Chosen
  <2>3. idle
    BY <1>4, <1>5 DEF CountInv, TypeOK, Callers
  <2>4. error # NoError
    BY <1>3, <2>3 DEF CountInv
  <2> HIDE DEF r
  <2> QED BY <1>2, <2>1, <2>2, <2>3, <2>4, CountAborted
<1>6. CASE caller = "waiting"
  <2> DEFINE rest == tasks[t].nxt \ {i}
             p    == IF rest = {} THEN "finished" ELSE "submitting"
             r    == [tasks[t] EXCEPT !.nxt = rest, !.pc = p]
             new  == NewTask(Target(graph, i), tasks[t].depth + 1)
             k    == Len(tasks) + 1
  <2>1. tasks' = Append([tasks EXCEPT ![t] = r], new)
    BY <1>6 DEF Submit
  <2>2. r \in Task /\ r.todo = {} /\ r.nxt = rest /\ r.pc = p
    BY <1>0, <1>1 DEF Task, Phases
  <2>3. new \in Task /\ new.todo = {} /\ new.nxt = {} /\ new.pc = "queued"
    <3>1. Target(graph, i) \in Node
      BY <1>0, TargetIsNode DEF TypeOK
    <3> QED BY <1>0, <3>1, NewTaskType
  <2>4. Chosen(r) /\ Owed(r) = Owed(tasks[t]) \ {i} /\ i \in Owed(tasks[t])
    BY <1>0, <1>1, <2>2 DEF Chosen, Owed, Unreleased
  <2>5. Chosen(new) /\ Owed(new) = {0}
    BY <2>3 DEF Chosen, Owed, Unreleased
  <2> HIDE DEF r, new, rest, p
  <2>6. /\ DOMAIN tasks' = (DOMAIN tasks) \cup {k}
        /\ \A u \in DOMAIN tasks : tasks'[u] = IF u = t THEN r ELSE tasks[u]
        /\ tasks'[k] = new
        /\ k \notin DOMAIN tasks
    BY <2>1, <2>2, <2>3, SubmittedTasks
  <2> HIDE DEF k
  <2>7. tasks'[t] = r /\ \A u \in DOMAIN tasks : u # t => tasks'[u] = tasks[u]
    BY <2>6
  <2>8. \A u \in DOMAIN tasks' : Chosen(tasks'[u])
    <3> SUFFICES ASSUME NEW u \in DOMAIN tasks' PROVE Chosen(tasks'[u])
      OBVIOUS
    <3>1. CASE u = k
      BY <2>5, <2>6, <3>1
    <3>2. CASE u = t
      BY <2>4, <2>7, <3>2
    <3>3. CASE u # k /\ u # t
      <4>1. u \in DOMAIN tasks /\ tasks'[u] = tasks[u]
        BY <2>6, <2>7, <3>3
      <4> QED BY <4>1 DEF CountInv
    <3> QED BY <3>1, <3>2, <3>3
  <2>9. r.pc # "rejected" /\ new.pc # "rejected"
    BY <2>2, <2>3 DEF p
  <2>10. error = NoError => \A u \in DOMAIN tasks' : tasks'[u].pc # "rejected"
    BY <2>6, <2>9 DEF CountInv, RefusedOnlyAfterAbort
  <2>11. \A u, j : <<u, j>> \in Tokens <=> u \in DOMAIN tasks /\ j \in Owed(tasks[u])
    BY TokenPairs
  <2>12. \A u, j : <<u, j>> \in Tokens' <=> u \in DOMAIN tasks' /\ j \in Owed(tasks'[u])
    BY TokenPairsNext
  <2>13. \A u, j : <<u, j>> \in Tokens' <=>
           (<<u, j>> \in Tokens /\ ~(u = t /\ j = i)) \/ (u = k /\ j = 0)
    <3> SUFFICES ASSUME NEW u, NEW j
                 PROVE  <<u, j>> \in Tokens' <=>
                          (<<u, j>> \in Tokens /\ ~(u = t /\ j = i)) \/ (u = k /\ j = 0)
      OBVIOUS
    <3>1. CASE u = k
      BY <2>5, <2>6, <2>11, <2>12, <3>1
    <3>2. CASE u = t
      BY <2>4, <2>6, <2>7, <2>11, <2>12, <3>2
    <3>3. CASE u # k /\ u # t
      <4>1. u \in DOMAIN tasks' <=> u \in DOMAIN tasks
        BY <2>6, <3>3
      <4>2. u \in DOMAIN tasks => (j \in Owed(tasks'[u]) <=> j \in Owed(tasks[u]))
        BY <2>7, <3>3
      <4> QED BY <2>11, <2>12, <3>3, <4>1, <4>2
    <3> QED BY <3>1, <3>2, <3>3
  <2>14. \A x \in Tokens : x = <<x[1], x[2]>>
    BY TokenPairs
  <2>15. \A x \in Tokens' : x = <<x[1], x[2]>>
    BY TokenPairsNext
  <2> DEFINE kept == Tokens \ {<<t, i>>}
  <2>16. Tokens' = kept \cup {<<k, 0>>}
    BY <2>13, <2>14, <2>15
  <2>17. <<k, 0>> \notin kept
    BY <2>6, <2>11
  <2>18. IsFiniteSet(kept) /\ Cardinality(kept) = Cardinality(Tokens) - 1
    BY <1>3, TokensFinite, FS_RemoveElement
  <2> HIDE DEF kept
  <2>19. Cardinality(Tokens') = Cardinality(Tokens)
    <3>1. Cardinality(kept \cup {<<k, 0>>}) = Cardinality(kept) + 1
      BY <2>17, <2>18, FS_AddElement
    <3> QED BY <2>16, <2>18, <3>1, TokensFinite
  <2>20. error = NoError => ~idle
    BY <1>3 DEF CountInv
  <2> QED
    BY <1>2, <1>4, <1>6, <2>8, <2>10, <2>19, <2>20
    DEF CountInv, PendingCounts, RefusedOnlyAfterAbort
<1> QED BY <1>5, <1>6

(* A new run: one token, that of its first task. *)
LEMMA CountLaunch ==
  ASSUME TypeOK', NEW n \in Node, NEW D, Launch(n, D)
  PROVE  CountInv'
<1> DEFINE new == NewTask(n, 0)
<1>1. /\ tasks' = <<new>> /\ caller' = "waiting" /\ pending' = 1
      /\ error' = NoError /\ idle' = FALSE
  BY DEF Launch
<1>2. new.todo = {} /\ new.nxt = {} /\ new.pc = "queued"
  BY NewTaskType
<1> HIDE DEF new
<1>3. DOMAIN tasks' = {1} /\ tasks'[1] = new
  BY <1>1
<1>4. Chosen(new) /\ Owed(new) = {0}
  BY <1>2 DEF Chosen, Owed, Unreleased
<1>5. \A u, j : <<u, j>> \in Tokens' <=> u \in DOMAIN tasks' /\ j \in Owed(tasks'[u])
  BY TokenPairsNext
<1>6. \A x \in Tokens' : x = <<x[1], x[2]>>
  BY TokenPairsNext
<1>7. Tokens' = {<<1, 0>>}
  BY <1>3, <1>4, <1>5, <1>6
<1>8. Cardinality(Tokens') = 1
  BY <1>7, FS_Singleton
<1> QED
  BY <1>1, <1>2, <1>3, <1>4, <1>8 DEF CountInv, PendingCounts, RefusedOnlyAfterAbort

LEMMA CountCaller ==
  ASSUME TypeOK, TypeOK', CountInv, Run \/ Wake \/ Join
  PROVE  CountInv'
<1>1. CASE Run
  BY <1>1, CountLaunch DEF Run, TypeOK
<1>2. CASE Wake \/ Join
  <2>1. UNCHANGED <<graph, tasks, started, pending, error, idle>>
    BY <1>2 DEF Wake, Join, request, pool, scope
  <2>2. caller # "idle" /\ caller' \in {"shutdown", "returned", "raised"} /\ idle
    BY <1>2 DEF Wake, Join, CountInv
  <2>3. Tokens' = Tokens
    BY <2>1 DEF Tokens
  <2> QED
    BY <2>1, <2>2, <2>3 DEF CountInv, PendingCounts, RefusedOnlyAfterAbort
<1> QED BY <1>1, <1>2

LEMMA CountWorker ==
  ASSUME TypeOK, TypeOK', CountInv, NEW t \in DOMAIN tasks, Worker(t)
  PROVE  CountInv'
BY CountStart, CountExecute, CountAbort, CountMarkDone, CountNextNodes, CountAcquire,
   CountReleaseSelf, CountSubmit DEF Worker

LEMMA CountStutter ==
  ASSUME TypeOK, CountInv, UNCHANGED vars
  PROVE  CountInv'
<1>1. UNCHANGED <<graph, caller, tasks, started, pending, error, idle>>
  BY DEF vars, request, pool, scope
<1>2. Tokens' = Tokens
  BY <1>1 DEF Tokens
<1> QED
  BY <1>1, <1>2 DEF CountInv, PendingCounts, RefusedOnlyAfterAbort

LEMMA CountInvariant == Spec => []CountInv
<1>1. Init => CountInv
  <2> SUFFICES ASSUME Init PROVE CountInv
    OBVIOUS
  <2>1. tasks = <<>> /\ DOMAIN tasks = {} /\ caller = "idle" /\ ~idle /\ error = NoError
    BY DEF Init
  <2> QED
    BY <2>1 DEF CountInv, PendingCounts, RefusedOnlyAfterAbort
<1>2. TypeOK /\ TypeOK' /\ CountInv /\ [Next]_vars => CountInv'
  <2> SUFFICES ASSUME TypeOK, TypeOK', CountInv, [Next]_vars PROVE CountInv'
    OBVIOUS
  <2>1. CASE Run \/ Wake \/ Join
    BY <2>1, CountCaller
  <2>2. ASSUME NEW t \in DOMAIN tasks, Worker(t) PROVE CountInv'
    BY <2>2, CountWorker
  <2>3. CASE UNCHANGED vars
    BY <2>3, CountStutter
  <2> QED
    BY <2>1, <2>2, <2>3 DEF Next, Terminated
<1> QED
  BY <1>1, <1>2, TypeCorrect, PTL DEF Spec

(***************************************************************************)
(* Until the first abort, scope.pending is the number of tasks not yet     *)
(* released plus the successors acquired and not yet submitted.            *)
(***************************************************************************)
THEOREM PendingIsExact == Spec => []PendingCounts
<1>1. CountInv => PendingCounts
  BY DEF CountInv
<1> QED
  BY <1>1, CountInvariant, PTL

(***************************************************************************)
(* _Scope.release never sets the idle event early: a run() that is woken   *)
(* without an abort finds every task over, for every graph and pool size.  *)
(***************************************************************************)
THEOREM CompletionIsExact == Spec => []QuietWhenIdle
<1>1. TypeOK /\ CountInv => QuietWhenIdle
  <2> SUFFICES ASSUME TypeOK, CountInv, idle, error = NoError PROVE Drained
    BY DEF QuietWhenIdle
  <2>1. Tokens = {}
    BY DEF CountInv
  <2> QED
    BY <2>1, NoTokenMeansDrained
<1> QED
  BY <1>1, TypeCorrect, CountInvariant, PTL

(***************************************************************************)
(* The shut-down pool refuses a successor only after an abort: a run that  *)
(* succeeds loses none in the Future of its predecessor.                   *)
(***************************************************************************)
THEOREM NothingRefused == Spec => []RefusedOnlyAfterAbort
<1>1. CountInv => RefusedOnlyAfterAbort
  BY DEF CountInv
<1> QED
  BY <1>1, CountInvariant, PTL

-----------------------------------------------------------------------------
(* At most one task per node, for graphs without parallel edges.           *)

SimpleGraphs == \A g \in Graphs : NoParallelEdges(g)

(***************************************************************************)
(* The inductive invariant.  A node of a task, and a successor chosen but  *)
(* not yet submitted, is activated; only the entry is not, and no edge     *)
(* leads to it.  A chosen successor has no task yet and is chosen once.    *)
(***************************************************************************)
OnceInv ==
  /\ graph \in Graphs
  /\ entry = GetStart(graph)
  /\ \A t \in DOMAIN tasks : tasks[t].node \in activated \cup {entry}
  /\ \A t \in DOMAIN tasks : \A i \in tasks[t].nxt : Target(graph, i) \in activated
  /\ AtMostOnce
  /\ \A t, u \in DOMAIN tasks : \A i \in tasks[t].nxt : Target(graph, i) # tasks[u].node
  /\ \A t, u \in DOMAIN tasks : \A i \in tasks[t].nxt, j \in tasks[u].nxt :
       Target(graph, i) = Target(graph, j) => t = u /\ i = j

(* A step of one task that keeps its node and its chosen successors. *)
LEMMA OnceKept ==
  ASSUME TypeOK, OnceInv, UNCHANGED <<graph, entry, activated>>,
         NEW t \in DOMAIN tasks, NEW r \in Task, Become(t, r),
         r.node = tasks[t].node, r.nxt = tasks[t].nxt
  PROVE  OnceInv'
<1>1. DOMAIN tasks' = DOMAIN tasks
      /\ \A u \in DOMAIN tasks : tasks'[u].node = tasks[u].node /\ tasks'[u].nxt = tasks[u].nxt
  BY BecomeTasks
<1> QED
  BY <1>1 DEF OnceInv, AtMostOnce, Target

(* The worker steps that keep them. *)
LEMMA OnceWorker ==
  ASSUME TypeOK, OnceInv, NEW t \in DOMAIN tasks,
         \/ Start(t) \/ Interrupt(t) \/ Fail(t) \/ MarkDone(t) \/ ReleaseSelf(t)
         \/ \E b \in Branch \cup {NoBranch} : Execute(t, b)
         \/ \E i \in tasks[t].todo : Acquire(t, i)
  PROVE  OnceInv'
<1>0. tasks[t] \in Task
  BY TaskType
<1>1. UNCHANGED <<graph, entry, activated>>
  BY DEF Start, Interrupt, Fail, MarkDone, ReleaseSelf, Execute, Acquire, request, scope,
         Abort, Release
<1>2. \E r \in Task : Become(t, r) /\ r.node = tasks[t].node /\ r.nxt = tasks[t].nxt
  <2>1. CASE Start(t) \/ Interrupt(t) \/ Fail(t) \/ MarkDone(t) \/ ReleaseSelf(t)
    <3>1. \E p \in Phases : Become(t, [tasks[t] EXCEPT !.pc = p])
      BY <2>1 DEF Start, Interrupt, Fail, MarkDone, ReleaseSelf, Phases
    <3> QED BY <1>0, <3>1, PhaseTask
  <2>2. ASSUME NEW b \in Branch \cup {NoBranch}, Execute(t, b)
        PROVE  \E r \in Task : Become(t, r) /\ r.node = tasks[t].node /\ r.nxt = tasks[t].nxt
    <3> DEFINE r == [tasks[t] EXCEPT !.pc = "executed", !.branch = b]
    <3>1. r \in Task /\ r.node = tasks[t].node /\ r.nxt = tasks[t].nxt
      BY <1>0 DEF Task, Phases
    <3>2. Become(t, r)
      BY <2>2 DEF Execute
    <3> QED BY <3>1, <3>2
  <2>3. ASSUME NEW i \in tasks[t].todo, Acquire(t, i)
        PROVE  \E r \in Task : Become(t, r) /\ r.node = tasks[t].node /\ r.nxt = tasks[t].nxt
    <3> DEFINE r == [tasks[t] EXCEPT !.todo = tasks[t].todo \ {i}]
    <3>1. r \in Task /\ r.node = tasks[t].node /\ r.nxt = tasks[t].nxt
      BY <1>0 DEF Task
    <3>2. Become(t, r)
      BY <2>3 DEF Acquire
    <3> QED BY <3>1, <3>2
  <2> QED BY <2>1, <2>2, <2>3
<1> QED
  BY <1>1, <1>2, OnceKept

LEMMA OnceNextNodes ==
  ASSUME SimpleGraphs, TypeOK, OnceInv, NEW t \in DOMAIN tasks, NextNodes(t)
  PROVE  OnceInv'
<1> DEFINE out == Selected(tasks[t].node, tasks[t].branch)
           r   == [tasks[t] EXCEPT !.pc = "acquiring", !.todo = out, !.nxt = out]
<1>0. tasks[t] \in Task
  BY TaskType
<1>1. Become(t, r) /\ UNCHANGED <<graph, entry>>
      /\ activated' = activated \cup {Target(graph, i) : i \in out}
  BY DEF NextNodes, request
<1>2. \A i \in out : /\ i \in DOMAIN graph.edges
                     /\ graph.edges[i].source = tasks[t].node
                     /\ Target(graph, i) \notin activated
  BY DEF Selected, Routed, OutEdges
<1>3. \A i \in out : Target(graph, i) # entry
  <2>1. IsGraph(graph) /\ HasStart(graph) /\ entry = GetStart(graph)
    BY SchedulerAssumption DEF OnceInv
  <2> QED BY <1>2, <2>1, StartIsSource
<1>4. \A i, j \in out : Target(graph, i) = Target(graph, j) => i = j
  BY <1>2 DEF OnceInv, SimpleGraphs, NoParallelEdges, Target
<1>5. out \subseteq Nat
  BY <1>2 DEF TypeOK, IsGraph
<1> HIDE DEF out
<1>6. r \in Task /\ r.node = tasks[t].node /\ r.nxt = out
  BY <1>0, <1>5 DEF Task, Phases
<1> HIDE DEF r
<1>7. /\ DOMAIN tasks' = DOMAIN tasks
      /\ \A u \in DOMAIN tasks : tasks'[u].node = tasks[u].node
      /\ \A u \in DOMAIN tasks : tasks'[u].nxt = IF u = t THEN out ELSE tasks[u].nxt
  BY <1>1, <1>6, BecomeTasks
<1>8. \A u \in DOMAIN tasks' : tasks'[u].node \in activated' \cup {entry'}
  BY <1>1, <1>7 DEF OnceInv
<1>9. \A u \in DOMAIN tasks' : \A i \in tasks'[u].nxt : Target(graph, i) \in activated'
  BY <1>1, <1>7 DEF OnceInv
<1>10. \A u, v \in DOMAIN tasks' : \A i \in tasks'[u].nxt : Target(graph, i) # tasks'[v].node
  BY <1>2, <1>3, <1>7 DEF OnceInv
<1>11. \A u, v \in DOMAIN tasks' : \A i \in tasks'[u].nxt, j \in tasks'[v].nxt :
         Target(graph, i) = Target(graph, j) => u = v /\ i = j
  BY <1>2, <1>4, <1>7 DEF OnceInv
<1>12. AtMostOnce'
  BY <1>7 DEF OnceInv, AtMostOnce
<1> QED
  BY <1>1, <1>8, <1>9, <1>10, <1>11, <1>12 DEF OnceInv, Target

LEMMA OnceSubmit ==
  ASSUME TypeOK, OnceInv, NEW t \in DOMAIN tasks, NEW i \in tasks[t].nxt, Submit(t, i)
  PROVE  OnceInv'
<1>0. tasks[t] \in Task /\ tasks[t].depth \in Nat /\ tasks[t].nxt \subseteq DOMAIN graph.edges
      /\ tasks[t].nxt \in SUBSET Nat /\ tasks[t].todo = {}
  BY TaskType DEF Submit, At
<1>1. UNCHANGED <<graph, entry, activated>>
  BY DEF Submit, scope, request
<1>2. CASE caller # "waiting"
  <2> DEFINE r == [tasks[t] EXCEPT !.pc = "rejected"]
  <2>1. Become(t, r)
    BY <1>2 DEF Submit
  <2>2. r \in Task /\ r.node = tasks[t].node /\ r.nxt = tasks[t].nxt
    BY <1>0, PhaseTask DEF Phases
  <2> HIDE DEF r
  <2> QED BY <1>1, <2>1, <2>2, OnceKept
<1>3. CASE caller = "waiting"
  <2> DEFINE n    == Target(graph, i)
             rest == tasks[t].nxt \ {i}
             p    == IF rest = {} THEN "finished" ELSE "submitting"
             r    == [tasks[t] EXCEPT !.nxt = rest, !.pc = p]
             new  == NewTask(n, tasks[t].depth + 1)
             k    == Len(tasks) + 1
  <2>1. tasks' = Append([tasks EXCEPT ![t] = r], new)
    BY <1>3 DEF Submit
  <2>2. r \in Task /\ r.nxt = rest /\ r.node = tasks[t].node
    BY <1>0 DEF Task, Phases
  <2>3. new \in Task /\ new.nxt = {} /\ new.node = n
    <3>1. n \in Node
      BY <1>0, TargetIsNode DEF TypeOK
    <3> QED BY <1>0, <3>1, NewTaskType
  <2>4. rest \subseteq tasks[t].nxt /\ i \notin rest
    OBVIOUS
  <2> HIDE DEF r, new, rest, p
  <2>5. /\ DOMAIN tasks' = (DOMAIN tasks) \cup {k}
        /\ \A u \in DOMAIN tasks : tasks'[u] = IF u = t THEN r ELSE tasks[u]
        /\ tasks'[k] = new
        /\ k \notin DOMAIN tasks
    BY <2>1, <2>2, <2>3, SubmittedTasks
  <2> HIDE DEF k
  <2>6. \A u \in DOMAIN tasks : tasks'[u].node = tasks[u].node
    BY <2>2, <2>5
  <2>7. \A u \in DOMAIN tasks : tasks'[u].nxt \subseteq tasks[u].nxt
    BY <2>2, <2>4, <2>5
  <2>8. tasks'[k].node = n /\ tasks'[k].nxt = {}
    BY <2>3, <2>5
  <2>9. \A u \in DOMAIN tasks : \A j \in tasks'[u].nxt : Target(graph, j) # n
    <3> SUFFICES ASSUME NEW u \in DOMAIN tasks, NEW j \in tasks'[u].nxt, Target(graph, j) = n
                 PROVE  FALSE
      OBVIOUS
    <3>1. j \in tasks[u].nxt
      BY <2>7
    <3>2. u = t /\ j = i
      BY <3>1 DEF OnceInv
    <3>3. tasks'[t].nxt = rest
      BY <2>2, <2>5
    <3> QED BY <2>4, <3>2, <3>3
  <2>10. n \in activated /\ \A u \in DOMAIN tasks : tasks[u].node # n
    BY DEF OnceInv
  <2>11. \A u \in DOMAIN tasks' : tasks'[u].node \in activated \cup {entry}
    BY <2>5, <2>6, <2>8, <2>10 DEF OnceInv
  <2>12. \A u \in DOMAIN tasks' : \A j \in tasks'[u].nxt : Target(graph, j) \in activated
    BY <2>5, <2>7, <2>8 DEF OnceInv
  <2>13. \A u, v \in DOMAIN tasks' : tasks'[u].node = tasks'[v].node => u = v
    BY <2>5, <2>6, <2>8, <2>10 DEF OnceInv, AtMostOnce
  <2>14. \A u, v \in DOMAIN tasks' : \A j \in tasks'[u].nxt : Target(graph, j) # tasks'[v].node
    BY <2>5, <2>6, <2>7, <2>8, <2>9 DEF OnceInv
  <2>15. \A u, v \in DOMAIN tasks' : \A j \in tasks'[u].nxt, l \in tasks'[v].nxt :
           Target(graph, j) = Target(graph, l) => u = v /\ j = l
    BY <2>5, <2>7, <2>8 DEF OnceInv
  <2> HIDE DEF n
  <2> QED
    BY <1>1, <2>11, <2>12, <2>13, <2>14, <2>15 DEF OnceInv, AtMostOnce, Target
<1> QED BY <1>2, <1>3

LEMMA OnceInvariant ==
  ASSUME SimpleGraphs
  PROVE  Spec => []OnceInv
<1>1. Init => OnceInv
  BY DEF Init, OnceInv, AtMostOnce
<1>2. TypeOK /\ OnceInv /\ [Next]_vars => OnceInv'
  <2> SUFFICES ASSUME TypeOK, OnceInv, [Next]_vars PROVE OnceInv'
    OBVIOUS
  <2>1. CASE Run
    <3> DEFINE new == NewTask(entry, 0)
    <3>1. tasks' = <<new>> /\ UNCHANGED <<graph, entry>>
      BY <2>1 DEF Run, Launch, request
    <3>2. new.node = entry /\ new.nxt = {}
      BY NewTaskType DEF TypeOK
    <3> HIDE DEF new
    <3>3. DOMAIN tasks' = {1} /\ tasks'[1].node = entry /\ tasks'[1].nxt = {}
      BY <3>1, <3>2
    <3> QED BY <3>1, <3>3 DEF OnceInv, AtMostOnce
  <2>2. CASE Wake \/ Join \/ Terminated \/ UNCHANGED vars
    <3>1. UNCHANGED <<graph, entry, tasks, activated>>
      BY <2>2 DEF Wake, Join, Terminated, vars, request, pool, scope
    <3> QED BY <3>1 DEF OnceInv, AtMostOnce, Target
  <2>3. ASSUME NEW t \in DOMAIN tasks, Worker(t) PROVE OnceInv'
    BY <2>3, OnceWorker, OnceNextNodes, OnceSubmit DEF Worker
  <2> QED
    BY <2>1, <2>2, <2>3 DEF Next
<1> QED
  BY <1>1, <1>2, TypeCorrect, PTL DEF Spec

(***************************************************************************)
(* "Each node is one task of the pool": whatever the interleaving of       *)
(* finishing predecessors, no node runs twice, provided no two edges of    *)
(* the graph connect the same two nodes.                                   *)
(***************************************************************************)
THEOREM RunsOnce ==
  ASSUME SimpleGraphs
  PROVE  Spec => []AtMostOnce
<1>1. OnceInv => AtMostOnce
  BY DEF OnceInv
<1> QED
  BY <1>1, OnceInvariant, PTL

-----------------------------------------------------------------------------
(* A run that succeeds loses no successor.                                 *)

\* Tasks that have chosen their successors.
HasChosen(t) == tasks[t].pc \in {"acquiring", "submitting", "finished", "rejected"}

\* Phases of a task whose node is not marked done.
Unmarked == {"queued", "running", "executed", "aborted"}

\* A node with a task, or with a place among the chosen successors of one.
Held(n) ==
  \/ \E t \in DOMAIN tasks : tasks[t].node = n
  \/ \E t \in DOMAIN tasks : \E i \in tasks[t].nxt : Target(graph, i) = n

\* A node that was released and whose task has not chosen successors yet.
Outstanding(p) == p \in activated /\ ~\E u \in DOMAIN tasks : tasks[u].node = p /\ HasChosen(u)

(***************************************************************************)
(* The inductive invariant.  What has been released is held by a task      *)
(* until it has one of its own; a node is done if its task got past        *)
(* done.add; an abort leaves an aborted task; and an edge that was to be   *)
(* followed has activated its target, or the target is a join that waits   *)
(* for a predecessor which will choose after it.  It holds of a resumed    *)
(* run too, which starts with some nodes done.                             *)
(***************************************************************************)
FlowInv ==
  /\ caller \in {"returned", "raised"} => Drained
  /\ caller = "returned" => error = NoError
  /\ caller = "raised" => error # NoError
  /\ caller # "idle" => \A n \in activated \cup {entry} : Held(n)
  /\ \A t \in DOMAIN tasks : tasks[t].pc \notin Unmarked => tasks[t].node \in done
  /\ error # NoError <=> \E t \in DOMAIN tasks : tasks[t].pc = "aborted"

FollowedInv ==
  \A t \in DOMAIN tasks : \A i \in DOMAIN graph.edges :
    LET n == Target(graph, i)
    IN  HasChosen(t) /\ Followed(t, i) /\ (RequiresAll(graph, n) => Unconditional(n)) =>
          \/ n \in done \cup activated
          \/ RequiresAll(graph, n) /\ \E p \in Predecessors(graph, n) : Outstanding(p)

(* In a first run only tasks make nodes done. *)
DoneInv ==
  /\ caller = "idle" => done = {} /\ activated = {}
  /\ \A n \in done : \E t \in DOMAIN tasks : tasks[t].node = n

(* A node whose task has not marked it is not done: at most one task per node. *)
UndoneInv ==
  \A t \in DOMAIN tasks : tasks[t].pc \in Unmarked => tasks[t].node \notin done

(***************************************************************************)
(* Three kinds of steps of task t besides choosing and submitting: one     *)
(* that neither aborts nor marks, an abort, and done.add.                  *)
(***************************************************************************)
KeepsTasks ==
  /\ DOMAIN tasks' = DOMAIN tasks
  /\ \A u \in DOMAIN tasks : /\ tasks'[u].node = tasks[u].node
                             /\ tasks'[u].nxt = tasks[u].nxt
                             /\ HasChosen(u)' <=> HasChosen(u)
                             /\ HasChosen(u) => tasks'[u].branch = tasks[u].branch
  /\ UNCHANGED <<graph, entry, caller, activated>>

Passes ==
  /\ \A u \in DOMAIN tasks : /\ tasks'[u].pc \in Unmarked <=> tasks[u].pc \in Unmarked
                             /\ tasks'[u].pc = "aborted" <=> tasks[u].pc = "aborted"
  /\ UNCHANGED <<done, error>>

Aborts(t) ==
  /\ \A u \in DOMAIN tasks : tasks'[u].pc \in Unmarked <=> tasks[u].pc \in Unmarked
  /\ tasks'[t].pc = "aborted"
  /\ error' # NoError /\ done' = done

Marks(t) ==
  /\ \A u \in DOMAIN tasks : /\ tasks'[u].pc \in Unmarked <=> u # t /\ tasks[u].pc \in Unmarked
                             /\ tasks'[u].pc = "aborted" <=> tasks[u].pc = "aborted"
  /\ done' = done \cup {tasks[t].node}
  /\ error' = error

(* A step into record r, of the first two kinds. *)
LEMMA StepKind ==
  ASSUME TypeOK, NEW t \in DOMAIN tasks, NEW r \in Task, Become(t, r),
         r.node = tasks[t].node, r.nxt = tasks[t].nxt,
         r.pc \in {"acquiring", "submitting", "finished", "rejected"} <=> HasChosen(t),
         HasChosen(t) => r.branch = tasks[t].branch,
         UNCHANGED <<graph, entry, caller, activated>>
  PROVE  /\ KeepsTasks
         /\ tasks'[t] = r
         /\ \A u \in DOMAIN tasks : u # t => tasks'[u] = tasks[u]
<1>1. DOMAIN tasks' = DOMAIN tasks
      /\ \A u \in DOMAIN tasks : tasks'[u] = IF u = t THEN r ELSE tasks[u]
  BY BecomeTasks
<1>2. tasks'[t] = r /\ \A u \in DOMAIN tasks : u # t => tasks'[u] = tasks[u]
  BY <1>1
<1>3. ASSUME NEW u \in DOMAIN tasks
      PROVE  /\ tasks'[u].node = tasks[u].node
             /\ tasks'[u].nxt = tasks[u].nxt
             /\ HasChosen(u)' <=> HasChosen(u)
             /\ HasChosen(u) => tasks'[u].branch = tasks[u].branch
  <2>1. CASE u = t
    BY <1>2, <2>1 DEF HasChosen
  <2>2. CASE u # t
    BY <1>2, <2>2 DEF HasChosen
  <2> QED BY <2>1, <2>2
<1> QED
  BY <1>1, <1>2, <1>3 DEF KeepsTasks

LEMMA AbortingSteps ==
  ASSUME TypeOK, NEW t \in DOMAIN tasks,
         \/ Start(t) /\ tasks[t].depth > MaxDepth
         \/ Interrupt(t) \/ Fail(t)
  PROVE  KeepsTasks /\ Aborts(t)
<1> DEFINE r == [tasks[t] EXCEPT !.pc = "aborted"]
<1>0. tasks[t] \in Task /\ tasks[t].node \in Node
  BY TaskType
<1>1. /\ Become(t, r) /\ tasks[t].pc \in {"queued", "running"}
      /\ \E kind \in {"interrupt", "failure", "depth"} : Abort(kind, tasks[t].node)
      /\ UNCHANGED <<graph, entry, caller>>
  BY DEF Start, Interrupt, Fail, At, request
<1>2. PICK kind \in {"interrupt", "failure", "depth"} : Abort(kind, tasks[t].node)
  BY <1>1
<1>3. error' # NoError /\ UNCHANGED <<done, activated>>
  BY <1>0, <1>2, AbortType DEF Abort
<1>4. r \in Task /\ r.pc = "aborted" /\ r.node = tasks[t].node /\ r.nxt = tasks[t].nxt
      /\ r.branch = tasks[t].branch
  BY <1>0 DEF Task, Phases
<1> HIDE DEF r
<1>5. KeepsTasks /\ tasks'[t] = r /\ \A u \in DOMAIN tasks : u # t => tasks'[u] = tasks[u]
  BY <1>1, <1>3, <1>4, StepKind DEF HasChosen
<1> QED
  BY <1>1, <1>3, <1>4, <1>5 DEF Aborts, Unmarked

LEMMA MarkingStep ==
  ASSUME TypeOK, NEW t \in DOMAIN tasks, MarkDone(t)
  PROVE  KeepsTasks /\ Marks(t)
<1> DEFINE r == [tasks[t] EXCEPT !.pc = "done"]
<1>0. tasks[t] \in Task
  BY TaskType
<1>1. /\ Become(t, r) /\ tasks[t].pc = "executed" /\ UNCHANGED <<graph, entry, caller>>
      /\ done' = done \cup {tasks[t].node} /\ UNCHANGED <<activated, error>>
  BY DEF MarkDone, At, request
<1>2. r \in Task /\ r.pc = "done" /\ r.node = tasks[t].node /\ r.nxt = tasks[t].nxt
      /\ r.branch = tasks[t].branch
  BY <1>0 DEF Task, Phases
<1> HIDE DEF r
<1>3. KeepsTasks /\ tasks'[t] = r /\ \A u \in DOMAIN tasks : u # t => tasks'[u] = tasks[u]
  BY <1>1, <1>2, StepKind DEF HasChosen
<1> QED
  BY <1>1, <1>2, <1>3 DEF Marks, Unmarked

LEMMA PassingSteps ==
  ASSUME TypeOK, NEW t \in DOMAIN tasks,
         \/ Start(t) /\ ~(tasks[t].depth > MaxDepth)
         \/ \E b \in Branch \cup {NoBranch} : Execute(t, b)
         \/ \E i \in tasks[t].todo : Acquire(t, i)
         \/ ReleaseSelf(t)
         \/ caller # "waiting" /\ \E i \in tasks[t].nxt : Submit(t, i)
  PROVE  KeepsTasks /\ Passes
<1>0. tasks[t] \in Task
  BY TaskType
<1>1. UNCHANGED <<graph, entry, caller, activated, done, error>>
  BY DEF Start, Execute, Acquire, ReleaseSelf, Submit, request, scope, Release
<1>2. \E r \in Task : /\ Become(t, r) /\ r.node = tasks[t].node /\ r.nxt = tasks[t].nxt
                      /\ r.pc \in {"acquiring", "submitting", "finished", "rejected"} <=> HasChosen(t)
                      /\ HasChosen(t) => r.branch = tasks[t].branch
                      /\ r.pc \in Unmarked <=> tasks[t].pc \in Unmarked
                      /\ r.pc # "aborted" /\ tasks[t].pc # "aborted"
  <2>1. CASE Start(t) /\ ~(tasks[t].depth > MaxDepth)
    <3> DEFINE r == [tasks[t] EXCEPT !.pc = "running"]
    <3>1. Become(t, r) /\ tasks[t].pc = "queued"
      BY <2>1 DEF Start, At
    <3>2. r \in Task /\ r.pc = "running" /\ r.node = tasks[t].node /\ r.nxt = tasks[t].nxt
      BY <1>0 DEF Task, Phases
    <3> HIDE DEF r
    <3> QED BY <3>1, <3>2 DEF HasChosen, Unmarked
  <2>2. ASSUME NEW b \in Branch \cup {NoBranch}, Execute(t, b)
        PROVE  \E r \in Task : /\ Become(t, r) /\ r.node = tasks[t].node /\ r.nxt = tasks[t].nxt
                               /\ r.pc = "executed" /\ tasks[t].pc = "running"
    <3> DEFINE r == [tasks[t] EXCEPT !.pc = "executed", !.branch = b]
    <3>1. Become(t, r) /\ tasks[t].pc = "running"
      BY <2>2 DEF Execute, At
    <3>2. r \in Task /\ r.pc = "executed" /\ r.node = tasks[t].node /\ r.nxt = tasks[t].nxt
      BY <1>0 DEF Task, Phases
    <3> HIDE DEF r
    <3> QED BY <3>1, <3>2
  <2>3. ASSUME NEW i \in tasks[t].todo, Acquire(t, i)
        PROVE  \E r \in Task : /\ Become(t, r) /\ r.node = tasks[t].node /\ r.nxt = tasks[t].nxt
                               /\ r.branch = tasks[t].branch
                               /\ r.pc = "acquiring" /\ tasks[t].pc = "acquiring"
    <3> DEFINE r == [tasks[t] EXCEPT !.todo = tasks[t].todo \ {i}]
    <3>1. Become(t, r) /\ tasks[t].pc = "acquiring"
      BY <2>3 DEF Acquire, At
    <3>2. r \in Task /\ r.pc = tasks[t].pc /\ r.node = tasks[t].node /\ r.nxt = tasks[t].nxt
          /\ r.branch = tasks[t].branch
      BY <1>0 DEF Task
    <3> HIDE DEF r
    <3> QED BY <3>1, <3>2
  <2>4. CASE ReleaseSelf(t) \/ (caller # "waiting" /\ \E i \in tasks[t].nxt : Submit(t, i))
    <3>1. PICK p \in {"finished", "submitting", "rejected"} :
            Become(t, [tasks[t] EXCEPT !.pc = p]) /\ tasks[t].pc \in {"acquiring", "submitting"}
      BY <2>4 DEF ReleaseSelf, Submit, At
    <3> DEFINE r == [tasks[t] EXCEPT !.pc = p]
    <3>2. r \in Task /\ r.pc = p /\ r.node = tasks[t].node /\ r.nxt = tasks[t].nxt
          /\ r.branch = tasks[t].branch
      BY <1>0, <3>1 DEF Task, Phases
    <3> HIDE DEF r
    <3> QED BY <3>1, <3>2 DEF HasChosen, Unmarked, r
  <2> QED BY <2>1, <2>2, <2>3, <2>4 DEF HasChosen, Unmarked
<1>3. PICK r \in Task : /\ Become(t, r) /\ r.node = tasks[t].node /\ r.nxt = tasks[t].nxt
                        /\ r.pc \in {"acquiring", "submitting", "finished", "rejected"} <=> HasChosen(t)
                        /\ HasChosen(t) => r.branch = tasks[t].branch
                        /\ r.pc \in Unmarked <=> tasks[t].pc \in Unmarked
                        /\ r.pc # "aborted" /\ tasks[t].pc # "aborted"
  BY <1>2
<1>4. KeepsTasks /\ tasks'[t] = r /\ \A u \in DOMAIN tasks : u # t => tasks'[u] = tasks[u]
  BY <1>1, <1>3, StepKind
<1> QED
  BY <1>1, <1>3, <1>4 DEF Passes

(* Every step of a worker is of one of five kinds. *)
LEMMA WorkerKinds ==
  ASSUME TypeOK, NEW t \in DOMAIN tasks, Worker(t)
  PROVE  \/ KeepsTasks /\ (Passes \/ Aborts(t))
         \/ MarkDone(t) /\ KeepsTasks /\ Marks(t)
         \/ NextNodes(t)
         \/ caller = "waiting" /\ \E i \in tasks[t].nxt : Submit(t, i)
BY AbortingSteps, MarkingStep, PassingSteps DEF Worker

(* A task that steps is not over, so run() is not over either. *)
LEMMA WorkerRuns ==
  ASSUME TypeOK, CountInv, FlowInv, NEW t \in DOMAIN tasks, Worker(t)
  PROVE  caller \in {"waiting", "shutdown"} /\ caller' = caller /\ tasks[t].pc \notin Over
<1>1. tasks[t].pc \notin Over /\ caller' = caller
  BY DEF Worker, Start, Execute, Interrupt, Fail, MarkDone, NextNodes, Acquire, ReleaseSelf,
         Submit, At, Over
<1>2. caller # "idle"
  <2> SUFFICES ASSUME caller = "idle" PROVE FALSE
    OBVIOUS
  <2>1. tasks = <<>>
    BY DEF CountInv
  <2> QED BY <2>1
<1>3. ~Drained
  BY <1>1 DEF Drained
<1> QED
  BY <1>1, <1>2, <1>3 DEF FlowInv, TypeOK, Callers

LEMMA FlowKept ==
  ASSUME TypeOK, FlowInv, NEW t \in DOMAIN tasks, caller \in {"waiting", "shutdown"},
         KeepsTasks, Passes \/ Aborts(t) \/ Marks(t)
  PROVE  FlowInv'
<1>1. caller' = caller /\ caller' \notin {"idle", "returned", "raised"}
  BY DEF KeepsTasks
<1>2. \A n \in activated' \cup {entry'} : Held(n)'
  BY DEF FlowInv, Held, KeepsTasks, Target
<1>3. \A u \in DOMAIN tasks' : tasks'[u].pc \notin Unmarked => tasks'[u].node \in done'
  <2> SUFFICES ASSUME NEW u \in DOMAIN tasks, tasks'[u].pc \notin Unmarked
               PROVE  tasks[u].node \in done'
    BY DEF KeepsTasks
  <2>1. tasks[u].pc \notin Unmarked => tasks[u].node \in done
    BY DEF FlowInv
  <2> QED BY <2>1 DEF Passes, Aborts, Marks
<1>4. error' # NoError <=> \E u \in DOMAIN tasks' : tasks'[u].pc = "aborted"
  BY DEF FlowInv, KeepsTasks, Passes, Aborts, Marks
<1> QED
  BY <1>1, <1>2, <1>3, <1>4 DEF FlowInv

(* What choosing successors does. *)
LEMMA ChoosingStep ==
  ASSUME TypeOK, NEW t \in DOMAIN tasks, NextNodes(t)
  PROVE  LET out == Selected(tasks[t].node, tasks[t].branch)
         IN  /\ DOMAIN tasks' = DOMAIN tasks
             /\ out \subseteq DOMAIN graph.edges
             /\ \A u \in DOMAIN tasks : /\ tasks'[u].node = tasks[u].node
                                        /\ tasks'[u].branch = tasks[u].branch
                                        /\ u # t => tasks'[u] = tasks[u]
             /\ tasks[t].pc = "done" /\ tasks'[t].pc = "acquiring" /\ tasks'[t].nxt = out
             /\ activated' = activated \cup {Target(graph, i) : i \in out}
             /\ UNCHANGED <<graph, entry, caller, done, error>>
<1> DEFINE out == Selected(tasks[t].node, tasks[t].branch)
           r   == [tasks[t] EXCEPT !.pc = "acquiring", !.todo = out, !.nxt = out]
<1>0. tasks[t] \in Task
  BY TaskType
<1>1. Become(t, r) /\ tasks[t].pc = "done" /\ UNCHANGED <<graph, entry, caller, done, error>>
      /\ activated' = activated \cup {Target(graph, i) : i \in out}
  BY DEF NextNodes, At, request
<1>2. out \subseteq DOMAIN graph.edges
  BY DEF Selected, Routed, OutEdges
<1>3. out \subseteq Nat
  BY <1>2 DEF TypeOK, IsGraph
<1> HIDE DEF out
<1>4. r \in Task /\ r.pc = "acquiring" /\ r.nxt = out /\ r.node = tasks[t].node
      /\ r.branch = tasks[t].branch
  BY <1>0, <1>3 DEF Task, Phases
<1> HIDE DEF r
<1>5. DOMAIN tasks' = DOMAIN tasks
      /\ \A u \in DOMAIN tasks : tasks'[u] = IF u = t THEN r ELSE tasks[u]
  BY <1>1, <1>4, BecomeTasks
<1>6. tasks'[t] = r /\ \A u \in DOMAIN tasks : u # t => tasks'[u] = tasks[u]
  BY <1>5
<1>7. \A u \in DOMAIN tasks : tasks'[u].node = tasks[u].node /\ tasks'[u].branch = tasks[u].branch
  BY <1>4, <1>6
<1> QED
  BY <1>1, <1>2, <1>4, <1>5, <1>6, <1>7 DEF out

LEMMA FlowNextNodes ==
  ASSUME TypeOK, CountInv, FlowInv, NEW t \in DOMAIN tasks, NextNodes(t),
         caller \in {"waiting", "shutdown"}
  PROVE  FlowInv'
<1> DEFINE out == Selected(tasks[t].node, tasks[t].branch)
<1>1. /\ DOMAIN tasks' = DOMAIN tasks
      /\ \A u \in DOMAIN tasks : tasks'[u].node = tasks[u].node
      /\ \A u \in DOMAIN tasks : u # t => tasks'[u] = tasks[u]
      /\ tasks[t].pc = "done" /\ tasks'[t].pc = "acquiring" /\ tasks'[t].nxt = out
      /\ activated' = activated \cup {Target(graph, i) : i \in out}
      /\ UNCHANGED <<graph, entry, caller, done, error>>
  BY ChoosingStep
<1> HIDE DEF out
<1>2. tasks[t].nxt = {}
  BY <1>1 DEF CountInv, Chosen
<1>3. ASSUME NEW n \in activated' \cup {entry'} PROVE Held(n)'
  <2>1. CASE \E i \in out : Target(graph, i) = n
    BY <1>1, <2>1 DEF Held
  <2>2. CASE n \in activated \cup {entry}
    <3>1. Held(n)
      BY <2>2 DEF FlowInv
    <3>2. CASE \E u \in DOMAIN tasks : tasks[u].node = n
      BY <1>1, <3>2 DEF Held
    <3>3. CASE \E u \in DOMAIN tasks : \E i \in tasks[u].nxt : Target(graph, i) = n
      <4>1. PICK u \in DOMAIN tasks : \E i \in tasks[u].nxt : Target(graph, i) = n
        BY <3>3
      <4>2. u # t
        BY <1>2, <4>1
      <4> QED BY <1>1, <4>1, <4>2 DEF Held
    <3> QED BY <3>1, <3>2, <3>3 DEF Held
  <2> QED BY <1>1, <2>1, <2>2
<1>4. \A u \in DOMAIN tasks' : tasks'[u].pc \notin Unmarked => tasks'[u].node \in done'
  BY <1>1 DEF FlowInv, Unmarked
<1>5. error' # NoError <=> \E u \in DOMAIN tasks' : tasks'[u].pc = "aborted"
  <2>1. \A u \in DOMAIN tasks : tasks'[u].pc = "aborted" <=> tasks[u].pc = "aborted"
    BY <1>1
  <2> QED BY <1>1, <2>1 DEF FlowInv
<1> QED
  BY <1>1, <1>3, <1>4, <1>5 DEF FlowInv

(* What an accepted submit does. *)
LEMMA SubmittingStep ==
  ASSUME TypeOK, NEW t \in DOMAIN tasks, NEW i \in tasks[t].nxt, Submit(t, i),
         caller = "waiting"
  PROVE  LET k == Len(tasks) + 1
         IN  /\ DOMAIN tasks' = (DOMAIN tasks) \cup {k}
             /\ k \notin DOMAIN tasks
             /\ \A u \in DOMAIN tasks : /\ tasks'[u].node = tasks[u].node
                                        /\ tasks'[u].branch = tasks[u].branch
                                        /\ u # t => tasks'[u] = tasks[u]
             /\ tasks[t].pc = "submitting" /\ tasks'[t].pc \in {"submitting", "finished"}
             /\ tasks'[t].nxt = tasks[t].nxt \ {i}
             /\ tasks'[k].node = Target(graph, i) /\ tasks'[k].nxt = {}
             /\ tasks'[k].pc = "queued"
             /\ UNCHANGED <<graph, entry, caller, done, activated, error>>
<1> DEFINE n    == Target(graph, i)
           rest == tasks[t].nxt \ {i}
           p    == IF rest = {} THEN "finished" ELSE "submitting"
           r    == [tasks[t] EXCEPT !.nxt = rest, !.pc = p]
           new  == NewTask(n, tasks[t].depth + 1)
           k    == Len(tasks) + 1
<1>0. tasks[t] \in Task /\ tasks[t].depth \in Nat /\ tasks[t].nxt \subseteq DOMAIN graph.edges
      /\ tasks[t].nxt \in SUBSET Nat
  BY TaskType
<1>1. tasks' = Append([tasks EXCEPT ![t] = r], new) /\ tasks[t].pc = "submitting"
      /\ UNCHANGED <<graph, entry, caller, done, activated, error>>
  BY DEF Submit, At, request, scope
<1>2. r \in Task /\ r.nxt = rest /\ r.node = tasks[t].node /\ r.branch = tasks[t].branch
      /\ r.pc \in {"submitting", "finished"}
  BY <1>0 DEF Task, Phases
<1>3. new \in Task /\ new.nxt = {} /\ new.node = n /\ new.pc = "queued"
  <2>1. n \in Node
    BY <1>0, TargetIsNode DEF TypeOK
  <2> QED BY <1>0, <2>1, NewTaskType
<1> HIDE DEF r, new, n, p
<1>4. /\ DOMAIN tasks' = (DOMAIN tasks) \cup {k}
      /\ \A u \in DOMAIN tasks : tasks'[u] = IF u = t THEN r ELSE tasks[u]
      /\ tasks'[k] = new
      /\ k \notin DOMAIN tasks
  BY <1>1, <1>2, <1>3, SubmittedTasks
<1>5. tasks'[t] = r /\ \A u \in DOMAIN tasks : u # t => tasks'[u] = tasks[u]
  BY <1>4
<1>6. \A u \in DOMAIN tasks : tasks'[u].node = tasks[u].node /\ tasks'[u].branch = tasks[u].branch
  BY <1>2, <1>5
<1> QED
  BY <1>1, <1>2, <1>3, <1>4, <1>5, <1>6 DEF n

(* A worker adds tasks, and makes done at most the node of its own. *)
LEMMA WorkerAdds ==
  ASSUME TypeOK, NEW t \in DOMAIN tasks, Worker(t)
  PROVE  /\ DOMAIN tasks \subseteq DOMAIN tasks'
         /\ \A u \in DOMAIN tasks : tasks'[u].node = tasks[u].node
         /\ \A n \in done' : n \in done \/ n = tasks[t].node
         /\ done \subseteq done'
         /\ UNCHANGED <<graph, entry>>
<1>1. CASE KeepsTasks /\ (Passes \/ Aborts(t) \/ Marks(t))
  BY <1>1 DEF KeepsTasks, Passes, Aborts, Marks
<1>2. CASE NextNodes(t)
  BY <1>2, ChoosingStep
<1>3. CASE caller = "waiting" /\ \E i \in tasks[t].nxt : Submit(t, i)
  BY <1>3, SubmittingStep
<1> QED BY <1>1, <1>2, <1>3, WorkerKinds

LEMMA FlowSubmit ==
  ASSUME TypeOK, FlowInv, NEW t \in DOMAIN tasks, NEW i \in tasks[t].nxt, Submit(t, i),
         caller = "waiting"
  PROVE  FlowInv'
<1> DEFINE k == Len(tasks) + 1
<1>1. /\ DOMAIN tasks' = (DOMAIN tasks) \cup {k}
      /\ k \notin DOMAIN tasks
      /\ \A u \in DOMAIN tasks : tasks'[u].node = tasks[u].node
      /\ \A u \in DOMAIN tasks : u # t => tasks'[u] = tasks[u]
      /\ tasks[t].pc = "submitting" /\ tasks'[t].pc \in {"submitting", "finished"}
      /\ tasks'[t].nxt = tasks[t].nxt \ {i}
      /\ tasks'[k].node = Target(graph, i) /\ tasks'[k].nxt = {}
      /\ tasks'[k].pc = "queued"
      /\ UNCHANGED <<graph, entry, caller, done, activated, error>>
  BY SubmittingStep
<1> HIDE DEF k
<1>2. ASSUME NEW n \in activated \cup {entry} PROVE Held(n)'
  <2>1. Held(n)
    BY DEF FlowInv
  <2>2. CASE \E u \in DOMAIN tasks : tasks[u].node = n
    BY <1>1, <2>2 DEF Held
  <2>3. ASSUME NEW u \in DOMAIN tasks, NEW j \in tasks[u].nxt, Target(graph, j) = n
        PROVE  Held(n)'
    <3>1. CASE u = t /\ j = i
      BY <1>1, <2>3, <3>1 DEF Held
    <3>2. CASE ~(u = t /\ j = i)
      <4>1. j \in tasks'[u].nxt /\ u \in DOMAIN tasks'
        BY <1>1, <3>2
      <4> QED BY <1>1, <2>3, <4>1 DEF Held
    <3> QED BY <3>1, <3>2
  <2> QED BY <2>1, <2>2, <2>3 DEF Held
<1>3. \A u \in DOMAIN tasks' : tasks'[u].pc \notin Unmarked => tasks'[u].node \in done'
  BY <1>1 DEF FlowInv, Unmarked
<1>4. error' # NoError <=> \E u \in DOMAIN tasks' : tasks'[u].pc = "aborted"
  <2>1. \A u \in DOMAIN tasks : tasks'[u].pc = "aborted" <=> tasks[u].pc = "aborted"
    BY <1>1
  <2>2. \A u \in DOMAIN tasks' : u \in DOMAIN tasks \/ (u = k /\ tasks'[u].pc = "queued")
    BY <1>1
  <2> QED BY <1>1, <2>1, <2>2 DEF FlowInv
<1> QED
  BY <1>1, <1>2, <1>3, <1>4 DEF FlowInv

LEMMA FlowLaunch ==
  ASSUME NEW n \in Node, NEW D, Launch(n, D), entry' = n
  PROVE  FlowInv' /\ FollowedInv'
<1> DEFINE new == NewTask(n, 0)
<1>1. /\ tasks' = <<new>>
      /\ caller' = "waiting" /\ activated' = {} /\ error' = NoError
  BY DEF Launch
<1>2. new.node = n /\ new.nxt = {} /\ new.pc = "queued"
  BY NewTaskType
<1> HIDE DEF new
<1>3. DOMAIN tasks' = {1} /\ tasks'[1] = new
  BY <1>1
<1>4. FlowInv'
  BY <1>1, <1>2, <1>3 DEF FlowInv, Held, Unmarked
<1>5. FollowedInv'
  BY <1>2, <1>3 DEF FollowedInv, HasChosen
<1> QED BY <1>4, <1>5

LEMMA FlowCaller ==
  ASSUME TypeOK, CountInv, FlowInv, Wake \/ Join
  PROVE  FlowInv'
<1>1. UNCHANGED <<graph, entry, tasks, done, activated, error>>
  BY DEF Wake, Join, request, pool, scope
<1>2. caller # "idle" /\ caller' \in {"shutdown", "returned", "raised"}
  BY DEF Wake, Join
<1>3. caller' \in {"returned", "raised"} => Drained /\ (caller' = "returned" <=> error = NoError)
  BY DEF Wake, Join
<1>4. Drained' <=> Drained
  BY <1>1 DEF Drained
<1> QED
  BY <1>1, <1>2, <1>3, <1>4 DEF FlowInv, Held

(* The steps of a worker keep FlowInv. *)
LEMMA FlowWorker ==
  ASSUME TypeOK, CountInv, FlowInv, NEW t \in DOMAIN tasks, Worker(t)
  PROVE  FlowInv'
<1>1. caller \in {"waiting", "shutdown"}
  BY WorkerRuns
<1>2. CASE KeepsTasks /\ (Passes \/ Aborts(t) \/ Marks(t))
  BY <1>1, <1>2, FlowKept
<1>3. CASE NextNodes(t)
  BY <1>1, <1>3, FlowNextNodes
<1>4. CASE caller = "waiting" /\ \E i \in tasks[t].nxt : Submit(t, i)
  BY <1>4, FlowSubmit
<1> QED BY <1>2, <1>3, <1>4, WorkerKinds

LEMMA FlowStutter ==
  ASSUME FlowInv, UNCHANGED vars
  PROVE  FlowInv'
<1>1. UNCHANGED <<graph, entry, caller, tasks, done, activated, error>>
  BY DEF vars, request, pool, scope
<1>2. Drained' <=> Drained
  BY <1>1 DEF Drained
<1> QED BY <1>1, <1>2 DEF FlowInv, Held

LEMMA FlowInvariant == Spec => []FlowInv
<1>1. Init => FlowInv
  <2> SUFFICES ASSUME Init PROVE FlowInv
    OBVIOUS
  <2>1. tasks = <<>> /\ DOMAIN tasks = {} /\ caller = "idle" /\ error = NoError
    BY DEF Init
  <2> QED BY <2>1 DEF FlowInv
<1>2. TypeOK /\ CountInv /\ FlowInv /\ [Next]_vars => FlowInv'
  <2> SUFFICES ASSUME TypeOK, CountInv, FlowInv, [Next]_vars PROVE FlowInv'
    OBVIOUS
  <2>1. CASE Run
    <3>1. Launch(entry, {}) /\ entry' = entry /\ entry \in Node
      BY <2>1 DEF Run, request, TypeOK
    <3> QED BY <3>1, FlowLaunch
  <2> QED
    BY <2>1, FlowCaller, FlowWorker, FlowStutter DEF Next, Terminated
<1> QED
  BY <1>1, <1>2, TypeCorrect, CountInvariant, PTL DEF Spec

LEMMA DoneInvariant == Spec => []DoneInv
<1>1. Init => DoneInv
  BY DEF Init, DoneInv
<1>2. TypeOK /\ CountInv /\ FlowInv /\ DoneInv /\ [Next]_vars => DoneInv'
  <2> SUFFICES ASSUME TypeOK, CountInv, FlowInv, DoneInv, [Next]_vars PROVE DoneInv'
    OBVIOUS
  <2>1. CASE Run
    <3>1. done' = {} /\ caller' = "waiting"
      BY <2>1 DEF Run, Launch
    <3> QED BY <3>1 DEF DoneInv
  <2>2. CASE Wake \/ Join \/ Terminated \/ UNCHANGED vars
    <3>1. UNCHANGED <<tasks, done, activated>> /\ (caller' = "idle" => caller = "idle")
      BY <2>2 DEF Wake, Join, Terminated, vars, pool, scope
    <3> QED BY <3>1 DEF DoneInv
  <2>3. ASSUME NEW t \in DOMAIN tasks, Worker(t) PROVE DoneInv'
    <3>1. caller' # "idle"
      BY <2>3, WorkerRuns
    <3>2. /\ DOMAIN tasks \subseteq DOMAIN tasks'
          /\ \A u \in DOMAIN tasks : tasks'[u].node = tasks[u].node
          /\ \A n \in done' : n \in done \/ n = tasks[t].node
      BY <2>3, WorkerAdds
    <3> QED BY <3>1, <3>2 DEF DoneInv
  <2> QED
    BY <2>1, <2>2, <2>3 DEF Next
<1> QED
  BY <1>1, <1>2, TypeCorrect, CountInvariant, FlowInvariant, PTL DEF Spec

(* A task that has chosen is past done.add. *)
LEMMA ChosenIsDone ==
  ASSUME FlowInv, NEW u \in DOMAIN tasks, HasChosen(u)
  PROVE  tasks[u].node \in done
BY DEF FlowInv, HasChosen, Unmarked

(* Steps other than choosing keep what followed edges lead to. *)
LEMMA FollowedKept ==
  ASSUME FollowedInv, graph' = graph, done \subseteq done', activated' = activated,
         DOMAIN tasks \subseteq DOMAIN tasks',
         \A u \in DOMAIN tasks : tasks'[u].node = tasks[u].node,
         \A u \in DOMAIN tasks' : HasChosen(u)' =>
           u \in DOMAIN tasks /\ HasChosen(u) /\ tasks'[u].branch = tasks[u].branch
  PROVE  FollowedInv'
<1> SUFFICES ASSUME NEW u \in DOMAIN tasks', NEW i \in DOMAIN graph.edges,
                    HasChosen(u)', Followed(u, i)',
                    RequiresAll(graph, Target(graph, i)) => Unconditional(Target(graph, i))
             PROVE  \/ Target(graph, i) \in done' \cup activated'
                    \/ /\ RequiresAll(graph, Target(graph, i))
                       /\ \E p \in Predecessors(graph, Target(graph, i)) : Outstanding(p)'
  BY DEF FollowedInv, Unconditional
<1>1. u \in DOMAIN tasks /\ HasChosen(u) /\ Followed(u, i)
  BY DEF Followed
<1>2. \A p : Outstanding(p) => Outstanding(p)'
  BY DEF Outstanding
<1> QED
  BY <1>1, <1>2 DEF FollowedInv

(***************************************************************************)
(* Choosing: the edges of this task lead to chosen nodes or to a join that *)
(* waits for somebody who is not done; a join that waited for this task    *)
(* is now looked at by it, its edge carrying no branch.                    *)
(***************************************************************************)
LEMMA FollowedNextNodes ==
  ASSUME TypeOK, FlowInv, FollowedInv, NEW t \in DOMAIN tasks, NextNodes(t)
  PROVE  FollowedInv'
<1> DEFINE out == Selected(tasks[t].node, tasks[t].branch)
<1>1. /\ DOMAIN tasks' = DOMAIN tasks
      /\ \A u \in DOMAIN tasks : tasks'[u].node = tasks[u].node /\ tasks'[u].branch = tasks[u].branch
      /\ \A u \in DOMAIN tasks : u # t => tasks'[u] = tasks[u]
      /\ tasks[t].pc = "done" /\ tasks'[t].pc = "acquiring"
      /\ activated' = activated \cup {Target(graph, i) : i \in out}
      /\ UNCHANGED <<graph, done>>
  BY ChoosingStep
<1>2. tasks[t].node \in done
  BY <1>1 DEF FlowInv, Unmarked
<1>3. \A p \in activated \ done : Outstanding(p)'
  <2> SUFFICES ASSUME NEW p \in activated \ done, NEW u \in DOMAIN tasks,
                      tasks[u].node = p, HasChosen(u)'
               PROVE  FALSE
    BY <1>1 DEF Outstanding
  <2>1. u # t
    BY <1>2
  <2>2. HasChosen(u)
    BY <1>1, <2>1 DEF HasChosen
  <2> QED BY <2>2, ChosenIsDone
<1>4. ASSUME NEW i \in Routed(graph, NoNode, tasks[t].node, tasks[t].branch)
      PROVE  \/ Target(graph, i) \in done' \cup activated'
             \/ /\ RequiresAll(graph, Target(graph, i))
                /\ \E p \in Predecessors(graph, Target(graph, i)) : Outstanding(p)'
  <2>1. CASE i \in out
    BY <1>1, <2>1
  <2>2. CASE i \notin out
    <3>1. Target(graph, i) \in done \cup activated \/ ~Ready(Target(graph, i))
      BY <2>2 DEF Selected
    <3>2. CASE ~Ready(Target(graph, i))
      <4>1. RequiresAll(graph, Target(graph, i))
        BY <3>2 DEF Ready
      <4>2. PICK p \in Predecessors(graph, Target(graph, i)) \cap activated : p \notin done
        BY <3>2 DEF Ready
      <4> QED BY <1>3, <4>1, <4>2
    <3> QED BY <1>1, <3>1, <3>2
  <2> QED BY <2>1, <2>2
<1> HIDE DEF out
<1> SUFFICES ASSUME NEW u \in DOMAIN tasks, NEW i \in DOMAIN graph.edges,
                    HasChosen(u)', Followed(u, i),
                    RequiresAll(graph, Target(graph, i)) => Unconditional(Target(graph, i))
             PROVE  \/ Target(graph, i) \in done' \cup activated'
                    \/ /\ RequiresAll(graph, Target(graph, i))
                       /\ \E p \in Predecessors(graph, Target(graph, i)) : Outstanding(p)'
  BY <1>1 DEF FollowedInv, Unconditional, Followed
<1> DEFINE n == Target(graph, i)
<1>5. CASE u = t
  BY <1>4, <1>5 DEF Followed
<1>6. CASE u # t
  <2>1. HasChosen(u)
    BY <1>1, <1>6 DEF HasChosen
  <2>2. \/ n \in done \cup activated
        \/ RequiresAll(graph, n) /\ \E p \in Predecessors(graph, n) : Outstanding(p)
    BY <2>1 DEF FollowedInv
  <2>3. CASE n \in done \cup activated
    BY <1>1, <2>3
  <2>4. ASSUME RequiresAll(graph, n), NEW p \in Predecessors(graph, n), Outstanding(p)
        PROVE  \/ n \in done' \cup activated'
               \/ RequiresAll(graph, n) /\ \E q \in Predecessors(graph, n) : Outstanding(q)'
    <3>1. CASE p # tasks[t].node
      <4>1. \A v \in DOMAIN tasks : HasChosen(v)' /\ tasks[v].node = p => HasChosen(v)
        BY <1>1, <3>1 DEF HasChosen
      <4> QED BY <1>1, <2>4, <4>1 DEF Outstanding
    <3>2. CASE p = tasks[t].node
      <4>1. PICK j \in DOMAIN graph.edges : graph.edges[j].source = p /\ graph.edges[j].target = n
        BY <2>4 DEF Predecessors
      <4>2. Target(graph, j) = n
        BY <4>1 DEF Target
      <4>3. InBoundary(graph, NoNode, n)
        BY DEF Followed, Routed, Target
      <4>4. graph.edges[j].branch = NoBranch
        BY <2>4, <4>2 DEF Unconditional
      <4>5. j \in Routed(graph, NoNode, tasks[t].node, tasks[t].branch)
        BY <3>2, <4>1, <4>3, <4>4 DEF Routed, OutEdges
      <4> QED BY <1>4, <4>2, <4>5
    <3> QED BY <3>1, <3>2
  <2> QED BY <2>2, <2>3, <2>4
<1> QED BY <1>5, <1>6

LEMMA FollowedWorker ==
  ASSUME TypeOK, FlowInv, FollowedInv, NEW t \in DOMAIN tasks, Worker(t)
  PROVE  FollowedInv'
<1>1. CASE KeepsTasks /\ (Passes \/ Aborts(t) \/ Marks(t))
  <2>1. done \subseteq done'
    BY <1>1 DEF Passes, Aborts, Marks
  <2> QED BY <1>1, <2>1, FollowedKept DEF KeepsTasks
<1>2. CASE NextNodes(t)
  BY <1>2, FollowedNextNodes
<1>3. ASSUME caller = "waiting", NEW i \in tasks[t].nxt, Submit(t, i)
      PROVE  FollowedInv'
  <2> DEFINE k == Len(tasks) + 1
  <2>1. /\ DOMAIN tasks' = (DOMAIN tasks) \cup {k}
        /\ \A u \in DOMAIN tasks : /\ tasks'[u].node = tasks[u].node
                                   /\ tasks'[u].branch = tasks[u].branch
                                   /\ u # t => tasks'[u] = tasks[u]
        /\ tasks[t].pc = "submitting"
        /\ tasks'[k].pc = "queued"
        /\ UNCHANGED <<graph, done, activated>>
    BY <1>3, SubmittingStep
  <2> HIDE DEF k
  <2>2. ASSUME NEW u \in DOMAIN tasks', HasChosen(u)'
        PROVE  u \in DOMAIN tasks /\ HasChosen(u) /\ tasks'[u].branch = tasks[u].branch
    <3>1. u # k
      BY <2>1, <2>2 DEF HasChosen
    <3>2. HasChosen(u)
      BY <2>1, <2>2, <3>1 DEF HasChosen
    <3> QED BY <2>1, <3>1, <3>2
  <2> QED BY <2>1, <2>2, FollowedKept
<1> QED BY <1>1, <1>2, <1>3, WorkerKinds

LEMMA FollowedSame ==
  ASSUME FollowedInv, UNCHANGED <<graph, tasks, done, activated>>
  PROVE  FollowedInv'
BY FollowedKept DEF HasChosen

LEMMA FollowedInvariant == Spec => []FollowedInv
<1>1. Init => FollowedInv
  BY DEF Init, FollowedInv
<1>2. TypeOK /\ FlowInv /\ FollowedInv /\ [Next]_vars => FollowedInv'
  <2> SUFFICES ASSUME TypeOK, FlowInv, FollowedInv, [Next]_vars PROVE FollowedInv'
    OBVIOUS
  <2>1. CASE Run
    <3>1. Launch(entry, {}) /\ entry' = entry /\ entry \in Node
      BY <2>1 DEF Run, request, TypeOK
    <3> QED BY <3>1, FlowLaunch
  <2>2. CASE Wake \/ Join \/ Terminated \/ UNCHANGED vars
    <3>1. UNCHANGED <<graph, tasks, done, activated>>
      BY <2>2 DEF Wake, Join, Terminated, vars, request, pool, scope
    <3> QED BY <3>1, FollowedSame
  <2> QED
    BY <2>1, <2>2, FollowedWorker DEF Next
<1> QED
  BY <1>1, <1>2, TypeCorrect, FlowInvariant, PTL DEF Spec

(* When a run has succeeded, every task finished and what is released is done. *)
LEMMA SucceededMeansAllDone ==
  ASSUME TypeOK, CountInv, FlowInv, Drained, error = NoError, caller # "idle"
  PROVE  /\ \A t \in DOMAIN tasks : tasks[t].pc = "finished" /\ tasks[t].nxt = {}
         /\ activated \cup {entry} \subseteq done
<1>1. \A t \in DOMAIN tasks : tasks[t].pc = "finished"
  BY DEF Drained, Over, FlowInv, CountInv, RefusedOnlyAfterAbort
<1>2. \A t \in DOMAIN tasks : tasks[t].nxt = {} /\ tasks[t].node \in done
  BY <1>1 DEF FlowInv, CountInv, Chosen, Unmarked
<1> QED
  BY <1>1, <1>2 DEF FlowInv, Held

LEMMA SuccessHasAll ==
  ASSUME TypeOK, CountInv, FlowInv, FollowedInv
  PROVE  NoLostSuccessor
<1> SUFFICES ASSUME caller = "returned",
                    NEW t \in DOMAIN tasks, NEW i \in DOMAIN graph.edges, Followed(t, i),
                    RequiresAll(graph, Target(graph, i)) => Unconditional(Target(graph, i))
             PROVE  Target(graph, i) \in done
  BY DEF NoLostSuccessor
<1>1. Drained /\ error = NoError /\ caller # "idle"
  BY DEF FlowInv
<1>2. /\ \A u \in DOMAIN tasks : tasks[u].pc = "finished" /\ tasks[u].nxt = {}
      /\ activated \cup {entry} \subseteq done
  BY <1>1, SucceededMeansAllDone
<1>3. \A u \in DOMAIN tasks : HasChosen(u)
  BY <1>2 DEF HasChosen
<1>4. \A p : ~Outstanding(p)
  <2> SUFFICES ASSUME NEW p, Outstanding(p) PROVE FALSE
    OBVIOUS
  <2>1. Held(p)
    BY <1>1 DEF Outstanding, FlowInv
  <2>2. \E u \in DOMAIN tasks : tasks[u].node = p
    BY <1>2, <2>1 DEF Held
  <2> QED BY <1>3, <2>2 DEF Outstanding
<1> QED
  BY <1>2, <1>3, <1>4 DEF FollowedInv

(***************************************************************************)
(* A run that succeeds loses no successor: the target of every edge to be  *)
(* followed has run, and an AND join with unconditional in-edges too,      *)
(* whichever of its predecessors finishes last; for every graph, also one  *)
(* with parallel edges, every pool and every interleaving.                 *)
(***************************************************************************)
THEOREM SuccessorsRun == Spec => []NoLostSuccessor
<1> QED
  BY SuccessHasAll, TypeCorrect, CountInvariant, FlowInvariant, FollowedInvariant, PTL
-----------------------------------------------------------------------------
(* The scheduler implements the abstract run.                              *)

LEMMA UndoneInvariant ==
  ASSUME SimpleGraphs
  PROVE  Spec => []UndoneInv
<1>1. Init => UndoneInv
  BY DEF Init, UndoneInv
<1>2. TypeOK /\ CountInv /\ FlowInv /\ DoneInv /\ OnceInv /\ UndoneInv /\ [Next]_vars => UndoneInv'
  <2> SUFFICES ASSUME TypeOK, CountInv, FlowInv, DoneInv, OnceInv, UndoneInv, [Next]_vars
               PROVE  UndoneInv'
    OBVIOUS
  <2>1. CASE Run
    <3>1. done' = {}
      BY <2>1 DEF Run, Launch
    <3> QED BY <3>1 DEF UndoneInv
  <2>2. CASE Wake \/ Join \/ Terminated \/ UNCHANGED vars
    <3>1. UNCHANGED <<tasks, done>>
      BY <2>2 DEF Wake, Join, Terminated, vars, pool, scope
    <3> QED BY <3>1 DEF UndoneInv
  <2>3. ASSUME NEW t \in DOMAIN tasks, Worker(t) PROVE UndoneInv'
    <3>1. CASE KeepsTasks /\ (Passes \/ Aborts(t))
      BY <3>1 DEF KeepsTasks, Passes, Aborts, UndoneInv
    <3>2. CASE KeepsTasks /\ Marks(t)
      <4>1. \A u \in DOMAIN tasks : u # t => tasks[u].node # tasks[t].node
        BY DEF OnceInv, AtMostOnce
      <4> QED BY <3>2, <4>1 DEF KeepsTasks, Marks, UndoneInv
    <3>3. CASE NextNodes(t)
      <4>1. /\ DOMAIN tasks' = DOMAIN tasks
            /\ \A u \in DOMAIN tasks : /\ tasks'[u].node = tasks[u].node
                                       /\ u # t => tasks'[u] = tasks[u]
            /\ tasks'[t].pc = "acquiring"
            /\ done' = done
        BY <3>3, ChoosingStep
      <4> QED BY <4>1 DEF UndoneInv, Unmarked
    <3>4. ASSUME caller = "waiting", NEW i \in tasks[t].nxt, Submit(t, i)
          PROVE  UndoneInv'
      <4> DEFINE k == Len(tasks) + 1
      <4>1. /\ DOMAIN tasks' = (DOMAIN tasks) \cup {k}
            /\ \A u \in DOMAIN tasks : /\ tasks'[u].node = tasks[u].node
                                       /\ u # t => tasks'[u] = tasks[u]
            /\ tasks'[t].pc \in {"submitting", "finished"}
            /\ tasks'[k].node = Target(graph, i)
            /\ done' = done
        BY <3>4, SubmittingStep
      <4> HIDE DEF k
      <4>2. Target(graph, i) \notin done
        <5>1. \A u \in DOMAIN tasks : tasks[u].node # Target(graph, i)
          BY DEF OnceInv
        <5> QED BY <5>1 DEF DoneInv
      <4>3. ASSUME NEW u \in DOMAIN tasks, tasks'[u].pc \in Unmarked
            PROVE  tasks'[u].node \notin done
        <5>1. u # t
          BY <4>1, <4>3 DEF Unmarked
        <5> QED BY <4>1, <4>3, <5>1 DEF UndoneInv
      <4> QED BY <4>1, <4>2, <4>3 DEF UndoneInv
    <3> QED BY <2>3, <3>1, <3>2, <3>3, <3>4, WorkerKinds
  <2> QED
    BY <2>1, <2>2, <2>3 DEF Next
<1> QED
  BY <1>1, <1>2, TypeCorrect, CountInvariant, FlowInvariant, DoneInvariant, OnceInvariant, PTL DEF Spec

LEMMA RefineInit ==
  ASSUME Init
  PROVE  Abstract!Init
<1>1. TypeOK
  BY TypeInit
<1>2. Succ \subseteq Node \X Node
  BY <1>1 DEF TypeOK, IsGraph, Succ
<1> QED
  BY <1>2 DEF Init, Abstract!Init, Released, Outcome

(* done.add is the completion of a released node, or changes nothing. *)
LEMMA RefineMarkDone ==
  ASSUME TypeOK, CountInv, FlowInv, OnceInv, NEW t \in DOMAIN tasks, MarkDone(t)
  PROVE  [Abstract!Next]_(Abstract!vars)
<1>1. caller \in {"waiting", "shutdown"} /\ caller' = caller
  BY WorkerRuns DEF Worker
<1>2. KeepsTasks /\ done' = done \cup {tasks[t].node}
  BY MarkingStep DEF Marks
<1>3. UNCHANGED <<Succ, Released, Outcome>> /\ Outcome = "running"
  BY <1>1, <1>2 DEF Succ, Released, Outcome, KeepsTasks
<1>4. tasks[t].node \in Released /\ tasks[t].node \in Node
  BY <1>1, TaskType DEF OnceInv, Released
<1>5. CASE tasks[t].node \in done
  BY <1>2, <1>3, <1>5 DEF Abstract!vars
<1>6. CASE tasks[t].node \notin done
  <2>1. Abstract!Complete(tasks[t].node)
    BY <1>2, <1>3, <1>4, <1>6 DEF Abstract!Complete
  <2> QED BY <1>4, <2>1 DEF Abstract!Next
<1> QED BY <1>5, <1>6

(* Choosing successors is their release by a completed node. *)
LEMMA RefineNextNodes ==
  ASSUME TypeOK, CountInv, FlowInv, OnceInv, NEW t \in DOMAIN tasks, NextNodes(t)
  PROVE  Abstract!Next
<1> DEFINE out == Selected(tasks[t].node, tasks[t].branch)
           S   == {Target(graph, i) : i \in out}
<1>1. caller \in {"waiting", "shutdown"} /\ caller' = caller
  BY WorkerRuns DEF Worker
<1>2. /\ tasks[t].pc = "done" /\ out \subseteq DOMAIN graph.edges
      /\ activated' = activated \cup S
      /\ UNCHANGED <<graph, entry, done>>
  BY ChoosingStep
<1>3. tasks[t].node \in done /\ tasks[t].node \in Node
  BY <1>2, TaskType DEF FlowInv, Unmarked
<1>4. IsGraph(graph) /\ HasStart(graph) /\ entry = GetStart(graph)
  BY SchedulerAssumption DEF OnceInv
<1>5. \A i \in out : /\ Target(graph, i) \in Node
                     /\ Target(graph, i) \notin Released \cup done
                     /\ <<tasks[t].node, Target(graph, i)>> \in Succ
  <2> SUFFICES ASSUME NEW i \in out
               PROVE  /\ Target(graph, i) \in Node
                      /\ Target(graph, i) \notin Released \cup done
                      /\ <<tasks[t].node, Target(graph, i)>> \in Succ
    OBVIOUS
  <2>1. i \in DOMAIN graph.edges /\ graph.edges[i].source = tasks[t].node
        /\ Target(graph, i) \notin done \cup activated
    BY DEF Selected, Routed, OutEdges
  <2>2. Target(graph, i) # entry
    BY <1>4, <2>1, StartIsSource
  <2> QED BY <1>1, <1>4, <2>1, <2>2, TargetIsNode DEF Released, Succ, Target
<1> HIDE DEF out
<1>6. S \in SUBSET Node /\ S \subseteq {m \in Node : <<tasks[t].node, m>> \in Succ} \ (Released \cup done)
  BY <1>5
<1> HIDE DEF S
<1>7. Released' = Released \cup S /\ Outcome = "running" /\ UNCHANGED <<Succ, done, Outcome>>
  BY <1>1, <1>2 DEF Released, Outcome, Succ
<1>8. Abstract!Release(tasks[t].node, S)
  BY <1>3, <1>6, <1>7 DEF Abstract!Release
<1> QED BY <1>3, <1>6, <1>8 DEF Abstract!Next

(* run() that comes back reports success exactly when all released is done. *)
LEMMA RefineJoin ==
  ASSUME TypeOK, CountInv, FlowInv, DoneInv, OnceInv, UndoneInv, Join
  PROVE  Abstract!Next
<1>1. /\ caller = "shutdown" /\ Drained
      /\ caller' = IF error = NoError THEN "returned" ELSE "raised"
      /\ UNCHANGED <<graph, entry, tasks, done, activated, error>>
  BY DEF Join, request, pool, scope
<1>2. Released = activated \cup {entry} /\ Released # {}
      /\ Outcome = "running" /\ UNCHANGED <<Succ, Released, done>>
  BY <1>1 DEF Released, Outcome, Succ
<1>3. CASE error = NoError
  <2>1. Released \subseteq done
    BY <1>1, <1>2, <1>3, SucceededMeansAllDone
  <2>2. Abstract!Succeed
    BY <1>1, <1>2, <1>3, <2>1 DEF Abstract!Succeed, Outcome
  <2> QED BY <2>2 DEF Abstract!Next
<1>4. CASE error # NoError
  <2>1. PICK t \in DOMAIN tasks : tasks[t].pc = "aborted"
    BY <1>4 DEF FlowInv
  <2>2. tasks[t].node \in Released /\ tasks[t].node \notin done
    BY <1>2, <2>1 DEF OnceInv, UndoneInv, Unmarked
  <2>3. Abstract!Raise
    BY <1>1, <1>2, <1>4, <2>2 DEF Abstract!Raise, Outcome
  <2> QED BY <2>3 DEF Abstract!Next
<1> QED BY <1>3, <1>4

LEMMA RefineStep ==
  ASSUME TypeOK, CountInv, FlowInv, DoneInv, OnceInv, UndoneInv, [Next]_vars
  PROVE  [Abstract!Next]_(Abstract!vars)
<1>1. CASE Run
  <2>1. caller = "idle" /\ caller' = "waiting" /\ done' = {} /\ activated' = {}
        /\ UNCHANGED <<graph, entry>> /\ done = {}
    BY <1>1 DEF Run, Launch, request, DoneInv
  <2>2. Released = {} /\ Released' = {entry} /\ Outcome = "running"
        /\ UNCHANGED <<Succ, done, Outcome>> /\ entry \in Node
    BY <2>1 DEF Released, Outcome, Succ, TypeOK
  <2>3. Abstract!Begin(entry)
    BY <2>2 DEF Abstract!Begin
  <2> QED BY <2>2, <2>3 DEF Abstract!Next
<1>2. CASE Wake
  <2>1. caller = "waiting" /\ caller' = "shutdown" /\ UNCHANGED <<graph, entry, done, activated>>
    BY <1>2 DEF Wake, request, scope
  <2> QED BY <2>1 DEF Abstract!vars, Released, Outcome, Succ
<1>3. CASE Join
  BY <1>3, RefineJoin
<1>4. CASE UNCHANGED vars
  <2>1. UNCHANGED <<graph, entry, caller, done, activated>>
    BY <1>4 DEF vars, request, scope
  <2> QED BY <2>1 DEF Abstract!vars, Released, Outcome, Succ
<1>5. ASSUME NEW t \in DOMAIN tasks, Worker(t)
      PROVE  [Abstract!Next]_(Abstract!vars)
  <2>1. CASE KeepsTasks /\ (Passes \/ Aborts(t))
    <3>1. UNCHANGED <<graph, entry, caller, done, activated>>
      BY <2>1 DEF KeepsTasks, Passes, Aborts
    <3> QED BY <3>1 DEF Abstract!vars, Released, Outcome, Succ
  <2>2. CASE MarkDone(t)
    BY <2>2, RefineMarkDone
  <2>3. CASE NextNodes(t)
    BY <2>3, RefineNextNodes
  <2>4. ASSUME caller = "waiting", NEW i \in tasks[t].nxt, Submit(t, i)
        PROVE  [Abstract!Next]_(Abstract!vars)
    <3>1. UNCHANGED <<graph, entry, caller, done, activated>>
      BY <2>4, SubmittingStep
    <3> QED BY <3>1 DEF Abstract!vars, Released, Outcome, Succ
  <2> QED BY <1>5, <2>1, <2>2, <2>3, <2>4, WorkerKinds
<1> QED
  BY <1>1, <1>2, <1>3, <1>4, <1>5 DEF Next, Terminated

(***************************************************************************)
(* The scheduler implements Dataflow, for graphs without parallel edges:   *)
(* nodes complete once and only after a completed node released them, a    *)
(* run reports success exactly when every released node has completed, and *)
(* nothing completes or is released once run() has come back.              *)
(***************************************************************************)
THEOREM RefinesDataflow ==
  ASSUME SimpleGraphs
  PROVE  Spec => ImplementsDataflow
<1>1. Init => Abstract!Init
  BY RefineInit
<1>2. TypeOK /\ CountInv /\ FlowInv /\ DoneInv /\ OnceInv /\ UndoneInv /\ [Next]_vars
        => [Abstract!Next]_(Abstract!vars)
  BY RefineStep
<1> QED
  BY <1>1, <1>2, TypeCorrect, CountInvariant, FlowInvariant, DoneInvariant, OnceInvariant,
     UndoneInvariant, PTL
  DEF Spec, ImplementsDataflow, Abstract!Spec
-----------------------------------------------------------------------------
(* An AND join over siblings.                                              *)

(***************************************************************************)
(* What is activated was activated by a predecessor that has chosen, and   *)
(* of an activated join over siblings no activated predecessor is missing: *)
(* all were activated in one step, before the first of them chose.         *)
(***************************************************************************)
JoinInv ==
  /\ \A n \in activated : \E t \in DOMAIN tasks :
       HasChosen(t) /\ tasks[t].node \in Predecessors(graph, n)
  /\ \A n \in activated : RequiresAll(graph, n) /\ SiblingPredecessors(n) =>
       Predecessors(graph, n) \cap activated \subseteq done

(* Steps other than choosing. *)
LEMMA JoinKept ==
  ASSUME JoinInv, graph' = graph, done \subseteq done', activated' = activated,
         DOMAIN tasks \subseteq DOMAIN tasks',
         \A u \in DOMAIN tasks : /\ tasks'[u].node = tasks[u].node
                                 /\ HasChosen(u) => HasChosen(u)'
  PROVE  JoinInv'
BY DEF JoinInv, SiblingPredecessors

(* A node with a task that has a predecessor was activated by one that chose. *)
LEMMA ActivatedByPredecessor ==
  ASSUME TypeOK, OnceInv, JoinInv, NEW t \in DOMAIN tasks, NEW p,
         p \in Predecessors(graph, tasks[t].node)
  PROVE  \E u \in DOMAIN tasks :
           HasChosen(u) /\ tasks[u].node \in Predecessors(graph, tasks[t].node)
<1>1. IsGraph(graph) /\ HasStart(graph) /\ entry = GetStart(graph)
  BY SchedulerAssumption DEF OnceInv
<1>2. Predecessors(graph, entry) = {}
  BY <1>1, StartIsSource DEF Predecessors, Target
<1>3. tasks[t].node \in activated
  BY <1>2 DEF OnceInv
<1> QED BY <1>3 DEF JoinInv

LEMMA JoinNextNodes ==
  ASSUME TypeOK, FlowInv, OnceInv, JoinInv, NEW t \in DOMAIN tasks, NextNodes(t)
  PROVE  JoinInv'
<1> DEFINE out == Selected(tasks[t].node, tasks[t].branch)
           S   == {Target(graph, i) : i \in out}
           m   == tasks[t].node
<1>1. /\ DOMAIN tasks' = DOMAIN tasks
      /\ \A u \in DOMAIN tasks : tasks'[u].node = tasks[u].node
      /\ \A u \in DOMAIN tasks : u # t => tasks'[u] = tasks[u]
      /\ tasks[t].pc = "done" /\ tasks'[t].pc = "acquiring"
      /\ activated' = activated \cup S
      /\ UNCHANGED <<graph, done>>
  BY ChoosingStep
<1>2. ~HasChosen(t) /\ HasChosen(t)'
  BY <1>1 DEF HasChosen
<1>3. \A u \in DOMAIN tasks : HasChosen(u) => HasChosen(u)'
  BY <1>1, <1>2 DEF HasChosen
<1>4. \A n \in S : m \in Predecessors(graph, n) /\ Ready(n)
  BY DEF Selected, Routed, OutEdges, Predecessors, Target
<1> HIDE DEF out, S
<1>5. \A n \in activated' : \E u \in DOMAIN tasks' :
        HasChosen(u)' /\ tasks'[u].node \in Predecessors(graph', n)
  BY <1>1, <1>2, <1>3, <1>4 DEF JoinInv
\* No task of this node has chosen yet.
<1>6. ASSUME NEW u \in DOMAIN tasks, tasks[u].node = m PROVE ~HasChosen(u)
  BY <1>2, <1>6 DEF OnceInv, AtMostOnce
\* A predecessor that is activated now makes this node the only one of the siblings'.
<1>7. ASSUME NEW n \in activated', RequiresAll(graph, n), SiblingPredecessors(n),
             NEW q \in Predecessors(graph, n) \cap activated'
      PROVE  q \in done
  <2>1. PICK p \in graph.nodes : \A x \in Predecessors(graph, n) : Predecessors(graph, x) = {p}
    BY <1>7 DEF SiblingPredecessors
  <2>2. CASE q \in S
    <3>1. p = m
      BY <1>4, <2>1, <2>2
    \* A predecessor of n with a task was activated by this node, which has not chosen.
    <3>2. ASSUME NEW u \in DOMAIN tasks, tasks[u].node \in Predecessors(graph, n) PROVE FALSE
      <4>1. Predecessors(graph, tasks[u].node) = {m}
        BY <2>1, <3>1, <3>2
      <4>2. PICK v \in DOMAIN tasks : HasChosen(v) /\ tasks[v].node \in {m}
        BY <4>1, ActivatedByPredecessor
      <4> QED BY <1>6, <4>2
    <3>3. CASE n \in S
      BY <1>4, <3>2, <3>3
    <3>4. CASE n \in activated
      BY <3>2, <3>4 DEF JoinInv
    <3> QED BY <1>1, <3>3, <3>4
  <2>3. CASE q \in activated
    <3>1. CASE n \in S
      BY <1>4, <1>7, <2>3, <3>1 DEF Ready
    <3>2. CASE n \in activated
      BY <1>7, <2>3, <3>2 DEF JoinInv
    <3> QED BY <1>1, <3>1, <3>2
  <2> QED BY <1>1, <2>2, <2>3
<1>8. \A n \in activated' : RequiresAll(graph, n) /\ SiblingPredecessors(n) =>
        Predecessors(graph, n) \cap activated' \subseteq done
  BY <1>7
<1> QED
  BY <1>1, <1>5, <1>8 DEF JoinInv, SiblingPredecessors

LEMMA JoinInvariant ==
  ASSUME SimpleGraphs
  PROVE  Spec => []JoinInv
<1>1. Init => JoinInv
  BY DEF Init, JoinInv
<1>2. TypeOK /\ CountInv /\ FlowInv /\ OnceInv /\ JoinInv /\ [Next]_vars => JoinInv'
  <2> SUFFICES ASSUME TypeOK, CountInv, FlowInv, OnceInv, JoinInv, [Next]_vars PROVE JoinInv'
    OBVIOUS
  <2>1. CASE Run
    <3>1. activated' = {}
      BY <2>1 DEF Run, Launch
    <3> QED BY <3>1 DEF JoinInv
  <2>2. CASE Wake \/ Join \/ Terminated \/ UNCHANGED vars
    <3>1. UNCHANGED <<graph, tasks, done, activated>>
      BY <2>2 DEF Wake, Join, Terminated, vars, request, pool, scope
    <3> QED BY <3>1, JoinKept DEF HasChosen
  <2>3. ASSUME NEW t \in DOMAIN tasks, Worker(t) PROVE JoinInv'
    <3>1. CASE KeepsTasks /\ (Passes \/ Aborts(t) \/ Marks(t))
      <4>1. done \subseteq done'
        BY <3>1 DEF Passes, Aborts, Marks
      <4> QED BY <3>1, <4>1, JoinKept DEF KeepsTasks
    <3>2. CASE NextNodes(t)
      BY <3>2, JoinNextNodes
    <3>3. ASSUME caller = "waiting", NEW i \in tasks[t].nxt, Submit(t, i)
          PROVE  JoinInv'
      <4> DEFINE k == Len(tasks) + 1
      <4>1. /\ DOMAIN tasks' = (DOMAIN tasks) \cup {k}
            /\ \A u \in DOMAIN tasks : /\ tasks'[u].node = tasks[u].node
                                       /\ u # t => tasks'[u] = tasks[u]
            /\ tasks'[t].pc \in {"submitting", "finished"}
            /\ UNCHANGED <<graph, done, activated>>
        BY <3>3, SubmittingStep
      <4> HIDE DEF k
      <4>2. \A u \in DOMAIN tasks : HasChosen(u) => HasChosen(u)'
        BY <4>1 DEF HasChosen
      <4> QED BY <4>1, <4>2, JoinKept
    <3> QED BY <2>3, <3>1, <3>2, <3>3, WorkerKinds
  <2> QED
    BY <2>1, <2>2, <2>3 DEF Next
<1> QED
  BY <1>1, <1>2, TypeCorrect, CountInvariant, FlowInvariant, OnceInvariant, PTL DEF Spec

(***************************************************************************)
(* "AND: every activated predecessor is done" (_ready), kept from the      *)
(* moment a join is chosen to the moment it executes, for joins whose      *)
(* predecessors are siblings.                                              *)
(***************************************************************************)
THEOREM JoinsWait ==
  ASSUME SimpleGraphs
  PROVE  Spec => []JoinWaitsForSiblings
<1>1. TypeOK /\ OnceInv /\ JoinInv => JoinWaitsForSiblings
  <2> SUFFICES ASSUME TypeOK, OnceInv, JoinInv, NEW t \in DOMAIN tasks,
                      RequiresAll(graph, tasks[t].node), SiblingPredecessors(tasks[t].node),
                      NEW q \in Predecessors(graph, tasks[t].node) \cap activated
               PROVE  q \in done
    BY DEF JoinWaitsForSiblings
  <2>1. IsGraph(graph) /\ HasStart(graph) /\ entry = GetStart(graph)
    BY SchedulerAssumption DEF OnceInv
  <2>2. Predecessors(graph, entry) = {}
    BY <2>1, StartIsSource DEF Predecessors, Target
  <2>3. tasks[t].node \in activated
    BY <2>2 DEF OnceInv
  <2> QED BY <2>3 DEF JoinInv
<1> QED
  BY <1>1, TypeCorrect, OnceInvariant, JoinInvariant, PTL

-----------------------------------------------------------------------------
(* run() comes back: until it has, something can go on, and not for ever.  *)

\* The next step of task t is open, and it has a worker or one is free for it.
CanStep(t) ==
  \/ At(t, "queued") /\ t = started + 1 /\ Cardinality(Busy) < PoolSize
  \/ /\ At(t, "running")
     /\ LET n == tasks[t].node
        IN  \/ n \in MayFail \/ n \notin graph.nodes
            \/ graph.type[n] = "form-node" /\ ~submitted
            \/ \E br \in Branches(n) : graph.type[n] = "form-node" => submitted
  \/ At(t, "executed") \/ At(t, "done")
  \/ /\ At(t, "acquiring")
     /\ tasks[t].todo # {} => \E i \in tasks[t].todo : \A j \in tasks[t].todo : i <= j
  \/ At(t, "submitting") /\ \E i \in tasks[t].nxt : \A j \in tasks[t].nxt : i <= j

CanGoOn ==
  \/ caller = "idle"
  \/ caller = "waiting" /\ idle
  \/ caller = "shutdown" /\ Drained
  \/ \E t \in DOMAIN tasks : CanStep(t)

NeverStuck == caller \notin {"returned", "raised"} => CanGoOn

(***************************************************************************)
(* What a run may still do: the steps of a task at the entry or behind an  *)
(* edge, except those its task has passed, and the calls of run() itself.  *)
(***************************************************************************)
Places == {entry} \cup {Target(graph, i) : i \in DOMAIN graph.edges}

StepNames == ({"start", "execute", "mark", "choose", "release"} \X {0})
             \cup ({"acquire", "submit"} \X DOMAIN graph.edges)

Unchosen == {"queued", "running", "executed", "done"}

StepsLeft(task) ==
  {x \in StepNames :
     \/ x[1] = "start" /\ task.pc = "queued"
     \/ x[1] = "execute" /\ task.pc \in {"queued", "running"}
     \/ x[1] = "mark" /\ task.pc \in {"queued", "running", "executed"}
     \/ x[1] = "choose" /\ task.pc \in Unchosen
     \/ x[1] = "release" /\ task.pc \in Unreleased
     \/ x[1] = "acquire" /\ (task.pc \in Unchosen \/ x[2] \in task.todo)
     \/ x[1] = "submit" /\ \/ task.pc \in Unchosen
                           \/ task.pc \in {"acquiring", "submitting"} /\ x[2] \in task.nxt}

CallsLeft ==
  {call \in {"run", "wake", "join"} :
     \/ caller = "idle"
     \/ caller = "waiting" /\ call # "run"
     \/ caller = "shutdown" /\ call = "join"}

Remaining ==
  {x \in Places \X StepNames :
     \A t \in DOMAIN tasks : tasks[t].node = x[1] => x[2] \in StepsLeft(tasks[t])}
  \cup ({NoNode} \X (CallsLeft \X {0}))

UsesUp == Remaining' \subseteq Remaining /\ Remaining' # Remaining

(***************************************************************************)
(* The inductive invariant: workers take the tasks in order, and as long   *)
(* as run() is not to be woken there is no error and something is pending. *)
(***************************************************************************)
WakeInv ==
  /\ \A t \in DOMAIN tasks : tasks[t].pc = "queued" <=> t > started
  /\ \A t \in DOMAIN tasks : tasks[t].node \in Places
  /\ caller # "idle" /\ ~idle => error = NoError /\ pending # 0

(* A task of some record with fewer steps before it. *)
LEMMA LeftShrinks ==
  ASSUME TypeOK, NEW task \in Task, NEW r \in Task, task.pc \notin Over,
         task.pc = "queued" => r.pc \in {"running", "aborted"},
         task.pc = "running" => r.pc \in {"executed", "aborted"},
         task.pc = "executed" => r.pc = "done",
         task.pc = "done" => r.pc = "acquiring",
         task.pc = "acquiring" => \/ r.pc \in {"finished", "submitting"}
                                  \/ r.pc = "acquiring" /\ r.todo # task.todo,
         task.pc = "submitting" => \/ r.pc \in {"finished", "rejected"}
                                   \/ r.pc = "submitting" /\ r.nxt # task.nxt,
         task.pc = "submitting" => task.nxt # {},
         task.pc \in Unchosen \/ (r.nxt \subseteq task.nxt /\ r.todo \subseteq task.todo),
         task.nxt \subseteq DOMAIN graph.edges, task.todo \subseteq task.nxt,
         r.pc # "acquiring" => r.todo = {}
  PROVE  StepsLeft(r) \subseteq StepsLeft(task) /\ StepsLeft(r) # StepsLeft(task)
<1>1. task.pc \in Phases /\ r.pc \in Phases
  BY DEF Task
<1>2. StepsLeft(r) \subseteq StepsLeft(task)
  BY <1>1 DEF StepsLeft, Unchosen, Unreleased, Phases, Over
<1>3. \A x \in {"start", "execute", "mark", "choose", "release"} : <<x, 0>> \in StepNames
  BY DEF StepNames
<1>4. \A i \in DOMAIN graph.edges : <<"acquire", i>> \in StepNames /\ <<"submit", i>> \in StepNames
  BY DEF StepNames
<1>5. CASE task.pc \in {"queued", "running", "executed", "done"}
  BY <1>1, <1>3, <1>5 DEF StepsLeft, Unchosen, Unreleased
<1>6. CASE task.pc = "acquiring" /\ r.pc # "acquiring"
  <2> DEFINE x == <<"release", 0>>
  <2>1. x \in StepNames /\ x[1] = "release"
    BY <1>3
  <2> HIDE DEF x
  <2>2. x \in StepsLeft(task)
    BY <1>6, <2>1 DEF StepsLeft, Unreleased
  <2>3. x \notin StepsLeft(r)
    BY <1>6, <2>1 DEF StepsLeft, Unreleased
  <2> QED BY <1>2, <2>2, <2>3
<1>7. CASE task.pc = "acquiring" /\ r.pc = "acquiring"
  <2>1. PICK i \in task.todo : i \notin r.todo
    BY <1>7 DEF Unchosen
  <2> DEFINE x == <<"acquire", i>>
  <2>2. x \in StepNames /\ x[1] = "acquire" /\ x[2] = i
    BY <1>4, <2>1
  <2> HIDE DEF x
  <2>3. x \in StepsLeft(task)
    BY <2>1, <2>2 DEF StepsLeft
  <2>4. x \notin StepsLeft(r)
    BY <1>7, <2>1, <2>2 DEF StepsLeft, Unchosen
  <2> QED BY <1>2, <2>3, <2>4
<1>8. CASE task.pc = "submitting"
  <2>1. PICK i \in task.nxt : r.pc = "submitting" => i \notin r.nxt
    BY <1>8 DEF Unchosen
  <2> DEFINE x == <<"submit", i>>
  <2>2. x \in StepNames /\ x[1] = "submit" /\ x[2] = i
    BY <1>4, <2>1
  <2> HIDE DEF x
  <2>3. x \in StepsLeft(task)
    BY <1>8, <2>1, <2>2 DEF StepsLeft
  <2>4. x \notin StepsLeft(r)
    BY <1>8, <2>1, <2>2 DEF StepsLeft, Unchosen
  <2> QED BY <1>2, <2>3, <2>4
<1> QED
  BY <1>1, <1>2, <1>5, <1>6, <1>7, <1>8 DEF Phases, Over

(* What a step of a worker does to its task, and to the others. *)
Advances(t, r) ==
  /\ DOMAIN tasks \subseteq DOMAIN tasks'
  /\ tasks'[t] = r
  /\ \A u \in DOMAIN tasks : u # t => tasks'[u] = tasks[u]
  /\ r.node = tasks[t].node
  /\ StepsLeft(r) \subseteq StepsLeft(tasks[t]) /\ StepsLeft(r) # StepsLeft(tasks[t])
  /\ r.pc # "queued"
  /\ \/ tasks[t].pc # "queued" /\ started' = started
     \/ tasks[t].pc = "queued" /\ t = started + 1 /\ started' = t
  /\ \A u \in DOMAIN tasks' : u \notin DOMAIN tasks =>
       /\ u > Len(tasks)
       /\ tasks'[u].pc = "queued"
       /\ \E i \in DOMAIN graph.edges : tasks'[u].node = Target(graph, i)
  /\ UNCHANGED <<graph, entry, caller>>

LEMMA WorkerAdvances ==
  ASSUME TypeOK, TypeOK', CountInv, NEW t \in DOMAIN tasks, Worker(t)
  PROVE  \E r : Advances(t, r)
<1> DEFINE task == tasks[t]
<1>0. /\ task \in Task /\ task.nxt \subseteq DOMAIN graph.edges /\ task.todo \subseteq task.nxt
      /\ (task.todo # {} => task.pc = "acquiring")
      /\ Chosen(task)
  BY TaskType DEF CountInv
<1>1. UNCHANGED <<graph, entry, caller>>
  BY DEF Worker, Start, Execute, Interrupt, Fail, MarkDone, NextNodes, Acquire, ReleaseSelf,
         Submit, request
<1>2. ASSUME NEW r \in Task, Become(t, r), r.node = task.node,
             StepsLeft(r) \subseteq StepsLeft(task), StepsLeft(r) # StepsLeft(task), r.pc # "queued",
             \/ task.pc # "queued" /\ started' = started
             \/ task.pc = "queued" /\ t = started + 1 /\ started' = t
      PROVE  Advances(t, r)
  <2>1. DOMAIN tasks' = DOMAIN tasks
        /\ \A u \in DOMAIN tasks : tasks'[u] = IF u = t THEN r ELSE tasks[u]
    BY <1>2, BecomeTasks
  <2>2. tasks'[t] = r /\ \A u \in DOMAIN tasks : u # t => tasks'[u] = tasks[u]
    BY <2>1
  <2> QED BY <1>1, <1>2, <2>1, <2>2 DEF Advances
<1>3. ASSUME NEW p \in Phases, Become(t, [task EXCEPT !.pc = p]),
             \/ /\ Start(t) \/ Interrupt(t) \/ Fail(t) \/ MarkDone(t)
                /\ task.pc = "queued" => p \in {"running", "aborted"}
                /\ task.pc = "running" => p = "aborted"
                /\ task.pc = "executed" => p = "done"
                /\ task.pc \in {"queued", "running", "executed"}
             \/ task.pc = "acquiring" /\ task.todo = {} /\ p \in {"finished", "submitting"}
             \/ task.pc = "submitting" /\ p = "rejected",
             \/ task.pc # "queued" /\ started' = started
             \/ task.pc = "queued" /\ t = started + 1 /\ started' = t
      PROVE  \E r : Advances(t, r)
  <2> DEFINE r == [task EXCEPT !.pc = p]
  <2>1. r \in Task /\ r.pc = p /\ r.nxt = task.nxt /\ r.todo = task.todo /\ r.node = task.node
    BY <1>0, PhaseTask
  <2>2. Become(t, r)
    BY <1>3
  <2> HIDE DEF r, task
  <2>3. StepsLeft(r) \subseteq StepsLeft(task) /\ StepsLeft(r) # StepsLeft(task)
    BY <1>0, <1>3, <2>1, LeftShrinks DEF Over, Unchosen, Chosen
  <2>4. r.pc # "queued"
    BY <1>3, <2>1
  <2> QED BY <1>2, <1>3, <2>1, <2>2, <2>3, <2>4
<1>4. CASE Start(t)
  <2>1. task.pc = "queued" /\ t = started + 1 /\ started' = t
    BY <1>4 DEF Start, At
  <2>2. PICK p \in {"running", "aborted"} : Become(t, [task EXCEPT !.pc = p])
    BY <1>4 DEF Start
  <2>3. p \in Phases
    BY DEF Phases
  <2> QED BY <1>3, <1>4, <2>1, <2>2, <2>3
<1>5. CASE Interrupt(t) \/ Fail(t)
  <2>1. task.pc = "running" /\ started' = started /\ Become(t, [task EXCEPT !.pc = "aborted"])
    BY <1>5 DEF Interrupt, Fail, At
  <2>2. "aborted" \in Phases
    BY DEF Phases
  <2> QED BY <1>3, <1>5, <2>1, <2>2
<1>6. CASE MarkDone(t)
  <2>1. task.pc = "executed" /\ started' = started /\ Become(t, [task EXCEPT !.pc = "done"])
    BY <1>6 DEF MarkDone, At
  <2>2. "done" \in Phases
    BY DEF Phases
  <2> QED BY <1>3, <1>6, <2>1, <2>2
<1>7. ASSUME NEW b \in Branch \cup {NoBranch}, Execute(t, b) PROVE \E r : Advances(t, r)
  <2> DEFINE r == [task EXCEPT !.pc = "executed", !.branch = b]
  <2>1. task.pc = "running" /\ started' = started /\ Become(t, r)
    BY <1>7 DEF Execute, At
  <2>2. r \in Task /\ r.pc = "executed" /\ r.nxt = task.nxt /\ r.todo = task.todo
        /\ r.node = task.node
    BY <1>0 DEF Task, Phases
  <2> HIDE DEF r, task
  <2>3. StepsLeft(r) \subseteq StepsLeft(task) /\ StepsLeft(r) # StepsLeft(task)
    BY <1>0, <2>1, <2>2, LeftShrinks DEF Over, Unchosen
  <2> QED BY <1>2, <2>1, <2>2, <2>3
<1>8. CASE NextNodes(t)
  <2> DEFINE out == Selected(task.node, task.branch)
             r   == [task EXCEPT !.pc = "acquiring", !.todo = out, !.nxt = out]
  <2>1. task.pc = "done" /\ started' = started /\ Become(t, r)
    BY <1>8 DEF NextNodes, At
  <2>2. out \subseteq Nat
    BY DEF Selected, Routed, OutEdges, TypeOK, IsGraph
  <2>3. r \in Task /\ r.pc = "acquiring" /\ r.node = task.node
    BY <1>0, <2>2 DEF Task, Phases
  <2> HIDE DEF r, task
  <2>4. StepsLeft(r) \subseteq StepsLeft(task) /\ StepsLeft(r) # StepsLeft(task)
    BY <1>0, <2>1, <2>3, LeftShrinks DEF Over, Unchosen
  <2> QED BY <1>2, <2>1, <2>3, <2>4
<1>9. ASSUME NEW i \in task.todo, Acquire(t, i) PROVE \E r : Advances(t, r)
  <2> DEFINE r == [task EXCEPT !.todo = task.todo \ {i}]
  <2>1. task.pc = "acquiring" /\ started' = started /\ Become(t, r)
    BY <1>9 DEF Acquire, At
  <2>2. r \in Task /\ r.pc = "acquiring" /\ r.nxt = task.nxt /\ r.todo = task.todo \ {i}
        /\ r.node = task.node
    BY <1>0, <2>1 DEF Task
  <2> HIDE DEF r, task
  <2>3. r.todo # task.todo /\ r.todo \subseteq task.todo
    BY <1>9, <2>2
  <2>4. StepsLeft(r) \subseteq StepsLeft(task) /\ StepsLeft(r) # StepsLeft(task)
    BY <1>0, <2>1, <2>2, <2>3, LeftShrinks DEF Over, Unchosen
  <2> QED BY <1>2, <2>1, <2>2, <2>4
<1>10. CASE ReleaseSelf(t)
  <2>1. task.pc = "acquiring" /\ task.todo = {} /\ started' = started
    BY <1>10 DEF ReleaseSelf, At
  <2>2. PICK p \in {"finished", "submitting"} : Become(t, [task EXCEPT !.pc = p])
    BY <1>10 DEF ReleaseSelf
  <2>3. p \in Phases
    BY DEF Phases
  <2> QED BY <1>3, <2>1, <2>2, <2>3
<1>11. ASSUME NEW i \in task.nxt, Submit(t, i), caller # "waiting" PROVE \E r : Advances(t, r)
  <2>1. task.pc = "submitting" /\ started' = started /\ Become(t, [task EXCEPT !.pc = "rejected"])
    BY <1>11 DEF Submit, At
  <2>2. "rejected" \in Phases
    BY DEF Phases
  <2> QED BY <1>3, <2>1, <2>2
<1>12. ASSUME NEW i \in task.nxt, Submit(t, i), caller = "waiting" PROVE \E r : Advances(t, r)
  <2> DEFINE r == tasks'[t]
             k == Len(tasks) + 1
  <2>1. /\ DOMAIN tasks' = (DOMAIN tasks) \cup {k}
        /\ \A u \in DOMAIN tasks : /\ tasks'[u].node = tasks[u].node
                                   /\ u # t => tasks'[u] = tasks[u]
        /\ task.pc = "submitting" /\ r.pc \in {"submitting", "finished"}
        /\ r.nxt = task.nxt \ {i}
        /\ tasks'[k].node = Target(graph, i) /\ tasks'[k].pc = "queued"
    BY <1>12, SubmittingStep
  <2>2. r \in Task /\ (r.todo # {} => r.pc = "acquiring")
    BY <2>1 DEF TypeOK
  <2>3. started' = started /\ k > Len(tasks)
    <3>1. tasks \in Seq(Task)
      BY DEF TypeOK
    <3>2. Len(tasks) \in Nat
      BY <3>1
    <3>3. started' = started
      BY <1>12 DEF Submit
    <3> QED BY <3>2, <3>3
  <2>4. r.node = task.node
    BY <2>1
  <2> HIDE DEF r, task, k
  <2>5. r.nxt # task.nxt /\ r.nxt \subseteq task.nxt /\ task.nxt # {}
    BY <1>12, <2>1
  <2>6. StepsLeft(r) \subseteq StepsLeft(task) /\ StepsLeft(r) # StepsLeft(task)
    BY <1>0, <2>1, <2>2, <2>5, LeftShrinks DEF Over, Unchosen
  <2>7. i \in DOMAIN graph.edges
    BY <1>0, <1>12
  <2> QED BY <1>1, <2>1, <2>3, <2>4, <2>6, <2>7 DEF Advances, r, task, k
<1> QED
  BY <1>4, <1>5, <1>6, <1>7, <1>8, <1>9, <1>10, <1>11, <1>12 DEF Worker
LEMMA PairsFinite == \A x, y : IsFiniteSet({x, y})
<1> SUFFICES ASSUME NEW x, NEW y PROVE IsFiniteSet({x, y})
  OBVIOUS
<1>1. IsFiniteSet({x} \cup {y})
  BY FS_Singleton, FS_Union
<1>2. {x} \cup {y} = {x, y}
  OBVIOUS
<1> QED BY <1>1, <1>2

(* What is left is among the steps of the graph. *)
LEMMA PlacesFinite ==
  ASSUME TypeOK
  PROVE  IsFiniteSet(Remaining)
<1>1. IsFiniteSet(DOMAIN graph.edges)
  <2>1. graph.edges \in Seq(Edge)
    BY DEF TypeOK, IsGraph
  <2>2. Len(graph.edges) \in Nat /\ DOMAIN graph.edges = 1 .. Len(graph.edges)
    BY <2>1
  <2>3. IsFiniteSet(1 .. Len(graph.edges))
    BY <2>2, FS_Interval
  <2> QED BY <2>2, <2>3
<1>2. IsFiniteSet(StepNames)
  <2>1. /\ IsFiniteSet({"start", "execute", "mark", "choose", "release"})
        /\ IsFiniteSet({0}) /\ IsFiniteSet({"acquire", "submit"})
    <3>1. IsFiniteSet({"acquire", "submit"}) /\ IsFiniteSet({0}) /\ IsFiniteSet({"start", "execute"})
      BY PairsFinite, FS_Singleton
    <3>2. IsFiniteSet({"mark", "choose"}) /\ IsFiniteSet({"release"})
      BY PairsFinite, FS_Singleton
    <3>3. IsFiniteSet({"start", "execute"} \cup {"mark", "choose"})
      BY <3>1, <3>2, FS_Union
    <3>4. IsFiniteSet(({"start", "execute"} \cup {"mark", "choose"}) \cup {"release"})
      BY <3>2, <3>3, FS_Union
    <3>5. {"start", "execute", "mark", "choose", "release"}
            = ({"start", "execute"} \cup {"mark", "choose"}) \cup {"release"}
      OBVIOUS
    <3> QED BY <3>1, <3>4, <3>5
  <2> QED BY <1>1, <2>1, FS_Product, FS_Union DEF StepNames
<1>3. IsFiniteSet(Places)
  <2> DEFINE F == {Target(graph, i) : i \in DOMAIN graph.edges}
             g == [i \in DOMAIN graph.edges |-> Target(graph, i)]
  <2>1. IsFiniteSet(F)
    <3>1. g \in Surjection(DOMAIN graph.edges, F)
      BY DEF Surjection
    <3> QED BY <1>1, <3>1, FS_Surjection
  <2>2. IsFiniteSet({entry})
    BY FS_Singleton
  <2> QED BY <2>1, <2>2, FS_Union DEF Places
<1>4. IsFiniteSet({NoNode} \X ({"run", "wake", "join"} \X {0}))
  <2>1. \A x : IsFiniteSet({x})
    BY FS_Singleton
  <2>3. IsFiniteSet({"run", "wake", "join"})
    <3>1. IsFiniteSet({"run", "wake"} \cup {"join"})
      BY PairsFinite, FS_Singleton, FS_Union
    <3>2. {"run", "wake", "join"} = {"run", "wake"} \cup {"join"}
      OBVIOUS
    <3> QED BY <3>1, <3>2
  <2> QED BY <2>1, <2>3, FS_Product
<1>5. IsFiniteSet((Places \X StepNames) \cup ({NoNode} \X ({"run", "wake", "join"} \X {0})))
  BY <1>2, <1>3, <1>4, FS_Product, FS_Union
<1>6. Remaining \subseteq (Places \X StepNames) \cup ({NoNode} \X ({"run", "wake", "join"} \X {0}))
  BY DEF Remaining, CallsLeft
<1> QED BY <1>5, <1>6, FS_Subset

LEMMA WakeWorker ==
  ASSUME TypeOK, TypeOK', CountInv, WakeInv, NEW t \in DOMAIN tasks, Worker(t)
  PROVE  WakeInv'
<1>1. PICK r : Advances(t, r)
  BY WorkerAdvances
<1>2. \A u \in DOMAIN tasks : tasks'[u].node = tasks[u].node
  BY <1>1 DEF Advances
<1>3. Places' = Places
  BY <1>1 DEF Advances, Places, Target
<1>4. ASSUME NEW u \in DOMAIN tasks' PROVE tasks'[u].pc = "queued" <=> u > started'
  <2>1. started \in 0 .. Len(tasks) /\ Len(tasks) \in Nat /\ t \in 1 .. Len(tasks)
    BY DEF TypeOK
  <2>2. u \in Nat
    BY <1>4 DEF TypeOK
  <2>3. CASE u \notin DOMAIN tasks
    <3>1. u > Len(tasks) /\ tasks'[u].pc = "queued" /\ (started' = started \/ started' = t)
      BY <1>1, <2>3 DEF Advances
    <3> QED BY <2>1, <2>2, <3>1
  <2>4. CASE u = t
    <3>1. tasks'[u].pc # "queued"
      BY <1>1, <2>4 DEF Advances
    <3>2. ~(t > started')
      BY <1>1, <2>1 DEF Advances, WakeInv
    <3> QED BY <2>4, <3>1, <3>2
  <2>5. CASE u \in DOMAIN tasks /\ u # t
    <3>1. tasks'[u].pc = "queued" <=> u > started
      BY <1>1, <2>5 DEF Advances, WakeInv
    <3>2. u > started <=> u > started'
      BY <1>1, <2>1, <2>2, <2>5 DEF Advances
    <3> QED BY <3>1, <3>2
  <2> QED BY <2>3, <2>4, <2>5
<1>5. ASSUME NEW u \in DOMAIN tasks' PROVE tasks'[u].node \in Places'
  <2>1. CASE u \in DOMAIN tasks
    BY <1>2, <1>3, <2>1 DEF WakeInv
  <2>2. CASE u \notin DOMAIN tasks
    <3>1. \E i \in DOMAIN graph.edges : tasks'[u].node = Target(graph, i)
      BY <1>1, <2>2 DEF Advances
    <3> QED BY <1>3, <3>1 DEF Places
  <2> QED BY <2>1, <2>2
<1>6. ASSUME caller' # "idle", ~idle' PROVE error' = NoError /\ pending' # 0
  <2>1. caller # "idle" /\ pending \in Int
    BY <1>1, <1>6 DEF Advances, TypeOK
  <2>2. CASE UNCHANGED <<pending, error, idle>>
    BY <1>6, <2>1, <2>2 DEF WakeInv
  <2>3. CASE \E kind \in {"interrupt", "failure", "depth"} : Abort(kind, tasks[t].node)
    BY <1>6, <2>3 DEF Abort
  <2>4. CASE Release
    BY <1>6, <2>1, <2>4 DEF Release, WakeInv
  <2>5. ASSUME NEW i \in tasks[t].todo, Acquire(t, i) PROVE error' = NoError /\ pending' # 0
    <3>1. pending' = pending + 1 /\ error' = error /\ idle' = idle
      BY <2>5 DEF Acquire
    <3>2. error = NoError
      BY <1>6, <2>1, <3>1 DEF WakeInv
    <3>3. pending \in Nat
      BY <2>1, <3>2, TokensFinite DEF CountInv, PendingCounts
    <3> QED BY <3>1, <3>2, <3>3
  <2> QED
    BY <2>2, <2>3, <2>4, <2>5
    DEF Worker, Start, Execute, Interrupt, Fail, MarkDone, NextNodes, ReleaseSelf, Submit, scope
<1> QED
  BY <1>4, <1>5, <1>6 DEF WakeInv

LEMMA WakeInvariant == Spec => []WakeInv
<1>1. Init => WakeInv
  BY DEF Init, WakeInv
<1>2. TypeOK /\ TypeOK' /\ CountInv /\ WakeInv /\ [Next]_vars => WakeInv'
  <2> SUFFICES ASSUME TypeOK, TypeOK', CountInv, WakeInv, [Next]_vars PROVE WakeInv'
    OBVIOUS
  <2>1. CASE Run
    <3> DEFINE new == NewTask(entry, 0)
    <3>1. tasks' = <<new>> /\ started' = 0 /\ pending' = 1 /\ error' = NoError /\ entry' = entry
      BY <2>1 DEF Run, Launch, request
    <3>2. new.pc = "queued" /\ new.node = entry
      BY NewTaskType DEF TypeOK
    <3> HIDE DEF new
    <3>3. DOMAIN tasks' = {1} /\ tasks'[1] = new
      BY <3>1
    <3> QED BY <3>1, <3>2, <3>3 DEF WakeInv, Places
  <2>2. CASE Wake \/ Join \/ Terminated \/ UNCHANGED vars
    <3>1. UNCHANGED <<graph, entry, tasks, started, pending, error, idle>>
          /\ (caller' # "idle" => caller # "idle")
      BY <2>2 DEF Wake, Join, Terminated, vars, request, pool, scope
    <3> QED BY <3>1 DEF WakeInv, Places, Target
  <2>3. ASSUME NEW t \in DOMAIN tasks, Worker(t) PROVE WakeInv'
    BY <2>3, WakeWorker
  <2> QED
    BY <2>1, <2>2, <2>3 DEF Next
<1> QED
  BY <1>1, <1>2, TypeCorrect, CountInvariant, PTL DEF Spec

(* A task that is not over, when none is with a worker, is in the queue. *)
LEMMA WorkerCanGoOn ==
  ASSUME Branch # {}, TypeOK, CountInv, WakeInv, ~Drained
  PROVE  \E t \in DOMAIN tasks : CanStep(t)
<1>1. ASSUME NEW S \in SUBSET Nat, S # {} PROVE \E i \in S : \A j \in S : i <= j
  <2>1. PICK i \in S : \A j \in S : ~(j < i)
    BY <1>1, LeastNumber
  <2>2. \A j \in S : i <= j
    BY <1>1, <2>1
  <2> QED BY <2>2
<1>2. CASE Busy # {}
  <2>1. PICK t \in Busy : TRUE
    BY <1>2
  <2>2. t \in DOMAIN tasks /\ t <= started /\ tasks[t].pc \notin Over
    BY <2>1 DEF Busy, TypeOK
  <2>3. tasks[t].pc \in Phases \ {"queued"} /\ Chosen(tasks[t])
        /\ tasks[t].todo \in SUBSET Nat /\ tasks[t].nxt \in SUBSET Nat
    BY <2>2, TaskType DEF WakeInv, CountInv, TypeOK
  <2>4. CASE tasks[t].pc = "running"
    <3>1. graph.nodes \subseteq Node /\ submitted \in BOOLEAN
      BY DEF TypeOK, IsGraph
    <3>2. Branches(tasks[t].node) # {}
      BY DEF Branches
    <3> QED BY <2>2, <2>4, <3>1, <3>2 DEF CanStep, At
  <2>5. CASE tasks[t].pc \in {"executed", "done"}
    BY <2>2, <2>5 DEF CanStep, At
  <2>6. CASE tasks[t].pc = "acquiring"
    <3>1. tasks[t].todo # {} => \E i \in tasks[t].todo : \A j \in tasks[t].todo : i <= j
      BY <1>1, <2>3
    <3> QED BY <2>2, <2>6, <3>1 DEF CanStep, At
  <2>7. CASE tasks[t].pc = "submitting"
    <3>1. \E i \in tasks[t].nxt : \A j \in tasks[t].nxt : i <= j
      BY <1>1, <2>3, <2>7 DEF Chosen
    <3> QED BY <2>2, <2>7, <3>1 DEF CanStep, At
  <2> QED BY <2>2, <2>3, <2>4, <2>5, <2>6, <2>7 DEF Phases, Over
<1>3. CASE Busy = {}
  <2>1. PICK u \in DOMAIN tasks : tasks[u].pc \notin Over
    BY DEF Drained
  <2>2. started \in 0 .. Len(tasks) /\ Len(tasks) \in Nat /\ DOMAIN tasks = 1 .. Len(tasks)
    BY DEF TypeOK
  <2>3. u > started
    BY <1>3, <2>1, <2>2 DEF Busy
  <2>4. started + 1 \in DOMAIN tasks /\ started + 1 > started
    BY <2>2, <2>3
  <2>5. tasks[started + 1].pc = "queued"
    BY <2>4 DEF WakeInv
  <2>6. Cardinality(Busy) < PoolSize
    BY <1>3, FS_EmptySet, SchedulerAssumption
  <2> QED BY <2>4, <2>5, <2>6 DEF CanStep, At
<1> QED BY <1>2, <1>3

(***************************************************************************)
(* No wake-up is lost, whatever fails, is interrupted or runs beside each  *)
(* other (Executor.run, scope.wait): until run() has returned or raised,   *)
(* the thread in it or a worker of the pool can take a step.               *)
(***************************************************************************)
THEOREM RunIsNeverStuck ==
  ASSUME Branch # {}
  PROVE  Spec => []NeverStuck
<1>1. TypeOK /\ CountInv /\ WakeInv => NeverStuck
  <2> SUFFICES ASSUME TypeOK, CountInv, WakeInv, caller \notin {"returned", "raised"}
               PROVE  CanGoOn
    BY DEF NeverStuck
  <2>1. caller \in {"idle", "waiting", "shutdown"}
    BY DEF TypeOK, Callers
  <2>2. CASE ~Drained
    BY <2>2, WorkerCanGoOn DEF CanGoOn
  <2>3. CASE Drained /\ caller = "waiting" /\ ~idle
    <3>1. error = NoError /\ pending # 0
      BY <2>3 DEF WakeInv
    <3>2. Tokens # {}
      BY <2>3, <3>1, FS_EmptySet DEF CountInv, PendingCounts
    <3>3. PICK x \in Tokens : TRUE
      BY <3>2
    <3>4. x[1] \in DOMAIN tasks /\ x[2] \in Owed(tasks[x[1]])
      BY <3>3 DEF Tokens
    <3>5. tasks[x[1]].pc \in Over /\ Chosen(tasks[x[1]]) /\ tasks[x[1]].pc # "rejected"
      BY <2>3, <3>1, <3>4 DEF Drained, CountInv, RefusedOnlyAfterAbort
    <3> QED BY <3>4, <3>5 DEF Owed, Unreleased, Over, Chosen
  <2> QED BY <2>1, <2>2, <2>3 DEF CanGoOn
<1> QED
  BY <1>1, TypeCorrect, CountInvariant, WakeInvariant, PTL

(* What is left after a step that keeps the graph. *)
LEMMA RemainingNext ==
  ASSUME StepNames' = StepNames
  PROVE  Remaining' = {x \in Places' \X StepNames :
                         \A u \in DOMAIN tasks' :
                           tasks'[u].node = x[1] => x[2] \in StepsLeft(tasks'[u])}
                      \cup ({NoNode} \X (CallsLeft' \X {0}))
BY DEF Remaining, StepsLeft

LEMMA WorkerUsesUp ==
  ASSUME TypeOK, TypeOK', CountInv, WakeInv, AtMostOnce, NEW t \in DOMAIN tasks, Worker(t)
  PROVE  UsesUp
<1>1. PICK r : Advances(t, r)
  BY WorkerAdvances
<1>2. Places' = Places /\ StepNames' = StepNames /\ CallsLeft' = CallsLeft
  BY <1>1 DEF Advances, Places, StepNames, CallsLeft, Target
<1>3. Remaining' = {x \in Places \X StepNames :
                      \A u \in DOMAIN tasks' : tasks'[u].node = x[1] => x[2] \in StepsLeft(tasks'[u])}
                   \cup ({NoNode} \X (CallsLeft \X {0}))
  BY <1>2, RemainingNext
<1>4. Remaining' \subseteq Remaining
  <2> SUFFICES ASSUME NEW x \in Places \X StepNames,
                      \A u \in DOMAIN tasks' : tasks'[u].node = x[1] => x[2] \in StepsLeft(tasks'[u]),
                      NEW u \in DOMAIN tasks, tasks[u].node = x[1]
               PROVE  x[2] \in StepsLeft(tasks[u])
    BY <1>3 DEF Remaining
  <2>1. u \in DOMAIN tasks' /\ tasks'[u].node = x[1]
    BY <1>1 DEF Advances
  <2>2. x[2] \in StepsLeft(tasks'[u])
    BY <2>1
  <2> QED BY <1>1, <2>2 DEF Advances
<1>5. Remaining' # Remaining
  <2>1. PICK s \in StepsLeft(tasks[t]) : s \notin StepsLeft(r)
    BY <1>1 DEF Advances
  <2> DEFINE y == <<tasks[t].node, s>>
  <2>2. y \in Remaining
    <3>1. s \in StepNames /\ tasks[t].node \in Places
      BY <2>1 DEF StepsLeft, WakeInv
    <3>2. \A u \in DOMAIN tasks : tasks[u].node = tasks[t].node => u = t
      BY DEF AtMostOnce
    <3> QED BY <2>1, <3>1, <3>2 DEF Remaining
  <2>3. y \notin Remaining'
    <3>1. tasks[t].node \in Node /\ tasks[t].node # NoNode
      BY TaskType, GraphAssumption
    <3>2. t \in DOMAIN tasks' /\ tasks'[t].node = tasks[t].node /\ s \notin StepsLeft(tasks'[t])
      BY <1>1, <2>1 DEF Advances
    <3> QED BY <1>3, <3>1, <3>2
  <2> QED BY <2>2, <2>3
<1> QED BY <1>4, <1>5 DEF UsesUp

(* The calls of run() itself. *)
LEMMA CallerUsesUp ==
  ASSUME TypeOK, CountInv, WakeInv, Run \/ Wake \/ Join
  PROVE  UsesUp
<1>1. Places' = Places /\ StepNames' = StepNames
  BY DEF Run, Wake, Join, Launch, request, Places, StepNames, Target
<1>2. Remaining' = {x \in Places \X StepNames :
                      \A u \in DOMAIN tasks' : tasks'[u].node = x[1] => x[2] \in StepsLeft(tasks'[u])}
                   \cup ({NoNode} \X (CallsLeft' \X {0}))
  BY <1>1, RemainingNext
<1>3. /\ CallsLeft' \subseteq CallsLeft
      /\ \E call \in {"run", "wake", "join"} : call \in CallsLeft /\ call \notin CallsLeft'
  BY DEF CallsLeft, Run, Wake, Join, Launch
<1>4. \A x \in Places \X StepNames : x \in Remaining' => x \in Remaining
  <2>1. CASE Run
    <3>1. DOMAIN tasks = {}
      BY <2>1 DEF Run, CountInv
    <3> QED BY <3>1 DEF Remaining
  <2>2. CASE Wake \/ Join
    <3>1. tasks' = tasks
      BY <2>2 DEF Wake, Join, pool
    <3> QED BY <1>2, <1>3, <3>1 DEF Remaining
  <2> QED BY <2>1, <2>2
<1>5. Remaining' \subseteq Remaining
  BY <1>2, <1>3, <1>4 DEF Remaining
<1>6. Remaining' # Remaining
  <2>1. PICK call \in {"run", "wake", "join"} : call \in CallsLeft /\ call \notin CallsLeft'
    BY <1>3
  <2> DEFINE y == <<NoNode, <<call, 0>>>>
  <2>2. y \in Remaining
    BY <2>1 DEF Remaining
  <2>3. y \notin Remaining'
    <3>1. NoNode \notin Places
      <4>1. Places \subseteq Node
        BY TargetIsNode DEF Places, TypeOK
      <4> QED BY <4>1, GraphAssumption
    <3> QED BY <1>2, <2>1, <3>1
  <2> QED BY <2>2, <2>3
<1> QED BY <1>5, <1>6 DEF UsesUp

(***************************************************************************)
(* A run cannot go on for ever either: there are finitely many steps, and  *)
(* each step takes at least one of them away and brings none back.         *)
(***************************************************************************)
THEOREM RunsAreFinite ==
  ASSUME SimpleGraphs
  PROVE  Spec => []IsFiniteSet(Remaining) /\ [][UsesUp]_vars
<1>1. TypeOK => IsFiniteSet(Remaining)
  BY PlacesFinite
<1>2. TypeOK /\ TypeOK' /\ CountInv /\ WakeInv /\ AtMostOnce /\ [Next]_vars => [UsesUp]_vars
  BY WorkerUsesUp, CallerUsesUp DEF Next, Terminated
<1> QED
  BY <1>1, <1>2, TypeCorrect, CountInvariant, WakeInvariant, RunsOnce, PTL DEF Spec

-----------------------------------------------------------------------------
(***************************************************************************)
(* The service: what it stores of a run and hands to the next one.         *)
(***************************************************************************)

\* The nodes whose result is written but which are not yet in done.
Written == {tasks[t].node : t \in {u \in DOMAIN tasks : tasks[u].pc = "executed"}}

StoreInv == store = done \cup Written

\* run() comes back only after the pool has drained.
EndInv == caller \in {"returned", "raised"} => Drained

RowInv ==
  row # NoRow =>
    /\ row.graph \in Graphs
    /\ row.next \in Node
    /\ row.done \subseteq Node
    /\ row.store = row.done

ServiceInv ==
  /\ TypeOK /\ graph \in Graphs /\ draft \in Graphs
  /\ StoreInv /\ EndInv /\ RowInv

-----------------------------------------------------------------------------
(* A step of the pool.                                                     *)

(* Only a task that is not over takes a step. *)
LEMMA DrainedIsQuiet ==
  ASSUME TypeOK, NEW t \in DOMAIN tasks, Worker(t)
  PROVE  tasks[t].pc \notin Over
BY DEF Worker, Start, Execute, Interrupt, Fail, MarkDone, NextNodes, Acquire,
       ReleaseSelf, Submit, At, Over

(***************************************************************************)
(* A step of task t that neither begins nor ends in "executed" and leaves  *)
(* the other tasks as they are, or appends one, keeps Written.             *)
(***************************************************************************)
LEMMA WrittenKept ==
  ASSUME NEW t \in DOMAIN tasks, DOMAIN tasks \subseteq DOMAIN tasks',
         tasks[t].pc # "executed", tasks'[t].pc # "executed",
         \A u \in DOMAIN tasks \ {t} : tasks'[u] = tasks[u],
         \A u \in DOMAIN tasks' \ DOMAIN tasks : tasks'[u].pc # "executed"
  PROVE  Written' = Written
<1>1. {u \in DOMAIN tasks' : tasks'[u].pc = "executed"}
        = {u \in DOMAIN tasks : tasks[u].pc = "executed"}
  OBVIOUS
<1>2. \A u \in {v \in DOMAIN tasks : tasks[v].pc = "executed"} : tasks'[u] = tasks[u]
  OBVIOUS
<1> QED
  BY <1>1, <1>2 DEF Written

(* The steps that change only the phase and the edges of a task. *)
LEMMA StoreOther ==
  ASSUME TypeOK, StoreInv, NEW t \in DOMAIN tasks, NEW r \in Task, Become(t, r),
         tasks[t].pc # "executed", r.pc # "executed", done' = done, store' = store
  PROVE  StoreInv'
<1>1. /\ DOMAIN tasks' = DOMAIN tasks
      /\ \A u \in DOMAIN tasks : tasks'[u] = IF u = t THEN r ELSE tasks[u]
  BY BecomeTasks
<1>2. Written' = Written
  BY <1>1, WrittenKept
<1> QED
  BY <1>2 DEF StoreInv

LEMMA StoreExecute ==
  ASSUME TypeOK, StoreInv, NEW t \in DOMAIN tasks, NEW b \in Branch \cup {NoBranch},
         Execute(t, b)
  PROVE  StoreInv'
<1> DEFINE r == [tasks[t] EXCEPT !.pc = "executed", !.branch = b]
<1>0. tasks[t] \in Task /\ tasks[t].pc = "running"
  BY TaskType DEF Execute, At
<1>1. r \in Task /\ r.pc = "executed" /\ r.node = tasks[t].node
  BY <1>0 DEF Task, Phases
<1>2. Become(t, r) /\ done' = done /\ store' = store \cup {tasks[t].node}
  BY DEF Execute, scope
<1> HIDE DEF r
<1>3. /\ DOMAIN tasks' = DOMAIN tasks
      /\ \A u \in DOMAIN tasks : tasks'[u] = IF u = t THEN r ELSE tasks[u]
  BY <1>1, <1>2, BecomeTasks
<1>4. Written' = Written \cup {tasks[t].node}
  <2>1. ASSUME NEW n \in Written' PROVE n \in Written \cup {tasks[t].node}
    <3>1. PICK u \in DOMAIN tasks' : tasks'[u].pc = "executed" /\ n = tasks'[u].node
      BY <2>1 DEF Written
    <3>2. CASE u = t
      BY <1>1, <1>3, <3>1, <3>2
    <3>3. CASE u # t
      BY <1>3, <3>1, <3>3 DEF Written
    <3> QED BY <3>2, <3>3
  <2>2. tasks[t].node \in Written'
    <3>1. t \in DOMAIN tasks' /\ tasks'[t].pc = "executed" /\ tasks'[t].node = tasks[t].node
      BY <1>1, <1>3
    <3> QED BY <3>1 DEF Written
  <2>3. ASSUME NEW n \in Written PROVE n \in Written'
    <3>1. PICK u \in DOMAIN tasks : tasks[u].pc = "executed" /\ n = tasks[u].node
      BY <2>3 DEF Written
    <3>2. u # t
      BY <1>0, <3>1
    <3>3. u \in DOMAIN tasks' /\ tasks'[u] = tasks[u]
      BY <1>3, <3>2
    <3> QED BY <3>1, <3>3 DEF Written
  <2> QED BY <2>1, <2>2, <2>3
<1> QED
  BY <1>2, <1>4 DEF StoreInv

LEMMA StoreMarkDone ==
  ASSUME TypeOK, StoreInv, NEW t \in DOMAIN tasks, MarkDone(t)
  PROVE  StoreInv'
<1> DEFINE r == [tasks[t] EXCEPT !.pc = "done"]
<1>0. tasks[t] \in Task /\ tasks[t].pc = "executed"
  BY TaskType DEF MarkDone, At
<1>1. r \in Task /\ r.pc = "done"
  BY <1>0, PhaseTask DEF Phases
<1>2. Become(t, r) /\ done' = done \cup {tasks[t].node} /\ store' = store
  BY DEF MarkDone
<1> HIDE DEF r
<1>3. /\ DOMAIN tasks' = DOMAIN tasks
      /\ \A u \in DOMAIN tasks : tasks'[u] = IF u = t THEN r ELSE tasks[u]
  BY <1>1, <1>2, BecomeTasks
<1>4. Written = Written' \cup {tasks[t].node}
  <2>1. ASSUME NEW n \in Written PROVE n \in Written' \cup {tasks[t].node}
    <3>1. PICK u \in DOMAIN tasks : tasks[u].pc = "executed" /\ n = tasks[u].node
      BY <2>1 DEF Written
    <3>2. CASE u = t
      BY <3>1, <3>2
    <3>3. CASE u # t
      <4>1. u \in DOMAIN tasks' /\ tasks'[u] = tasks[u]
        BY <1>3, <3>3
      <4> QED BY <3>1, <4>1 DEF Written
    <3> QED BY <3>2, <3>3
  <2>2. tasks[t].node \in Written
    BY <1>0 DEF Written
  <2>3. ASSUME NEW n \in Written' PROVE n \in Written
    <3>1. PICK u \in DOMAIN tasks' : tasks'[u].pc = "executed" /\ n = tasks'[u].node
      BY <2>3 DEF Written
    <3>2. u # t
      BY <1>1, <1>3, <3>1
    <3>3. u \in DOMAIN tasks /\ tasks'[u] = tasks[u]
      BY <1>3, <3>2
    <3> QED BY <3>1, <3>3 DEF Written
  <2> QED BY <2>1, <2>2, <2>3
<1> QED
  BY <1>2, <1>4 DEF StoreInv

(* Submitting a successor appends a queued task, or ends this one. *)
LEMMA StoreSubmit ==
  ASSUME TypeOK, StoreInv, NEW t \in DOMAIN tasks, NEW i \in tasks[t].nxt, Submit(t, i)
  PROVE  StoreInv'
<1>0. /\ tasks[t] \in Task /\ tasks[t].pc = "submitting" /\ tasks[t].depth \in Nat
      /\ tasks[t].nxt \subseteq DOMAIN graph.edges /\ tasks[t].nxt \subseteq Nat
  BY TaskType DEF Submit, At
<1>1. done' = done /\ store' = store
  BY DEF Submit, scope
<1>2. CASE caller = "waiting"
  <2> DEFINE rest == tasks[t].nxt \ {i}
             p   == IF rest = {} THEN "finished" ELSE "submitting"
             r   == [tasks[t] EXCEPT !.nxt = rest, !.pc = p]
             new == NewTask(Target(graph, i), tasks[t].depth + 1)
  <2>1. tasks' = Append([tasks EXCEPT ![t] = r], new)
    BY <1>2 DEF Submit
  <2>2. r \in Task /\ r.pc # "executed"
    BY <1>0 DEF Task, Phases
  <2>3. new \in Task /\ new.pc # "executed"
    <3>1. Target(graph, i) \in Node
      BY <1>0, TargetIsNode DEF TypeOK
    <3> QED BY <1>0, <3>1, NewTaskType
  <2> HIDE DEF r, new
  <2>4. /\ DOMAIN tasks' = (DOMAIN tasks) \cup {Len(tasks) + 1}
        /\ \A u \in DOMAIN tasks : tasks'[u] = IF u = t THEN r ELSE tasks[u]
        /\ tasks'[Len(tasks) + 1] = new
        /\ Len(tasks) + 1 \notin DOMAIN tasks
    BY <2>1, <2>2, <2>3, SubmittedTasks
  <2>5. Written' = Written
    BY <1>0, <2>2, <2>3, <2>4, WrittenKept
  <2> QED
    BY <1>1, <2>5 DEF StoreInv
<1>3. CASE caller # "waiting"
  <2> DEFINE r == [tasks[t] EXCEPT !.pc = "rejected"]
  <2>1. Become(t, r)
    BY <1>3 DEF Submit
  <2>2. r \in Task /\ r.pc = "rejected"
    BY <1>0, PhaseTask DEF Phases
  <2> HIDE DEF r
  <2> QED
    BY <1>0, <1>1, <2>1, <2>2, StoreOther
<1> QED BY <1>2, <1>3

LEMMA StoreWorker ==
  ASSUME TypeOK, StoreInv, NEW t \in DOMAIN tasks, Worker(t)
  PROVE  StoreInv'
<1>0. tasks[t] \in Task
  BY TaskType
<1>1. CASE Start(t)
  <2>1. /\ tasks[t].pc = "queued" /\ done' = done /\ store' = store
        /\ \E p \in {"aborted", "running"} : Become(t, [tasks[t] EXCEPT !.pc = p])
    BY <1>1 DEF Start, At, Abort, scope
  <2>2. PICK p \in {"aborted", "running"} : Become(t, [tasks[t] EXCEPT !.pc = p])
    BY <2>1
  <2> DEFINE r == [tasks[t] EXCEPT !.pc = p]
  <2>3. r \in Task /\ r.pc # "executed"
    BY <1>0, PhaseTask DEF Phases
  <2> HIDE DEF r
  <2> QED
    BY <2>1, <2>2, <2>3, StoreOther DEF r
<1>2. CASE \E b \in Branch \cup {NoBranch} : Execute(t, b)
  BY <1>2, StoreExecute
<1>3. CASE Interrupt(t) \/ Fail(t)
  <2> DEFINE r == [tasks[t] EXCEPT !.pc = "aborted"]
  <2>1. Become(t, r) /\ tasks[t].pc = "running" /\ done' = done /\ store' = store
    BY <1>3 DEF Interrupt, Fail, At, Abort
  <2>2. r \in Task /\ r.pc # "executed"
    BY <1>0, PhaseTask DEF Phases
  <2> HIDE DEF r
  <2> QED
    BY <2>1, <2>2, StoreOther
<1>4. CASE MarkDone(t)
  BY <1>4, StoreMarkDone
<1>5. CASE NextNodes(t)
  <2> DEFINE out == Selected(tasks[t].node, tasks[t].branch)
             r   == [tasks[t] EXCEPT !.pc = "acquiring", !.todo = out, !.nxt = out]
  <2>1. Become(t, r) /\ tasks[t].pc = "done" /\ done' = done /\ store' = store
    BY <1>5 DEF NextNodes, At
  <2>2. out \subseteq Nat
    BY DEF Selected, Routed, OutEdges, TypeOK, IsGraph
  <2> HIDE DEF out
  <2>3. r \in Task /\ r.pc # "executed"
    BY <1>0, <2>2 DEF Task, Phases
  <2> HIDE DEF r
  <2> QED
    BY <2>1, <2>3, StoreOther
<1>6. CASE \E i \in tasks[t].todo : Acquire(t, i)
  <2>1. PICK i \in tasks[t].todo : Acquire(t, i)
    BY <1>6
  <2> DEFINE r == [tasks[t] EXCEPT !.todo = tasks[t].todo \ {i}]
  <2>2. Become(t, r) /\ tasks[t].pc = "acquiring" /\ done' = done /\ store' = store
    BY <2>1 DEF Acquire, At
  <2>3. r \in Task /\ r.pc # "executed"
    BY <1>0, <2>2 DEF Task
  <2> HIDE DEF r
  <2> QED
    BY <2>2, <2>3, StoreOther
<1>7. CASE ReleaseSelf(t)
  <2> DEFINE p == IF tasks[t].nxt = {} THEN "finished" ELSE "submitting"
             r == [tasks[t] EXCEPT !.pc = p]
  <2>1. Become(t, r) /\ tasks[t].pc = "acquiring" /\ done' = done /\ store' = store
    BY <1>7 DEF ReleaseSelf, At, Release
  <2>2. p \in Phases /\ p # "executed"
    BY DEF Phases
  <2>3. r \in Task /\ r.pc # "executed"
    BY <1>0, <2>2, PhaseTask
  <2> HIDE DEF r
  <2> QED
    BY <2>1, <2>3, StoreOther
<1>8. CASE \E i \in tasks[t].nxt : Submit(t, i)
  BY <1>8, StoreSubmit
<1> QED
  BY <1>1, <1>2, <1>3, <1>4, <1>5, <1>6, <1>7, <1>8 DEF Worker

(* The steps of Scheduler keep its type invariant. *)
LEMMA TypeRunning ==
  ASSUME TypeOK, Running
  PROVE  TypeOK'
<1>1. CASE Wake
  BY <1>1, TypeCaller
<1>2. CASE Join
  BY <1>2, TypeCaller
<1>3. ASSUME NEW t \in DOMAIN tasks, Worker(t) PROVE TypeOK'
  BY <1>3, TypeStart, TypeExecute, TypeAbort, TypeMarkDone, TypeNextNodes, TypeAcquire,
     TypeReleaseSelf, TypeSubmit DEF Worker
<1> QED BY <1>1, <1>2, <1>3 DEF Running

-----------------------------------------------------------------------------
(* The steps of the service.                                               *)

(* A new run: one queued task, and a context that matches its done set. *)
LEMMA LaunchInv ==
  ASSUME NEW n \in Node, NEW D \in SUBSET Node, Launch(n, D), entry' = n,
         submitted' \in BOOLEAN, graph' \in Graphs, store' = D
  PROVE  TypeOK' /\ StoreInv' /\ EndInv'
<1> DEFINE new == NewTask(n, 0)
<1>1. new \in Task /\ new.todo = {} /\ new.nxt = {} /\ new.pc = "queued"
  BY NewTaskType
<1>2. tasks' = <<new>>
  BY DEF Launch
<1> HIDE DEF new
<1>3. tasks' \in Seq(Task) /\ Len(tasks') = 1 /\ DOMAIN tasks' = {1} /\ tasks'[1] = new
  BY <1>1, <1>2
<1>4. IsGraph(graph)'
  <2>1. \A g \in Graphs : IsGraph(g)
    BY SchedulerAssumption
  <2> QED BY <2>1 DEF IsGraph
<1>5. TasksOK'
  BY <1>1, <1>3, <1>4 DEF TasksOK
<1>6. RestOK'
  <2>1. started' \in 0 .. Len(tasks') /\ pending' \in Int
    BY <1>3 DEF Launch
  <2>2. idle' \in BOOLEAN /\ done' \subseteq Node /\ activated' \subseteq Node
        /\ store' \subseteq Node /\ caller' \in Callers
        /\ error' \in Errors \cup {NoError}
    BY Zenon DEF Launch, Callers
  <2> QED BY <2>1, <2>2 DEF RestOK
<1>7. TypeOK'
  BY <1>5, <1>6 DEF TypeOK, TasksOK, RestOK
<1>8. Written' = {}
  BY <1>1, <1>3 DEF Written
<1>9. StoreInv'
  BY <1>8 DEF StoreInv, Launch
<1>10. EndInv'
  BY DEF EndInv, Launch
<1> QED BY <1>7, <1>9, <1>10

LEMMA RunningInv ==
  ASSUME ServiceInv, Running
  PROVE  ServiceInv'
<1>1. UNCHANGED <<draft, row>>
  BY DEF Running, service
<1>2. TypeOK'
  BY TypeRunning DEF ServiceInv
<1>3. CASE Wake \/ Join
  <2>1. UNCHANGED <<graph, tasks, done, store>> /\ (caller' \in {"returned", "raised"} => Drained)
    BY <1>3 DEF Wake, Join, request, pool, scope
  <2>2. Written' = Written /\ Drained' = Drained
    BY <2>1 DEF Written, Drained
  <2> QED
    BY <1>1, <1>2, <2>1, <2>2 DEF ServiceInv, StoreInv, EndInv, RowInv
<1>4. ASSUME NEW t \in DOMAIN tasks, Worker(t) PROVE ServiceInv'
  <2>1. UNCHANGED <<graph, caller>>
    BY <1>4 DEF Worker, Start, Execute, Interrupt, Fail, MarkDone, NextNodes, Acquire,
                ReleaseSelf, Submit, request
  <2>2. caller \notin {"returned", "raised"}
    BY <1>4, DrainedIsQuiet DEF ServiceInv, EndInv, Drained
  <2>3. StoreInv'
    BY <1>4, StoreWorker DEF ServiceInv
  <2>4. EndInv'
    BY <2>1, <2>2 DEF EndInv
  <2> QED
    BY <1>1, <1>2, <2>1, <2>3, <2>4 DEF ServiceInv, RowInv
<1> QED
  BY <1>3, <1>4 DEF Running

(* A run that is saved has drained, so its context matches done. *)
LEMMA SnapshotInv ==
  ASSUME ServiceInv, Snapshot
  PROVE  ServiceInv'
<1>1. UNCHANGED <<vars, draft>>
  BY DEF Snapshot
<1>2. TypeOK' /\ StoreInv' /\ EndInv' /\ graph' = graph
  <2>1. UNCHANGED <<graph, entry, submitted, caller, tasks, started, pending, done,
                    activated, error, idle, store>>
    BY <1>1 DEF vars, request, pool, scope
  <2>2. TypeOK'
    BY <2>1 DEF ServiceInv, TypeOK, IsGraph
  <2>3. Written' = Written /\ Drained' = Drained
    BY <2>1 DEF Written, Drained
  <2> QED
    BY <2>1, <2>2, <2>3 DEF ServiceInv, StoreInv, EndInv
<1>3. Written = {}
  <2>1. Drained
    BY DEF Snapshot, ServiceInv, EndInv
  <2>2. "executed" \notin Over
    BY DEF Over
  <2> QED
    BY <2>1, <2>2 DEF Drained, Written
<1>4. store = done /\ done \subseteq Node
  BY <1>3 DEF ServiceInv, StoreInv, TypeOK
<1>5. error.node \in Node
  <2>1. error \in Errors
    BY DEF Snapshot, ServiceInv, TypeOK, NoError
  <2> QED BY <2>1 DEF Errors
<1>6. RowGraph \in Graphs
  BY DEF ServiceInv, RowInv, RowGraph
<1>7. row' = [status |-> "WAIT_USER", graph |-> RowGraph,
              done |-> done, next |-> error.node, store |-> store]
  BY DEF Snapshot, SavedRow
<1>8. /\ row'.graph \in Graphs /\ row'.next \in Node
      /\ row'.done \subseteq Node /\ row'.store = row'.done
  BY <1>4, <1>5, <1>6, <1>7
<1>9. RowInv'
  BY <1>8 DEF RowInv
<1> QED
  BY <1>1, <1>2, <1>9 DEF ServiceInv

LEMMA StartInv ==
  ASSUME ServiceInv, ExecuteDraft \/ (\E filled \in BOOLEAN : Resume(filled))
  PROVE  ServiceInv'
<1>1. CASE ExecuteDraft
  <2>1. GetStart(draft) \in Node
    <3>1. IsGraph(draft) /\ HasStart(draft)
      BY SchedulerAssumption DEF ServiceInv
    <3>2. GetStart(draft) \in draft.nodes
      BY <3>1, StartIsSource
    <3> QED BY <3>1, <3>2 DEF IsGraph
  <2>2. /\ Launch(entry', {}) /\ entry' = GetStart(draft) /\ submitted' = FALSE
        /\ graph' = draft /\ store' = {} /\ UNCHANGED <<draft, row>>
    BY <1>1 DEF ExecuteDraft
  <2>3. TypeOK' /\ StoreInv' /\ EndInv'
    BY <2>1, <2>2, LaunchInv DEF ServiceInv
  <2> QED
    BY <2>2, <2>3 DEF ServiceInv, RowInv
<1>2. ASSUME NEW filled \in BOOLEAN, Resume(filled) PROVE ServiceInv'
  <2>1. /\ row # NoRow /\ Launch(entry', row.done) /\ entry' = row.next
        /\ submitted' = filled /\ graph' = row.graph /\ store' = row.store
        /\ UNCHANGED <<draft, row>>
    BY <1>2 DEF Resume
  <2>2. /\ row.graph \in Graphs /\ row.next \in Node
        /\ row.done \subseteq Node /\ row.store = row.done
    BY <2>1 DEF ServiceInv, RowInv
  <2>3. TypeOK' /\ StoreInv' /\ EndInv'
    BY <2>1, <2>2, LaunchInv
  <2> QED
    BY <2>1, <2>2, <2>3 DEF ServiceInv, RowInv
<1> QED BY <1>1, <1>2

LEMMA ServiceInvariant == ServiceSpec => []ServiceInv
<1>1. ServiceInit => ServiceInv
  <2> SUFFICES ASSUME ServiceInit PROVE ServiceInv
    OBVIOUS
  <2>1. TypeOK
    BY TypeInit DEF ServiceInit
  <2>2. Written = {} /\ store = {} /\ done = {} /\ caller = "idle"
    BY DEF ServiceInit, Init, Written
  <2> QED
    BY <2>1, <2>2 DEF ServiceInit, Init, ServiceInv, StoreInv, EndInv, RowInv
<1>2. ServiceInv /\ [ServiceNext]_serviceVars => ServiceInv'
  <2> SUFFICES ASSUME ServiceInv, [ServiceNext]_serviceVars PROVE ServiceInv'
    OBVIOUS
  <2>1. CASE UNCHANGED <<vars, draft, row>>
    <3>1. UNCHANGED <<graph, entry, submitted, caller, tasks, started, pending, done,
                      activated, error, idle, store>>
      BY <2>1 DEF vars, request, pool, scope
    <3>2. TypeOK'
      BY <3>1 DEF ServiceInv, TypeOK, IsGraph
    <3>3. Written' = Written /\ Drained' = Drained
      BY <3>1 DEF Written, Drained
    <3> QED
      BY <2>1, <3>1, <3>2, <3>3 DEF ServiceInv, StoreInv, EndInv, RowInv
  <2>2. CASE \E g \in Saved : Edit(g)
    <3>1. UNCHANGED <<vars, row>> /\ draft' \in Graphs
      BY <2>2, ServiceAssumption DEF Edit
    <3>2. UNCHANGED <<graph, entry, submitted, caller, tasks, started, pending, done,
                      activated, error, idle, store>>
      BY <3>1 DEF vars, request, pool, scope
    <3>3. TypeOK'
      BY <3>2 DEF ServiceInv, TypeOK, IsGraph
    <3>4. Written' = Written /\ Drained' = Drained
      BY <3>2 DEF Written, Drained
    <3> QED
      BY <3>1, <3>2, <3>3, <3>4 DEF ServiceInv, StoreInv, EndInv, RowInv
  <2> QED
    BY <2>1, <2>2, RunningInv, SnapshotInv, StartInv
       DEF ServiceNext, Finish, Closed, Publish, ReadDraft, Unpublish, CommitVersion,
           serviceVars, service
<1> QED
  BY <1>1, <1>2, PTL DEF ServiceSpec

(***************************************************************************)
(* The snapshot is exact: whatever workflow was interrupted where, in any  *)
(* interleaving and after any number of runs, the context saved in the row *)
(* holds the results of the nodes of its done set and of no other.         *)
(***************************************************************************)
THEOREM SavedContextIsExact == ServiceSpec => []SnapshotIsExact
<1>1. ServiceInv => SnapshotIsExact
  BY DEF ServiceInv, RowInv, SnapshotIsExact
<1> QED
  BY <1>1, ServiceInvariant, PTL

-----------------------------------------------------------------------------
(* The scheduler's invariants hold of resumed runs too.                    *)

EngineInv == CountInv /\ FlowInv /\ FollowedInv

LEMMA EngineInvariant == ServiceSpec => []EngineInv
<1>1. ServiceInit => EngineInv
  <2> SUFFICES ASSUME ServiceInit PROVE EngineInv
    OBVIOUS
  <2>1. tasks = <<>> /\ DOMAIN tasks = {} /\ caller = "idle" /\ ~idle /\ error = NoError
    BY DEF ServiceInit, Init
  <2> QED
    BY <2>1 DEF EngineInv, CountInv, PendingCounts, RefusedOnlyAfterAbort, FlowInv, FollowedInv
<1>2. ServiceInv /\ ServiceInv' /\ EngineInv /\ [ServiceNext]_serviceVars => EngineInv'
  <2> SUFFICES ASSUME ServiceInv, ServiceInv', EngineInv, [ServiceNext]_serviceVars
               PROVE  EngineInv'
    OBVIOUS
  <2>1. TypeOK /\ TypeOK' /\ CountInv /\ FlowInv /\ FollowedInv
    BY DEF ServiceInv, EngineInv
  <2>2. CASE UNCHANGED vars
    <3>1. UNCHANGED <<graph, tasks, done, activated>>
      BY <2>2 DEF vars, request, pool, scope
    <3> QED
      BY <2>1, <2>2, <3>1, CountStutter, FlowStutter, FollowedSame DEF EngineInv
  <2>3. CASE ExecuteDraft \/ (\E filled \in BOOLEAN : Resume(filled))
    <3>1. \E D : Launch(entry', D)
      BY <2>3 DEF ExecuteDraft, Resume
    <3>2. entry' \in Node
      BY <2>1 DEF TypeOK
    <3> QED
      BY <2>1, <3>1, <3>2, CountLaunch, FlowLaunch DEF EngineInv
  <2>4. CASE Wake \/ Join
    <3>1. UNCHANGED <<graph, tasks, done, activated>>
      BY <2>4 DEF Wake, Join, request, pool, scope
    <3> QED
      BY <2>1, <2>4, <3>1, CountCaller, FlowCaller, FollowedSame DEF EngineInv
  <2>5. ASSUME NEW t \in DOMAIN tasks, Worker(t) PROVE EngineInv'
    BY <2>1, <2>5, CountWorker, FlowWorker, FollowedWorker DEF EngineInv
  <2> QED
    BY <2>2, <2>3, <2>4, <2>5
       DEF ServiceNext, Running, Snapshot, Finish, Edit, Publish, ReadDraft, Unpublish,
           CommitVersion, Closed, serviceVars
<1> QED
  BY <1>1, <1>2, ServiceInvariant, PTL DEF ServiceSpec

-----------------------------------------------------------------------------
(* A resumed run repeats nothing.                                          *)

IsForm(n) == n \in graph.nodes /\ graph.type[n] = "form-node"

(***************************************************************************)
(* The inductive invariant.  An executed draft has no form submitted, so   *)
(* no form-node of it is ever done, and the node of an interrupt is one:   *)
(* the saved node is not among the saved done nodes.  A resumed run starts *)
(* with these done, and does not choose a node that is done.               *)
(***************************************************************************)
FormsOpen ==
  /\ ~submitted
  /\ \A n \in done : ~IsForm(n)
  /\ \A t \in DOMAIN tasks : tasks[t].pc = "executed" => ~IsForm(tasks[t].node)
  /\ error.kind = "interrupt" => IsForm(error.node)

OnlyNew ==
  /\ row # NoRow /\ entry = row.next
  /\ row.done \subseteq done
  /\ \A n \in done : n \in row.done \/ \E t \in DOMAIN tasks : tasks[t].node = n
  /\ \A t \in DOMAIN tasks :
       /\ tasks[t].node \notin row.done
       /\ \A i \in tasks[t].nxt : Target(graph, i) \notin row.done

SessionInv ==
  /\ row # NoRow => row.next \notin row.done
  /\ session = "execute" => FormsOpen
  /\ session = "resume" => OnlyNew

(* A step of task t into record r, by which no form-node is executed. *)
LEMMA FormsStep ==
  ASSUME TypeOK, FormsOpen, NEW t \in DOMAIN tasks, NEW r \in Task, Become(t, r),
         r.pc = "executed" => ~IsForm(r.node),
         \A n \in done' : n \in done \/ ~IsForm(n),
         error' = error \/ (error'.kind = "interrupt" => IsForm(error'.node)),
         UNCHANGED <<graph, submitted>>
  PROVE  FormsOpen'
<1>1. DOMAIN tasks' = DOMAIN tasks
      /\ \A u \in DOMAIN tasks : tasks'[u] = IF u = t THEN r ELSE tasks[u]
  BY BecomeTasks
<1>2. \A u \in DOMAIN tasks' : tasks'[u].pc = "executed" => ~IsForm(tasks'[u].node)
  BY <1>1 DEF FormsOpen
<1>3. \A n : IsForm(n)' <=> IsForm(n)
  BY DEF IsForm
<1> QED
  BY <1>2, <1>3 DEF FormsOpen

(* An abort keeps an earlier error, or records its own. *)
LEMMA FormsAbort ==
  ASSUME TypeOK, FormsOpen, NEW t \in DOMAIN tasks,
         Become(t, [tasks[t] EXCEPT !.pc = "aborted"]),
         NEW kind, Abort(kind, tasks[t].node), kind = "interrupt" => IsForm(tasks[t].node),
         UNCHANGED <<graph, submitted>>
  PROVE  FormsOpen'
<1> DEFINE r == [tasks[t] EXCEPT !.pc = "aborted"]
<1>1. r \in Task /\ r.pc = "aborted"
  BY TaskType DEF Task, Phases
<1>2. error' = error \/ (error'.kind = "interrupt" => IsForm(error'.node))
  BY DEF Abort
<1>3. done' = done
  BY DEF Abort
<1> HIDE DEF r
<1> QED
  BY <1>1, <1>2, <1>3, FormsStep DEF r

LEMMA FormsWorker ==
  ASSUME TypeOK, FormsOpen, NEW t \in DOMAIN tasks, Worker(t)
  PROVE  FormsOpen'
<1>0. tasks[t] \in Task
  BY TaskType
<1>1. UNCHANGED <<graph, submitted>>
  BY DEF Worker, Start, Execute, Interrupt, Fail, MarkDone, NextNodes, Acquire, ReleaseSelf,
         Submit, request
<1>2. CASE Start(t)
  <2>1. CASE tasks[t].depth > MaxDepth
    BY <1>1, <1>2, <2>1, FormsAbort DEF Start
  <2>2. CASE ~(tasks[t].depth > MaxDepth)
    <3> DEFINE r == [tasks[t] EXCEPT !.pc = "running"]
    <3>1. Become(t, r) /\ UNCHANGED <<done, error>>
      BY <1>2, <2>2 DEF Start, scope
    <3>2. r \in Task /\ r.pc = "running"
      BY <1>0 DEF Task, Phases
    <3> HIDE DEF r
    <3> QED BY <1>1, <3>1, <3>2, FormsStep
  <2> QED BY <2>1, <2>2
<1>3. ASSUME NEW b \in Branch \cup {NoBranch}, Execute(t, b) PROVE FormsOpen'
  <2> DEFINE r == [tasks[t] EXCEPT !.pc = "executed", !.branch = b]
  <2>1. Become(t, r) /\ UNCHANGED <<done, error>>
    BY <1>3 DEF Execute, scope
  <2>2. ~IsForm(tasks[t].node)
    BY <1>3 DEF Execute, FormsOpen, IsForm
  <2>3. r \in Task /\ r.node = tasks[t].node
    BY <1>0 DEF Task, Phases
  <2> HIDE DEF r
  <2> QED BY <1>1, <2>1, <2>2, <2>3, FormsStep
<1>4. CASE Interrupt(t)
  BY <1>1, <1>4, FormsAbort DEF Interrupt, IsForm
<1>5. CASE Fail(t)
  BY <1>1, <1>5, FormsAbort DEF Fail
<1>6. CASE MarkDone(t)
  <2> DEFINE r == [tasks[t] EXCEPT !.pc = "done"]
  <2>1. /\ Become(t, r) /\ tasks[t].pc = "executed" /\ error' = error
        /\ done' = done \cup {tasks[t].node}
    BY <1>6 DEF MarkDone, At
  <2>2. r \in Task /\ r.pc = "done"
    BY <1>0 DEF Task, Phases
  <2> HIDE DEF r
  <2>3. \A n \in done' : n \in done \/ ~IsForm(n)
    BY <2>1 DEF FormsOpen
  <2> QED BY <1>1, <2>1, <2>2, <2>3, FormsStep
<1>7. CASE NextNodes(t)
  <2>1. LET out == Selected(tasks[t].node, tasks[t].branch)
        IN  /\ DOMAIN tasks' = DOMAIN tasks
            /\ \A u \in DOMAIN tasks : u # t => tasks'[u] = tasks[u]
            /\ tasks'[t].pc = "acquiring"
            /\ UNCHANGED <<done, error>>
    BY <1>7, ChoosingStep
  <2> QED BY <1>1, <2>1 DEF FormsOpen, IsForm
<1>8. ASSUME NEW i \in tasks[t].todo, Acquire(t, i) PROVE FormsOpen'
  <2> DEFINE r == [tasks[t] EXCEPT !.todo = tasks[t].todo \ {i}]
  <2>1. Become(t, r) /\ tasks[t].pc = "acquiring" /\ UNCHANGED <<done, error>>
    BY <1>8 DEF Acquire, At
  <2>2. r \in Task /\ r.pc = tasks[t].pc
    BY <1>0 DEF Task
  <2> HIDE DEF r
  <2> QED BY <1>1, <2>1, <2>2, FormsStep
<1>9. CASE ReleaseSelf(t) \/ (caller # "waiting" /\ \E i \in tasks[t].nxt : Submit(t, i))
  <2>1. UNCHANGED <<done, error>>
    BY <1>9 DEF ReleaseSelf, Submit, Release, scope
  <2>2. PICK p \in {"finished", "submitting", "rejected"} :
          Become(t, [tasks[t] EXCEPT !.pc = p])
    BY <1>9 DEF ReleaseSelf, Submit
  <2> DEFINE r == [tasks[t] EXCEPT !.pc = p]
  <2>3. r \in Task /\ r.pc = p
    BY <1>0 DEF Task, Phases
  <2> HIDE DEF r
  <2> QED BY <1>1, <2>1, <2>2, <2>3, FormsStep DEF r
<1>10. ASSUME caller = "waiting", NEW i \in tasks[t].nxt, Submit(t, i) PROVE FormsOpen'
  <2> DEFINE k == Len(tasks) + 1
  <2>1. /\ DOMAIN tasks' = (DOMAIN tasks) \cup {k}
        /\ \A u \in DOMAIN tasks : u # t => tasks'[u] = tasks[u]
        /\ tasks'[t].pc \in {"submitting", "finished"}
        /\ tasks'[k].pc = "queued"
        /\ UNCHANGED <<done, error>>
    BY <1>10, SubmittingStep
  <2> HIDE DEF k
  <2> QED BY <1>1, <2>1 DEF FormsOpen, IsForm
<1> QED
  BY <1>2, <1>3, <1>4, <1>5, <1>6, <1>7, <1>8, <1>9, <1>10 DEF Worker

(* A worker of a resumed run chooses and submits new nodes only. *)
LEMMA OnlyNewWorker ==
  ASSUME TypeOK, OnlyNew, row' = row, NEW t \in DOMAIN tasks, Worker(t)
  PROVE  OnlyNew'
<1>1. /\ DOMAIN tasks \subseteq DOMAIN tasks'
      /\ \A u \in DOMAIN tasks : tasks'[u].node = tasks[u].node
      /\ \A n \in done' : n \in done \/ n = tasks[t].node
      /\ done \subseteq done'
      /\ UNCHANGED <<graph, entry>>
  BY WorkerAdds
<1>2. \A u \in DOMAIN tasks' : /\ tasks'[u].node \notin row.done
                               /\ \A i \in tasks'[u].nxt : Target(graph, i) \notin row.done
  <2>1. CASE KeepsTasks /\ (Passes \/ Aborts(t) \/ Marks(t))
    BY <2>1 DEF KeepsTasks, OnlyNew
  <2>2. CASE NextNodes(t)
    <3> DEFINE out == Selected(tasks[t].node, tasks[t].branch)
    <3>1. /\ DOMAIN tasks' = DOMAIN tasks
          /\ \A u \in DOMAIN tasks : u # t => tasks'[u] = tasks[u]
          /\ tasks'[t].nxt = out
      BY <2>2, ChoosingStep
    <3>2. \A i \in out : Target(graph, i) \notin row.done
      BY DEF Selected, OnlyNew
    <3> HIDE DEF out
    <3> QED BY <1>1, <3>1, <3>2 DEF OnlyNew
  <2>3. ASSUME caller = "waiting", NEW i \in tasks[t].nxt, Submit(t, i)
        PROVE  \A u \in DOMAIN tasks' :
                 /\ tasks'[u].node \notin row.done
                 /\ \A j \in tasks'[u].nxt : Target(graph, j) \notin row.done
    <3> DEFINE k == Len(tasks) + 1
    <3>1. /\ DOMAIN tasks' = (DOMAIN tasks) \cup {k}
          /\ \A u \in DOMAIN tasks : u # t => tasks'[u] = tasks[u]
          /\ tasks'[t].nxt = tasks[t].nxt \ {i}
          /\ tasks'[k].node = Target(graph, i) /\ tasks'[k].nxt = {}
      BY <2>3, SubmittingStep
    <3> HIDE DEF k
    <3> QED BY <1>1, <3>1 DEF OnlyNew
  <2> QED BY <2>1, <2>2, <2>3, WorkerKinds
<1> QED
  BY <1>1, <1>2 DEF OnlyNew

(* The start of a run. *)
LEMMA SessionStart ==
  ASSUME ServiceInv, ServiceInv', SessionInv,
         ExecuteDraft \/ (\E filled \in BOOLEAN : Resume(filled))
  PROVE  SessionInv'
<1> DEFINE new == NewTask(entry', 0)
<1>1. /\ tasks' = <<new>> /\ error' = NoError /\ row' = row
      /\ done' = IF session' = "resume" THEN row.done ELSE {}
      /\ session' = "resume" => row # NoRow /\ entry' = row.next
      /\ session' \in {"execute", "resume"} /\ (session' = "execute" => submitted' = FALSE)
  BY DEF ExecuteDraft, Resume, Launch
<1>2. new.node = entry' /\ new.nxt = {} /\ new.pc = "queued"
  <2>1. entry' \in Node
    BY DEF ServiceInv, TypeOK
  <2> QED BY <2>1, NewTaskType
<1> HIDE DEF new
<1>3. DOMAIN tasks' = {1} /\ tasks'[1] = new
  BY <1>1
<1>4. CASE session' = "execute"
  BY <1>1, <1>2, <1>3, <1>4 DEF SessionInv, FormsOpen, NoError
<1>5. CASE session' = "resume"
  BY <1>1, <1>2, <1>3, <1>5 DEF SessionInv, OnlyNew
<1> QED BY <1>1, <1>4, <1>5

(* The saved node is a form, the saved done nodes are not. *)
LEMMA SessionSnapshot ==
  ASSUME SessionInv, Snapshot
  PROVE  SessionInv'
<1>1. /\ row' = [status |-> "WAIT_USER", graph |-> RowGraph,
                 done |-> done, next |-> error.node, store |-> store]
      /\ session' = "none"
  BY DEF Snapshot, SavedRow
<1>2. IsForm(error.node) /\ \A n \in done : ~IsForm(n)
  BY DEF SessionInv, FormsOpen, Snapshot
<1>3. row'.next \notin row'.done
  BY <1>1, <1>2
<1> QED
  BY <1>1, <1>3 DEF SessionInv

LEMMA SessionSame ==
  ASSUME SessionInv, UNCHANGED <<graph, entry, submitted, tasks, done, error, row>>,
         session' \in {session, "none"}
  PROVE  SessionInv'
BY DEF SessionInv, FormsOpen, OnlyNew, IsForm

LEMMA SessionInvariant == ServiceSpec => []SessionInv
<1>1. ServiceInit => SessionInv
  BY DEF ServiceInit, SessionInv
<1>2. ServiceInv /\ ServiceInv' /\ SessionInv /\ [ServiceNext]_serviceVars => SessionInv'
  <2> SUFFICES ASSUME ServiceInv, ServiceInv', SessionInv, [ServiceNext]_serviceVars
               PROVE  SessionInv'
    OBVIOUS
  <2>1. CASE UNCHANGED <<vars, row>> /\ session' \in {session, "none"}
    <3>1. UNCHANGED <<graph, entry, submitted, tasks, done, error, row>>
      BY <2>1 DEF vars, request, pool, scope
    <3> QED BY <2>1, <3>1, SessionSame
  <2>2. CASE (Wake \/ Join) /\ UNCHANGED service
    <3>1. UNCHANGED <<graph, entry, submitted, tasks, done, error, row, session>>
      BY <2>2 DEF Wake, Join, request, pool, scope, service
    <3> QED BY <3>1, SessionSame
  <2>3. ASSUME NEW t \in DOMAIN tasks, Worker(t), UNCHANGED service PROVE SessionInv'
    <3>1. UNCHANGED <<row, session>> /\ TypeOK
      BY <2>3 DEF service, ServiceInv
    <3>2. FormsOpen => FormsOpen'
      BY <2>3, <3>1, FormsWorker
    <3>3. OnlyNew => OnlyNew'
      BY <2>3, <3>1, OnlyNewWorker
    <3> QED BY <3>1, <3>2, <3>3 DEF SessionInv
  <2> QED
    BY <2>1, <2>2, <2>3, SessionStart, SessionSnapshot
       DEF ServiceNext, Running, Finish, Edit, Publish, ReadDraft, Unpublish,
           CommitVersion, Closed, serviceVars, service
<1> QED
  BY <1>1, <1>2, ServiceInvariant, PTL DEF ServiceSpec

(***************************************************************************)
(* A resumed run executes no node the interrupted run had completed: for   *)
(* every set of workflows and edits of the draft between the runs, pool,   *)
(* interleaving and number of times the row is resumed.                    *)
(***************************************************************************)
THEOREM ResumedRunsAreNew == ServiceSpec => []ResumeRepeatsNothing
<1>1. SessionInv => ResumeRepeatsNothing
  BY DEF SessionInv, OnlyNew, ResumeRepeatsNothing
<1> QED
  BY <1>1, SessionInvariant, PTL

(* Every certain edge from a node that a returned run executed is followed. *)
LEMMA CertainIsFollowed ==
  ASSUME TypeOK, EngineInv, caller = "returned", NEW t \in DOMAIN tasks,
         NEW i \in Certain, graph.edges[i].source = tasks[t].node
  PROVE  Target(graph, i) \in done
<1>1. Followed(t, i) /\ i \in DOMAIN graph.edges
  BY DEF Certain, Followed, Routed, OutEdges, Target
<1>2. NoLostSuccessor
  BY SuccessHasAll DEF EngineInv
<1>3. RequiresAll(graph, Target(graph, i)) => Unconditional(Target(graph, i))
  BY DEF Certain
<1> QED
  BY <1>1, <1>2, <1>3 DEF NoLostSuccessor

(***************************************************************************)
(* A resumed run that returns has completed the workflow if only the form  *)
(* was left.  Of the nodes behind the form, the ones this run made done    *)
(* are a set of the kind their definition quantifies over.                 *)
(***************************************************************************)
THEOREM ResumedRunsComplete == ServiceSpec => []ResumeCompletes
<1>1. ServiceInv /\ EngineInv /\ SessionInv => ResumeCompletes
  <2> SUFFICES ASSUME ServiceInv, EngineInv, SessionInv, session = "resume",
                      caller = "returned", OnlyFormLeft,
                      NEW i \in Certain, graph.edges[i].source \in done
               PROVE  Target(graph, i) \in done
    BY DEF ResumeCompletes
  <2>1. TypeOK /\ OnlyNew
    BY DEF ServiceInv, SessionInv
  <2>2. CASE \E t \in DOMAIN tasks : tasks[t].node = graph.edges[i].source
    BY <2>1, <2>2, CertainIsFollowed
  <2>3. CASE Target(graph, i) \in row.done
    BY <2>1, <2>3 DEF OnlyNew
  <2>4. CASE Target(graph, i) \in BehindForm
    <3> DEFINE C == done \ row.done
    <3>1. row.next \in done
      <4>1. Drained /\ error = NoError /\ caller # "idle" /\ CountInv /\ FlowInv
        BY DEF EngineInv, FlowInv
      <4> QED BY <2>1, <4>1, SucceededMeansAllDone DEF OnlyNew
    <3>2. row.next \in C
      BY <2>1, <3>1 DEF OnlyNew, SessionInv
    <3>3. ASSUME NEW j \in Certain, graph.edges[j].source \in C
          PROVE  Target(graph, j) \in C \cup row.done
      <4>1. PICK t \in DOMAIN tasks : tasks[t].node = graph.edges[j].source
        BY <2>1, <3>3 DEF OnlyNew
      <4>2. Target(graph, j) \in done
        BY <2>1, <4>1, CertainIsFollowed
      <4> QED BY <4>2
    <3>4. C \in SUBSET Node
      BY <2>1 DEF TypeOK
    <3> HIDE DEF C
    <3>5. Target(graph, i) \in C
      BY <2>4, <3>2, <3>3, <3>4 DEF BehindForm
    <3> QED BY <3>5 DEF C
  <2> QED
    BY <2>1, <2>2, <2>3, <2>4 DEF OnlyNew, OnlyFormLeft
<1> QED
  BY <1>1, ServiceInvariant, EngineInvariant, SessionInvariant, PTL

-----------------------------------------------------------------------------
(* Publishing.                                                             *)

Version == [graph : Graphs, is_published : BOOLEAN]

\* A request that has read the draft holds a workflow.
RequestInv ==
  /\ publish = [p \in Publisher |-> publish[p]]
  /\ \A p \in Publisher : publish[p].at # "start" /\ publish[p].at # "published"
                            => publish[p].graph \in Graphs

VersionInv ==
  /\ draft \in Graphs
  /\ RequestInv
  /\ versions \in Seq(Version)
  /\ StaysPublished

(* The version that is committed is published, whatever it unpublishes. *)
LEMMA CommitPublishes ==
  ASSUME VersionInv, NEW p \in Publisher, CommitVersion(p)
  PROVE  versions' \in Seq(Version) /\ StaysPublished'
<1> DEFINE old == [v \in DOMAIN versions |->
                     IF v \in publish[p].seen
                     THEN [versions[v] EXCEPT !.is_published = FALSE] ELSE versions[v]]
           new == [graph |-> publish[p].graph, is_published |-> TRUE]
<1>1. versions' = Append(old, new)
  BY DEF CommitVersion
<1>2. new \in Version /\ new.is_published
  <2>1. publish[p].graph \in Graphs
    BY DEF CommitVersion, VersionInv, RequestInv
  <2> QED BY <2>1 DEF Version
<1>3. old \in Seq(Version)
  <2>1. \A v \in DOMAIN versions :
          versions[v] \in Version /\ [versions[v] EXCEPT !.is_published = FALSE] \in Version
    <3>1. \A w \in Version : [w EXCEPT !.is_published = FALSE] \in Version
      BY DEF Version
    <3>2. versions \in Seq(Version)
      BY DEF VersionInv
    <3> QED BY <3>1, <3>2
  <2>2. DOMAIN versions = 1 .. Len(versions) /\ Len(versions) \in Nat
    BY DEF VersionInv
  <2> QED BY <2>1, <2>2
<1> HIDE DEF old, new
<1>4. /\ versions' \in Seq(Version) /\ Len(old) + 1 \in DOMAIN versions'
      /\ versions'[Len(old) + 1] = new
  BY <1>1, <1>2, <1>3
<1>5. Len(old) + 1 \in Published'
  BY <1>2, <1>4 DEF Published
<1> QED
  BY <1>4, <1>5 DEF StaysPublished

(***************************************************************************)
(* A published application stays published: for any number of publishing   *)
(* requests, in any interleaving, some version is published after the      *)
(* first commit (agent/views.py, ApplicationWorkflowView.post).            *)
(***************************************************************************)
THEOREM AlwaysPublished == ServiceSpec => []StaysPublished
<1>1. ServiceInit => VersionInv
  <2> SUFFICES ASSUME ServiceInit PROVE VersionInv
    OBVIOUS
  <2>1. draft \in Graphs /\ versions = <<>> /\ publish = [p \in Publisher |-> NotYet]
    BY DEF ServiceInit, Init
  <2> QED
    BY <2>1 DEF VersionInv, RequestInv, StaysPublished, NotYet
<1>2. VersionInv /\ [ServiceNext]_serviceVars => VersionInv'
  <2> SUFFICES ASSUME VersionInv, [ServiceNext]_serviceVars PROVE VersionInv'
    OBVIOUS
  <2>1. CASE UNCHANGED <<draft, versions, publish>>
    BY <2>1 DEF VersionInv, RequestInv, StaysPublished, Published
  <2>2. CASE \E g \in Saved : Edit(g)
    <3>1. draft' \in Graphs /\ UNCHANGED <<versions, publish>>
      BY <2>2, ServiceAssumption DEF Edit, published
    <3> QED
      BY <3>1 DEF VersionInv, RequestInv, StaysPublished, Published
  <2>3. ASSUME NEW p \in Publisher, ReadDraft(p) \/ Unpublish(p) PROVE VersionInv'
    <3>1. UNCHANGED <<draft, versions>>
      BY <2>3 DEF ReadDraft, Unpublish
    <3>2. \E r : publish' = [publish EXCEPT ![p] = r] /\ r.graph \in Graphs
      BY <2>3 DEF ReadDraft, Unpublish, VersionInv, RequestInv
    <3>3. RequestInv'
      BY <3>2 DEF VersionInv, RequestInv
    <3> QED
      BY <3>1, <3>3 DEF VersionInv, StaysPublished, Published
  <2>4. ASSUME NEW p \in Publisher, CommitVersion(p) PROVE VersionInv'
    <3>1. draft' = draft /\ publish' = [publish EXCEPT ![p] = [at |-> "published"]]
      BY <2>4 DEF CommitVersion
    <3>2. RequestInv'
      BY <3>1 DEF VersionInv, RequestInv
    <3> QED
      BY <2>4, <3>1, <3>2, CommitPublishes DEF VersionInv
  <2> QED
    BY <2>1, <2>2, <2>3, <2>4
       DEF ServiceNext, ExecuteDraft, Resume, Snapshot, Finish, Running, Closed, Publish,
           serviceVars, service, published
<1>3. VersionInv => StaysPublished
  BY DEF VersionInv
<1> QED
  BY <1>1, <1>2, <1>3, PTL DEF ServiceSpec

-----------------------------------------------------------------------------
(***************************************************************************)
(* Validation: Kahn's algorithm accepts exactly the acyclic graphs.        *)
(***************************************************************************)

Queued == Range(queue)
Zero == {n \in self.nodes : indeg[n] = 0}
Popped == Zero \ Queued

\* The counted edges that lead to n, and those from nodes still to be popped.
Entering(n) ==
  {i \in DOMAIN self.edges : Target(self, i) = n /\ Counted(self, self.edges[i])}
Left(n) == {i \in Entering(n) : self.edges[i].source \notin Popped}

KahnType ==
  /\ self \in Given
  /\ verdict \in {"unchecked", "counting", "accepted", "cycle",
                  "no unique start", "container not closed"}
  /\ indeg \in [self.nodes -> Int]
  /\ queue \in Seq(self.nodes)

(***************************************************************************)
(* What is left of a node's in-degree are its edges from nodes that have   *)
(* not been popped; a node is in the queue once, from when nothing is left *)
(* until it is popped; and no popped node reaches itself.                  *)
(***************************************************************************)
KahnCounts ==
  /\ IsInjective(queue)
  /\ Queued \subseteq Zero
  /\ seen = Cardinality(Popped)
  /\ \A n \in self.nodes : indeg[n] = Cardinality(Left(n))
  /\ \A n \in Popped : n \notin Reach(n)

KahnInv ==
  /\ KahnType
  /\ verdict = "unchecked" => seen = 0
  /\ verdict \in {"counting", "accepted", "cycle"} => KahnCounts
  /\ verdict \in {"accepted", "cycle"} =>
       queue = <<>> /\ (verdict = "accepted" <=> Popped = self.nodes)

LEMMA GivenFacts ==
  ASSUME KahnType
  PROVE  /\ IsGraph(self) /\ IsFiniteSet(self.nodes)
         /\ IsFiniteSet(DOMAIN self.edges)
         /\ \A i \in DOMAIN self.edges : /\ Target(self, i) \in self.nodes
                                         /\ self.edges[i].source \in self.nodes
<1>1. IsGraph(self) /\ IsFiniteSet(self.nodes)
  BY GraphCheckAssumption DEF KahnType
<1>2. Len(self.edges) \in Nat /\ DOMAIN self.edges = 1 .. Len(self.edges)
  BY <1>1 DEF IsGraph
<1>3. IsFiniteSet(DOMAIN self.edges)
  BY <1>2, FS_Interval
<1> QED BY <1>1, <1>3 DEF IsGraph, Target

LEMMA EnteringFinite ==
  ASSUME KahnType, NEW n
  PROVE  /\ IsFiniteSet(Entering(n)) /\ Cardinality(Entering(n)) \in Nat
         /\ \A T \in SUBSET Entering(n) :
              /\ IsFiniteSet(T) /\ Cardinality(T) \in Nat
              /\ Cardinality(T) = 0 <=> T = {}
<1>1. IsFiniteSet(Entering(n))
  BY GivenFacts, FS_Subset DEF Entering
<1> QED BY <1>1, FS_Subset, FS_CardinalityType, FS_EmptySet

(* All orders of a finite set name each of its elements once. *)
LEMMA OrderFacts ==
  ASSUME NEW S, IsFiniteSet(S), NEW order \in SetToSeqs(S)
  PROVE  /\ order \in Seq(S)
         /\ Range(order) = S
         /\ IsInjective(order)
<1> DEFINE D == 1 .. Cardinality(S)
<1>1. order \in [D -> S] /\ \A i, j \in D : i # j => order[i] # order[j]
  BY DEF SetToSeqs
<1>2. Cardinality(S) \in Nat
  BY FS_CardinalityType
<1>3. IsFiniteSet(D) /\ Cardinality(D) = Cardinality(S)
  BY <1>2, FS_Interval
<1>4. order \in Injection(D, S)
  BY <1>1 DEF Injection, IsInjective
<1>5. order \in Surjection(D, S)
  BY <1>3, <1>4, FS_Injection
<1>6. Range(order) = S
  BY <1>1, <1>5 DEF Surjection, Range
<1>7. order \in Seq(S)
  BY <1>1, <1>2
<1> QED BY <1>1, <1>6, <1>7 DEF IsInjective

(* An edge from a node that has not been popped keeps its target out of Zero. *)
LEMMA UnpoppedBlocks ==
  ASSUME KahnType, KahnCounts, NEW m \in self.nodes \ Popped, NEW k \in Onward(m)
  PROVE  k \in self.nodes \ Zero
<1>1. PICK i \in OutEdges(self, m) : k = Target(self, i) /\ Counted(self, self.edges[i])
  BY DEF Onward
<1>2. i \in DOMAIN self.edges /\ self.edges[i].source = m
  BY DEF OutEdges
<1>3. i \in Left(k) /\ k \in self.nodes
  BY <1>1, <1>2, GivenFacts DEF Left, Entering
<1>4. Cardinality(Left(k)) # 0
  <2>1. Left(k) \in SUBSET Entering(k)
    BY DEF Left
  <2> QED BY <1>3, <2>1, EnteringFinite
<1> QED BY <1>3, <1>4 DEF KahnCounts, Zero

(* What is not popped yet is closed: nothing popped is reached from it. *)
LEMMA UnpoppedIsClosed ==
  ASSUME KahnType, KahnCounts, NEW n \in Zero \ Popped
  PROVE  n \notin Reach(n)
<1> DEFINE S == self.nodes \ Zero
<1>1. n \in self.nodes \ Popped
  BY DEF Zero
<1>2. Onward(n) \subseteq S
  BY <1>1, UnpoppedBlocks
<1>3. EdgeClosed(S)
  <2>1. S \subseteq self.nodes \ Popped
    BY DEF Popped
  <2> QED BY <2>1, UnpoppedBlocks DEF EdgeClosed
<1>4. n \notin S /\ S \in SUBSET self.nodes
  OBVIOUS
<1> QED BY <1>2, <1>3, <1>4 DEF Reach

(* Before anything is popped, all of a node's counted in-edges are left. *)
LEMMA CountingStarts ==
  ASSUME KahnInv, StartCounting
  PROVE  KahnInv'
<1> USE DEF StartCounting
<1>0. KahnType /\ seen = 0 /\ self' = self /\ seen' = seen /\ verdict' = "counting"
  BY DEF KahnInv
<1> DEFINE Free == {n \in self.nodes : InDegree(n) = 0}
<1>1. IsFiniteSet(Free) /\ Free \subseteq self.nodes
  BY <1>0, GivenFacts, FS_Subset
<1>2. queue' \in Seq(Free) /\ Range(queue') = Free /\ IsInjective(queue')
  <2>1. PICK o \in SetToSeqs(Free) : queue' = o
    OBVIOUS
  <2> QED BY <1>1, <2>1, OrderFacts
<1>3. \A n \in self.nodes : InDegree(n) = Cardinality(Entering(n))
  BY DEF InDegree, Entering
<1>4. Zero' = Free
  BY <1>0 DEF Zero
<1>5. Queued' = Free
  BY <1>2 DEF Queued
<1>6. Popped' = {}
  BY <1>4, <1>5 DEF Popped
<1>7. \A n \in self.nodes : Left(n)' = Entering(n)
  BY <1>0, <1>6 DEF Left, Entering, Target, Counted
<1>8. KahnType'
  <2>1. indeg' \in [self.nodes -> Int]
    BY <1>0, <1>3, EnteringFinite
  <2>2. queue' \in Seq(self.nodes)
    BY <1>1, <1>2
  <2> QED BY <1>0, <2>1, <2>2 DEF KahnType
<1>9. KahnCounts'
  <2>1. (seen = Cardinality(Popped))'
    BY <1>0, <1>6, FS_EmptySet
  <2>2. (\A n \in self.nodes : indeg[n] = Cardinality(Left(n)))'
    BY <1>0, <1>3, <1>7
  <2> QED BY <1>2, <1>4, <1>5, <1>6, <2>1, <2>2 DEF KahnCounts
<1> QED BY <1>0, <1>8, <1>9 DEF KahnInv

(* Popping the head of the queue moves it from Queued to Popped. *)
LEMMA PopMovesHead ==
  ASSUME KahnType, KahnCounts, queue # <<>>
  PROVE  LET cur == Head(queue)
         IN  /\ cur \in Queued /\ cur \in self.nodes /\ cur \in Zero
             /\ Tail(queue) \in Seq(self.nodes)
             /\ Range(Tail(queue)) = Queued \ {cur}
             /\ IsInjective(Tail(queue))
<1>0. PICK q \in Seq(self.nodes) : q = queue
  BY DEF KahnType
<1>1. PICK k \in Nat : Len(q) = k /\ k > 0
  BY <1>0
<1>2. DOMAIN q = 1 .. k
  BY <1>1
<1>3. PICK t \in Seq(self.nodes) : t = Tail(q)
  <2>1. q # <<>>
    BY <1>0
  <2>2. Tail(q) \in Seq(self.nodes)
    BY <2>1
  <2> QED BY <2>2
<1>4. DOMAIN t = 1 .. k - 1 /\ \A i \in 1 .. k - 1 : t[i] = q[i + 1]
  BY <1>1, <1>3
<1>5. Head(q) = q[1] /\ 1 \in DOMAIN q
  BY <1>1, <1>2
<1>6. \A i, j \in DOMAIN q : q[i] = q[j] => i = j
  BY <1>0 DEF KahnCounts, IsInjective
<1>7. Queued = {q[i] : i \in DOMAIN q}
  BY <1>0 DEF Queued, Range
<1>8. \A i, j \in DOMAIN t : t[i] = t[j] => i = j
  <2> TAKE i, j \in DOMAIN t
  <2> HAVE t[i] = t[j]
  <2>1. i \in Nat /\ j \in Nat /\ i + 1 \in DOMAIN q /\ j + 1 \in DOMAIN q
    BY <1>1, <1>2, <1>4
  <2>2. q[i + 1] = q[j + 1]
    BY <1>4
  <2>3. i + 1 = j + 1
    BY <1>6, <2>1, <2>2
  <2> QED BY <2>1, <2>3
<1>9. ASSUME NEW n
      PROVE  n \in {t[i] : i \in DOMAIN t} <=> n \in Queued \ {q[1]}
  <2>1. ASSUME NEW i \in DOMAIN t, n = t[i]
        PROVE  n \in Queued \ {q[1]}
    <3>1. i \in Nat /\ i > 0 /\ i + 1 \in DOMAIN q /\ n = q[i + 1]
      BY <1>1, <1>2, <1>4, <2>1
    <3>2. n # q[1]
      <4>1. SUFFICES ASSUME q[i + 1] = q[1]
                     PROVE  FALSE
        BY <3>1
      <4>2. i + 1 = 1
        BY <1>5, <1>6, <3>1, <4>1
      <4> QED BY <3>1, <4>2
    <3> QED BY <1>7, <3>1, <3>2
  <2>2. ASSUME n \in Queued, n # q[1]
        PROVE  \E i \in DOMAIN t : n = t[i]
    <3>1. PICK i \in DOMAIN q : n = q[i]
      BY <1>7, <2>2
    <3>2. i \in Nat /\ i > 0 /\ i # 1 /\ i - 1 \in 1 .. k - 1
      BY <1>1, <1>2, <2>2, <3>1
    <3>3. t[i - 1] = q[(i - 1) + 1] /\ (i - 1) + 1 = i
      BY <1>4, <3>2
    <3> QED BY <1>4, <3>1, <3>2, <3>3
  <2> QED BY <2>1, <2>2
<1>10. q[1] \in Queued /\ q[1] \in self.nodes /\ q[1] \in Zero
  <2>1. q[1] \in Queued
    BY <1>5, <1>7
  <2>2. Queued \subseteq Zero
    BY DEF KahnCounts
  <2> QED BY <2>1, <2>2 DEF Zero
<1>11. Range(t) = Queued \ {q[1]}
  BY <1>9 DEF Range
<1>12. IsInjective(t)
  BY <1>8 DEF IsInjective
<1> QED BY <1>0, <1>3, <1>5, <1>10, <1>11, <1>12

(* What concatenation does, element by element. *)
LEMMA ConcatFacts ==
  ASSUME NEW S, NEW s \in Seq(S), NEW t \in Seq(S)
  PROVE  /\ s \o t \in Seq(S) /\ Len(s \o t) = Len(s) + Len(t)
         /\ \A i \in 1 .. Len(s) : (s \o t)[i] = s[i]
         /\ \A j \in 1 .. Len(t) : (s \o t)[Len(s) + j] = t[j]
OBVIOUS

(* Two sequences without repetition and without a common element. *)
LEMMA AppendOrders ==
  ASSUME NEW S, NEW s \in Seq(S), NEW t \in Seq(S), IsInjective(s), IsInjective(t),
         Range(s) \cap Range(t) = {}
  PROVE  /\ s \o t \in Seq(S) /\ IsInjective(s \o t)
         /\ Range(s \o t) = Range(s) \cup Range(t)
<1>0. PICK u : u = s \o t
  OBVIOUS
<1>1. PICK a \in Nat : a = Len(s) /\ DOMAIN s = 1 .. a
  OBVIOUS
<1>2. PICK b \in Nat : b = Len(t) /\ DOMAIN t = 1 .. b
  OBVIOUS
<1>3. /\ u \in Seq(S) /\ Len(u) = a + b
      /\ \A i \in 1 .. a : u[i] = s[i]
      /\ \A j \in 1 .. b : u[a + j] = t[j]
  BY <1>0, <1>1, <1>2, ConcatFacts
<1>4. DOMAIN u = 1 .. a + b
  BY <1>3
<1>5. \A i \in 1 .. a : i \in DOMAIN u /\ u[i] = s[i]
  BY <1>1, <1>2, <1>3, <1>4
<1>6. \A j \in 1 .. b : a + j \in DOMAIN u /\ u[a + j] = t[j]
  BY <1>1, <1>2, <1>3, <1>4
<1>7. \A i \in DOMAIN u : i \in 1 .. a \/ \E j \in 1 .. b : i = a + j
  <2> TAKE i \in DOMAIN u
  <2>1. i \in 1 .. a + b
    BY <1>4
  <2>2. CASE i > a
    <3>1. i - a \in 1 .. b /\ i = a + (i - a)
      BY <1>1, <1>2, <2>1, <2>2
    <3> QED BY <3>1
  <2> QED BY <1>1, <2>1, <2>2
<1>8. ASSUME NEW i \in DOMAIN u, NEW j \in DOMAIN u, u[i] = u[j]
      PROVE  i = j
  <2>1. ASSUME NEW k \in 1 .. a, NEW l \in 1 .. b
        PROVE  s[k] # t[l]
    <3>1. s[k] \in Range(s) /\ t[l] \in Range(t)
      BY <1>1, <1>2 DEF Range
    <3> QED BY <3>1
  <2>2. CASE i \in 1 .. a /\ j \in 1 .. a
    <3>1. s[i] = s[j]
      BY <1>5, <1>8, <2>2
    <3> QED BY <1>1, <2>2, <3>1 DEF IsInjective
  <2>3. CASE i \in 1 .. a /\ j \notin 1 .. a
    <3>1. PICK l \in 1 .. b : j = a + l
      BY <1>7, <2>3
    <3>2. s[i] = t[l]
      BY <1>5, <1>6, <1>8, <2>3, <3>1
    <3> QED BY <2>1, <2>3, <3>2
  <2>4. CASE i \notin 1 .. a /\ j \in 1 .. a
    <3>1. PICK k \in 1 .. b : i = a + k
      BY <1>7, <2>4
    <3>2. t[k] = s[j]
      BY <1>5, <1>6, <1>8, <2>4, <3>1
    <3> QED BY <2>1, <2>4, <3>2
  <2>5. CASE i \notin 1 .. a /\ j \notin 1 .. a
    <3>1. PICK k \in 1 .. b : i = a + k
      BY <1>7, <2>5
    <3>2. PICK l \in 1 .. b : j = a + l
      BY <1>7, <2>5
    <3>3. t[k] = t[l]
      BY <1>6, <1>8, <3>1, <3>2
    <3>4. k = l
      BY <1>2, <3>3 DEF IsInjective
    <3> QED BY <3>1, <3>2, <3>4
  <2> QED BY <2>2, <2>3, <2>4, <2>5
<1>9. ASSUME NEW x
      PROVE  x \in Range(u) <=> x \in Range(s) \cup Range(t)
  <2> USE DEF Range
  <2>1. ASSUME NEW i \in DOMAIN u, x = u[i]
        PROVE  x \in Range(s) \cup Range(t)
    <3>1. CASE i \in 1 .. a
      BY <1>1, <1>5, <2>1, <3>1
    <3>2. CASE i \notin 1 .. a
      <4>1. PICK j \in 1 .. b : i = a + j
        BY <1>7, <3>2
      <4> QED BY <1>2, <1>6, <2>1, <4>1
    <3> QED BY <3>1, <3>2
  <2>2. ASSUME NEW i \in DOMAIN s, x = s[i]
        PROVE  x \in Range(u)
    BY <1>1, <1>5, <2>2
  <2>3. ASSUME NEW j \in DOMAIN t, x = t[j]
        PROVE  x \in Range(u)
    BY <1>2, <1>6, <2>3
  <2> QED BY <2>1, <2>2, <2>3
<1>10. IsInjective(u)
  BY <1>8 DEF IsInjective
<1> QED BY <1>0, <1>3, <1>9, <1>10

(* What popping cur frees enters the queue, and nothing else changes sides. *)
LEMMA PopKeepsCounts ==
  ASSUME KahnInv, PopLeft
  PROVE  KahnInv'
<1>0. /\ KahnType /\ KahnCounts /\ verdict = "counting" /\ queue # <<>>
      /\ self' = self /\ verdict' = "counting"
  BY DEF KahnInv, PopLeft
<1>1. PICK cur : cur = Head(queue)
  OBVIOUS
<1> DEFINE freed == {n \in self.nodes : Between(cur, n) # {} /\ CountDown(cur, n) = 0}
           rest  == Tail(queue)
<1>2. /\ cur \in Queued /\ cur \in self.nodes /\ cur \in Zero
      /\ rest \in Seq(self.nodes)
      /\ Range(rest) = Queued \ {cur}
      /\ IsInjective(rest)
  BY <1>0, <1>1, PopMovesHead
<1>3. IsFiniteSet(freed) /\ freed \subseteq self.nodes
  BY <1>0, GivenFacts, FS_Subset
<1>4. PICK order \in SetToSeqs(freed) : queue' = rest \o order
  BY <1>1 DEF PopLeft
<1>5. order \in Seq(freed) /\ Range(order) = freed /\ IsInjective(order)
  BY <1>3, OrderFacts
<1>6. seen' = seen + 1 /\ indeg' = [n \in self.nodes |-> CountDown(cur, n)]
  BY <1>1 DEF PopLeft
\* The counting.
<1>7. \A n \in self.nodes : Left(n) \in SUBSET Entering(n) /\ Between(cur, n) \in SUBSET Left(n)
  <2>1. cur \notin Popped
    BY <1>2 DEF Popped
  <2> QED BY <2>1 DEF Left, Entering, Between, OutEdges
<1>8. \A n \in self.nodes :
        /\ CountDown(cur, n) = Cardinality(Left(n) \ Between(cur, n))
        /\ CountDown(cur, n) \in Int
  <2> TAKE n \in self.nodes
  <2>1. indeg[n] = Cardinality(Left(n))
    BY <1>0 DEF KahnCounts
  <2>2. IsFiniteSet(Left(n)) /\ Cardinality(Left(n)) \in Nat
    BY <1>0, <1>7, EnteringFinite
  <2>3. IsFiniteSet(Between(cur, n)) /\ Cardinality(Between(cur, n)) \in Nat
    BY <1>7, <2>2, FS_Subset, FS_CardinalityType
  <2>4. Cardinality(Left(n) \ Between(cur, n))
          = Cardinality(Left(n)) - Cardinality(Left(n) \cap Between(cur, n))
    BY <2>2, <2>3, FS_Difference
  <2>5. Cardinality(Left(n) \cap Between(cur, n)) = Cardinality(Between(cur, n))
    <3>1. Left(n) \cap Between(cur, n) = Between(cur, n)
      BY <1>7
    <3> QED BY <3>1
  <2>6. CountDown(cur, n) = Cardinality(Left(n)) - Cardinality(Between(cur, n))
    BY <2>1 DEF CountDown
  <2> QED BY <2>2, <2>3, <2>4, <2>5, <2>6
<1>9. \A n \in Zero : Left(n) = {} /\ Between(cur, n) = {} /\ n \in self.nodes
  <2> TAKE n \in Zero
  <2>1. n \in self.nodes /\ indeg[n] = 0
    BY DEF Zero
  <2>2. Cardinality(Left(n)) = 0
    BY <1>0, <2>1 DEF KahnCounts
  <2> QED BY <1>0, <1>7, <2>1, <2>2, EnteringFinite
<1>10. freed \cap Zero = {}
  BY <1>9
<1>11. \A n \in self.nodes : CountDown(cur, n) = 0 <=> n \in Zero \cup freed
  <2> TAKE n \in self.nodes
  <2>1. CASE n \in Zero
    <3>1. Left(n) \ Between(cur, n) = {}
      BY <1>9, <2>1
    <3>2. CountDown(cur, n) = Cardinality({})
      BY <1>8, <3>1
    <3> QED BY <2>1, <3>2, FS_EmptySet
  <2>2. CASE n \notin Zero /\ Between(cur, n) = {}
    <3>1. Left(n) \ Between(cur, n) = Left(n)
      BY <2>2
    <3>2. CountDown(cur, n) = indeg[n]
      BY <1>0, <1>8, <3>1 DEF KahnCounts
    <3>3. indeg[n] # 0
      BY <2>2 DEF Zero
    <3> QED BY <2>2, <3>2, <3>3
  <2>3. CASE n \notin Zero /\ Between(cur, n) # {}
    BY <2>3
  <2> QED BY <2>1, <2>2, <2>3
\* The sides of the queue.
<1>12. Zero' = Zero \cup freed
  <2>1. Zero' = {n \in self.nodes : CountDown(cur, n) = 0}
    BY <1>0, <1>6 DEF Zero
  <2>2. Zero \subseteq self.nodes
    BY DEF Zero
  <2> QED BY <1>3, <1>11, <2>1, <2>2
<1>13. Queued \subseteq Zero
  BY <1>0 DEF KahnCounts
<1>14. Range(rest) \cap Range(order) = {}
  BY <1>2, <1>5, <1>10, <1>13
<1>15. /\ queue' \in Seq(self.nodes) /\ IsInjective(queue')
       /\ Range(queue') = (Queued \ {cur}) \cup freed
  <2>1. order \in Seq(self.nodes)
    BY <1>3, <1>5
  <2>2. /\ rest \o order \in Seq(self.nodes) /\ IsInjective(rest \o order)
        /\ Range(rest \o order) = Range(rest) \cup Range(order)
    <3>1. PICK S : S = self.nodes
      OBVIOUS
    <3>2. rest \in Seq(S) /\ order \in Seq(S) /\ IsInjective(rest) /\ IsInjective(order)
      BY <1>2, <1>5, <2>1, <3>1
    <3> HIDE DEF freed, rest
    <3>3. /\ rest \o order \in Seq(S) /\ IsInjective(rest \o order)
          /\ Range(rest \o order) = Range(rest) \cup Range(order)
      BY <1>14, <3>2, AppendOrders
    <3> QED BY <3>1, <3>3
  <2> QED BY <1>2, <1>4, <1>5, <2>2
<1>16. Queued' = (Queued \ {cur}) \cup freed
  BY <1>15 DEF Queued
<1>17. Popped' = Popped \cup {cur} /\ cur \notin Popped
  BY <1>2, <1>10, <1>12, <1>13, <1>16 DEF Popped
<1>18. \A n \in self.nodes : Left(n)' = Left(n) \ Between(cur, n)
  <2> TAKE n \in self.nodes
  <2>1. Left(n)' = {i \in Entering(n) : self.edges[i].source \notin Popped \cup {cur}}
    BY <1>0, <1>17 DEF Left, Entering, Target, Counted
  <2> QED BY <2>1 DEF Left, Entering, Between, OutEdges
\* The invariant.
<1>19. KahnType'
  BY <1>0, <1>6, <1>8, <1>15 DEF KahnType
<1>20. KahnCounts'
  <2>1. (\A n \in self.nodes : indeg[n] = Cardinality(Left(n)))'
    BY <1>0, <1>6, <1>8, <1>18
  <2>2. (seen = Cardinality(Popped))'
    <3>1. IsFiniteSet(Popped)
      BY <1>0, GivenFacts, FS_Subset DEF Popped, Zero
    <3>2. Cardinality(Popped \cup {cur}) = Cardinality(Popped) + 1
      BY <1>17, <3>1, FS_AddElement
    <3> QED BY <1>0, <1>6, <1>17, <3>2 DEF KahnCounts
  <2>3. (\A n \in Popped : n \notin Reach(n))'
    <3>1. \A n : Reach(n)' = Reach(n)
      BY <1>0 DEF Reach, Onward, EdgeClosed, OutEdges, Target, Counted
    <3>2. cur \notin Reach(cur)
      BY <1>0, <1>2, <1>17, UnpoppedIsClosed
    <3> QED BY <1>0, <1>17, <3>1, <3>2 DEF KahnCounts
  <2>4. (Queued \subseteq Zero)'
    BY <1>12, <1>13, <1>16
  <2> QED BY <1>15, <2>1, <2>2, <2>3, <2>4 DEF KahnCounts
<1> QED BY <1>0, <1>19, <1>20 DEF KahnInv

LEMMA CountsAreKept ==
  ASSUME UNCHANGED <<self, indeg, queue, seen>>
  PROVE  /\ KahnCounts' <=> KahnCounts
         /\ Popped' = Popped
<1>1. Queued' = Queued
  BY DEF Queued
<1>2. Zero' = Zero
  BY DEF Zero
<1>3. Popped' = Popped
  BY <1>1, <1>2 DEF Popped
<1>4. \A n : Left(n)' = Left(n)
  BY <1>3 DEF Left, Entering, Target, Counted
<1>5. \A n : Reach(n)' = Reach(n)
  BY DEF Reach, Onward, EdgeClosed, OutEdges, Target, Counted
<1> QED BY <1>1, <1>2, <1>3, <1>4, <1>5 DEF KahnCounts

LEMMA DecideComparesCounts ==
  ASSUME KahnInv, Decide
  PROVE  KahnInv'
<1>1. KahnType /\ KahnCounts /\ queue = <<>> /\ UNCHANGED <<self, indeg, queue, seen>>
  BY DEF KahnInv, Decide
<1>2. verdict' \in {"accepted", "cycle"}
      /\ (verdict' = "accepted" <=> seen = Cardinality(self.nodes))
  BY DEF Decide
<1>3. seen = Cardinality(self.nodes) <=> Popped = self.nodes
  <2>1. seen = Cardinality(Popped) /\ Popped \subseteq self.nodes
    BY <1>1 DEF KahnCounts, Popped, Zero
  <2>2. Cardinality(Popped) = Cardinality(self.nodes) => Popped = self.nodes
    BY <1>1, <2>1, GivenFacts, FS_Subset
  <2> QED BY <2>1, <2>2
<1>4. KahnCounts' /\ Popped' = Popped
  BY <1>1, CountsAreKept
<1>5. KahnType'
  BY <1>1, <1>2 DEF KahnType
<1> QED BY <1>1, <1>2, <1>3, <1>4, <1>5 DEF KahnInv

LEMMA KahnSafe == CheckSpec => []KahnInv
<1>1. CheckInit => KahnInv
  <2> SUFFICES ASSUME CheckInit
               PROVE  KahnInv
    OBVIOUS
  <2>1. KahnType
    BY DEF KahnType, CheckInit
  <2> QED BY <2>1 DEF KahnInv, CheckInit
<1>2. KahnInv /\ [CheckNext]_checkVars => KahnInv'
  <2> SUFFICES ASSUME KahnInv, [CheckNext]_checkVars
               PROVE  KahnInv'
    OBVIOUS
  <2>1. ASSUME UNCHANGED checkVars
        PROVE  KahnInv'
    <3>1. UNCHANGED <<self, indeg, queue, seen>> /\ verdict' = verdict
      BY <2>1 DEF checkVars
    <3>2. (KahnCounts' <=> KahnCounts) /\ Popped' = Popped
      BY <3>1, CountsAreKept
    <3> QED BY <3>1, <3>2 DEF KahnInv, KahnType
  <2>2. ASSUME NEW reason \in {"no unique start", "container not closed"},
               verdict = "unchecked", Reject(reason)
        PROVE  KahnInv'
    <3>1. UNCHANGED <<self, indeg, queue, seen>> /\ verdict' = reason
      BY <2>2 DEF Reject
    <3>2. KahnType'
      BY <3>1 DEF KahnInv, KahnType
    <3> QED BY <3>1, <3>2 DEF KahnInv
  <2>3. CASE RejectStart
    BY <2>2, <2>3 DEF RejectStart
  <2>4. CASE RejectContainers
    BY <2>2, <2>4 DEF RejectContainers
  <2>5. CASE StartCounting
    BY <2>5, CountingStarts
  <2>6. CASE PopLeft
    BY <2>6, PopKeepsCounts
  <2>7. CASE Decide
    BY <2>7, DecideComparesCounts
  <2>8. CASE Decided
    BY <2>1, <2>8 DEF Decided
  <2> QED BY <2>1, <2>3, <2>4, <2>5, <2>6, <2>7, <2>8 DEF CheckNext
<1> QED BY <1>1, <1>2, PTL DEF CheckSpec

(* A counted edge to n also leads wherever n's edges lead. *)
LEMMA ReachIsTransitive ==
  ASSUME KahnType, NEW m \in self.nodes, NEW n \in Onward(m)
  PROVE  n \in self.nodes /\ n \in Reach(m) /\ Reach(n) \subseteq Reach(m)
<1>1. n \in self.nodes
  BY GivenFacts DEF Onward, OutEdges
<1>2. n \in Reach(m)
  BY <1>1 DEF Reach
<1>3. ASSUME NEW k \in Reach(n), NEW S \in SUBSET self.nodes, Onward(m) \subseteq S, EdgeClosed(S)
      PROVE  k \in S
  <2>1. Onward(n) \subseteq S
    BY <1>3 DEF EdgeClosed
  <2> QED BY <1>3, <2>1 DEF Reach
<1>4. Reach(n) \subseteq Reach(m)
  BY <1>3 DEF Reach
<1> QED BY <1>1, <1>2, <1>4

(***************************************************************************)
(* When the queue is empty, every node that was not popped has a           *)
(* predecessor that was not popped either; the one of them that reaches    *)
(* most nodes is on a cycle.                                               *)
(***************************************************************************)
LEMMA UnpoppedCycle ==
  ASSUME KahnInv, verdict = "cycle"
  PROVE  \E n \in self.nodes : n \in Reach(n)
<1>0. KahnType /\ KahnCounts /\ queue = <<>> /\ Popped # self.nodes
  BY DEF KahnInv
<1> DEFINE U == self.nodes \ Popped
           rank(n) == Cardinality(self.nodes \ Reach(n))
<1>1. U # {} /\ IsFiniteSet(self.nodes)
  BY <1>0, GivenFacts DEF Popped, Zero
<1>2. \A n \in U : rank(n) \in Nat
  BY <1>1, FS_Subset, FS_CardinalityType
<1>3. PICK n \in U : \A m \in U : rank(n) <= rank(m)
  <2> DEFINE R == {rank(m) : m \in U}
  <2>1. R \in SUBSET Nat /\ R # {}
    BY <1>1, <1>2
  <2>2. PICK r \in R : \A x \in R : ~(x < r)
    BY <2>1, LeastNumber
  <2>3. PICK n \in U : r = rank(n)
    BY <2>2
  <2>4. \A m \in U : ~(rank(m) < rank(n)) /\ rank(m) \in Nat
    BY <1>2, <2>2, <2>3
  <2>5. rank(n) \in Nat
    BY <1>2
  <2> HIDE DEF rank, R
  <2> QED BY <2>4, <2>5
<1>4. PICK m \in U : n \in Onward(m)
  <2>1. n \in self.nodes /\ n \notin Zero
    <3>1. Queued = {}
      BY <1>0 DEF Queued, Range
    <3> QED BY <3>1 DEF Popped
  <2>2. Cardinality(Left(n)) # 0
    BY <1>0, <2>1 DEF KahnCounts, Zero
  <2>3. Left(n) # {}
    BY <2>2, FS_EmptySet
  <2>4. PICK i \in Entering(n) : self.edges[i].source \notin Popped
    BY <2>3 DEF Left
  <2>5. self.edges[i].source \in U
    BY <1>0, <2>4, GivenFacts DEF Entering
  <2>6. n \in Onward(self.edges[i].source)
    BY <2>4 DEF Entering, Onward, OutEdges
  <2> QED BY <2>5, <2>6
<1>5. n \in self.nodes /\ n \in Reach(m) /\ Reach(n) \subseteq Reach(m)
  BY <1>0, <1>4, ReachIsTransitive
<1>6. ASSUME n \notin Reach(n)
      PROVE  rank(m) < rank(n)
  <2> DEFINE S == self.nodes \ Reach(n)
             T == self.nodes \ Reach(m)
  <2>1. T \subseteq S /\ n \in S /\ n \notin T /\ IsFiniteSet(S)
    BY <1>1, <1>5, <1>6, FS_Subset
  <2>2. IsFiniteSet(T) /\ Cardinality(T) \in Nat /\ Cardinality(S) \in Nat
        /\ Cardinality(T) <= Cardinality(S) /\ Cardinality(T) # Cardinality(S)
    BY <2>1, FS_Subset, FS_CardinalityType
  <2> QED BY <2>2
<1>7. rank(n) <= rank(m) /\ rank(n) \in Nat /\ rank(m) \in Nat
  BY <1>2, <1>3
<1> HIDE DEF rank
<1> QED BY <1>5, <1>6, <1>7

(***************************************************************************)
(* Validation refuses a graph for a cycle just when some node reaches      *)
(* itself along counted edges: _check_acyclic's verdict, for every graph.  *)
(***************************************************************************)
THEOREM ValidationIsExact == CheckSpec => []AcceptsExactlyAcyclic
<1>1. KahnInv => AcceptsExactlyAcyclic
  <2> SUFFICES ASSUME KahnInv, verdict \in {"accepted", "cycle"}
               PROVE  verdict = "accepted" <=> \A n \in self.nodes : n \notin Reach(n)
    BY DEF AcceptsExactlyAcyclic
  <2>1. CASE verdict = "accepted"
    BY <2>1 DEF KahnInv, KahnCounts
  <2>2. CASE verdict = "cycle"
    BY <2>2, UnpoppedCycle
  <2> QED BY <2>1, <2>2
<1> QED BY <1>1, KahnSafe, PTL
===============================================================================
