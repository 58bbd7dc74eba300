------------------------------ MODULE Scheduler ------------------------------
(***************************************************************************)
(* The concurrent DAG scheduler of apps/agent/engine/executor.py: one call *)
(* of Executor.run on the main graph of a workflow.                        *)
(*                                                                         *)
(* run() opens a thread pool and a _Scope, submits the entry node and      *)
(* waits for the scope's idle event.  Each pool task runs _run_node: it    *)
(* executes its node, adds it to done and chooses the successors in two    *)
(* separate critical sections of scope.lock, acquires the scope once per   *)
(* successor, releases it once for itself and only then submits the        *)
(* successors.  The first failure aborts the scope, which wakes run().     *)
(*                                                                         *)
(* A critical section of scope.lock is one action; so is a call of the     *)
(* pool, which has a lock of its own.                                      *)
(***************************************************************************)
EXTENDS WorkflowGraph

CONSTANTS
  Graphs,     \* the workflows that may be run
  PoolSize,   \* Executor.pool_size: worker threads
  MaxDepth,   \* Executor.max_depth
  MayFail     \* nodes whose execution may raise an ordinary exception

ASSUME SchedulerAssumption ==
  /\ \A g \in Graphs : IsGraph(g) /\ HasStart(g)
  /\ PoolSize \in Nat \ {0}
  /\ MaxDepth \in Nat
  /\ MayFail \subseteq Node

VARIABLES
  graph,       \* self.graph
  entry,       \* the node run() submits first
  submitted,   \* is global_vars["_form_submitted"] set?
  caller,      \* where the thread in run() is
  tasks,       \* the pool's tasks in submission order
  started,     \* how many tasks the pool's FIFO queue has handed to workers
  pending,     \* scope.pending
  done,        \* scope.done
  activated,   \* scope.activated
  error,       \* scope.error
  idle,        \* scope._idle is set
  store        \* nodes whose result is written to the ContextStore

request == <<graph, entry, submitted>>
pool    == <<tasks, started>>
scope   == <<pending, done, activated, error, idle>>
vars    == <<request, caller, pool, scope, store>>

NoError == [kind |-> "none", node |-> NoNode]
Errors  == [kind : {"interrupt", "failure", "depth"}, node : Node]

Callers == {"idle", "waiting", "shutdown", "returned", "raised"}

(***************************************************************************)
(* A task: its node and depth, where _run_node is (pc), the branch the     *)
(* node returned, and for each chosen successor edge whether it still has  *)
(* to be acquired (todo) and submitted (nxt).                              *)
(***************************************************************************)
Phases == {"queued", "running", "executed", "done", "acquiring",
           "submitting", "finished", "aborted", "rejected"}

Over == {"finished", "aborted", "rejected"}

Task == [node : Node, depth : Nat, pc : Phases, branch : Branch \cup {NoBranch},
         todo : SUBSET Nat, nxt : SUBSET Nat]

NewTask(n, d) == [node |-> n, depth |-> d, pc |-> "queued", branch |-> NoBranch,
                  todo |-> {}, nxt |-> {}]

At(t, phase) == t \in DOMAIN tasks /\ tasks[t].pc = phase

\* The step of one task: its record becomes r.
Become(t, r) == tasks' = [tasks EXCEPT ![t] = r]

\* Workers are the tasks handed out and not over: at most PoolSize of them.
Busy == {t \in 1 .. started : tasks[t].pc \notin Over}

\* What the pool still has to do before shutdown(wait=True) returns.
Drained == \A t \in DOMAIN tasks : tasks[t].pc \in Over

-----------------------------------------------------------------------------
Init ==
  /\ graph \in Graphs
  /\ entry = GetStart(graph)
  /\ submitted = FALSE
  /\ caller = "idle"
  /\ tasks = <<>>
  /\ started = 0
  /\ pending = 0
  /\ done = {}
  /\ activated = {}
  /\ error = NoError
  /\ idle = FALSE
  /\ store = {}

(***************************************************************************)
(* The thread in run().                                                    *)
(***************************************************************************)

\* A new pool and scope; one acquire, and node n submitted.
Launch(n, preDone) ==
  /\ caller' = "waiting"
  /\ tasks' = <<NewTask(n, 0)>>
  /\ started' = 0
  /\ pending' = 1
  /\ done' = preDone
  /\ activated' = {}
  /\ error' = NoError
  /\ idle' = FALSE

\* The first run of a workflow: from its start node, with nothing done.
Run ==
  /\ caller = "idle"
  /\ Launch(entry, {})
  /\ UNCHANGED <<request, store>>

\* scope.wait() returns; pool.shutdown refuses every later submit.
Wake ==
  /\ caller = "waiting"
  /\ idle
  /\ caller' = "shutdown"
  /\ UNCHANGED <<request, pool, scope, store>>

\* Variant: shutdown(wait=False) returns at once.
JoinWithoutWaiting ==
  /\ caller = "shutdown"
  /\ caller' = IF error = NoError THEN "returned" ELSE "raised"
  /\ UNCHANGED <<request, pool, scope, store>>

\* shutdown(wait=True) returns once the queue is empty and no worker runs.
Join ==
  /\ caller = "shutdown"
  /\ Drained
  /\ caller' = IF error = NoError THEN "returned" ELSE "raised"
  /\ UNCHANGED <<request, pool, scope, store>>

(***************************************************************************)
(* _Scope.                                                                 *)
(***************************************************************************)

\* Variant: abort forgets to set the idle event.
AbortWithoutWaking(kind, n) ==
  /\ error' = IF error = NoError THEN [kind |-> kind, node |-> n] ELSE error
  /\ pending' = 0
  /\ UNCHANGED <<idle, done, activated>>

Abort(kind, n) ==
  /\ error' = IF error = NoError THEN [kind |-> kind, node |-> n] ELSE error
  /\ pending' = 0
  /\ idle' = TRUE
  /\ UNCHANGED <<done, activated>>

Release ==
  /\ pending' = pending - 1
  /\ idle' = (idle \/ (pending' = 0 /\ error = NoError))
  /\ UNCHANGED <<done, activated, error>>

(***************************************************************************)
(* _run_node, as a worker steps through it.                                *)
(***************************************************************************)

\* A free worker takes the oldest queued task; past max_depth it aborts.
Start(t) ==
  /\ At(t, "queued") /\ t = started + 1
  /\ Cardinality(Busy) < PoolSize
  /\ started' = t
  /\ IF tasks[t].depth > MaxDepth
       THEN /\ Become(t, [tasks[t] EXCEPT !.pc = "aborted"])
            /\ Abort("depth", tasks[t].node)
       ELSE /\ Become(t, [tasks[t] EXCEPT !.pc = "running"])
            /\ UNCHANGED scope
  /\ UNCHANGED <<request, caller, store>>

\* What a node's execute may return: a condition-node picks a branch.
Branches(n) == IF graph.type[n] = "condition-node" THEN Branch ELSE {NoBranch}

\* execute returns and write_result stores the node's variables.
Execute(t, b) ==
  /\ At(t, "running") /\ tasks[t].node \in graph.nodes
  /\ b \in Branches(tasks[t].node)
  /\ graph.type[tasks[t].node] = "form-node" => submitted
  /\ Become(t, [tasks[t] EXCEPT !.pc = "executed", !.branch = b])
  /\ store' = store \cup {tasks[t].node}
  /\ UNCHANGED <<request, caller, started, scope>>

\* An unsubmitted form-node raises WorkflowInterrupt.
Interrupt(t) ==
  /\ At(t, "running") /\ tasks[t].node \in graph.nodes
  /\ graph.type[tasks[t].node] = "form-node" /\ ~submitted
  /\ Become(t, [tasks[t] EXCEPT !.pc = "aborted"])
  /\ Abort("interrupt", tasks[t].node)
  /\ UNCHANGED <<request, caller, started, store>>

\* The graph has no such node, or creating, validating or executing it
\* raises anything else than an interrupt.
Fail(t) ==
  /\ At(t, "running")
  /\ tasks[t].node \in MayFail \/ tasks[t].node \notin graph.nodes
  /\ Become(t, [tasks[t] EXCEPT !.pc = "aborted"])
  /\ Abort("failure", tasks[t].node)
  /\ UNCHANGED <<request, caller, started, store>>

\* with scope.lock: scope.done.add(node_id)
MarkDone(t) ==
  /\ At(t, "executed")
  /\ Become(t, [tasks[t] EXCEPT !.pc = "done"])
  /\ done' = done \cup {tasks[t].node}
  /\ UNCHANGED <<request, caller, started, pending, activated, error, idle, store>>

\* Variant: an AND join waits for one of its activated predecessors.
ReadyOnAny(n) ==
  RequiresAll(graph, n) =>
    \E p \in Predecessors(graph, n) \cap activated : p \in done

\* An AND join waits for its activated predecessors, any other node for none.
Ready(n) ==
  RequiresAll(graph, n) =>
    \A p \in Predecessors(graph, n) \cap activated : p \in done

\* Variant: a successor that is already activated is chosen again.
SelectedAgain(n, b) ==
  {i \in Routed(graph, NoNode, n, b) :
     /\ Target(graph, i) \notin done
     /\ Ready(Target(graph, i))}

\* The successor edges _next_nodes returns for a node that took branch b.
Selected(n, b) ==
  {i \in Routed(graph, NoNode, n, b) :
     /\ Target(graph, i) \notin done \cup activated
     /\ Ready(Target(graph, i))}

\* Variant: every followed successor is activated, the unready joins too.
ActivateAll(t) ==
  /\ At(t, "done")
  /\ LET out == Selected(tasks[t].node, tasks[t].branch)
         followed == Routed(graph, NoNode, tasks[t].node, tasks[t].branch)
     IN  /\ activated' = activated \cup {Target(graph, i) : i \in followed}
         /\ Become(t, [tasks[t] EXCEPT !.pc = "acquiring",
                                   !.todo = out, !.nxt = out])
  /\ UNCHANGED <<request, caller, started, pending, done, error, idle, store>>

NextNodes(t) ==
  /\ At(t, "done")
  /\ LET out == Selected(tasks[t].node, tasks[t].branch)
     IN  /\ activated' = activated \cup {Target(graph, i) : i \in out}
         /\ Become(t, [tasks[t] EXCEPT !.pc = "acquiring",
                                   !.todo = out, !.nxt = out])
  /\ UNCHANGED <<request, caller, started, pending, done, error, idle, store>>

\* scope.acquire() for one more successor.
Acquire(t, i) ==
  /\ At(t, "acquiring")
  /\ i \in tasks[t].todo /\ \A j \in tasks[t].todo : i <= j
  /\ Become(t, [tasks[t] EXCEPT !.todo = tasks[t].todo \ {i}])
  /\ pending' = pending + 1
  /\ UNCHANGED <<request, caller, started, done, activated, error, idle, store>>

\* Variant: the node releases itself before it acquired for its successors.
ReleaseFirst(t) ==
  /\ At(t, "acquiring")
  /\ Become(t, [tasks[t] EXCEPT !.pc =
       IF tasks[t].nxt = {} THEN "finished" ELSE "submitting"])
  /\ Release
  /\ UNCHANGED <<request, caller, started, store>>

\* scope.release() for the node itself; with no successor the task returns.
ReleaseSelf(t) ==
  /\ At(t, "acquiring") /\ tasks[t].todo = {}
  /\ Become(t, [tasks[t] EXCEPT !.pc =
       IF tasks[t].nxt = {} THEN "finished" ELSE "submitting"])
  /\ Release
  /\ UNCHANGED <<request, caller, started, store>>

(***************************************************************************)
(* pool.submit of one more successor.  After shutdown it raises a          *)
(* RuntimeError, which ends the task and stays in its unread Future.       *)
(***************************************************************************)
Submit(t, i) ==
  /\ At(t, "submitting")
  /\ i \in tasks[t].nxt /\ \A j \in tasks[t].nxt : i <= j
  /\ IF caller = "waiting"
       THEN LET rest == tasks[t].nxt \ {i}
                step == [tasks[t] EXCEPT !.nxt = rest,
                                         !.pc = IF rest = {} THEN "finished" ELSE "submitting"]
            IN  tasks' = Append([tasks EXCEPT ![t] = step],
                                NewTask(Target(graph, i), tasks[t].depth + 1))
       ELSE Become(t, [tasks[t] EXCEPT !.pc = "rejected"])
  /\ UNCHANGED <<request, caller, started, scope, store>>

Worker(t) ==
  \/ Start(t)
  \/ \E b \in Branch \cup {NoBranch} : Execute(t, b)
  \/ Interrupt(t)
  \/ Fail(t)
  \/ MarkDone(t)
  \/ NextNodes(t)
  \/ \E i \in tasks[t].todo : Acquire(t, i)
  \/ ReleaseSelf(t)
  \/ \E i \in tasks[t].nxt : Submit(t, i)

\* run() has returned to its caller and nothing moves any more.
Terminated == caller \in {"returned", "raised"} /\ UNCHANGED vars

Next ==
  \/ Run
  \/ Wake
  \/ Join
  \/ \E t \in DOMAIN tasks : Worker(t)
  \/ Terminated

(***************************************************************************)
(* Threads are scheduled fairly and a node's execute returns; whether a    *)
(* node that may fail does so is left open.                                *)
(***************************************************************************)
Fairness ==
  /\ WF_vars(Run \/ Wake \/ Join)
  /\ WF_vars(\E t \in DOMAIN tasks : Worker(t))

Spec == Init /\ [][Next]_vars
FairSpec == Spec /\ Fairness

-----------------------------------------------------------------------------
(* Properties.                                                             *)

\* The shape of the state.
TypeOK ==
  /\ IsGraph(graph)
  /\ entry \in Node
  /\ submitted \in BOOLEAN
  /\ caller \in Callers
  /\ tasks \in Seq(Task)
  /\ \A t \in DOMAIN tasks : /\ tasks[t].nxt \subseteq DOMAIN graph.edges
                             /\ tasks[t].todo \subseteq tasks[t].nxt
                             /\ tasks[t].todo # {} => tasks[t].pc = "acquiring"
  /\ started \in 0 .. Len(tasks)
  /\ pending \in Int
  /\ done \subseteq Node
  /\ activated \subseteq Node
  /\ error \in Errors \cup {NoError}
  /\ idle \in BOOLEAN
  /\ store \subseteq Node

(***************************************************************************)
(* "Each node is one task of the pool" (executor.py, first paragraph): no  *)
(* interleaving of two finishing predecessors runs a node twice.           *)
(***************************************************************************)
AtMostOnce ==
  \A t, u \in DOMAIN tasks : tasks[t].node = tasks[u].node => t = u

(***************************************************************************)
(* What pending counts: a task that has not released itself (token 0), and *)
(* a successor along edge i acquired but not submitted (token i).          *)
(***************************************************************************)
Unreleased == {"queued", "running", "executed", "done", "acquiring"}

Owed(task) == (IF task.pc \in Unreleased THEN {0} ELSE {}) \cup (task.nxt \ task.todo)

Tokens == {x \in (DOMAIN tasks) \X (0 .. Len(graph.edges)) : x[2] \in Owed(tasks[x[1]])}

\* Until the first abort, pending is exactly the number of tokens.
PendingCounts ==
  caller # "idle" /\ error = NoError => pending = Cardinality(Tokens)

(***************************************************************************)
(* The idle event is never early: when it is set without an abort, every   *)
(* task is over, so run() does not return while a node still executes or   *)
(* waits to be submitted.                                                  *)
(***************************************************************************)
QuietWhenIdle == idle /\ error = NoError => Drained

(***************************************************************************)
(* A submit is refused by the shut-down pool only after an abort: a run    *)
(* that succeeds never drops a successor in an unread Future.              *)
(***************************************************************************)
RefusedOnlyAfterAbort ==
  (\E t \in DOMAIN tasks : tasks[t].pc = "rejected") => error # NoError

\* No in-edge of n is a branch edge.
Unconditional(n) ==
  \A i \in DOMAIN graph.edges :
    Target(graph, i) = n => graph.edges[i].branch = NoBranch

\* Edge i was to be followed by the node task t ran.
Followed(t, i) == i \in Routed(graph, NoNode, tasks[t].node, tasks[t].branch)

(***************************************************************************)
(* A run that succeeds loses no successor: the target of every edge to be  *)
(* followed has run, and an AND join too when its in-edges are             *)
(* unconditional, whichever of its predecessors finishes last.             *)
(***************************************************************************)
NoLostSuccessor ==
  caller = "returned" =>
    \A t \in DOMAIN tasks : \A i \in DOMAIN graph.edges :
      LET n == Target(graph, i)
      IN  Followed(t, i) /\ (RequiresAll(graph, n) => Unconditional(n))
            => n \in done

(***************************************************************************)
(* graph.py and executor.py promise of an AND join that activated          *)
(* predecessors are waited for and skipped ones do not block: once the run *)
(* succeeded, a followed join has run.                                     *)
(***************************************************************************)
SkippedUpstreamDoesNotBlock ==
  caller = "returned" =>
    \A t \in DOMAIN tasks : \A i \in DOMAIN graph.edges :
      Followed(t, i) => Target(graph, i) \in done

\* The predecessors of n are siblings: one node activates them, in one step.
SiblingPredecessors(n) ==
  \E p \in graph.nodes : \A q \in Predecessors(graph, n) : Predecessors(graph, q) = {p}

(***************************************************************************)
(* The same promise seen from the join, for one whose predecessors are     *)
(* siblings: when it executes, every activated predecessor is done.  A     *)
(* join with predecessors further apart may execute before one of them.    *)
(***************************************************************************)
JoinWaitsForSiblings ==
  \A t \in DOMAIN tasks :
    LET n == tasks[t].node
    IN  tasks[t].pc = "running" /\ RequiresAll(graph, n) /\ SiblingPredecessors(n) =>
          Predecessors(graph, n) \cap activated \subseteq done

(***************************************************************************)
(* run() comes back: no lost wake-up, whatever fails or is interrupted.    *)
(***************************************************************************)
RunReturns == caller = "waiting" ~> caller \in {"returned", "raised"}

-----------------------------------------------------------------------------
(***************************************************************************)
(* The scheduler implements the abstract run: the released nodes are the   *)
(* entry and the activated ones, the completed nodes are done.             *)
(***************************************************************************)
Succ == {<<graph.edges[i].source, graph.edges[i].target>> : i \in DOMAIN graph.edges}

Outcome == IF caller \in {"returned", "raised"} THEN caller ELSE "running"

Released == IF caller = "idle" THEN {} ELSE activated \cup {entry}

Abstract == INSTANCE Dataflow WITH
  succ <- Succ, released <- Released, completed <- done, outcome <- Outcome

(***************************************************************************)
(* Each step of the pool is a step of the abstract run or invisible to it: *)
(* nodes complete once, only after being released by a completed node, a   *)
(* run reports success only with every released node completed, and        *)
(* nothing completes after run() has come back.                            *)
(***************************************************************************)
ImplementsDataflow == Abstract!Spec
=============================================================================
