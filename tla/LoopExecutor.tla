----------------------------- MODULE LoopExecutor -----------------------------
(***************************************************************************)
(* Loops: Executor.run with run_subgraph (engine/executor.py) and the loop *)
(* nodes (engine/nodes/loop_node.py).                                      *)
(*                                                                         *)
(* A loop-node executes in a worker of the pool.  For each iteration it    *)
(* overwrites the shared loop variables, submits the loop-start node of    *)
(* its body to the same pool under a new _Scope, and blocks its worker     *)
(* until that scope is idle.  Scope 1 is the main graph; a body is the     *)
(* nodes whose loop_container is the loop.                                 *)
(***************************************************************************)
EXTENDS WorkflowGraph

CONSTANTS
  Graphs,         \* the workflows that may be run
  PoolSize,       \* Executor.pool_size
  MaxDepth,       \* Executor.max_depth
  MaxIterations,  \* bound: iterations a loop computes for itself
  MayFail         \* nodes whose execution may raise

ASSUME LoopAssumption ==
  /\ \A g \in Graphs : IsGraph(g) /\ HasStart(g) /\ ContainersClosed(g)
  /\ PoolSize \in Nat \ {0}
  /\ MaxDepth \in Nat
  /\ MaxIterations \in Nat
  /\ MayFail \subseteq Node

VARIABLES
  graph,      \* self.graph
  caller,     \* where the thread in run() is
  tasks,      \* the pool's tasks in submission order
  started,    \* how many of them were handed to workers
  scopes,     \* every _Scope of the run, in order of creation
  loopVars,   \* ContextStore.loop_vars: whose they are, index and _break
  loopDepth   \* global_vars["_loop_depth"]

pool == <<tasks, started>>
loop == <<loopVars, loopDepth>>
vars == <<graph, caller, pool, scopes, loop>>

NoError == [kind |-> "none", node |-> NoNode]

Over == {"finished", "aborted", "rejected"}

(***************************************************************************)
(* Beside what a task of the main graph needs, the task of a loop-node has *)
(* the iterations it computed (total), those still to come (left), the     *)
(* _loop_depth it took (level) and the scope of its iteration (child).     *)
(***************************************************************************)
NewTask(n, s, d) ==
  [node |-> n, scope |-> s, depth |-> d, pc |-> "queued", branch |-> NoBranch,
   todo |-> {}, nxt |-> {}, total |-> 0, left |-> 0, level |-> 0, child |-> 0]

\* A scope with the first node of its body acquired, opened by task owner.
NewScope(container, owner, iteration) ==
  [container |-> container, owner |-> owner, iteration |-> iteration, pending |-> 1,
   done |-> {}, activated |-> {}, error |-> NoError, idle |-> FALSE]

At(t, phase) == tasks[t].pc = phase
Become(t, r) == tasks' = [tasks EXCEPT ![t] = r]
Scope(t) == scopes[tasks[t].scope]
SetScope(t, sc) == scopes' = [scopes EXCEPT ![tasks[t].scope] = sc]
Type(t) == graph.type[tasks[t].node]

Busy == {t \in 1 .. started : tasks[t].pc \notin Over}
Drained == \A t \in DOMAIN tasks : tasks[t].pc \in Over

-----------------------------------------------------------------------------
Init ==
  /\ graph \in Graphs
  /\ caller = "idle"
  /\ tasks = <<>>
  /\ started = 0
  /\ scopes = <<>>
  /\ loopVars = [owner |-> NoNode, index |-> 0, brk |-> FALSE]
  /\ loopDepth = 0

Run ==
  /\ caller = "idle"
  /\ caller' = "waiting"
  /\ tasks' = <<NewTask(GetStart(graph), 1, 0)>>
  /\ scopes' = <<NewScope(NoNode, 0, 0)>>
  /\ UNCHANGED <<graph, started, loop>>

\* The main scope is idle: the pool is shut down.
Wake ==
  /\ caller = "waiting" /\ scopes[1].idle
  /\ caller' = "shutdown"
  /\ UNCHANGED <<graph, pool, scopes, loop>>

Join ==
  /\ caller = "shutdown" /\ Drained
  /\ caller' = IF scopes[1].error = NoError THEN "returned" ELSE "raised"
  /\ UNCHANGED <<graph, pool, scopes, loop>>

-----------------------------------------------------------------------------
(* _Scope and the body of _run_node.                                       *)

\* Variant: abort leaves the event alone.
AbortedAsleep(sc, err) ==
  [sc EXCEPT !.error = IF @ = NoError THEN err ELSE @, !.pending = 0]

Aborted(sc, err) ==
  [sc EXCEPT !.error = IF @ = NoError THEN err ELSE @, !.pending = 0, !.idle = TRUE]

Released(sc) ==
  [sc EXCEPT !.pending = @ - 1,
             !.idle = @ \/ (sc.pending = 1 /\ sc.error = NoError)]

\* _run_node's except clauses: the task ends and its scope is aborted.
Raise(t, err) ==
  /\ Become(t, [tasks[t] EXCEPT !.pc = "aborted"])
  /\ SetScope(t, Aborted(Scope(t), err))

Failure(n)   == [kind |-> "failure", node |-> n]
Interrupt(n) == [kind |-> "interrupt", node |-> n]

Start(t) ==
  /\ At(t, "queued") /\ t = started + 1
  /\ Cardinality(Busy) < PoolSize
  /\ started' = t
  /\ IF tasks[t].depth > MaxDepth
       THEN Raise(t, [kind |-> "depth", node |-> tasks[t].node])
       ELSE Become(t, [tasks[t] EXCEPT !.pc = "running"]) /\ UNCHANGED scopes
  /\ UNCHANGED <<graph, caller, loop>>

\* Break and continue nodes both set _break; _continue is never read.
Ends == {"loop-break-node", "loop-continue-node"}

Branches(t) == IF Type(t) = "condition-node" THEN Branch ELSE {NoBranch}

\* Any node but a loop.
Execute(t, b) ==
  /\ At(t, "running")
  /\ Type(t) \notin {"loop-node", "form-node"}
  /\ b \in Branches(t)
  /\ Become(t, [tasks[t] EXCEPT !.pc = "executed", !.branch = b])
  /\ loopVars' = [loopVars EXCEPT !.brk = @ \/ Type(t) \in Ends]
  /\ UNCHANGED <<graph, caller, started, scopes, loopDepth>>

\* A form that nobody has submitted, or any other exception.
ExecuteRaises(t) ==
  /\ At(t, "running")
  /\ \/ Type(t) = "form-node" /\ Raise(t, Interrupt(tasks[t].node))
     \/ tasks[t].node \in MayFail /\ Raise(t, Failure(tasks[t].node))
  /\ UNCHANGED <<graph, caller, started, loop>>

MarkDone(t) ==
  /\ At(t, "executed")
  /\ Become(t, [tasks[t] EXCEPT !.pc = "done"])
  /\ SetScope(t, [Scope(t) EXCEPT !.done = @ \cup {tasks[t].node}])
  /\ UNCHANGED <<graph, caller, started, loop>>

Ready(sc, n) ==
  RequiresAll(graph, n) => Predecessors(graph, n) \cap sc.activated \subseteq sc.done

\* The successors of t's node inside the boundary of t's scope.
Selected(t) ==
  LET sc == Scope(t)
  IN  {i \in Routed(graph, sc.container, tasks[t].node, tasks[t].branch) :
         Target(graph, i) \notin sc.done \cup sc.activated /\ Ready(sc, Target(graph, i))}

NextNodes(t) ==
  /\ At(t, "done")
  /\ LET out == Selected(t)
     IN  /\ Become(t, [tasks[t] EXCEPT !.pc = "acquiring", !.todo = out, !.nxt = out])
         /\ SetScope(t, [Scope(t) EXCEPT !.activated = @ \cup {Target(graph, i) : i \in out}])
  /\ UNCHANGED <<graph, caller, started, loop>>

Acquire(t, i) ==
  /\ At(t, "acquiring")
  /\ \A j \in tasks[t].todo : i <= j
  /\ Become(t, [tasks[t] EXCEPT !.todo = @ \ {i}])
  /\ SetScope(t, [Scope(t) EXCEPT !.pending = @ + 1])
  /\ UNCHANGED <<graph, caller, started, loop>>

ReleaseSelf(t) ==
  /\ At(t, "acquiring") /\ tasks[t].todo = {}
  /\ Become(t, [tasks[t] EXCEPT !.pc = IF tasks[t].nxt = {} THEN "finished" ELSE "submitting"])
  /\ SetScope(t, Released(Scope(t)))
  /\ UNCHANGED <<graph, caller, started, loop>>

\* A shut-down pool refuses: the task ends, what it acquired stays acquired.
Submit(t, i) ==
  /\ At(t, "submitting")
  /\ \A j \in tasks[t].nxt : i <= j
  /\ IF caller = "waiting"
       THEN LET rest == tasks[t].nxt \ {i}
                step == [tasks[t] EXCEPT !.nxt = rest,
                                         !.pc = IF rest = {} THEN "finished" ELSE @]
            IN  tasks' = Append([tasks EXCEPT ![t] = step],
                  NewTask(Target(graph, i), tasks[t].scope, tasks[t].depth + 1))
       ELSE Become(t, [tasks[t] EXCEPT !.pc = "rejected"])
  /\ UNCHANGED <<graph, caller, started, scopes, loop>>

-----------------------------------------------------------------------------
(* LoopNode.execute and run_subgraph.                                      *)

\* Compute the iterations and read _loop_depth.
EnterLoop(t, n) ==
  /\ At(t, "running") /\ Type(t) = "loop-node"
  /\ Become(t, [tasks[t] EXCEPT !.pc = "entering", !.total = n, !.left = n,
                                !.level = loopDepth + 1])
  /\ UNCHANGED <<graph, caller, started, scopes, loop>>

WriteDepth(t) ==
  /\ At(t, "entering")
  /\ Become(t, [tasks[t] EXCEPT !.pc = "looping"])
  /\ loopDepth' = tasks[t].level
  /\ UNCHANGED <<graph, caller, started, scopes, loopVars>>

\* Variant: _break is not reset.
SetLoopKeepingBreak(t) ==
  /\ At(t, "looping") /\ tasks[t].left > 0
  /\ Become(t, [tasks[t] EXCEPT !.pc = "opening", !.left = @ - 1])
  /\ loopVars' = [owner |-> tasks[t].node, brk |-> loopVars.brk,
                  index |-> tasks[t].total - tasks[t].left + 1]
  /\ UNCHANGED <<graph, caller, started, scopes, loopDepth>>

\* set_loop at the head of an iteration.
SetLoop(t) ==
  /\ At(t, "looping") /\ tasks[t].left > 0
  /\ Become(t, [tasks[t] EXCEPT !.pc = "opening", !.left = @ - 1])
  /\ loopVars' = [owner |-> tasks[t].node, brk |-> FALSE,
                  index |-> tasks[t].total - tasks[t].left + 1]
  /\ UNCHANGED <<graph, caller, started, scopes, loopDepth>>

LoopStarts(l) == {n \in graph.nodes : graph.container[n] = l /\ graph.type[n] = "loop-start-node"}

\* finally: _loop_depth is what it was when this loop read it.
Restore(t) == loopDepth' = tasks[t].level - 1

\* run_subgraph: a new scope for the iteration and its first task.
RunSubgraph(t, n) ==
  /\ At(t, "opening")
  /\ n \in LoopStarts(tasks[t].node)
  /\ IF caller = "waiting"
       THEN LET new == Len(scopes) + 1
            IN  /\ scopes' = Append(scopes, NewScope(tasks[t].node, t,
                                                     tasks[t].total - tasks[t].left))
                /\ tasks' = Append([tasks EXCEPT ![t].pc = "waiting", ![t].child = new],
                                   NewTask(n, new, tasks[t].level + 1))
                /\ UNCHANGED loopDepth
       ELSE Raise(t, Failure(tasks[t].node)) /\ Restore(t)
  /\ UNCHANGED <<graph, caller, started, loopVars>>

\* Variant: the loop does not wait for its iteration.
EndIterationEarly(t) ==
  /\ At(t, "waiting")
  /\ scopes[tasks[t].child].error = NoError
  /\ Become(t, [tasks[t] EXCEPT !.pc = "looping", !.left = IF loopVars.brk THEN 0 ELSE @])
  /\ UNCHANGED <<graph, caller, started, scopes, loop>>

\* The iteration is over: run_subgraph returns, and _break ends the loop.
EndIteration(t) ==
  /\ At(t, "waiting")
  /\ scopes[tasks[t].child].idle /\ scopes[tasks[t].child].error = NoError
  /\ Become(t, [tasks[t] EXCEPT !.pc = "looping", !.left = IF loopVars.brk THEN 0 ELSE @])
  /\ UNCHANGED <<graph, caller, started, scopes, loop>>

\* Variant: run_subgraph returns the scope without looking at its error.
SwallowError(t) ==
  /\ At(t, "waiting")
  /\ scopes[tasks[t].child].error # NoError
  /\ Become(t, [tasks[t] EXCEPT !.pc = "looping"])
  /\ UNCHANGED <<graph, caller, started, scopes, loop>>

\* run_subgraph raises the body's error; an interrupt is now at the loop-node.
RaiseFromBody(t) ==
  /\ At(t, "waiting")
  /\ LET err == scopes[tasks[t].child].error
     IN  /\ scopes[tasks[t].child].idle /\ err # NoError
         /\ Raise(t, IF err.kind = "interrupt" THEN Interrupt(tasks[t].node) ELSE err)
  /\ Restore(t)
  /\ UNCHANGED <<graph, caller, started, loopVars>>

ExitLoop(t) ==
  /\ At(t, "looping") /\ tasks[t].left = 0
  /\ Become(t, [tasks[t] EXCEPT !.pc = "executed"])
  /\ Restore(t)
  /\ UNCHANGED <<graph, caller, started, scopes, loopVars>>

-----------------------------------------------------------------------------
Worker(t) ==
  \/ Start(t)
  \/ \E b \in Branch \cup {NoBranch} : Execute(t, b)
  \/ ExecuteRaises(t)
  \/ MarkDone(t)
  \/ NextNodes(t)
  \/ \E i \in tasks[t].todo : Acquire(t, i)
  \/ ReleaseSelf(t)
  \/ \E i \in tasks[t].nxt : Submit(t, i)
  \/ \E n \in 0 .. MaxIterations : EnterLoop(t, n)
  \/ WriteDepth(t)
  \/ SetLoop(t)
  \/ \E n \in graph.nodes : RunSubgraph(t, n)
  \/ EndIteration(t)
  \/ RaiseFromBody(t)
  \/ ExitLoop(t)

Terminated == caller \in {"returned", "raised"} /\ UNCHANGED vars

Next ==
  \/ Run
  \/ Wake
  \/ Join
  \/ \E t \in DOMAIN tasks : Worker(t)
  \/ Terminated

Fairness ==
  /\ WF_vars(Run \/ Wake \/ Join)
  /\ WF_vars(\E t \in DOMAIN tasks : Worker(t))

Spec == Init /\ [][Next]_vars
FairSpec == Spec /\ Fairness

-----------------------------------------------------------------------------
(* Properties.                                                             *)

(***************************************************************************)
(* Iterations of one loop do not overlap, whatever runs in parallel inside *)
(* the body and however a body fails.                                      *)
(***************************************************************************)
IterationsDoNotOverlap ==
  \A t, u \in DOMAIN tasks :
    /\ tasks[t].pc \notin Over /\ tasks[u].pc \notin Over
    /\ Scope(t).owner = Scope(u).owner
    => tasks[t].scope = tasks[u].scope

(***************************************************************************)
(* An error in a body travels up through every enclosing loop: run() never *)
(* returns normally after some node failed or asked for input.             *)
(***************************************************************************)
ErrorReachesRun ==
  caller = "returned" => \A s \in DOMAIN scopes : scopes[s].error = NoError

\* The bodies a loop task has run, and what they have executed.
Bodies(t) == {s \in DOMAIN scopes : scopes[s].owner = t}
Holds(s, kind) == \E n \in scopes[s].done : graph.type[n] = kind

(***************************************************************************)
(* A loop that ends normally has stopped after the first iteration that    *)
(* executed a break, and has run all its iterations if none executed a     *)
(* break or a continue: the flag of an earlier loop or iteration neither   *)
(* ends it nor lets it go on.  A continue is left open: here it ends its   *)
(* loop, against the comment at LoopContinueNode (loop_node.py, 26-35).    *)
(***************************************************************************)
LoopsStopAtBreak ==
  \A t \in DOMAIN tasks :
    At(t, "executed") /\ Type(t) = "loop-node" =>
      /\ \A s \in Bodies(t) :
           Holds(s, "loop-break-node") => scopes[s].iteration = Cardinality(Bodies(t))
      /\ Cardinality(Bodies(t)) < tasks[t].total =>
           \E s \in Bodies(t) : \E kind \in Ends : Holds(s, kind)

\* From set_loop until the iteration is over.
Iterating(t) == tasks[t].pc \in {"opening", "waiting"}

(***************************************************************************)
(* What LoopsStopAtBreak rests on, since all loops share one _break: in a  *)
(* workflow with breaks, while a loop iterates no other loop does, and no  *)
(* break is still to come but of its own body.                             *)
(***************************************************************************)
BreaksAreApart ==
  (\E n \in graph.nodes : graph.type[n] \in Ends) =>
    \A t, u \in DOMAIN tasks :
      Iterating(t) /\ t # u =>
        /\ ~Iterating(u)
        /\ Type(u) \in Ends /\ tasks[u].pc \in {"queued", "running"} => Scope(u).owner = t

(***************************************************************************)
(* The workflows in which breaks are kept apart: a break is somewhere only *)
(* if all loops are in the main graph and that runs one node at a time.    *)
(***************************************************************************)
LoopsAlone(g) ==
  (\E n \in g.nodes : g.type[n] \in Ends) =>
    /\ \A l \in LoopNodes(g) : g.container[l] = NoNode
    /\ \A n \in g.nodes : \A b \in Branch \cup {NoBranch} :
         \A i, j \in Routed(g, NoNode, n, b) : i = j

\* run() comes back, by returning or raising once everything has ended.
RunReturns == caller = "waiting" ~> caller \in {"returned", "raised"}
=============================================================================
