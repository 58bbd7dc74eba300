------------------------------- MODULE LoopProofs -------------------------------
(***************************************************************************)
(* Proofs about loops: every nesting of loops, number of iterations, pool  *)
(* size and depth limit, and any node failing or asking for input.         *)
(***************************************************************************)
EXTENDS LoopExecutor, FiniteSetTheorems, WellFoundedInduction, TLAPS

-----------------------------------------------------------------------------
(* The shape of the state.                                                 *)

Phases == {"queued", "running", "entering", "looping", "opening", "waiting", "executed",
           "done", "acquiring", "submitting", "finished", "aborted", "rejected"}

Errors == [kind : {"interrupt", "failure", "depth"}, node : Node]

LoopTask ==
  [node : Node, scope : Nat, depth : Int, pc : Phases, branch : Branch \cup {NoBranch},
   todo : SUBSET Nat, nxt : SUBSET Nat, total : Nat, left : Nat, level : Int, child : Nat]

LoopScope ==
  [container : Node \cup {NoNode}, owner : Nat, iteration : Int, pending : Int,
   done : SUBSET Node, activated : SUBSET Node, error : Errors \cup {NoError},
   idle : BOOLEAN]

\* A task follows edges of the graph, and has some chosen where it says so.
TaskOK(task) ==
  /\ task.nxt \subseteq DOMAIN graph.edges
  /\ task.todo \subseteq task.nxt
  /\ task.todo # {} => task.pc = "acquiring"
  /\ task.pc = "submitting" => task.nxt # {}
  /\ task.pc \notin {"acquiring", "submitting", "rejected"} => task.nxt = {}

LoopType ==
  /\ graph \in Graphs
  /\ tasks \in Seq(LoopTask)
  /\ scopes \in Seq(LoopScope)
  /\ loopDepth \in Int
  /\ \A t \in DOMAIN tasks : tasks[t].scope \in DOMAIN scopes /\ TaskOK(tasks[t])

(***************************************************************************)
(* What a scope's pending counts: its tasks that have not released         *)
(* themselves (token 0), a loop-node that waits for its body among them,   *)
(* and the successors they acquired but have not submitted.                *)
(***************************************************************************)
Unreleased == {"queued", "running", "entering", "looping", "opening", "waiting",
               "executed", "done", "acquiring"}

Owed(task) == (IF task.pc \in Unreleased THEN {0} ELSE {}) \cup (task.nxt \ task.todo)

Tokens(n) ==
  {x \in (DOMAIN tasks) \X (0 .. Len(graph.edges)) :
     tasks[x[1]].scope = n /\ x[2] \in Owed(tasks[x[1]])}

CountInv ==
  \A n \in DOMAIN scopes :
    scopes[n].error = NoError =>
      /\ scopes[n].pending = Cardinality(Tokens(n))
      /\ scopes[n].idle => Tokens(n) = {}

(***************************************************************************)
(* A scope belongs to the loop task that opened it, in a scope before it.  *)
(* Unless it ended without an error, it is the last one this task opened,  *)
(* and the task waits for it or has handed the error on to its own scope.  *)
(***************************************************************************)
Settled(n) == scopes[n].idle /\ scopes[n].error = NoError

Owned(n) ==
  LET o == scopes[n].owner
  IN  /\ o \in DOMAIN tasks /\ tasks[o].scope < n
      /\ \/ Settled(n)
         \/ tasks[o].child = n /\ tasks[o].pc = "waiting"
         \/ tasks[o].child = n /\ tasks[o].pc = "aborted" /\ Scope(o).error # NoError

OwnInv ==
  /\ caller = "idle" <=> scopes = <<>>
  /\ scopes # <<>> => scopes[1].owner = 0
  /\ \A n \in DOMAIN scopes : n > 1 => Owned(n)
  /\ \A t \in DOMAIN tasks : tasks[t].pc = "waiting" =>
       tasks[t].child \in DOMAIN scopes /\ tasks[t].child > 1
  /\ caller \in {"returned", "raised"} => Drained
  /\ caller = "returned" => scopes[1].error = NoError

-----------------------------------------------------------------------------
(* A step of one task.                                                     *)

LEMMA GraphFacts ==
  ASSUME LoopType
  PROVE  /\ IsGraph(graph) /\ HasStart(graph)
         /\ Len(graph.edges) \in Nat /\ DOMAIN graph.edges = 1 .. Len(graph.edges)
<1>1. IsGraph(graph) /\ HasStart(graph)
  BY LoopAssumption DEF LoopType
<1> QED BY <1>1 DEF IsGraph

LEMMA TaskFacts ==
  ASSUME LoopType, NEW t \in DOMAIN tasks
  PROVE  /\ tasks[t] \in LoopTask /\ TaskOK(tasks[t])
         /\ tasks[t].scope \in DOMAIN scopes /\ Scope(t) \in LoopScope
         /\ tasks[t].nxt \in SUBSET Nat
<1>1. tasks[t] \in LoopTask /\ tasks[t].scope \in DOMAIN scopes /\ TaskOK(tasks[t])
  BY DEF LoopType
<1>2. Scope(t) \in LoopScope
  BY <1>1 DEF LoopType, Scope
<1> QED BY <1>1, <1>2 DEF LoopTask

(***************************************************************************)
(* Task t becomes r and its scope becomes sc; the other tasks and scopes   *)
(* stay as they are.                                                       *)
(***************************************************************************)
Moves(t, r, sc) ==
  /\ r \in LoopTask /\ TaskOK(r)
  /\ sc \in LoopScope
  /\ tasks' = [tasks EXCEPT ![t] = r]
  /\ scopes' = [scopes EXCEPT ![tasks[t].scope] = sc]
  /\ tasks[t].pc \notin Over
  /\ r.scope = tasks[t].scope /\ r.child = tasks[t].child
  /\ sc.owner = Scope(t).owner
  /\ UNCHANGED <<graph, caller>> /\ loopDepth' \in Int

(* The scope keeps what it counts; a loop that waited has its body ended. *)
Keeps(t, r, sc) ==
  /\ Owed(r) = Owed(tasks[t])
  /\ sc.pending = Scope(t).pending /\ sc.idle = Scope(t).idle /\ sc.error = Scope(t).error
  /\ tasks[t].pc # "aborted" /\ r.pc \notin {"aborted", "waiting"}
  /\ tasks[t].pc = "waiting" => Settled(tasks[t].child)

Aborts(t, r, sc) ==
  /\ 0 \in Owed(tasks[t]) /\ tasks[t].pc # "aborted" /\ r.pc = "aborted"
  /\ sc.error # NoError /\ sc.idle

Acquires(t, r, sc) ==
  /\ \E i : i \notin Owed(tasks[t]) /\ Owed(r) = Owed(tasks[t]) \cup {i}
  /\ 0 \in Owed(tasks[t])
  /\ sc.pending = Scope(t).pending + 1
  /\ sc.idle = Scope(t).idle /\ sc.error = Scope(t).error
  /\ tasks[t].pc = "acquiring" /\ r.pc = "acquiring"

Releases(t, r, sc) ==
  /\ 0 \in Owed(tasks[t]) /\ Owed(r) = Owed(tasks[t]) \ {0}
  /\ sc.pending = Scope(t).pending - 1
  /\ sc.idle = (Scope(t).idle \/ (Scope(t).pending = 1 /\ Scope(t).error = NoError))
  /\ sc.error = Scope(t).error
  /\ tasks[t].pc = "acquiring" /\ r.pc \in {"finished", "submitting"}

Moving(t) ==
  \E r, sc : /\ Moves(t, r, sc)
             /\ Keeps(t, r, sc) \/ Aborts(t, r, sc) \/ Acquires(t, r, sc) \/ Releases(t, r, sc)

(* What abort and release make of a scope. *)
LEMMA AbortedScope ==
  ASSUME NEW sc \in LoopScope, NEW err \in Errors, err # NoError
  PROVE  /\ Aborted(sc, err) \in LoopScope /\ Aborted(sc, err).owner = sc.owner
         /\ Aborted(sc, err).error # NoError /\ Aborted(sc, err).idle
<1> DEFINE e == IF sc.error = NoError THEN err ELSE sc.error
<1>1. e \in Errors \cup {NoError} /\ e # NoError
  BY DEF LoopScope
<1>2. Aborted(sc, err) = [sc EXCEPT !.error = e, !.pending = 0, !.idle = TRUE]
  BY DEF Aborted, LoopScope
<1> HIDE DEF e
<1>3. Aborted(sc, err).error = e /\ Aborted(sc, err).owner = sc.owner
  BY <1>2 DEF LoopScope
<1>4. Aborted(sc, err).idle
  BY <1>2 DEF LoopScope
<1>5. Aborted(sc, err) \in LoopScope
  <2>1. TRUE \in BOOLEAN /\ 0 \in Int
    OBVIOUS
  <2> QED BY <1>1, <1>2, <2>1 DEF LoopScope
<1> QED BY <1>1, <1>3, <1>4, <1>5

LEMMA ReleasedScope ==
  ASSUME NEW sc \in LoopScope
  PROVE  /\ Released(sc) \in LoopScope /\ Released(sc).owner = sc.owner
         /\ Released(sc).pending = sc.pending - 1 /\ Released(sc).error = sc.error
         /\ Released(sc).idle = (sc.idle \/ (sc.pending = 1 /\ sc.error = NoError))
<1> DEFINE b == sc.idle \/ (sc.pending = 1 /\ sc.error = NoError)
<1>1. b \in BOOLEAN /\ sc.pending - 1 \in Int
  BY DEF LoopScope
<1>2. Released(sc) = [sc EXCEPT !.pending = sc.pending - 1, !.idle = b]
  BY DEF Released, LoopScope
<1> HIDE DEF b
<1>3. Released(sc).idle = b
  BY <1>2 DEF LoopScope
<1>4. /\ Released(sc) \in LoopScope /\ Released(sc).owner = sc.owner
      /\ Released(sc).pending = sc.pending - 1 /\ Released(sc).error = sc.error
  BY <1>1, <1>2 DEF LoopScope
<1> QED BY <1>3, <1>4 DEF b

(* A task that keeps its scope record. *)
LEMMA KeepingMoves ==
  ASSUME LoopType, NEW t \in DOMAIN tasks, NEW r \in LoopTask, NEW sc \in LoopScope,
         Become(t, r), scopes' = scopes \/ SetScope(t, sc),
         TaskOK(r), r.scope = tasks[t].scope, r.child = tasks[t].child,
         tasks[t].pc \notin Over,
         Owed(r) = Owed(tasks[t]), r.pc \notin {"aborted", "waiting"},
         tasks[t].pc = "waiting" => Settled(tasks[t].child),
         sc.pending = Scope(t).pending, sc.idle = Scope(t).idle, sc.error = Scope(t).error,
         sc.owner = Scope(t).owner,
         UNCHANGED <<graph, caller>>, loopDepth' \in Int
  PROVE  Moving(t)
<1>1. tasks[t].scope \in DOMAIN scopes /\ Scope(t) \in LoopScope
  BY TaskFacts
<1>2. tasks[t].pc # "aborted"
  BY DEF Over
<1>3. CASE SetScope(t, sc)
  <2>1. Moves(t, r, sc) /\ Keeps(t, r, sc)
    BY <1>2, <1>3 DEF Moves, Keeps, Become, SetScope
  <2> QED BY <2>1 DEF Moving
<1>4. CASE scopes' = scopes
  <2>1. scopes' = [scopes EXCEPT ![tasks[t].scope] = Scope(t)]
    BY <1>1, <1>4 DEF Scope, LoopType
  <2>2. Moves(t, r, Scope(t)) /\ Keeps(t, r, Scope(t))
    BY <1>1, <1>2, <2>1 DEF Moves, Keeps, Become
  <2> QED BY <2>2 DEF Moving
<1> QED BY <1>3, <1>4

(* A change of phase between two in which nothing is chosen. *)
LEMMA PhaseMoves ==
  ASSUME LoopType, NEW t \in DOMAIN tasks, NEW r \in LoopTask, Become(t, r), scopes' = scopes,
         r.scope = tasks[t].scope, r.child = tasks[t].child,
         r.nxt = tasks[t].nxt, r.todo = tasks[t].todo,
         tasks[t].pc \in Unreleased \ {"acquiring"},
         r.pc \in Unreleased \ {"acquiring", "waiting"},
         tasks[t].pc = "waiting" => Settled(tasks[t].child),
         UNCHANGED <<graph, caller>>, loopDepth' \in Int
  PROVE  Moving(t)
<1>1. TaskOK(tasks[t]) /\ Scope(t) \in LoopScope
  BY TaskFacts
<1>2. TaskOK(r) /\ Owed(r) = Owed(tasks[t]) /\ tasks[t].pc \notin Over
      /\ r.pc \notin {"aborted", "waiting"}
  BY <1>1 DEF TaskOK, Owed, Unreleased, Over
<1> QED BY <1>1, <1>2, KeepingMoves

LEMMA RaiseMoves ==
  ASSUME LoopType, NEW t \in DOMAIN tasks, NEW err \in Errors, Raise(t, err),
         tasks[t].pc \in Unreleased \ {"acquiring"},
         UNCHANGED <<graph, caller>>, loopDepth' \in Int
  PROVE  Moving(t)
<1> DEFINE r  == [tasks[t] EXCEPT !.pc = "aborted"]
           sc == Aborted(Scope(t), err)
<1>1. tasks[t] \in LoopTask /\ TaskOK(tasks[t]) /\ Scope(t) \in LoopScope
  BY TaskFacts
<1>2. r \in LoopTask /\ TaskOK(r) /\ r.scope = tasks[t].scope /\ r.child = tasks[t].child
      /\ r.pc = "aborted"
  BY <1>1 DEF LoopTask, TaskOK, Phases, Unreleased
<1>3. err # NoError
  BY DEF Errors, NoError
<1>4. sc \in LoopScope /\ sc.owner = Scope(t).owner /\ sc.error # NoError /\ sc.idle
  BY <1>1, <1>3, AbortedScope
<1>5. Become(t, r) /\ SetScope(t, sc)
  BY DEF Raise
<1>6. 0 \in Owed(tasks[t]) /\ tasks[t].pc \notin Over
  BY DEF Owed, Unreleased, Over
<1> HIDE DEF r, sc
<1>7. Moves(t, r, sc) /\ Aborts(t, r, sc)
  BY <1>2, <1>4, <1>5, <1>6 DEF Moves, Aborts, Become, SetScope, Over
<1> QED BY <1>7 DEF Moving

-----------------------------------------------------------------------------
(* The steps of a worker.                                                  *)

LEMMA StartMoves ==
  ASSUME LoopType, NEW t \in DOMAIN tasks, Start(t)
  PROVE  Moving(t)
<1>1. tasks[t].pc = "queued" /\ UNCHANGED <<graph, caller>> /\ loopDepth' \in Int
      /\ tasks[t] \in LoopTask
  BY TaskFacts DEF Start, At, loop, LoopType
<1>2. CASE tasks[t].depth > MaxDepth
  <2>1. [kind |-> "depth", node |-> tasks[t].node] \in Errors
    BY <1>1 DEF Errors, LoopTask
  <2> QED BY <1>1, <1>2, <2>1, RaiseMoves DEF Start, Unreleased
<1>3. CASE ~(tasks[t].depth > MaxDepth)
  <2> DEFINE r == [tasks[t] EXCEPT !.pc = "running"]
  <2>1. Become(t, r) /\ scopes' = scopes
    BY <1>3 DEF Start
  <2>2. r \in LoopTask /\ r.pc = "running" /\ r.scope = tasks[t].scope
        /\ r.child = tasks[t].child /\ r.nxt = tasks[t].nxt /\ r.todo = tasks[t].todo
    BY <1>1 DEF LoopTask, Phases
  <2> HIDE DEF r
  <2> QED BY <1>1, <2>1, <2>2, PhaseMoves DEF Unreleased
<1> QED BY <1>2, <1>3

LEMMA ExecuteMoves ==
  ASSUME LoopType, NEW t \in DOMAIN tasks, NEW b \in Branch \cup {NoBranch}, Execute(t, b)
  PROVE  Moving(t)
<1> DEFINE r == [tasks[t] EXCEPT !.pc = "executed", !.branch = b]
<1>1. /\ tasks[t].pc = "running" /\ UNCHANGED <<graph, caller, scopes>> /\ Become(t, r)
      /\ loopDepth' \in Int /\ tasks[t] \in LoopTask
  BY TaskFacts DEF Execute, At, LoopType
<1>2. r \in LoopTask /\ r.pc = "executed" /\ r.scope = tasks[t].scope
      /\ r.child = tasks[t].child /\ r.nxt = tasks[t].nxt /\ r.todo = tasks[t].todo
  BY <1>1 DEF LoopTask, Phases
<1> HIDE DEF r
<1> QED BY <1>1, <1>2, PhaseMoves DEF Unreleased

LEMMA RaisingMoves ==
  ASSUME LoopType, NEW t \in DOMAIN tasks, ExecuteRaises(t)
  PROVE  Moving(t)
<1>1. tasks[t].pc = "running" /\ UNCHANGED <<graph, caller>> /\ loopDepth' \in Int
      /\ tasks[t] \in LoopTask
  BY TaskFacts DEF ExecuteRaises, At, loop, LoopType
<1>2. Interrupt(tasks[t].node) \in Errors /\ Failure(tasks[t].node) \in Errors
  BY <1>1 DEF Errors, LoopTask, Interrupt, Failure
<1> QED BY <1>1, <1>2, RaiseMoves DEF ExecuteRaises, Unreleased

LEMMA MarkMoves ==
  ASSUME LoopType, NEW t \in DOMAIN tasks, MarkDone(t)
  PROVE  Moving(t)
<1> DEFINE r  == [tasks[t] EXCEPT !.pc = "done"]
           sc == [Scope(t) EXCEPT !.done = @ \cup {tasks[t].node}]
<1>1. /\ tasks[t].pc = "executed" /\ UNCHANGED <<graph, caller>> /\ Become(t, r)
      /\ SetScope(t, sc) /\ loopDepth' \in Int /\ tasks[t] \in LoopTask
      /\ TaskOK(tasks[t]) /\ Scope(t) \in LoopScope
  BY TaskFacts DEF MarkDone, At, loop, LoopType
<1>2. r \in LoopTask /\ r.pc = "done" /\ r.scope = tasks[t].scope
      /\ r.child = tasks[t].child /\ r.nxt = tasks[t].nxt /\ r.todo = tasks[t].todo
  BY <1>1 DEF LoopTask, Phases
<1>3. sc \in LoopScope /\ sc.pending = Scope(t).pending /\ sc.idle = Scope(t).idle
      /\ sc.error = Scope(t).error /\ sc.owner = Scope(t).owner
  BY <1>1 DEF LoopScope, LoopTask
<1> HIDE DEF r, sc
<1>4. TaskOK(r) /\ Owed(r) = Owed(tasks[t]) /\ tasks[t].pc \notin Over
  BY <1>1, <1>2 DEF TaskOK, Owed, Unreleased, Over
<1> QED BY <1>1, <1>2, <1>3, <1>4, KeepingMoves

LEMMA NextMoves ==
  ASSUME LoopType, NEW t \in DOMAIN tasks, NextNodes(t)
  PROVE  Moving(t)
<1> DEFINE out == Selected(t)
           r   == [tasks[t] EXCEPT !.pc = "acquiring", !.todo = out, !.nxt = out]
           sc  == [Scope(t) EXCEPT !.activated = @ \cup {Target(graph, i) : i \in out}]
<1>1. /\ tasks[t].pc = "done" /\ UNCHANGED <<graph, caller>> /\ Become(t, r)
      /\ SetScope(t, sc) /\ loopDepth' \in Int /\ tasks[t] \in LoopTask
      /\ TaskOK(tasks[t]) /\ Scope(t) \in LoopScope
  BY TaskFacts DEF NextNodes, At, loop, LoopType
<1>2. out \subseteq DOMAIN graph.edges /\ out \in SUBSET Nat
  BY GraphFacts DEF Selected, Routed, OutEdges
<1>3. {Target(graph, i) : i \in out} \subseteq Node
  BY <1>2, GraphFacts DEF IsGraph, Target
<1> HIDE DEF out
<1>4. r \in LoopTask /\ r.pc = "acquiring" /\ r.scope = tasks[t].scope
      /\ r.child = tasks[t].child /\ r.nxt = out /\ r.todo = out
  BY <1>1, <1>2 DEF LoopTask, Phases
<1>5. sc \in LoopScope /\ sc.pending = Scope(t).pending /\ sc.idle = Scope(t).idle
      /\ sc.error = Scope(t).error /\ sc.owner = Scope(t).owner
  BY <1>1, <1>3 DEF LoopScope
<1> HIDE DEF r, sc
<1>6. TaskOK(r) /\ Owed(r) = Owed(tasks[t]) /\ tasks[t].pc \notin Over
  BY <1>1, <1>2, <1>4 DEF TaskOK, Owed, Unreleased, Over
<1> QED BY <1>1, <1>4, <1>5, <1>6, KeepingMoves

LEMMA AcquireMoves ==
  ASSUME LoopType, NEW t \in DOMAIN tasks, NEW i \in tasks[t].todo, Acquire(t, i)
  PROVE  Moving(t)
<1> DEFINE r  == [tasks[t] EXCEPT !.todo = @ \ {i}]
           sc == [Scope(t) EXCEPT !.pending = @ + 1]
<1>1. /\ tasks[t].pc = "acquiring" /\ UNCHANGED <<graph, caller>> /\ Become(t, r)
      /\ SetScope(t, sc) /\ loopDepth' \in Int /\ tasks[t] \in LoopTask
      /\ TaskOK(tasks[t]) /\ Scope(t) \in LoopScope
  BY TaskFacts DEF Acquire, At, loop, LoopType
<1>2. r \in LoopTask /\ r.pc = "acquiring" /\ r.scope = tasks[t].scope
      /\ r.child = tasks[t].child /\ r.nxt = tasks[t].nxt /\ r.todo = tasks[t].todo \ {i}
  BY <1>1 DEF LoopTask
<1>3. sc \in LoopScope /\ sc.pending = Scope(t).pending + 1 /\ sc.idle = Scope(t).idle
      /\ sc.error = Scope(t).error /\ sc.owner = Scope(t).owner
  BY <1>1 DEF LoopScope
<1> HIDE DEF r, sc
<1>4. i \in tasks[t].nxt /\ i # 0
  <2>1. i \in 1 .. Len(graph.edges)
    BY <1>1, GraphFacts DEF TaskOK
  <2> QED BY <1>1, <2>1, GraphFacts DEF TaskOK
<1>5. TaskOK(r) /\ tasks[t].pc \notin Over
  BY <1>1, <1>2 DEF TaskOK, Over
<1>6. 0 \in Owed(tasks[t]) /\ i \notin Owed(tasks[t]) /\ Owed(r) = Owed(tasks[t]) \cup {i}
  BY <1>1, <1>2, <1>4 DEF Owed, Unreleased
<1>7. Moves(t, r, sc) /\ Acquires(t, r, sc)
  BY <1>1, <1>2, <1>3, <1>5, <1>6 DEF Moves, Acquires, Become, SetScope
<1> QED BY <1>7 DEF Moving

LEMMA ReleaseMoves ==
  ASSUME LoopType, NEW t \in DOMAIN tasks, ReleaseSelf(t)
  PROVE  Moving(t)
<1> DEFINE p  == IF tasks[t].nxt = {} THEN "finished" ELSE "submitting"
           r  == [tasks[t] EXCEPT !.pc = p]
           sc == Released(Scope(t))
<1>1. /\ tasks[t].pc = "acquiring" /\ UNCHANGED <<graph, caller>> /\ Become(t, r)
      /\ SetScope(t, sc) /\ loopDepth' \in Int /\ tasks[t] \in LoopTask
      /\ TaskOK(tasks[t]) /\ Scope(t) \in LoopScope /\ tasks[t].todo = {}
  BY TaskFacts DEF ReleaseSelf, At, loop, LoopType
<1>2. p \in {"finished", "submitting"} /\ (p = "submitting" <=> tasks[t].nxt # {})
  OBVIOUS
<1>3. r \in LoopTask /\ r.pc = p /\ r.scope = tasks[t].scope
      /\ r.child = tasks[t].child /\ r.nxt = tasks[t].nxt /\ r.todo = tasks[t].todo
  BY <1>1, <1>2 DEF LoopTask, Phases
<1>4. /\ sc \in LoopScope /\ sc.pending = Scope(t).pending - 1
      /\ sc.idle = (Scope(t).idle \/ (Scope(t).pending = 1 /\ Scope(t).error = NoError))
      /\ sc.error = Scope(t).error /\ sc.owner = Scope(t).owner
  BY <1>1, ReleasedScope
<1> HIDE DEF r, sc, p
<1>5. 0 \notin tasks[t].nxt
  BY <1>1, GraphFacts DEF TaskOK
<1>6. TaskOK(r) /\ tasks[t].pc \notin Over
  BY <1>1, <1>2, <1>3 DEF TaskOK, Over
<1>7. 0 \in Owed(tasks[t]) /\ Owed(r) = Owed(tasks[t]) \ {0}
  BY <1>1, <1>2, <1>3, <1>5 DEF Owed, Unreleased
<1>8. Moves(t, r, sc) /\ Releases(t, r, sc)
  BY <1>1, <1>2, <1>3, <1>4, <1>6, <1>7 DEF Moves, Releases, Become, SetScope
<1> QED BY <1>8 DEF Moving

LEMMA RefusedMoves ==
  ASSUME LoopType, NEW t \in DOMAIN tasks, NEW i \in tasks[t].nxt, Submit(t, i),
         caller # "waiting"
  PROVE  Moving(t)
<1> DEFINE r == [tasks[t] EXCEPT !.pc = "rejected"]
<1>1. /\ tasks[t].pc = "submitting" /\ UNCHANGED <<graph, caller, scopes>> /\ Become(t, r)
      /\ loopDepth' \in Int /\ tasks[t] \in LoopTask
      /\ TaskOK(tasks[t]) /\ Scope(t) \in LoopScope
  BY TaskFacts DEF Submit, At, loop, LoopType
<1>2. r \in LoopTask /\ r.pc = "rejected" /\ r.scope = tasks[t].scope
      /\ r.child = tasks[t].child /\ r.nxt = tasks[t].nxt /\ r.todo = tasks[t].todo
  BY <1>1 DEF LoopTask, Phases
<1> HIDE DEF r
<1>3. TaskOK(r) /\ Owed(r) = Owed(tasks[t]) /\ tasks[t].pc \notin Over
  BY <1>1, <1>2 DEF TaskOK, Owed, Unreleased, Over
<1> QED BY <1>1, <1>2, <1>3, KeepingMoves

(* What a loop-node does between its iterations. *)
LEMMA LoopingMoves ==
  ASSUME LoopType, NEW t \in DOMAIN tasks,
         \/ \E n \in 0 .. MaxIterations : EnterLoop(t, n)
         \/ WriteDepth(t) \/ SetLoop(t) \/ EndIteration(t) \/ ExitLoop(t)
  PROVE  Moving(t)
<1>0. tasks[t] \in LoopTask /\ loopDepth \in Int /\ MaxIterations \in Nat
  BY TaskFacts, LoopAssumption DEF LoopType
<1>1. ASSUME NEW n \in 0 .. MaxIterations, EnterLoop(t, n) PROVE Moving(t)
  <2> DEFINE r == [tasks[t] EXCEPT !.pc = "entering", !.total = n, !.left = n,
                                   !.level = loopDepth + 1]
  <2>1. /\ tasks[t].pc = "running" /\ UNCHANGED <<graph, caller, scopes>> /\ Become(t, r)
        /\ loopDepth' \in Int
    BY <1>0, <1>1 DEF EnterLoop, At, loop
  <2>2. n \in Nat /\ loopDepth + 1 \in Int
    BY <1>0
  <2>3. r \in LoopTask /\ r.pc = "entering" /\ r.scope = tasks[t].scope
        /\ r.child = tasks[t].child /\ r.nxt = tasks[t].nxt /\ r.todo = tasks[t].todo
    BY <1>0, <2>2 DEF LoopTask, Phases
  <2> HIDE DEF r
  <2> QED BY <2>1, <2>3, PhaseMoves DEF Unreleased
<1>2. CASE WriteDepth(t)
  <2> DEFINE r == [tasks[t] EXCEPT !.pc = "looping"]
  <2>1. /\ tasks[t].pc = "entering" /\ UNCHANGED <<graph, caller, scopes>> /\ Become(t, r)
        /\ loopDepth' \in Int
    BY <1>0, <1>2 DEF WriteDepth, At, LoopTask
  <2>2. r \in LoopTask /\ r.pc = "looping" /\ r.scope = tasks[t].scope
        /\ r.child = tasks[t].child /\ r.nxt = tasks[t].nxt /\ r.todo = tasks[t].todo
    BY <1>0 DEF LoopTask, Phases
  <2> HIDE DEF r
  <2> QED BY <2>1, <2>2, PhaseMoves DEF Unreleased
<1>3. CASE SetLoop(t)
  <2> DEFINE r == [tasks[t] EXCEPT !.pc = "opening", !.left = @ - 1]
  <2>1. /\ tasks[t].pc = "looping" /\ UNCHANGED <<graph, caller, scopes>> /\ Become(t, r)
        /\ loopDepth' \in Int /\ tasks[t].left > 0
    BY <1>0, <1>3 DEF SetLoop, At
  <2>2. tasks[t].left - 1 \in Nat
    BY <1>0, <2>1 DEF LoopTask
  <2>3. r \in LoopTask /\ r.pc = "opening" /\ r.scope = tasks[t].scope
        /\ r.child = tasks[t].child /\ r.nxt = tasks[t].nxt /\ r.todo = tasks[t].todo
    BY <1>0, <2>2 DEF LoopTask, Phases
  <2> HIDE DEF r
  <2> QED BY <2>1, <2>3, PhaseMoves DEF Unreleased
<1>4. CASE EndIteration(t)
  <2> DEFINE r == [tasks[t] EXCEPT !.pc = "looping", !.left = IF loopVars.brk THEN 0 ELSE @]
  <2>1. /\ tasks[t].pc = "waiting" /\ UNCHANGED <<graph, caller, scopes>> /\ Become(t, r)
        /\ loopDepth' \in Int /\ Settled(tasks[t].child)
    BY <1>0, <1>4 DEF EndIteration, At, Settled, loop
  <2>2. r \in LoopTask /\ r.pc = "looping" /\ r.scope = tasks[t].scope
        /\ r.child = tasks[t].child /\ r.nxt = tasks[t].nxt /\ r.todo = tasks[t].todo
    BY <1>0 DEF LoopTask, Phases
  <2> HIDE DEF r
  <2> QED BY <2>1, <2>2, PhaseMoves DEF Unreleased
<1>5. CASE ExitLoop(t)
  <2> DEFINE r == [tasks[t] EXCEPT !.pc = "executed"]
  <2>1. /\ tasks[t].pc = "looping" /\ UNCHANGED <<graph, caller, scopes>> /\ Become(t, r)
        /\ loopDepth' \in Int
    BY <1>0, <1>5 DEF ExitLoop, At, Restore, LoopTask
  <2>2. r \in LoopTask /\ r.pc = "executed" /\ r.scope = tasks[t].scope
        /\ r.child = tasks[t].child /\ r.nxt = tasks[t].nxt /\ r.todo = tasks[t].todo
    BY <1>0 DEF LoopTask, Phases
  <2> HIDE DEF r
  <2> QED BY <2>1, <2>2, PhaseMoves DEF Unreleased
<1> QED BY <1>1, <1>2, <1>3, <1>4, <1>5
LEMMA BodyRaises ==
  ASSUME LoopType, OwnInv, NEW t \in DOMAIN tasks,
         RaiseFromBody(t) \/ (caller # "waiting" /\ \E n \in graph.nodes : RunSubgraph(t, n))
  PROVE  Moving(t)
<1>0. tasks[t] \in LoopTask /\ tasks[t].level \in Int
  BY TaskFacts DEF LoopTask
<1>1. Interrupt(tasks[t].node) \in Errors /\ Failure(tasks[t].node) \in Errors
  BY <1>0 DEF Errors, LoopTask, Interrupt, Failure
<1>2. CASE RaiseFromBody(t)
  <2> DEFINE body == scopes[tasks[t].child].error
             err  == IF body.kind = "interrupt" THEN Interrupt(tasks[t].node) ELSE body
  <2>1. tasks[t].pc = "waiting" /\ body # NoError /\ Raise(t, err)
        /\ UNCHANGED <<graph, caller>> /\ loopDepth' \in Int
    BY <1>0, <1>2 DEF RaiseFromBody, At, Restore
  <2>2. body \in Errors
    <3>1. tasks[t].child \in DOMAIN scopes
      BY <2>1 DEF OwnInv
    <3>2. scopes[tasks[t].child] \in LoopScope
      BY <3>1 DEF LoopType
    <3> QED BY <2>1, <3>2 DEF LoopScope
  <2>3. err \in Errors
    BY <1>1, <2>2
  <2> QED BY <2>1, <2>3, RaiseMoves DEF Unreleased
<1>3. ASSUME NEW n \in graph.nodes, RunSubgraph(t, n), caller # "waiting"
      PROVE  Moving(t)
  <2>1. tasks[t].pc = "opening" /\ Raise(t, Failure(tasks[t].node))
        /\ UNCHANGED <<graph, caller>> /\ loopDepth' \in Int
    BY <1>0, <1>3 DEF RunSubgraph, At, Restore
  <2> QED BY <1>1, <2>1, RaiseMoves DEF Unreleased
<1> QED BY <1>2, <1>3

(***************************************************************************)
(* The two steps that add a task: a successor handed to the open pool, and *)
(* the first node of an iteration.                                         *)
(***************************************************************************)
Hands(t) == caller = "waiting" /\ \E i \in tasks[t].nxt : Submit(t, i)
Opens(t) == caller = "waiting" /\ \E n \in graph.nodes : RunSubgraph(t, n)

LEMMA WorkerMoves ==
  ASSUME LoopType, OwnInv, NEW t \in DOMAIN tasks, Worker(t)
  PROVE  Moving(t) \/ Hands(t) \/ Opens(t)
<1>1. CASE Start(t)
  BY <1>1, StartMoves
<1>2. CASE \E b \in Branch \cup {NoBranch} : Execute(t, b)
  BY <1>2, ExecuteMoves
<1>3. CASE ExecuteRaises(t)
  BY <1>3, RaisingMoves
<1>4. CASE MarkDone(t)
  BY <1>4, MarkMoves
<1>5. CASE NextNodes(t)
  BY <1>5, NextMoves
<1>6. CASE \E i \in tasks[t].todo : Acquire(t, i)
  BY <1>6, AcquireMoves
<1>7. CASE ReleaseSelf(t)
  BY <1>7, ReleaseMoves
<1>8. CASE \E i \in tasks[t].nxt : Submit(t, i)
  BY <1>8, RefusedMoves DEF Hands
<1>9. CASE \/ \E n \in 0 .. MaxIterations : EnterLoop(t, n)
           \/ WriteDepth(t) \/ SetLoop(t) \/ EndIteration(t) \/ ExitLoop(t)
  BY <1>9, LoopingMoves
<1>10. CASE \E n \in graph.nodes : RunSubgraph(t, n)
  BY <1>10, BodyRaises DEF Opens
<1>11. CASE RaiseFromBody(t)
  BY <1>11, BodyRaises
<1> QED
  BY <1>1, <1>2, <1>3, <1>4, <1>5, <1>6, <1>7, <1>8, <1>9, <1>10, <1>11 DEF Worker

-----------------------------------------------------------------------------
(* The state after each of the three.                                      *)

LEMMA Moved ==
  ASSUME LoopType, NEW t \in DOMAIN tasks, NEW r, NEW sc, Moves(t, r, sc)
  PROVE  /\ LoopType'
         /\ DOMAIN tasks' = DOMAIN tasks /\ tasks'[t] = r
         /\ \A u \in DOMAIN tasks : u # t => tasks'[u] = tasks[u]
         /\ DOMAIN scopes' = DOMAIN scopes /\ scopes'[tasks[t].scope] = sc
         /\ \A n \in DOMAIN scopes : n # tasks[t].scope => scopes'[n] = scopes[n]
<1>1. /\ tasks \in Seq(LoopTask) /\ scopes \in Seq(LoopScope)
      /\ tasks[t].scope \in DOMAIN scopes
  BY DEF LoopType
<1>2. /\ DOMAIN tasks' = DOMAIN tasks /\ tasks'[t] = r
      /\ \A u \in DOMAIN tasks : u # t => tasks'[u] = tasks[u]
      /\ tasks' \in Seq(LoopTask)
  BY <1>1 DEF Moves
<1>3. /\ DOMAIN scopes' = DOMAIN scopes /\ scopes'[tasks[t].scope] = sc
      /\ \A n \in DOMAIN scopes : n # tasks[t].scope => scopes'[n] = scopes[n]
      /\ scopes' \in Seq(LoopScope)
  BY <1>1 DEF Moves
<1>4. graph' = graph /\ loopDepth' \in Int /\ TaskOK(r) /\ r.scope = tasks[t].scope
  BY DEF Moves
<1>5. ASSUME NEW u \in DOMAIN tasks' PROVE (tasks[u].scope \in DOMAIN scopes /\ TaskOK(tasks[u]))'
  <2>1. CASE u = t
    BY <1>1, <1>2, <1>3, <1>4, <2>1 DEF TaskOK
  <2>2. CASE u # t
    BY <1>2, <1>3, <1>4, <2>2 DEF LoopType, TaskOK
  <2> QED BY <2>1, <2>2
<1>6. LoopType'
  BY <1>2, <1>3, <1>4, <1>5 DEF LoopType
<1> QED BY <1>2, <1>3, <1>6
(* Task t becomes r, and task q is new. *)
Adds(t, r, q) ==
  /\ r \in LoopTask /\ TaskOK(r) /\ q \in LoopTask /\ TaskOK(q)
  /\ tasks' = Append([tasks EXCEPT ![t] = r], q)
  /\ r.scope = tasks[t].scope /\ Owed(q) = {0} /\ q.pc = "queued"
  /\ UNCHANGED <<graph, caller>> /\ loopDepth' \in Int

LEMMA Added ==
  ASSUME LoopType, NEW t \in DOMAIN tasks, NEW r, NEW q, Adds(t, r, q)
  PROVE  /\ tasks' \in Seq(LoopTask) /\ Len(tasks) + 1 \notin DOMAIN tasks
         /\ DOMAIN tasks' = DOMAIN tasks \cup {Len(tasks) + 1}
         /\ tasks'[t] = r /\ tasks'[Len(tasks) + 1] = q
         /\ \A u \in DOMAIN tasks : u # t => tasks'[u] = tasks[u]
<1> DEFINE mid == [tasks EXCEPT ![t] = r]
<1>1. tasks \in Seq(LoopTask) /\ r \in LoopTask /\ q \in LoopTask /\ tasks' = Append(mid, q)
  BY DEF LoopType, Adds
<1>2. /\ mid \in Seq(LoopTask) /\ Len(mid) = Len(tasks) /\ DOMAIN mid = DOMAIN tasks
      /\ mid[t] = r /\ \A u \in DOMAIN tasks : u # t => mid[u] = tasks[u]
  BY <1>1
<1>3. DOMAIN tasks = 1 .. Len(tasks) /\ Len(tasks) \in Nat
  BY <1>1
<1> HIDE DEF mid
<1>4. /\ tasks' \in Seq(LoopTask) /\ DOMAIN tasks' = 1 .. Len(tasks) + 1
      /\ tasks'[Len(tasks) + 1] = q
      /\ \A u \in DOMAIN tasks : tasks'[u] = mid[u]
  BY <1>1, <1>2, <1>3
<1> QED BY <1>2, <1>3, <1>4

LEMMA AddedType ==
  ASSUME LoopType, NEW t \in DOMAIN tasks, NEW r, NEW q, Adds(t, r, q),
         scopes' \in Seq(LoopScope), DOMAIN scopes \subseteq DOMAIN scopes',
         q.scope \in DOMAIN scopes'
  PROVE  LoopType'
<1>1. graph' = graph /\ loopDepth' \in Int /\ TaskOK(r) /\ TaskOK(q) /\ r.scope = tasks[t].scope
  BY DEF Adds
<1>2. /\ tasks' \in Seq(LoopTask)
      /\ DOMAIN tasks' = DOMAIN tasks \cup {Len(tasks) + 1}
      /\ tasks'[t] = r /\ tasks'[Len(tasks) + 1] = q
      /\ \A u \in DOMAIN tasks : u # t => tasks'[u] = tasks[u]
  BY Added
<1>3. ASSUME NEW u \in DOMAIN tasks'
      PROVE  (tasks[u].scope \in DOMAIN scopes /\ TaskOK(tasks[u]))'
  <2>1. CASE u = t
    BY <1>1, <1>2, <2>1 DEF LoopType, TaskOK
  <2>2. CASE u = Len(tasks) + 1
    BY <1>1, <1>2, <2>2 DEF TaskOK
  <2>3. CASE u \in DOMAIN tasks /\ u # t
    BY <1>1, <1>2, <2>3 DEF LoopType, TaskOK
  <2> QED BY <1>2, <2>1, <2>2, <2>3
<1> QED BY <1>1, <1>2, <1>3 DEF LoopType

(* The pool takes successor i of t. *)
LEMMA Handed ==
  ASSUME LoopType, NEW t \in DOMAIN tasks, NEW i \in tasks[t].nxt, Submit(t, i),
         caller = "waiting"
  PROVE  /\ LoopType' /\ scopes' = scopes /\ tasks[t].pc = "submitting"
         /\ \E r, q : /\ Adds(t, r, q) /\ q.scope = tasks[t].scope
                      /\ r.pc \in {"submitting", "finished"}
                      /\ i \in Owed(tasks[t]) /\ Owed(r) = Owed(tasks[t]) \ {i}
<1> DEFINE rest == tasks[t].nxt \ {i}
           p == IF rest = {} THEN "finished" ELSE "submitting"
           r == [tasks[t] EXCEPT !.nxt = rest, !.pc = p]
           q == NewTask(Target(graph, i), tasks[t].scope, tasks[t].depth + 1)
<1>1. /\ tasks[t] \in LoopTask /\ TaskOK(tasks[t]) /\ tasks[t].scope \in DOMAIN scopes
      /\ tasks[t].nxt \in SUBSET Nat
  BY TaskFacts
<1>2. /\ tasks[t].pc = "submitting" /\ scopes' = scopes /\ tasks[t].todo = {}
      /\ UNCHANGED <<graph, caller>> /\ loopDepth' \in Int
  BY <1>1 DEF Submit, At, loop, LoopType, TaskOK
<1>3. tasks' = Append([tasks EXCEPT ![t] = r], q)
  BY <1>2 DEF Submit
<1>4. /\ r \in LoopTask /\ r.scope = tasks[t].scope /\ r.pc = p /\ r.nxt = rest /\ r.todo = {}
      /\ p \in {"submitting", "finished"}
  BY <1>1, <1>2 DEF LoopTask, Phases
<1>5. TaskOK(r)
  BY <1>1, <1>4 DEF TaskOK
<1>6. Target(graph, i) \in Node
  BY <1>1, GraphFacts DEF TaskOK, IsGraph, Target
<1>7. q \in LoopTask /\ TaskOK(q) /\ Owed(q) = {0} /\ q.pc = "queued" /\ q.scope = tasks[t].scope
  <2>1. tasks[t].depth + 1 \in Int /\ tasks[t].scope \in Nat
    BY <1>1 DEF LoopTask
  <2> QED BY <1>6, <2>1 DEF NewTask, LoopTask, Phases, TaskOK, Owed, Unreleased
<1>8. i \in Owed(tasks[t]) /\ Owed(r) = Owed(tasks[t]) \ {i}
  BY <1>2, <1>4 DEF Owed, Unreleased
<1> HIDE DEF r, q
<1>9. Adds(t, r, q)
  BY <1>2, <1>3, <1>4, <1>5, <1>7 DEF Adds
<1>10. LoopType'
  <2>1. scopes' \in Seq(LoopScope) /\ DOMAIN scopes \subseteq DOMAIN scopes'
    BY <1>2 DEF LoopType
  <2> QED BY <1>1, <1>2, <1>7, <1>9, <2>1, AddedType
<1> QED BY <1>2, <1>4, <1>7, <1>8, <1>9, <1>10

(* An iteration starts. *)
LEMMA Opened ==
  ASSUME LoopType, NEW t \in DOMAIN tasks, NEW n \in graph.nodes, RunSubgraph(t, n),
         caller = "waiting"
  PROVE  /\ LoopType' /\ tasks[t].pc = "opening"
         /\ Len(scopes) \in Nat /\ DOMAIN scopes = 1 .. Len(scopes)
         /\ DOMAIN scopes' = DOMAIN scopes \cup {Len(scopes) + 1}
         /\ \A m \in DOMAIN scopes : scopes'[m] = scopes[m]
         /\ LET sc == scopes'[Len(scopes) + 1]
            IN  sc.owner = t /\ sc.pending = 1 /\ ~sc.idle /\ sc.error = NoError
         /\ \E r, q : /\ Adds(t, r, q) /\ q.scope = Len(scopes) + 1
                      /\ r.pc = "waiting" /\ r.child = Len(scopes) + 1
                      /\ Owed(r) = Owed(tasks[t])
<1> DEFINE new == Len(scopes) + 1
           r  == [tasks[t] EXCEPT !.pc = "waiting", !.child = new]
           q  == NewTask(n, new, tasks[t].level + 1)
           sc == NewScope(tasks[t].node, t, tasks[t].total - tasks[t].left)
<1>1. tasks[t] \in LoopTask /\ TaskOK(tasks[t]) /\ tasks[t].level \in Int /\ tasks \in Seq(LoopTask)
  BY TaskFacts DEF LoopTask, LoopType
<1>2. /\ tasks[t].pc = "opening" /\ scopes' = Append(scopes, sc)
      /\ tasks' = Append([tasks EXCEPT ![t].pc = "waiting", ![t].child = new], q)
      /\ UNCHANGED <<graph, caller>> /\ loopDepth' \in Int
  BY DEF RunSubgraph, At, LoopType
<1>3. /\ scopes \in Seq(LoopScope) /\ Len(scopes) \in Nat /\ new \in Nat
      /\ DOMAIN scopes = 1 .. Len(scopes)
  BY DEF LoopType
<1>4. [tasks EXCEPT ![t].pc = "waiting", ![t].child = new] = [tasks EXCEPT ![t] = r]
  BY <1>1 DEF LoopTask
<1>5. sc \in LoopScope /\ sc.owner = t /\ sc.pending = 1 /\ ~sc.idle /\ sc.error = NoError
  <2>1. tasks[t].node \in Node /\ tasks[t].total - tasks[t].left \in Int
    BY <1>1 DEF LoopTask
  <2>2. t \in Nat
    BY <1>1
  <2> QED BY <2>1, <2>2 DEF NewScope, LoopScope
<1>6. /\ r \in LoopTask /\ r.scope = tasks[t].scope /\ r.pc = "waiting" /\ r.child = new
      /\ r.nxt = tasks[t].nxt /\ r.todo = tasks[t].todo
  BY <1>1, <1>3 DEF LoopTask, Phases
<1>7. TaskOK(r) /\ Owed(r) = Owed(tasks[t])
  BY <1>1, <1>2, <1>6 DEF TaskOK, Owed, Unreleased
<1>8. q \in LoopTask /\ TaskOK(q) /\ Owed(q) = {0} /\ q.pc = "queued" /\ q.scope = new
  <2>1. n \in Node /\ tasks[t].level + 1 \in Int
    BY <1>1, GraphFacts DEF IsGraph
  <2> QED BY <1>3, <2>1 DEF NewTask, LoopTask, Phases, TaskOK, Owed, Unreleased
<1> HIDE DEF r, q, sc
<1>9. Adds(t, r, q)
  BY <1>2, <1>4, <1>6, <1>7, <1>8 DEF Adds
<1>10. /\ scopes' \in Seq(LoopScope) /\ DOMAIN scopes' = DOMAIN scopes \cup {new}
       /\ \A m \in DOMAIN scopes : scopes'[m] = scopes[m]
       /\ scopes'[new] = sc
  BY <1>2, <1>3, <1>5
<1>11. LoopType'
  BY <1>8, <1>9, <1>10, AddedType
<1> QED BY <1>2, <1>3, <1>5, <1>6, <1>7, <1>8, <1>9, <1>10, <1>11
-----------------------------------------------------------------------------
(* Counting the tokens of a scope.                                         *)

(* A token is a task of the scope with something it owes. *)
TokensArePairs ==
  \A n : /\ \A x \in Tokens(n) : x = <<x[1], x[2]>>
         /\ \A u, i : <<u, i>> \in Tokens(n) <=>
              u \in DOMAIN tasks /\ tasks[u].scope = n /\ i \in Owed(tasks[u])

LEMMA TokenPairs == LoopType => TokensArePairs
<1> SUFFICES ASSUME LoopType, NEW n
             PROVE  /\ \A x \in Tokens(n) : x = <<x[1], x[2]>>
                    /\ \A u, i : <<u, i>> \in Tokens(n) <=>
                         u \in DOMAIN tasks /\ tasks[u].scope = n /\ i \in Owed(tasks[u])
  BY DEF TokensArePairs
<1>1. \A u \in DOMAIN tasks : Owed(tasks[u]) \subseteq 0 .. Len(graph.edges)
  BY GraphFacts, TaskFacts DEF Owed, TaskOK
<1> QED BY <1>1 DEF Tokens

LEMMA TokenPairsNext ==
  ASSUME LoopType'
  PROVE  TokensArePairs'
<1> QED BY TokenPairs, PTL

LEMMA TokensFinite ==
  ASSUME LoopType, NEW n
  PROVE  IsFiniteSet(Tokens(n)) /\ Cardinality(Tokens(n)) \in Nat
<1>1. Len(tasks) \in Nat /\ Len(graph.edges) \in Nat /\ DOMAIN tasks = 1 .. Len(tasks)
  BY GraphFacts DEF LoopType
<1>2. IsFiniteSet(1 .. Len(tasks)) /\ IsFiniteSet(0 .. Len(graph.edges))
  BY <1>1, FS_Interval
<1>3. IsFiniteSet((DOMAIN tasks) \X (0 .. Len(graph.edges)))
  BY <1>1, <1>2, FS_Product
<1>4. IsFiniteSet(Tokens(n))
  BY <1>3, FS_Subset DEF Tokens
<1> QED BY <1>4, FS_CardinalityType

(* What a moving task owes, and to whom. *)
LEMMA TokensOfMove ==
  ASSUME LoopType, NEW t \in DOMAIN tasks, NEW r, NEW sc, Moves(t, r, sc), NEW n
  PROVE  \A u, i : <<u, i>> \in Tokens(n)' <=>
           IF u = t /\ n = tasks[t].scope THEN i \in Owed(r) ELSE <<u, i>> \in Tokens(n)
<1>1. /\ LoopType' /\ DOMAIN tasks' = DOMAIN tasks /\ tasks'[t] = r
      /\ \A u \in DOMAIN tasks : u # t => tasks'[u] = tasks[u]
  BY Moved
<1>2. r.scope = tasks[t].scope
  BY DEF Moves
<1>3. \A u, i : <<u, i>> \in Tokens(n)' <=>
        u \in DOMAIN tasks' /\ tasks'[u].scope = n /\ i \in Owed(tasks'[u])
  BY <1>1, TokenPairsNext DEF TokensArePairs
<1>4. \A u, i : <<u, i>> \in Tokens(n) <=>
        u \in DOMAIN tasks /\ tasks[u].scope = n /\ i \in Owed(tasks[u])
  BY TokenPairs DEF TokensArePairs
<1> SUFFICES ASSUME NEW u, NEW i
             PROVE  <<u, i>> \in Tokens(n)' <=>
                      IF u = t /\ n = tasks[t].scope THEN i \in Owed(r) ELSE <<u, i>> \in Tokens(n)
  OBVIOUS
<1>5. CASE u = t
  BY <1>1, <1>2, <1>3, <1>4, <1>5
<1>6. CASE u # t
  <2>1. u \in DOMAIN tasks => tasks'[u] = tasks[u]
    BY <1>1, <1>6
  <2>2. u \in DOMAIN tasks => (i \in Owed(tasks'[u]) <=> i \in Owed(tasks[u]))
    BY <2>1
  <2>3. u \in DOMAIN tasks => (tasks'[u].scope = n <=> tasks[u].scope = n)
    BY <2>1
  <2> QED BY <1>1, <1>3, <1>4, <1>6, <2>2, <2>3
<1> QED BY <1>5, <1>6

(* What the two tasks of an adding step owe. *)
LEMMA TokensOfAdding ==
  ASSUME LoopType, LoopType', NEW t \in DOMAIN tasks, NEW r, NEW q, Adds(t, r, q), NEW n
  PROVE  \A u, i : <<u, i>> \in Tokens(n)' <=>
           IF u = t /\ n = tasks[t].scope THEN i \in Owed(r)
           ELSE \/ <<u, i>> \in Tokens(n)
                \/ u = Len(tasks) + 1 /\ i = 0 /\ q.scope = n
<1> DEFINE k == Len(tasks) + 1
<1>1. /\ k \notin DOMAIN tasks /\ DOMAIN tasks' = DOMAIN tasks \cup {k}
      /\ tasks'[t] = r /\ tasks'[k] = q
      /\ \A u \in DOMAIN tasks : u # t => tasks'[u] = tasks[u]
  BY Added
<1>2. r.scope = tasks[t].scope /\ Owed(q) = {0}
  BY DEF Adds
<1>3. \A u, i : <<u, i>> \in Tokens(n)' <=>
        u \in DOMAIN tasks' /\ tasks'[u].scope = n /\ i \in Owed(tasks'[u])
  BY TokenPairsNext DEF TokensArePairs
<1>4. \A u, i : <<u, i>> \in Tokens(n) <=>
        u \in DOMAIN tasks /\ tasks[u].scope = n /\ i \in Owed(tasks[u])
  BY TokenPairs DEF TokensArePairs
<1> HIDE DEF k
<1> SUFFICES ASSUME NEW u, NEW i
             PROVE  <<u, i>> \in Tokens(n)' <=>
                      IF u = t /\ n = tasks[t].scope THEN i \in Owed(r)
                      ELSE <<u, i>> \in Tokens(n) \/ (u = k /\ i = 0 /\ q.scope = n)
  BY DEF k
<1>5. CASE u = t
  <2>1. u # k /\ u \in DOMAIN tasks /\ u \in DOMAIN tasks'
    BY <1>1, <1>5
  <2>2. <<u, i>> \in Tokens(n)' <=> r.scope = n /\ i \in Owed(r)
    BY <1>1, <1>3, <1>5, <2>1
  <2>3. <<u, i>> \in Tokens(n) <=> tasks[t].scope = n /\ i \in Owed(tasks[t])
    BY <1>4, <1>5, <2>1
  <2> QED BY <1>2, <1>5, <2>1, <2>2, <2>3
<1>6. CASE u = k
  <2>1. u # t /\ u \notin DOMAIN tasks /\ u \in DOMAIN tasks'
    BY <1>1, <1>6
  <2>2. <<u, i>> \in Tokens(n)' <=> q.scope = n /\ i \in Owed(q)
    BY <1>1, <1>3, <1>6, <2>1
  <2>3. <<u, i>> \notin Tokens(n)
    BY <1>4, <2>1
  <2> QED BY <1>2, <1>6, <2>1, <2>2, <2>3
<1>7. CASE u # t /\ u # k
  <2>1. u \in DOMAIN tasks' <=> u \in DOMAIN tasks
    BY <1>1, <1>7
  <2>2. u \in DOMAIN tasks => tasks'[u] = tasks[u]
    BY <1>1, <1>7
  <2>3. u \in DOMAIN tasks => (i \in Owed(tasks'[u]) <=> i \in Owed(tasks[u]))
    BY <2>2
  <2>4. u \in DOMAIN tasks => (tasks'[u].scope = n <=> tasks[u].scope = n)
    BY <2>2
  <2> QED BY <1>3, <1>4, <1>7, <2>1, <2>3, <2>4
<1> QED BY <1>5, <1>6, <1>7
LEMMA SameTokens ==
  ASSUME TokensArePairs, TokensArePairs', NEW n,
         \A u, i : <<u, i>> \in Tokens(n)' <=> <<u, i>> \in Tokens(n)
  PROVE  Tokens(n)' = Tokens(n)
<1>1. ASSUME NEW x \in Tokens(n) PROVE x \in Tokens(n)'
  <2>1. x = <<x[1], x[2]>>
    BY <1>1 DEF TokensArePairs
  <2>2. <<x[1], x[2]>> \in Tokens(n)'
    BY <1>1, <2>1
  <2> QED BY <2>1, <2>2
<1>2. ASSUME NEW x \in Tokens(n)' PROVE x \in Tokens(n)
  <2>1. x = <<x[1], x[2]>>
    BY <1>2 DEF TokensArePairs
  <2>2. <<x[1], x[2]>> \in Tokens(n)
    BY <1>2, <2>1
  <2> QED BY <2>1, <2>2
<1> QED BY <1>1, <1>2

(* Whoever owes something keeps its scope from being settled. *)
LEMMA OwingIsUnsettled ==
  ASSUME LoopType, CountInv, NEW t \in DOMAIN tasks, Owed(tasks[t]) # {}
  PROVE  ~Settled(tasks[t].scope)
<1>1. PICK i : i \in Owed(tasks[t])
  OBVIOUS
<1>2. <<t, i>> \in Tokens(tasks[t].scope)
  BY <1>1, TokenPairs DEF TokensArePairs
<1>3. tasks[t].scope \in DOMAIN scopes
  BY TaskFacts
<1> QED BY <1>2, <1>3 DEF CountInv, Settled

LEMMA CountMoving ==
  ASSUME LoopType, CountInv, NEW t \in DOMAIN tasks, Moving(t)
  PROVE  CountInv'
<1>1. PICK r, sc : /\ Moves(t, r, sc)
                   /\ \/ Keeps(t, r, sc) \/ Aborts(t, r, sc)
                      \/ Acquires(t, r, sc) \/ Releases(t, r, sc)
  BY DEF Moving
<1>0. PICK s : s = tasks[t].scope
  OBVIOUS
<1>2. /\ LoopType' /\ DOMAIN scopes' = DOMAIN scopes /\ s \in DOMAIN scopes /\ scopes'[s] = sc
      /\ \A n \in DOMAIN scopes : n # s => scopes'[n] = scopes[n]
  BY <1>0, <1>1, Moved, TaskFacts
<1>3. TokensArePairs /\ TokensArePairs'
  BY <1>2, TokenPairs, TokenPairsNext
<1>4. \A n, u, i : <<u, i>> \in Tokens(n)' <=>
        IF u = t /\ n = s THEN i \in Owed(r) ELSE <<u, i>> \in Tokens(n)
  BY <1>0, <1>1, TokensOfMove
<1>5. \A i : <<t, i>> \in Tokens(s) <=> i \in Owed(tasks[t])
  BY <1>0, <1>3 DEF TokensArePairs
<1>6. \A n : n # s => Tokens(n)' = Tokens(n)
  BY <1>3, <1>4 DEF TokensArePairs
<1>7. Owed(tasks[t]) # {} => ~Settled(s)
  BY <1>0, OwingIsUnsettled
<1>8. IsFiniteSet(Tokens(s)) /\ Cardinality(Tokens(s)) \in Nat
  BY TokensFinite
<1>9. Scope(t) = scopes[s]
  BY <1>0 DEF Scope
<1>10. sc.error = NoError => /\ sc.pending = Cardinality(Tokens(s)')
                             /\ sc.idle => Tokens(s)' = {}
  <2> SUFFICES ASSUME sc.error = NoError
               PROVE  sc.pending = Cardinality(Tokens(s)') /\ (sc.idle => Tokens(s)' = {})
    OBVIOUS
  <2>1. ~Aborts(t, r, sc)
    BY DEF Aborts
  <2>2. CASE Keeps(t, r, sc)
    <3>0. Owed(r) = Owed(tasks[t])
      BY <2>2 DEF Keeps
    <3>1. Tokens(s)' = Tokens(s)
      <4>1. \A u, i : <<u, i>> \in Tokens(s)' <=> <<u, i>> \in Tokens(s)
        <5> SUFFICES ASSUME NEW u, NEW i
                     PROVE  <<u, i>> \in Tokens(s)' <=> <<u, i>> \in Tokens(s)
          OBVIOUS
        <5>1. CASE u = t
          BY <1>4, <1>5, <3>0, <5>1
        <5>2. CASE u # t
          BY <1>4, <5>2
        <5> QED BY <5>1, <5>2
      <4> QED BY <1>3, <4>1, SameTokens
    <3> QED BY <1>2, <1>9, <2>2, <3>1 DEF Keeps, CountInv
  <2>3. CASE Acquires(t, r, sc)
    <3>1. PICK i : i \notin Owed(tasks[t]) /\ Owed(r) = Owed(tasks[t]) \cup {i}
      BY <2>3 DEF Acquires
    <3>2. Tokens(s)' = Tokens(s) \cup {<<t, i>>} /\ <<t, i>> \notin Tokens(s)
      BY <1>3, <1>4, <1>5, <3>1 DEF TokensArePairs
    <3>3. Cardinality(Tokens(s)') = Cardinality(Tokens(s)) + 1
      BY <1>8, <3>2, FS_AddElement
    <3>4. ~sc.idle
      BY <1>7, <1>9, <2>3 DEF Acquires, Settled
    <3> QED BY <1>2, <1>9, <2>3, <3>3, <3>4 DEF Acquires, CountInv
  <2>4. CASE Releases(t, r, sc)
    <3>1. Owed(r) = Owed(tasks[t]) \ {0} /\ 0 \in Owed(tasks[t])
      BY <2>4 DEF Releases
    <3>2. Tokens(s)' = Tokens(s) \ {<<t, 0>>} /\ <<t, 0>> \in Tokens(s)
      BY <1>3, <1>4, <1>5, <3>1 DEF TokensArePairs
    <3>3. Cardinality(Tokens(s)') = Cardinality(Tokens(s)) - 1 /\ IsFiniteSet(Tokens(s)')
      BY <1>8, <3>2, FS_RemoveElement
    <3>4. scopes[s].error = NoError /\ ~scopes[s].idle
      BY <1>7, <1>9, <2>4 DEF Releases, Settled
    <3>5. scopes[s].pending = Cardinality(Tokens(s))
      BY <1>2, <3>4 DEF CountInv
    <3>6. sc.pending = Cardinality(Tokens(s)')
      BY <1>9, <2>4, <3>3, <3>5 DEF Releases
    <3>7. sc.idle => Cardinality(Tokens(s)') = 0
      <4> SUFFICES ASSUME sc.idle PROVE Cardinality(Tokens(s)') = 0
        OBVIOUS
      <4>1. sc.idle = (scopes[s].idle \/ (scopes[s].pending = 1 /\ scopes[s].error = NoError))
        BY <1>9, <2>4 DEF Releases
      <4>2. scopes[s].pending = 1
        BY <3>4, <4>1
      <4> QED BY <1>8, <3>3, <3>5, <4>2
    <3> QED BY <3>3, <3>6, <3>7, FS_EmptySet
  <2> QED BY <1>1, <2>1, <2>2, <2>3, <2>4
<1>11. \A n \in DOMAIN scopes : n # s /\ scopes'[n].error = NoError =>
         /\ scopes'[n].pending = Cardinality(Tokens(n)')
         /\ scopes'[n].idle => Tokens(n)' = {}
  BY <1>2, <1>6 DEF CountInv
<1>12. \A n \in DOMAIN scopes' : scopes'[n].error = NoError =>
         /\ scopes'[n].pending = Cardinality(Tokens(n)')
         /\ scopes'[n].idle => Tokens(n)' = {}
  BY <1>2, <1>10, <1>11
<1> QED BY <1>12 DEF CountInv

LEMMA CountHands ==
  ASSUME LoopType, CountInv, NEW t \in DOMAIN tasks, Hands(t)
  PROVE  CountInv'
<1>1. PICK i \in tasks[t].nxt : Submit(t, i)
  BY DEF Hands
<1>2. caller = "waiting"
  BY DEF Hands
<1>3. PICK r, q : /\ Adds(t, r, q) /\ q.scope = tasks[t].scope
                  /\ i \in Owed(tasks[t]) /\ Owed(r) = Owed(tasks[t]) \ {i}
  BY <1>1, <1>2, Handed
<1>4. LoopType' /\ scopes' = scopes
  BY <1>1, <1>2, Handed
<1>0. PICK s : s = tasks[t].scope
  OBVIOUS
<1> DEFINE k == Len(tasks) + 1
<1>5. TokensArePairs /\ TokensArePairs'
  BY <1>4, TokenPairs, TokenPairsNext
<1>6. \A n, u, j : <<u, j>> \in Tokens(n)' <=>
        IF u = t /\ n = s THEN j \in Owed(r)
        ELSE <<u, j>> \in Tokens(n) \/ (u = k /\ j = 0 /\ q.scope = n)
  BY <1>0, <1>3, <1>4, TokensOfAdding
<1>7. k \notin DOMAIN tasks /\ k # t
  BY <1>3, Added
<1>8. s \in DOMAIN scopes /\ IsFiniteSet(Tokens(s)) /\ Cardinality(Tokens(s)) \in Nat
  BY <1>0, TaskFacts, TokensFinite
<1>9. ~Settled(s)
  BY <1>0, <1>3, OwingIsUnsettled
<1> HIDE DEF k
<1>10. \A n : n # s => Tokens(n)' = Tokens(n)
  <2> SUFFICES ASSUME NEW n, n # s PROVE Tokens(n)' = Tokens(n)
    OBVIOUS
  <2>1. \A u, j : <<u, j>> \in Tokens(n)' <=> <<u, j>> \in Tokens(n)
    BY <1>0, <1>3, <1>6
  <2> QED BY <1>5, <2>1 DEF TokensArePairs
<1>11. Tokens(s)' = (Tokens(s) \ {<<t, i>>}) \cup {<<k, 0>>}
  <2>1. \A u, j : <<u, j>> \in Tokens(s)' <=>
          (<<u, j>> \in Tokens(s) /\ ~(u = t /\ j = i)) \/ (u = k /\ j = 0)
    <3>1. \A j : <<t, j>> \in Tokens(s) <=> j \in Owed(tasks[t])
      BY <1>0, <1>5 DEF TokensArePairs
    <3>2. \A u, j : <<u, j>> \in Tokens(s)' <=>
            IF u = t THEN j \in Owed(r) ELSE <<u, j>> \in Tokens(s) \/ (u = k /\ j = 0)
      <4>1. q.scope = s
        BY <1>0, <1>3
      <4> SUFFICES ASSUME NEW u, NEW j
                   PROVE  <<u, j>> \in Tokens(s)' <=>
                            IF u = t THEN j \in Owed(r)
                            ELSE <<u, j>> \in Tokens(s) \/ (u = k /\ j = 0)
        OBVIOUS
      <4>2. CASE u = t
        BY <1>6, <4>2
      <4>3. CASE u # t
        BY <1>6, <4>1, <4>3
      <4> QED BY <4>2, <4>3
    <3>3. \A j : j \in Owed(r) <=> j \in Owed(tasks[t]) /\ j # i
      BY <1>3
    <3> QED BY <1>7, <3>1, <3>2, <3>3
  <2> QED BY <1>5, <2>1 DEF TokensArePairs
<1>12. <<t, i>> \in Tokens(s) /\ <<k, 0>> \notin Tokens(s)
  BY <1>0, <1>3, <1>5, <1>7 DEF TokensArePairs
<1>13. Cardinality(Tokens(s)') = Cardinality(Tokens(s))
  <2>1. /\ IsFiniteSet(Tokens(s) \ {<<t, i>>})
        /\ Cardinality(Tokens(s) \ {<<t, i>>}) = Cardinality(Tokens(s)) - 1
    BY <1>8, <1>12, FS_RemoveElement
  <2>2. <<k, 0>> \notin Tokens(s) \ {<<t, i>>}
    BY <1>12
  <2>3. Cardinality((Tokens(s) \ {<<t, i>>}) \cup {<<k, 0>>}) = Cardinality(Tokens(s)) - 1 + 1
    BY <2>1, <2>2, FS_AddElement
  <2> QED BY <1>8, <1>11, <2>3
<1>14. \A n \in DOMAIN scopes' : scopes'[n].error = NoError =>
         /\ scopes'[n].pending = Cardinality(Tokens(n)')
         /\ scopes'[n].idle => Tokens(n)' = {}
  BY <1>4, <1>9, <1>10, <1>13 DEF CountInv, Settled
<1> QED BY <1>14 DEF CountInv

LEMMA CountOpens ==
  ASSUME LoopType, CountInv, NEW t \in DOMAIN tasks, Opens(t)
  PROVE  CountInv'
<1>1. PICK n \in graph.nodes : RunSubgraph(t, n)
  BY DEF Opens
<1>2. caller = "waiting"
  BY DEF Opens
<1>0. PICK new : new = Len(scopes) + 1
  OBVIOUS
<1> DEFINE k == Len(tasks) + 1
<1>3. /\ LoopType' /\ new \notin DOMAIN scopes
      /\ DOMAIN scopes' = DOMAIN scopes \cup {new}
      /\ \A m \in DOMAIN scopes : scopes'[m] = scopes[m]
      /\ scopes'[new].pending = 1 /\ ~scopes'[new].idle
  <2>1. /\ LoopType' /\ Len(scopes) \in Nat /\ DOMAIN scopes = 1 .. Len(scopes)
        /\ DOMAIN scopes' = DOMAIN scopes \cup {Len(scopes) + 1}
        /\ \A m \in DOMAIN scopes : scopes'[m] = scopes[m]
        /\ scopes'[Len(scopes) + 1].pending = 1 /\ ~scopes'[Len(scopes) + 1].idle
    BY <1>1, <1>2, Opened
  <2>2. new \notin DOMAIN scopes
    BY <1>0, <2>1
  <2> QED BY <1>0, <2>1, <2>2
<1>4. PICK r, q : /\ Adds(t, r, q) /\ q.scope = new
                  /\ Owed(r) = Owed(tasks[t])
  BY <1>0, <1>1, <1>2, Opened
<1>5. TokensArePairs /\ TokensArePairs'
  BY <1>3, TokenPairs, TokenPairsNext
<1>6. \A m, u, j : <<u, j>> \in Tokens(m)' <=>
        IF u = t /\ m = tasks[t].scope THEN j \in Owed(r)
        ELSE <<u, j>> \in Tokens(m) \/ (u = k /\ j = 0 /\ q.scope = m)
  BY <1>3, <1>4, TokensOfAdding
<1>7. tasks[t].scope \in DOMAIN scopes /\ \A u \in DOMAIN tasks : tasks[u].scope # new
  BY <1>3, TaskFacts
<1> HIDE DEF k
<1>8. \A m \in DOMAIN scopes : Tokens(m)' = Tokens(m)
  <2> SUFFICES ASSUME NEW m \in DOMAIN scopes PROVE Tokens(m)' = Tokens(m)
    OBVIOUS
  <2>1. m # new
    BY <1>3
  <2>2. \A j : m = tasks[t].scope => (<<t, j>> \in Tokens(m) <=> j \in Owed(tasks[t]))
    BY <1>5 DEF TokensArePairs
  <2>3. \A u, j : <<u, j>> \in Tokens(m)' <=> <<u, j>> \in Tokens(m)
    <3> SUFFICES ASSUME NEW u, NEW j
                 PROVE  <<u, j>> \in Tokens(m)' <=> <<u, j>> \in Tokens(m)
      OBVIOUS
    <3>1. CASE u = t /\ m = tasks[t].scope
      BY <1>4, <1>6, <2>2, <3>1
    <3>2. CASE ~(u = t /\ m = tasks[t].scope)
      BY <1>4, <1>6, <2>1, <3>2
    <3> QED BY <3>1, <3>2
  <2> QED BY <1>5, <2>3, SameTokens
<1>9. Tokens(new)' = {<<k, 0>>}
  <2>0. \A u, j : <<u, j>> \notin Tokens(new)
    BY <1>5, <1>7 DEF TokensArePairs
  <2>1. \A u, j : <<u, j>> \in Tokens(new)' <=> u = k /\ j = 0
    BY <1>3, <1>4, <1>6, <1>7, <2>0
  <2> QED BY <1>5, <2>1 DEF TokensArePairs
<1>10. Cardinality(Tokens(new)') = 1
  BY <1>9, FS_Singleton
<1>11. \A m \in DOMAIN scopes' : scopes'[m].error = NoError =>
         /\ scopes'[m].pending = Cardinality(Tokens(m)')
         /\ scopes'[m].idle => Tokens(m)' = {}
  BY <1>3, <1>8, <1>10 DEF CountInv
<1> QED BY <1>11 DEF CountInv
-----------------------------------------------------------------------------
(* Scopes and the tasks that opened them.                                  *)

LEMMA OwnMoving ==
  ASSUME LoopType, CountInv, OwnInv, NEW t \in DOMAIN tasks, Moving(t)
  PROVE  OwnInv'
<1>1. PICK r, sc : /\ Moves(t, r, sc)
                   /\ \/ Keeps(t, r, sc) \/ Aborts(t, r, sc)
                      \/ Acquires(t, r, sc) \/ Releases(t, r, sc)
  BY DEF Moving
<1>0. PICK s : s = tasks[t].scope
  OBVIOUS
<1>2. /\ DOMAIN tasks' = DOMAIN tasks /\ tasks'[t] = r
      /\ \A u \in DOMAIN tasks : u # t => tasks'[u] = tasks[u]
      /\ DOMAIN scopes' = DOMAIN scopes /\ scopes'[s] = sc
      /\ \A n \in DOMAIN scopes : n # s => scopes'[n] = scopes[n]
  BY <1>0, <1>1, Moved
<1>3. /\ r.scope = s /\ r.child = tasks[t].child /\ sc.owner = scopes[s].owner
      /\ caller' = caller /\ s \in DOMAIN scopes /\ tasks[t].pc \notin Over
  BY <1>0, <1>1, TaskFacts DEF Moves, Scope
<1>4. scopes \in Seq(LoopScope) /\ scopes' \in Seq(LoopScope)
  BY <1>1, Moved DEF LoopType
<1>5. /\ r.pc # "waiting"
      /\ r.pc = "aborted" => sc.error # NoError
      /\ tasks[t].pc # "aborted"
      /\ scopes[s].error # NoError => sc.error # NoError
  BY <1>0, <1>1 DEF Keeps, Aborts, Acquires, Releases, Scope
<1>6. ASSUME Settled(s) PROVE sc.idle /\ sc.error = NoError
  <2>1. Owed(tasks[t]) = {}
    BY <1>0, <1>6, OwingIsUnsettled
  <2>2. Keeps(t, r, sc)
    BY <1>1, <2>1 DEF Aborts, Acquires, Releases
  <2> QED BY <1>0, <1>6, <2>2 DEF Keeps, Settled, Scope
<1>7. \A n \in DOMAIN scopes : Settled(n) => Settled(n)'
  BY <1>2, <1>6 DEF Settled
<1>8. tasks[t].pc = "waiting" => Settled(tasks[t].child) \/ (r.pc = "aborted" /\ sc.error # NoError)
  BY <1>1 DEF Keeps, Aborts, Acquires, Releases
<1>9. ASSUME NEW n \in DOMAIN scopes, n > 1 PROVE Owned(n)'
  <2>1. PICK o : o = scopes[n].owner
    OBVIOUS
  <2>2. scopes'[n].owner = o
    BY <1>2, <1>3, <2>1
  <2>3. /\ o \in DOMAIN tasks /\ tasks[o].scope < n
        /\ \/ Settled(n)
           \/ tasks[o].child = n /\ tasks[o].pc = "waiting"
           \/ tasks[o].child = n /\ tasks[o].pc = "aborted" /\ Scope(o).error # NoError
    BY <1>9, <2>1 DEF OwnInv, Owned
  <2>4. o \in DOMAIN tasks' /\ tasks'[o].scope = tasks[o].scope
    BY <1>0, <1>2, <1>3, <2>3
  <2>5. \/ Settled(n)'
        \/ tasks'[o].child = n /\ tasks'[o].pc = "waiting"
        \/ /\ tasks'[o].child = n /\ tasks'[o].pc = "aborted"
           /\ scopes'[tasks'[o].scope].error # NoError
    <3>1. CASE Settled(n)
      BY <1>7, <3>1
    <3>2. CASE tasks[o].child = n /\ tasks[o].pc = "waiting" /\ o # t
      BY <1>2, <2>3, <3>2
    <3>3. CASE tasks[o].child = n /\ tasks[o].pc = "waiting" /\ o = t /\ ~Settled(n)
      BY <1>2, <1>3, <1>8, <3>3
    <3>4. CASE tasks[o].child = n /\ tasks[o].pc = "aborted" /\ Scope(o).error # NoError
      <4>1. o # t
        BY <1>5, <3>4
      <4>2. tasks[o].scope \in DOMAIN scopes
        BY <2>3, TaskFacts
      <4>3. scopes'[tasks[o].scope].error # NoError
        BY <1>2, <1>5, <3>4, <4>2 DEF Scope
      <4> QED BY <1>2, <2>3, <3>4, <4>1, <4>3
    <3> QED BY <2>3, <3>1, <3>2, <3>3, <3>4
  <2> QED BY <2>2, <2>3, <2>4, <2>5 DEF Owned, Scope
<1>10. ASSUME NEW u \in DOMAIN tasks', tasks'[u].pc = "waiting"
       PROVE  tasks'[u].child \in DOMAIN scopes' /\ tasks'[u].child > 1
  <2>1. u # t /\ u \in DOMAIN tasks
    BY <1>2, <1>5, <1>10
  <2> QED BY <1>2, <1>10, <2>1 DEF OwnInv
<1>11. caller \notin {"returned", "raised"}
  BY <1>3 DEF OwnInv, Drained
<1>12. caller' = "idle" <=> scopes' = <<>>
  <2>1. s \in DOMAIN scopes'
    BY <1>2, <1>3
  <2>2. scopes' # <<>> /\ scopes # <<>>
    BY <1>3, <2>1
  <2> QED BY <1>3, <2>2 DEF OwnInv
<1>13. scopes'[1].owner = 0
  <2>1. scopes # <<>>
    BY <1>3
  <2>2. 1 \in DOMAIN scopes
    BY <1>4, <2>1
  <2>3. scopes[1].owner = 0
    BY <2>1 DEF OwnInv
  <2> QED BY <1>2, <1>3, <2>2, <2>3
<1> QED
  BY <1>2, <1>3, <1>9, <1>10, <1>11, <1>12, <1>13 DEF OwnInv

LEMMA OwnHands ==
  ASSUME LoopType, OwnInv, NEW t \in DOMAIN tasks, Hands(t)
  PROVE  OwnInv'
<1>1. PICK i \in tasks[t].nxt : Submit(t, i)
  BY DEF Hands
<1>2. caller = "waiting"
  BY DEF Hands
<1>3. /\ LoopType' /\ scopes' = scopes /\ tasks[t].pc = "submitting"
      /\ \E r, q : /\ Adds(t, r, q) /\ q.scope = tasks[t].scope
                   /\ r.pc \in {"submitting", "finished"}
  BY <1>1, <1>2, Handed
<1>4. PICK r, q : Adds(t, r, q) /\ r.pc \in {"submitting", "finished"}
  BY <1>3
<1> DEFINE k == Len(tasks) + 1
<1>5. /\ DOMAIN tasks' = DOMAIN tasks \cup {k} /\ tasks'[t] = r /\ tasks'[k] = q
      /\ \A u \in DOMAIN tasks : u # t => tasks'[u] = tasks[u]
  BY <1>4, Added
<1>6. caller' = caller /\ r.scope = tasks[t].scope /\ q.pc = "queued"
  BY <1>4 DEF Adds
<1> HIDE DEF k
<1>7. ASSUME NEW n \in DOMAIN scopes, n > 1 PROVE Owned(n)'
  <2>1. PICK o : o = scopes[n].owner
    OBVIOUS
  <2>2. /\ o \in DOMAIN tasks /\ tasks[o].scope < n
        /\ \/ Settled(n)
           \/ tasks[o].child = n /\ tasks[o].pc = "waiting"
           \/ tasks[o].child = n /\ tasks[o].pc = "aborted" /\ Scope(o).error # NoError
    BY <1>7, <2>1 DEF OwnInv, Owned
  <2>3. o \in DOMAIN tasks' /\ tasks'[o].scope = tasks[o].scope
    BY <1>5, <1>6, <2>2
  <2>4. tasks[o].pc \in {"waiting", "aborted"} => tasks'[o] = tasks[o]
    BY <1>3, <1>5, <2>2
  <2>5. Settled(n) => Settled(n)'
    BY <1>3 DEF Settled
  <2> QED BY <1>3, <2>1, <2>2, <2>3, <2>4, <2>5 DEF Owned, Scope
<1>8. ASSUME NEW u \in DOMAIN tasks', tasks'[u].pc = "waiting"
      PROVE  tasks'[u].child \in DOMAIN scopes /\ tasks'[u].child > 1
  <2>1. u # t /\ u # k
    BY <1>4, <1>5, <1>6, <1>8
  <2> QED BY <1>5, <1>8, <2>1 DEF OwnInv
<1> QED
  BY <1>2, <1>3, <1>6, <1>7, <1>8 DEF OwnInv

LEMMA OwnOpens ==
  ASSUME LoopType, OwnInv, NEW t \in DOMAIN tasks, Opens(t)
  PROVE  OwnInv'
<1>1. PICK m \in graph.nodes : RunSubgraph(t, m)
  BY DEF Opens
<1>2. caller = "waiting"
  BY DEF Opens
<1>0. PICK new : new = Len(scopes) + 1
  OBVIOUS
<1>3. /\ LoopType' /\ tasks[t].pc = "opening"
      /\ Len(scopes) \in Nat /\ DOMAIN scopes = 1 .. Len(scopes)
      /\ DOMAIN scopes' = DOMAIN scopes \cup {new}
      /\ \A n \in DOMAIN scopes : scopes'[n] = scopes[n]
      /\ scopes'[new].owner = t
  BY <1>0, <1>1, <1>2, Opened
<1>4. PICK r, q : /\ Adds(t, r, q) /\ q.scope = new /\ r.pc = "waiting" /\ r.child = new
  BY <1>0, <1>1, <1>2, Opened
<1> DEFINE k == Len(tasks) + 1
<1>5. /\ DOMAIN tasks' = DOMAIN tasks \cup {k} /\ tasks'[t] = r /\ tasks'[k] = q
      /\ \A u \in DOMAIN tasks : u # t => tasks'[u] = tasks[u]
  BY <1>4, Added
<1>6. caller' = caller /\ r.scope = tasks[t].scope /\ q.pc = "queued"
  BY <1>4 DEF Adds
<1> HIDE DEF k
<1>7. scopes # <<>> /\ tasks[t].scope \in DOMAIN scopes
  BY TaskFacts
<1>8. 1 \in DOMAIN scopes /\ new \notin DOMAIN scopes /\ tasks[t].scope < new /\ new > 1
  BY <1>0, <1>3, <1>7
<1>9. ASSUME NEW n \in DOMAIN scopes, n > 1 PROVE Owned(n)'
  <2>1. PICK o : o = scopes[n].owner
    OBVIOUS
  <2>2. /\ o \in DOMAIN tasks /\ tasks[o].scope < n
        /\ \/ Settled(n)
           \/ tasks[o].child = n /\ tasks[o].pc = "waiting"
           \/ tasks[o].child = n /\ tasks[o].pc = "aborted" /\ Scope(o).error # NoError
    BY <1>9, <2>1 DEF OwnInv, Owned
  <2>3. o \in DOMAIN tasks' /\ tasks'[o].scope = tasks[o].scope
    BY <1>5, <1>6, <2>2
  <2>4. tasks[o].pc \in {"waiting", "aborted"} => tasks'[o] = tasks[o]
    BY <1>3, <1>5, <2>2
  <2>5. Settled(n) => Settled(n)'
    BY <1>3 DEF Settled
  <2>6. tasks[o].scope \in DOMAIN scopes
    BY <2>2, TaskFacts
  <2>7. scopes'[n].owner = o /\ scopes'[tasks[o].scope] = Scope(o)
    BY <1>3, <2>1, <2>6 DEF Scope
  <2> QED BY <2>2, <2>3, <2>4, <2>5, <2>7 DEF Owned, Scope
<1>10. Owned(new)'
  <2>1. t \in DOMAIN tasks' /\ tasks'[t].scope < new
    BY <1>5, <1>6, <1>8
  <2> QED BY <1>3, <1>4, <1>5, <2>1 DEF Owned
<1>11. ASSUME NEW u \in DOMAIN tasks', tasks'[u].pc = "waiting"
       PROVE  tasks'[u].child \in DOMAIN scopes' /\ tasks'[u].child > 1
  <2>1. CASE u = t
    BY <1>3, <1>4, <1>5, <1>8, <2>1
  <2>2. CASE u # t
    <3>1. u # k
      BY <1>5, <1>6, <1>11
    <3> QED BY <1>3, <1>5, <1>11, <2>2, <3>1 DEF OwnInv
  <2> QED BY <2>1, <2>2
<1>12. scopes' # <<>>
  <2>1. 1 \in DOMAIN scopes'
    BY <1>3, <1>8
  <2> QED BY <2>1
<1>13. scopes'[1].owner = 0
  BY <1>3, <1>7, <1>8 DEF OwnInv
<1>14. \A n \in DOMAIN scopes' : n > 1 => Owned(n)'
  BY <1>3, <1>9, <1>10
<1> QED
  BY <1>2, <1>6, <1>11, <1>12, <1>13, <1>14 DEF OwnInv
-----------------------------------------------------------------------------
(* The invariant, and what it says.                                        *)

LoopInv == LoopType /\ CountInv /\ OwnInv

LEMMA StartNode ==
  ASSUME NEW g \in Graphs
  PROVE  GetStart(g) \in Node
<1>1. IsGraph(g) /\ Cardinality(Starts(g)) = 1
  BY LoopAssumption DEF HasStart
<1>2. Starts(g) # {}
  BY <1>1, FS_EmptySet
<1>3. GetStart(g) \in Starts(g)
  BY <1>2 DEF GetStart
<1> QED BY <1>1, <1>3 DEF Starts, IsGraph

LEMMA LoopInitial == Init => LoopInv
<1> SUFFICES ASSUME Init PROVE LoopInv
  OBVIOUS
<1>1. LoopType
  BY DEF Init, LoopType
<1>2. CountInv /\ OwnInv
  BY DEF Init, CountInv, OwnInv
<1> QED BY <1>1, <1>2 DEF LoopInv

LEMMA LoopRun ==
  ASSUME LoopInv, Run
  PROVE  LoopInv'
<1> DEFINE q  == NewTask(GetStart(graph), 1, 0)
           sc == NewScope(NoNode, 0, 0)
<1>1. tasks' = <<q>> /\ scopes' = <<sc>> /\ caller' = "waiting" /\ UNCHANGED <<graph, loop>>
  BY DEF Run
<1>2. GetStart(graph) \in Node
  BY StartNode DEF LoopInv, LoopType
<1>3. q \in LoopTask /\ q.scope = 1 /\ q.pc = "queued" /\ q.nxt = {} /\ q.todo = {}
  BY <1>2 DEF NewTask, LoopTask, Phases
<1>4. sc \in LoopScope /\ sc.pending = 1 /\ ~sc.idle /\ sc.owner = 0
  BY DEF NewScope, LoopScope
<1> HIDE DEF q, sc
<1>5. /\ tasks' \in Seq(LoopTask) /\ DOMAIN tasks' = {1} /\ tasks'[1] = q
      /\ scopes' \in Seq(LoopScope) /\ DOMAIN scopes' = {1} /\ scopes'[1] = sc
  BY <1>1, <1>3, <1>4
<1>6. LoopType'
  <2>1. ASSUME NEW u \in DOMAIN tasks'
        PROVE  (tasks[u].scope \in DOMAIN scopes /\ TaskOK(tasks[u]))'
    BY <1>3, <1>5 DEF TaskOK
  <2> QED BY <1>1, <1>5, <2>1 DEF LoopInv, LoopType, loop
<1>7. Tokens(1)' = {<<1, 0>>}
  <2>1. TokensArePairs'
    BY <1>6, TokenPairsNext
  <2>2. Owed(q) = {0}
    BY <1>3 DEF Owed, Unreleased
  <2>3. \A u, i : <<u, i>> \in Tokens(1)' <=> u = 1 /\ i = 0
    BY <1>3, <1>5, <2>1, <2>2 DEF TokensArePairs
  <2> QED BY <2>1, <2>3 DEF TokensArePairs
<1>8. Cardinality(Tokens(1)') = 1
  BY <1>7, FS_Singleton
<1>9. CountInv'
  <2>1. ASSUME NEW n \in DOMAIN scopes'
        PROVE  scopes'[n].pending = Cardinality(Tokens(n)') /\ ~scopes'[n].idle
    BY <1>4, <1>5, <1>8
  <2> QED BY <2>1 DEF CountInv
<1>10. OwnInv'
  <2>1. scopes' # <<>>
    BY <1>1
  <2> QED BY <1>1, <1>3, <1>4, <1>5, <2>1 DEF OwnInv
<1> QED BY <1>6, <1>9, <1>10 DEF LoopInv

(* Steps of the thread in run() after it started the pool. *)
LEMMA LoopCaller ==
  ASSUME LoopInv, Wake \/ Join \/ UNCHANGED vars
  PROVE  LoopInv'
<1>1. UNCHANGED <<graph, tasks, scopes, loopDepth>>
  BY DEF Wake, Join, vars, pool, loop
<1>2. LoopType'
  <2>1. ASSUME NEW u \in DOMAIN tasks'
        PROVE  (tasks[u].scope \in DOMAIN scopes /\ TaskOK(tasks[u]))'
    BY <1>1 DEF LoopInv, LoopType, TaskOK
  <2> QED BY <1>1, <2>1 DEF LoopInv, LoopType
<1>3. CountInv'
  <2>1. \A n : Tokens(n)' = Tokens(n)
    BY <1>1 DEF Tokens
  <2> QED BY <1>1, <2>1 DEF LoopInv, CountInv
<1>4. OwnInv'
  <2>1. \A n \in DOMAIN scopes : Owned(n)' <=> Owned(n)
    BY <1>1 DEF Owned, Settled, Scope
  <2>2. Drained' <=> Drained
    BY <1>1 DEF Drained
  <2>3. caller' = "idle" <=> caller = "idle"
    BY DEF Wake, Join, vars
  <2>4. caller' \in {"returned", "raised"} => Drained
    BY DEF Wake, Join, vars, LoopInv, OwnInv
  <2>5. caller' = "returned" => scopes[1].error = NoError
    BY DEF Wake, Join, vars, LoopInv, OwnInv
  <2> QED BY <1>1, <2>1, <2>2, <2>3, <2>4, <2>5 DEF LoopInv, OwnInv
<1> QED BY <1>2, <1>3, <1>4 DEF LoopInv

LEMMA LoopWorker ==
  ASSUME LoopInv, NEW t \in DOMAIN tasks, Worker(t)
  PROVE  LoopInv'
<1>0. LoopType /\ CountInv /\ OwnInv
  BY DEF LoopInv
<1>1. CASE Moving(t)
  <2>1. LoopType'
    BY <1>0, <1>1, Moved DEF Moving
  <2> QED BY <1>0, <1>1, <2>1, CountMoving, OwnMoving DEF LoopInv
<1>2. CASE Hands(t)
  <2>1. LoopType'
    BY <1>0, <1>2, Handed DEF Hands
  <2> QED BY <1>0, <1>2, <2>1, CountHands, OwnHands DEF LoopInv
<1>3. CASE Opens(t)
  <2>1. LoopType'
    BY <1>0, <1>3, Opened DEF Opens
  <2> QED BY <1>0, <1>3, <2>1, CountOpens, OwnOpens DEF LoopInv
<1> QED BY <1>0, <1>1, <1>2, <1>3, WorkerMoves

LEMMA LoopInvariant == Spec => []LoopInv
<1>1. LoopInv /\ [Next]_vars => LoopInv'
  <2> SUFFICES ASSUME LoopInv, [Next]_vars PROVE LoopInv'
    OBVIOUS
  <2>1. CASE Run
    BY <2>1, LoopRun
  <2>2. CASE Wake \/ Join \/ UNCHANGED vars
    BY <2>2, LoopCaller
  <2>3. ASSUME NEW t \in DOMAIN tasks, Worker(t) PROVE LoopInv'
    BY <2>3, LoopWorker
  <2> QED BY <2>1, <2>2, <2>3 DEF Next, Terminated
<1> QED BY <1>1, LoopInitial, PTL DEF Spec

(* A task that is not over still owes something to its scope. *)
LEMMA ActiveOwes ==
  ASSUME LoopType, NEW t \in DOMAIN tasks, tasks[t].pc \notin Over
  PROVE  Owed(tasks[t]) # {}
<1>1. tasks[t].pc \in Phases /\ TaskOK(tasks[t])
  BY TaskFacts DEF LoopTask
<1>2. CASE tasks[t].pc = "submitting"
  BY <1>1, <1>2 DEF TaskOK, Owed
<1>3. CASE tasks[t].pc # "submitting"
  <2>1. tasks[t].pc \in Unreleased
    BY <1>1, <1>3 DEF Phases, Over, Unreleased
  <2> QED BY <2>1 DEF Owed
<1> QED BY <1>2, <1>3

(***************************************************************************)
(* Iterations of a loop do not overlap: a task that is not over keeps its  *)
(* scope unsettled, and an unsettled scope is the only one that its loop   *)
(* still waits for or failed in.                                           *)
(***************************************************************************)
THEOREM IterationsAreApart == Spec => []IterationsDoNotOverlap
<1>1. LoopInv => IterationsDoNotOverlap
  <2> SUFFICES ASSUME LoopType, CountInv, OwnInv,
                      NEW t \in DOMAIN tasks, NEW u \in DOMAIN tasks,
                      tasks[t].pc \notin Over, tasks[u].pc \notin Over,
                      Scope(t).owner = Scope(u).owner
               PROVE  tasks[t].scope = tasks[u].scope
    BY DEF LoopInv, IterationsDoNotOverlap
  <2>1. ~Settled(tasks[t].scope) /\ ~Settled(tasks[u].scope)
    BY ActiveOwes, OwingIsUnsettled
  <2>2. /\ tasks[t].scope \in DOMAIN scopes /\ tasks[u].scope \in DOMAIN scopes
        /\ scopes \in Seq(LoopScope) /\ tasks \in Seq(LoopTask)
    BY TaskFacts DEF LoopType
  <2>3. scopes # <<>>
    BY <2>2
  <2>4. scopes[1].owner = 0
    BY <2>3 DEF OwnInv
  <2>5. \A n \in DOMAIN scopes : n > 1 /\ ~Settled(n) =>
          scopes[n].owner \in DOMAIN tasks /\ tasks[scopes[n].owner].child = n
    BY DEF OwnInv, Owned
  <2>6. \A n \in DOMAIN scopes : n = 1 \/ n > 1
    BY <2>2
  <2>7. 0 \notin DOMAIN tasks
    BY <2>2
  <2> QED BY <2>1, <2>2, <2>4, <2>5, <2>6, <2>7 DEF Scope
<1> QED BY <1>1, LoopInvariant, PTL

(* A set of naturals has a least element. *)
LEMMA LeastElement ==
  ASSUME NEW T, T \subseteq Nat, T # {}
  PROVE  \E x \in T : \A y \in T : ~(y < x)
<1>1. \E x \in T : \A y \in T : ~(<<y, x>> \in OpToRel(<, Nat))
  BY NatLessThanWellFounded, WFMin
<1> QED BY <1>1 DEF OpToRel

(***************************************************************************)
(* An error in a body reaches run(): of the scopes that failed, the one    *)
(* opened first would have an owner that, with every task over, handed the *)
(* error on to a scope opened even earlier.                                *)
(***************************************************************************)
THEOREM ErrorsReachRun == Spec => []ErrorReachesRun
<1>1. LoopInv => ErrorReachesRun
  <2> SUFFICES ASSUME LoopType, OwnInv, caller = "returned",
                      NEW s \in DOMAIN scopes, scopes[s].error # NoError
               PROVE  FALSE
    BY DEF LoopInv, ErrorReachesRun
  <2>1. Drained /\ scopes[1].error = NoError
    BY DEF OwnInv
  <2>2. scopes \in Seq(LoopScope)
    BY DEF LoopType
  <2> DEFINE Failed == {n \in DOMAIN scopes : scopes[n].error # NoError}
  <2>3. Failed \subseteq Nat /\ Failed # {}
    BY <2>2
  <2>4. PICK n \in Failed : \A m \in Failed : ~(m < n)
    <3> HIDE DEF Failed
    <3> QED BY <2>3, LeastElement
  <2>5. n \in DOMAIN scopes /\ n > 1 /\ ~Settled(n)
    BY <2>1, <2>2, <2>4 DEF Settled
  <2>6. PICK o : o = scopes[n].owner
    OBVIOUS
  <2>7. /\ o \in DOMAIN tasks /\ tasks[o].scope < n
        /\ tasks[o].pc = "waiting" \/ Scope(o).error # NoError
    BY <2>5, <2>6 DEF OwnInv, Owned
  <2>8. tasks[o].pc # "waiting"
    BY <2>1, <2>7 DEF Drained, Over
  <2>9. tasks[o].scope \in Failed
    BY <2>7, <2>8, TaskFacts DEF Scope
  <2> QED BY <2>4, <2>7, <2>9
<1> QED BY <1>1, LoopInvariant, PTL

-----------------------------------------------------------------------------
(* Breaks.                                                                 *)

\* A task whose node has executed, and is in its scope's done besides.
Marked(u) == tasks[u].pc \in {"done", "acquiring", "submitting", "finished", "rejected"}
Ran(u) == tasks[u].pc = "executed" \/ Marked(u)

\* A node that asks for a break has executed in scope n.
Asked(n) == \E u \in DOMAIN tasks : tasks[u].scope = n /\ Ran(u) /\ Type(u) \in Ends

\* A scope's done is what has executed in it.
DoneInv ==
  \A s \in DOMAIN scopes : \A n :
    n \in scopes[s].done <=>
      \E u \in DOMAIN tasks : tasks[u].scope = s /\ tasks[u].node = n /\ Marked(u)

PlaceInv ==
  \A t \in DOMAIN tasks :
    /\ tasks[t].node \in graph.nodes
    /\ tasks[t].pc \in {"entering", "looping", "opening", "waiting"} => Type(t) = "loop-node"

\* What a body executed has set _break.
Breaking(s) == \E n \in scopes[s].done : graph.type[n] \in Ends

LoopVars == [owner : Node \cup {NoNode}, index : Int, brk : BOOLEAN]

\* While a loop iterates, _break says what its body has asked for.
BreakInv ==
  /\ loopVars \in LoopVars
  /\ loopVars.brk => \E n \in graph.nodes : graph.type[n] \in Ends
  /\ \A t \in DOMAIN tasks : At(t, "opening") => ~loopVars.brk
  /\ \A t \in DOMAIN tasks : At(t, "waiting") =>
       scopes[tasks[t].child].owner = t /\ (loopVars.brk <=> Asked(tasks[t].child))

(***************************************************************************)
(* The iterations a loop has begun, and where it stands after them.        *)
(***************************************************************************)
Stopped(t) ==
  /\ \A s \in Bodies(t) : Breaking(s) => scopes[s].iteration = Cardinality(Bodies(t))
  /\ Cardinality(Bodies(t)) < tasks[t].total => \E s \in Bodies(t) : Breaking(s)

Begun(t, n) ==
  /\ Cardinality(Bodies(t)) = n
  /\ \A s \in Bodies(t) : Breaking(s) => At(t, "waiting") /\ s = tasks[t].child

BodiesOK(t) ==
  LET task == tasks[t]
  IN  /\ task.pc \in {"queued", "running", "entering"} => Bodies(t) = {}
      /\ task.pc = "entering" => task.left = task.total
      /\ task.pc = "looping" /\ task.left > 0 => Begun(t, task.total - task.left)
      /\ task.pc = "opening" => Begun(t, task.total - task.left - 1)
      /\ task.pc = "waiting" =>
           /\ Begun(t, task.total - task.left)
           /\ scopes[task.child].iteration = task.total - task.left
      /\ task.pc = "looping" /\ task.left = 0 => Stopped(t)
      /\ task.pc = "executed" /\ Type(t) = "loop-node" => Stopped(t)

StopInv ==
  /\ DoneInv /\ PlaceInv /\ BreakInv
  /\ \A t \in DOMAIN tasks : BodiesOK(t)

-----------------------------------------------------------------------------
(* The steps of a task, as far as breaks go.                               *)

\* Where a task may go, and what becomes of the iterations it counts.
PhaseStep(task, next) ==
  \/ /\ <<task.pc, next.pc>> \in
          {<<"queued", "running">>, <<"queued", "aborted">>, <<"running", "aborted">>,
           <<"opening", "aborted">>, <<"waiting", "aborted">>,
           <<"running", "executed">>, <<"executed", "done">>, <<"done", "acquiring">>,
           <<"acquiring", "acquiring">>, <<"acquiring", "submitting">>,
           <<"acquiring", "finished">>, <<"submitting", "submitting">>,
           <<"submitting", "finished">>, <<"submitting", "rejected">>}
     /\ next.left = task.left /\ next.total = task.total
  \/ task.pc = "running" /\ next.pc = "entering" /\ next.left = next.total
  \/ /\ task.pc = "entering" /\ next.pc = "looping"
     /\ next.left = task.left /\ next.total = task.total
  \/ /\ task.pc = "looping" /\ next.pc = "opening" /\ task.left > 0
     /\ next.left = task.left - 1 /\ next.total = task.total
  \/ /\ task.pc = "looping" /\ next.pc = "executed" /\ task.left = 0
     /\ next.left = task.left /\ next.total = task.total
  \/ /\ task.pc = "waiting" /\ next.pc = "looping" /\ Settled(task.child)
     /\ next.left = (IF loopVars.brk THEN 0 ELSE task.left) /\ next.total = task.total

\* What a step of task t writes, unless it opens a scope; new are new tasks.
Steps(t, new) ==
  /\ graph' = graph
  /\ DOMAIN tasks' = DOMAIN tasks \cup new /\ DOMAIN tasks \cap new = {}
  /\ \A u \in DOMAIN tasks : u # t => tasks'[u] = tasks[u]
  /\ \A u \in new : tasks'[u].pc = "queued" /\ tasks'[u].node \in graph.nodes
  /\ tasks'[t].node = tasks[t].node /\ tasks'[t].scope = tasks[t].scope
  /\ tasks'[t].child = tasks[t].child
  /\ PhaseStep(tasks[t], tasks'[t])
  /\ tasks[t].pc = "running" => (tasks'[t].pc = "entering" <=> Type(t) = "loop-node"
                                                                 /\ tasks'[t].pc # "aborted")
  /\ DOMAIN scopes' = DOMAIN scopes
  /\ \A s \in DOMAIN scopes :
       /\ scopes'[s].owner = scopes[s].owner /\ scopes'[s].iteration = scopes[s].iteration
       /\ scopes'[s].done = scopes[s].done \cup
            (IF s = tasks[t].scope /\ tasks[t].pc = "executed" THEN {tasks[t].node} ELSE {})
  /\ loopVars'.brk = (tasks'[t].pc # "opening" /\
       (loopVars.brk \/ (tasks[t].pc = "running" /\ tasks'[t].pc = "executed"
                           /\ Type(t) \in Ends)))

\* A body that has been left stays as it is.
LEMMA LeftBodies ==
  ASSUME LoopInv, NEW t \in DOMAIN tasks, tasks[t].pc # "aborted",
         NEW s \in Bodies(t), At(t, "waiting") => s # tasks[t].child
  PROVE  Settled(s)
<1>1. LoopType /\ OwnInv
  BY DEF LoopInv
<1>2. tasks \in Seq(LoopTask) /\ scopes \in Seq(LoopScope)
  BY <1>1 DEF LoopType
<1>3. s \in DOMAIN scopes /\ scopes[s].owner = t /\ t # 0 /\ t \in Nat
  BY <1>2 DEF Bodies
<1>4. s > 1
  <2>1. s \in Nat \ {0} /\ scopes # <<>>
    BY <1>2, <1>3
  <2>2. scopes[1].owner = 0
    BY <1>1, <2>1 DEF OwnInv
  <2> QED BY <1>3, <2>1, <2>2
<1>5. Owned(s)
  BY <1>1, <1>3, <1>4 DEF OwnInv
<1> QED BY <1>3, <1>5 DEF Owned, At

LEMMA ActiveIsUnsettled ==
  ASSUME LoopInv, NEW u \in DOMAIN tasks, tasks[u].pc \notin Over
  PROVE  ~Settled(tasks[u].scope)
<1>1. Owed(tasks[u]) # {}
  BY ActiveOwes DEF LoopInv
<1> QED BY <1>1, OwingIsUnsettled DEF LoopInv

(* A step that adds no task. *)
LEMMA StepsAlone ==
  ASSUME LoopType, NEW t \in DOMAIN tasks, NEW r, Become(t, r), graph' = graph,
         r.node = tasks[t].node, r.scope = tasks[t].scope, r.child = tasks[t].child,
         PhaseStep(tasks[t], r),
         tasks[t].pc = "running" =>
           (r.pc = "entering" <=> Type(t) = "loop-node" /\ r.pc # "aborted"),
         \/ scopes' = scopes /\ tasks[t].pc # "executed"
         \/ \E sc : /\ SetScope(t, sc)
                    /\ sc.owner = Scope(t).owner /\ sc.iteration = Scope(t).iteration
                    /\ sc.done = Scope(t).done \cup
                         (IF tasks[t].pc = "executed" THEN {tasks[t].node} ELSE {}),
         loopVars'.brk = (r.pc # "opening" /\
           (loopVars.brk \/ (tasks[t].pc = "running" /\ r.pc = "executed" /\ Type(t) \in Ends)))
  PROVE  Steps(t, {})
<1>1. tasks' = [tasks EXCEPT ![t] = r] /\ tasks'[t] = r
  BY DEF Become
<1>2. /\ DOMAIN scopes' = DOMAIN scopes
      /\ \A s \in DOMAIN scopes :
           /\ scopes'[s].owner = scopes[s].owner /\ scopes'[s].iteration = scopes[s].iteration
           /\ scopes'[s].done = scopes[s].done \cup
                (IF s = tasks[t].scope /\ tasks[t].pc = "executed" THEN {tasks[t].node} ELSE {})
  <2>1. CASE scopes' = scopes /\ tasks[t].pc # "executed"
    BY <2>1
  <2>2. CASE ~(scopes' = scopes /\ tasks[t].pc # "executed")
    <3>1. PICK sc : /\ scopes' = [scopes EXCEPT ![tasks[t].scope] = sc]
                    /\ sc.owner = Scope(t).owner /\ sc.iteration = Scope(t).iteration
                    /\ sc.done = Scope(t).done \cup
                         (IF tasks[t].pc = "executed" THEN {tasks[t].node} ELSE {})
      BY <2>2 DEF SetScope
    <3> QED BY <3>1, TaskFacts DEF Scope
  <2> QED BY <2>1, <2>2
<1> QED BY <1>1, <1>2 DEF Steps

LEMMA RaiseSteps ==
  ASSUME LoopType, loopVars \in LoopVars, NEW t \in DOMAIN tasks, NEW err, Raise(t, err), graph' = graph,
         loopVars' = loopVars,
         tasks[t].pc \in {"queued", "running", "opening", "waiting"}
  PROVE  Steps(t, {})
<1> DEFINE r == [tasks[t] EXCEPT !.pc = "aborted"]
           sc == Aborted(Scope(t), err)
<1>1. tasks[t] \in LoopTask /\ Scope(t) \in LoopScope
  BY TaskFacts
<1>2. Become(t, r) /\ SetScope(t, sc)
  BY DEF Raise
<1>3. /\ r.pc = "aborted" /\ r.node = tasks[t].node /\ r.scope = tasks[t].scope
      /\ r.child = tasks[t].child /\ r.left = tasks[t].left /\ r.total = tasks[t].total
  BY <1>1 DEF LoopTask
<1>4. /\ sc.owner = Scope(t).owner /\ sc.iteration = Scope(t).iteration
      /\ sc.done = Scope(t).done
  BY <1>1 DEF Aborted, LoopScope
<1> HIDE DEF r, sc
<1> QED BY <1>2, <1>3, <1>4, StepsAlone DEF LoopVars, PhaseStep

LEMMA StartSteps ==
  ASSUME LoopType, loopVars \in LoopVars, NEW t \in DOMAIN tasks,
         Start(t) \/ ExecuteRaises(t) \/ RaiseFromBody(t)
           \/ (caller # "waiting" /\ \E n \in graph.nodes : RunSubgraph(t, n))
  PROVE  Steps(t, {})
<1>1. graph' = graph /\ loopVars' = loopVars
  BY DEF Start, ExecuteRaises, RaiseFromBody, RunSubgraph, loop
<1>2. CASE \E err : Raise(t, err)
  <2>1. tasks[t].pc \in {"queued", "running", "opening", "waiting"}
    BY DEF Start, ExecuteRaises, RaiseFromBody, RunSubgraph, At
  <2> QED BY <1>1, <1>2, <2>1, RaiseSteps
<1>3. CASE ~\E err : Raise(t, err)
  <2>1. Become(t, [tasks[t] EXCEPT !.pc = "running"]) /\ scopes' = scopes /\ At(t, "queued")
    BY <1>3 DEF Start, ExecuteRaises, RaiseFromBody, RunSubgraph
  <2> DEFINE r == [tasks[t] EXCEPT !.pc = "running"]
  <2>2. /\ r.pc = "running" /\ r.node = tasks[t].node /\ r.scope = tasks[t].scope
        /\ r.child = tasks[t].child /\ r.left = tasks[t].left /\ r.total = tasks[t].total
    BY TaskFacts DEF LoopTask
  <2> HIDE DEF r
  <2> QED BY <1>1, <2>1, <2>2, StepsAlone DEF LoopVars, PhaseStep, At, r
<1> QED BY <1>2, <1>3

LEMMA ExecuteSteps ==
  ASSUME LoopType, loopVars \in LoopVars,
         NEW t \in DOMAIN tasks,
         NEW b \in Branch \cup {NoBranch}, Execute(t, b)
  PROVE  Steps(t, {})
<1> DEFINE r == [tasks[t] EXCEPT !.pc = "executed", !.branch = b]
<1>1. /\ Become(t, r) /\ scopes' = scopes /\ At(t, "running") /\ graph' = graph
      /\ Type(t) # "loop-node"
      /\ loopVars' = [loopVars EXCEPT !.brk = loopVars.brk \/ Type(t) \in Ends]
  BY DEF Execute
<1>2. /\ r.pc = "executed" /\ r.node = tasks[t].node /\ r.scope = tasks[t].scope
      /\ r.child = tasks[t].child /\ r.left = tasks[t].left /\ r.total = tasks[t].total
  BY TaskFacts DEF LoopTask
<1>3. loopVars'.brk = (loopVars.brk \/ Type(t) \in Ends)
  BY <1>1 DEF LoopVars
<1> HIDE DEF r
<1> QED BY <1>1, <1>2, <1>3, StepsAlone DEF LoopVars, PhaseStep, At

LEMMA MarkSteps ==
  ASSUME LoopType, loopVars \in LoopVars, NEW t \in DOMAIN tasks, MarkDone(t)
  PROVE  Steps(t, {})
<1> DEFINE r == [tasks[t] EXCEPT !.pc = "done"]
           sc == [Scope(t) EXCEPT !.done = Scope(t).done \cup {tasks[t].node}]
<1>1. /\ Become(t, r) /\ SetScope(t, sc) /\ At(t, "executed") /\ graph' = graph
      /\ loopVars' = loopVars
  BY DEF MarkDone, loop
<1>2. /\ r.pc = "done" /\ r.node = tasks[t].node /\ r.scope = tasks[t].scope
      /\ r.child = tasks[t].child /\ r.left = tasks[t].left /\ r.total = tasks[t].total
  BY TaskFacts DEF LoopTask
<1>3. /\ sc.owner = Scope(t).owner /\ sc.iteration = Scope(t).iteration
      /\ sc.done = Scope(t).done \cup {tasks[t].node}
  BY TaskFacts DEF LoopScope
<1> HIDE DEF r, sc
<1> QED BY <1>1, <1>2, <1>3, StepsAlone DEF LoopVars, PhaseStep, At

(* The steps of a task that has told what comes after its node. *)
LEMMA NextSteps ==
  ASSUME LoopType, loopVars \in LoopVars, NEW t \in DOMAIN tasks,
         NextNodes(t) \/ ReleaseSelf(t) \/ \E i \in tasks[t].todo : Acquire(t, i)
  PROVE  Steps(t, {})
<1>1. graph' = graph /\ loopVars' = loopVars
  BY DEF NextNodes, ReleaseSelf, Acquire, loop
<1>2. PICK r, sc :
        /\ Become(t, r) /\ SetScope(t, sc)
        /\ r.node = tasks[t].node /\ r.scope = tasks[t].scope
        /\ r.child = tasks[t].child /\ r.left = tasks[t].left /\ r.total = tasks[t].total
        /\ <<tasks[t].pc, r.pc>> \in {<<"done", "acquiring">>, <<"acquiring", "acquiring">>,
             <<"acquiring", "submitting">>, <<"acquiring", "finished">>}
        /\ sc.owner = Scope(t).owner /\ sc.iteration = Scope(t).iteration
        /\ sc.done = Scope(t).done
  <2>1. CASE NextNodes(t)
    <3> DEFINE r == [tasks[t] EXCEPT !.pc = "acquiring", !.todo = Selected(t), !.nxt = Selected(t)]
               sc == [Scope(t) EXCEPT !.activated = @ \cup {Target(graph, i) : i \in Selected(t)}]
    <3>1. Become(t, r) /\ SetScope(t, sc) /\ tasks[t].pc = "done"
      BY <2>1 DEF NextNodes, At
    <3>2. /\ r.pc = "acquiring" /\ r.node = tasks[t].node /\ r.scope = tasks[t].scope
          /\ r.child = tasks[t].child /\ r.left = tasks[t].left /\ r.total = tasks[t].total
      BY TaskFacts DEF LoopTask
    <3>3. /\ sc.owner = Scope(t).owner /\ sc.iteration = Scope(t).iteration
          /\ sc.done = Scope(t).done
      BY TaskFacts DEF LoopScope
    <3> HIDE DEF r, sc
    <3> QED BY <3>1, <3>2, <3>3
  <2>2. CASE ReleaseSelf(t)
    <3> DEFINE p == IF tasks[t].nxt = {} THEN "finished" ELSE "submitting"
               r == [tasks[t] EXCEPT !.pc = p]
               sc == Released(Scope(t))
    <3>1. Become(t, r) /\ SetScope(t, sc) /\ tasks[t].pc = "acquiring"
      BY <2>2 DEF ReleaseSelf, At
    <3>2. /\ r.pc = p /\ r.node = tasks[t].node /\ r.scope = tasks[t].scope
          /\ r.child = tasks[t].child /\ r.left = tasks[t].left /\ r.total = tasks[t].total
      BY TaskFacts DEF LoopTask
    <3>3. /\ sc.owner = Scope(t).owner /\ sc.iteration = Scope(t).iteration
          /\ sc.done = Scope(t).done
      BY TaskFacts DEF LoopScope, Released
    <3>4. p \in {"finished", "submitting"}
      OBVIOUS
    <3> HIDE DEF p, r, sc
    <3> QED BY <3>1, <3>2, <3>3, <3>4
  <2>3. CASE \E i \in tasks[t].todo : Acquire(t, i)
    <3>1. PICK i \in tasks[t].todo : Acquire(t, i)
      BY <2>3
    <3> DEFINE r == [tasks[t] EXCEPT !.todo = @ \ {i}]
               sc == [Scope(t) EXCEPT !.pending = @ + 1]
    <3>2. Become(t, r) /\ SetScope(t, sc) /\ tasks[t].pc = "acquiring"
      BY <3>1 DEF Acquire, At
    <3>3. /\ r.pc = tasks[t].pc /\ r.node = tasks[t].node /\ r.scope = tasks[t].scope
          /\ r.child = tasks[t].child /\ r.left = tasks[t].left /\ r.total = tasks[t].total
      BY TaskFacts DEF LoopTask
    <3>4. /\ sc.owner = Scope(t).owner /\ sc.iteration = Scope(t).iteration
          /\ sc.done = Scope(t).done
      BY TaskFacts DEF LoopScope
    <3> HIDE DEF r, sc
    <3> QED BY <3>2, <3>3, <3>4
  <2> QED BY <2>1, <2>2, <2>3
<1> QED BY <1>1, <1>2, StepsAlone DEF LoopVars, PhaseStep

LEMMA LoopingSteps ==
  ASSUME LoopType, loopVars \in LoopVars, NEW t \in DOMAIN tasks,
         \/ \E n \in 0 .. MaxIterations : EnterLoop(t, n)
         \/ WriteDepth(t) \/ SetLoop(t) \/ EndIteration(t) \/ ExitLoop(t)
  PROVE  Steps(t, {})
<1>1. graph' = graph /\ scopes' = scopes
  BY DEF EnterLoop, WriteDepth, SetLoop, EndIteration, ExitLoop
<1>2. tasks[t] \in LoopTask /\ tasks[t].left \in Nat /\ tasks[t].total \in Nat
  BY TaskFacts DEF LoopTask
<1>3. CASE \E n \in 0 .. MaxIterations : EnterLoop(t, n)
  <2>1. PICK n \in 0 .. MaxIterations : EnterLoop(t, n)
    BY <1>3
  <2> DEFINE r == [tasks[t] EXCEPT !.pc = "entering", !.total = n, !.left = n,
                                   !.level = loopDepth + 1]
  <2>2. Become(t, r) /\ loopVars' = loopVars /\ tasks[t].pc = "running" /\ Type(t) = "loop-node"
    BY <2>1 DEF EnterLoop, At, loop
  <2>3. /\ r.pc = "entering" /\ r.node = tasks[t].node /\ r.scope = tasks[t].scope
        /\ r.child = tasks[t].child /\ r.left = r.total
    BY <1>2 DEF LoopTask
  <2> HIDE DEF r
  <2> QED BY <1>1, <2>2, <2>3, StepsAlone DEF LoopVars, PhaseStep
<1>4. CASE WriteDepth(t) \/ ExitLoop(t)
  <2>1. PICK p \in {"looping", "executed"} :
          /\ Become(t, [tasks[t] EXCEPT !.pc = p]) /\ loopVars' = loopVars
          /\ \/ p = "looping" /\ tasks[t].pc = "entering"
             \/ p = "executed" /\ tasks[t].pc = "looping" /\ tasks[t].left = 0
    BY <1>4 DEF WriteDepth, ExitLoop, At
  <2> DEFINE r == [tasks[t] EXCEPT !.pc = p]
  <2>2. /\ r.pc = p /\ r.node = tasks[t].node /\ r.scope = tasks[t].scope
        /\ r.child = tasks[t].child /\ r.left = tasks[t].left /\ r.total = tasks[t].total
    BY <1>2 DEF LoopTask
  <2>3. Become(t, r)
    BY <2>1
  <2> HIDE DEF r
  <2> QED BY <1>1, <2>1, <2>2, <2>3, StepsAlone DEF LoopVars, PhaseStep
<1>5. CASE SetLoop(t)
  <2> DEFINE r == [tasks[t] EXCEPT !.pc = "opening", !.left = tasks[t].left - 1]
  <2>1. Become(t, r) /\ loopVars'.brk = FALSE /\ tasks[t].pc = "looping" /\ tasks[t].left > 0
    BY <1>5 DEF SetLoop, At
  <2>2. /\ r.pc = "opening" /\ r.node = tasks[t].node /\ r.scope = tasks[t].scope
        /\ r.child = tasks[t].child /\ r.left = tasks[t].left - 1 /\ r.total = tasks[t].total
    BY <1>2 DEF LoopTask
  <2> HIDE DEF r
  <2> QED BY <1>1, <2>1, <2>2, StepsAlone DEF LoopVars, PhaseStep
<1>6. CASE EndIteration(t)
  <2> DEFINE k == IF loopVars.brk THEN 0 ELSE tasks[t].left
             r == [tasks[t] EXCEPT !.pc = "looping", !.left = k]
  <2>1. Become(t, r) /\ loopVars' = loopVars /\ tasks[t].pc = "waiting" /\ Settled(tasks[t].child)
    BY <1>6 DEF EndIteration, At, loop, Settled
  <2>2. /\ r.pc = "looping" /\ r.node = tasks[t].node /\ r.scope = tasks[t].scope
        /\ r.child = tasks[t].child /\ r.left = k /\ r.total = tasks[t].total
    BY <1>2 DEF LoopTask
  <2> HIDE DEF r
  <2> QED BY <1>1, <2>1, <2>2, StepsAlone DEF LoopVars, PhaseStep
<1> QED BY <1>3, <1>4, <1>5, <1>6

LEMMA SubmitSteps ==
  ASSUME LoopType, loopVars \in LoopVars, NEW t \in DOMAIN tasks,
         NEW i \in tasks[t].nxt, Submit(t, i)
  PROVE  \E new : Steps(t, new)
<1>1. graph' = graph /\ loopVars' = loopVars /\ scopes' = scopes /\ tasks[t].pc = "submitting"
  BY DEF Submit, loop, At
<1>2. CASE caller = "waiting"
  <2> DEFINE rest == tasks[t].nxt \ {i}
             p == IF rest = {} THEN "finished" ELSE "submitting"
             r == [tasks[t] EXCEPT !.nxt = rest, !.pc = p]
             q == NewTask(Target(graph, i), tasks[t].scope, tasks[t].depth + 1)
             mid == [tasks EXCEPT ![t] = r]
  <2>1. tasks' = Append(mid, q)
    BY <1>1, <1>2 DEF Submit
  <2>2. tasks[t] \in LoopTask /\ TaskOK(tasks[t]) /\ tasks \in Seq(LoopTask)
    BY TaskFacts DEF LoopType
  <2>3. /\ r \in LoopTask /\ r.pc = p /\ r.node = tasks[t].node /\ r.scope = tasks[t].scope
        /\ r.child = tasks[t].child /\ r.left = tasks[t].left /\ r.total = tasks[t].total
        /\ p \in {"submitting", "finished"}
    BY <2>2 DEF LoopTask, Phases
  <2>4. Target(graph, i) \in graph.nodes
    BY <2>2, GraphFacts DEF TaskOK, IsGraph, Target
  <2>5. q.pc = "queued" /\ q.node \in graph.nodes
    BY <2>4 DEF NewTask
  <2> HIDE DEF r, q
  <2>6. /\ mid \in Seq(LoopTask) /\ Len(mid) = Len(tasks) /\ mid[t] = r
        /\ \A u \in DOMAIN tasks : u # t => mid[u] = tasks[u]
    BY <2>2, <2>3
  <2>7. DOMAIN tasks = 1 .. Len(tasks) /\ Len(tasks) \in Nat
    BY <2>2
  <2> HIDE DEF mid
  <2>8. /\ DOMAIN tasks' = DOMAIN tasks \cup {Len(tasks) + 1}
        /\ tasks'[Len(tasks) + 1] = q
        /\ \A u \in DOMAIN tasks : tasks'[u] = mid[u]
    BY <2>1, <2>6, <2>7
  <2>9. Len(tasks) + 1 \notin DOMAIN tasks
    BY <2>7
  <2>10. PhaseStep(tasks[t], tasks'[t])
    BY <1>1, <2>3, <2>6, <2>8 DEF PhaseStep
  <2>11. Steps(t, {Len(tasks) + 1})
    BY <1>1, <2>3, <2>5, <2>6, <2>8, <2>9, <2>10 DEF Steps, LoopVars
  <2> QED BY <2>11
<1>3. CASE caller # "waiting"
  <2> DEFINE r == [tasks[t] EXCEPT !.pc = "rejected"]
  <2>1. Become(t, r)
    BY <1>3 DEF Submit
  <2>2. /\ r.pc = "rejected" /\ r.node = tasks[t].node /\ r.scope = tasks[t].scope
        /\ r.child = tasks[t].child /\ r.left = tasks[t].left /\ r.total = tasks[t].total
    BY TaskFacts DEF LoopTask
  <2> HIDE DEF r
  <2> QED BY <1>1, <2>1, <2>2, StepsAlone DEF LoopVars, PhaseStep
<1> QED BY <1>2, <1>3

\* Task t begins an iteration.
Begins(t) ==
  LET new == Len(scopes) + 1
      q == Len(tasks) + 1
  IN  /\ tasks[t].pc = "opening" /\ graph' = graph /\ loopVars' = loopVars
      /\ new \notin DOMAIN scopes /\ q \notin DOMAIN tasks
      /\ DOMAIN tasks' = DOMAIN tasks \cup {q}
      /\ DOMAIN scopes' = DOMAIN scopes \cup {new}
      /\ \A u \in DOMAIN tasks : u # t => tasks'[u] = tasks[u]
      /\ tasks'[t].node = tasks[t].node /\ tasks'[t].scope = tasks[t].scope
      /\ tasks'[t].total = tasks[t].total /\ tasks'[t].left = tasks[t].left
      /\ tasks'[t].pc = "waiting" /\ tasks'[t].child = new
      /\ tasks'[q].pc = "queued" /\ tasks'[q].node \in graph.nodes
      /\ tasks'[q].scope = new
      /\ \A s \in DOMAIN scopes : scopes'[s] = scopes[s]
      /\ scopes'[new].owner = t /\ scopes'[new].done = {}
      /\ scopes'[new].iteration = tasks[t].total - tasks[t].left

LEMMA RunSubgraphBegins ==
  ASSUME LoopType, NEW t \in DOMAIN tasks, NEW n \in graph.nodes, RunSubgraph(t, n),
         caller = "waiting"
  PROVE  Begins(t)
<1> DEFINE new == Len(scopes) + 1
           r  == [tasks[t] EXCEPT !.pc = "waiting", !.child = new]
           q  == NewTask(n, new, tasks[t].level + 1)
           sc == NewScope(tasks[t].node, t, tasks[t].total - tasks[t].left)
           mid == [tasks EXCEPT ![t] = r]
<1>1. tasks[t] \in LoopTask /\ tasks \in Seq(LoopTask) /\ scopes \in Seq(LoopScope)
  BY TaskFacts DEF LoopType
<1>2. /\ tasks[t].pc = "opening" /\ scopes' = Append(scopes, sc)
      /\ tasks' = Append([tasks EXCEPT ![t].pc = "waiting", ![t].child = new], q)
      /\ graph' = graph /\ loopVars' = loopVars
  BY DEF RunSubgraph, At
<1>3. [tasks EXCEPT ![t].pc = "waiting", ![t].child = new] = mid
  BY <1>1 DEF LoopTask
<1>4. /\ sc.owner = t /\ sc.done = {} /\ sc.iteration = tasks[t].total - tasks[t].left
      /\ q.pc = "queued" /\ q.node \in graph.nodes /\ q.scope = new
  BY DEF NewScope, NewTask
<1>5. /\ Len(scopes) \in Nat /\ new \in Nat /\ DOMAIN scopes = 1 .. Len(scopes)
      /\ Len(tasks) \in Nat /\ DOMAIN tasks = 1 .. Len(tasks)
  BY <1>1
<1>6. /\ r \in LoopTask /\ r.scope = tasks[t].scope /\ r.pc = "waiting" /\ r.child = new
      /\ r.node = tasks[t].node /\ r.total = tasks[t].total /\ r.left = tasks[t].left
  BY <1>1, <1>5 DEF LoopTask, Phases
<1> HIDE DEF r, q, sc
<1>7. /\ mid \in Seq(LoopTask) /\ Len(mid) = Len(tasks) /\ mid[t] = r
      /\ \A u \in DOMAIN tasks : u # t => mid[u] = tasks[u]
  BY <1>1, <1>6
<1>8. /\ DOMAIN tasks' = DOMAIN tasks \cup {Len(tasks) + 1}
      /\ tasks'[Len(tasks) + 1] = q
      /\ \A u \in DOMAIN tasks : tasks'[u] = mid[u]
  <2>1. tasks' = Append(mid, q)
    BY <1>2, <1>3
  <2> HIDE DEF mid
  <2> QED BY <1>5, <1>7, <2>1
<1> HIDE DEF mid
<1>9. /\ DOMAIN scopes' = DOMAIN scopes \cup {new} /\ scopes'[new] = sc
      /\ \A s \in DOMAIN scopes : scopes'[s] = scopes[s]
  BY <1>1, <1>2, <1>5
<1>10. new \notin DOMAIN scopes /\ Len(tasks) + 1 \notin DOMAIN tasks
  BY <1>5
<1>11. tasks'[t] = r
  BY <1>7, <1>8
<1> QED BY <1>2, <1>4, <1>6, <1>7, <1>8, <1>9, <1>10, <1>11 DEF Begins

LEMMA WorkerSteps ==
  ASSUME LoopType, loopVars \in LoopVars, NEW t \in DOMAIN tasks, Worker(t)
  PROVE  (\E new : Steps(t, new)) \/ Begins(t)
<1>1. CASE \E n \in graph.nodes : RunSubgraph(t, n)
  <2>1. CASE caller = "waiting"
    BY <1>1, <2>1, RunSubgraphBegins
  <2>2. CASE caller # "waiting"
    BY <1>1, <2>2, StartSteps
  <2> QED BY <2>1, <2>2
<1>2. CASE Start(t) \/ ExecuteRaises(t) \/ RaiseFromBody(t)
  BY <1>2, StartSteps
<1>3. CASE \E b \in Branch \cup {NoBranch} : Execute(t, b)
  BY <1>3, ExecuteSteps
<1>4. CASE MarkDone(t)
  BY <1>4, MarkSteps
<1>5. CASE NextNodes(t) \/ ReleaseSelf(t) \/ \E i \in tasks[t].todo : Acquire(t, i)
  BY <1>5, NextSteps
<1>6. CASE \E i \in tasks[t].nxt : Submit(t, i)
  BY <1>6, SubmitSteps
<1>7. CASE \/ \E n \in 0 .. MaxIterations : EnterLoop(t, n)
           \/ WriteDepth(t) \/ SetLoop(t) \/ EndIteration(t) \/ ExitLoop(t)
  BY <1>7, LoopingSteps
<1> QED BY <1>1, <1>2, <1>3, <1>4, <1>5, <1>6, <1>7 DEF Worker

-----------------------------------------------------------------------------
(* Breaks are kept apart.                                                  *)

LEMMA StepsMark ==
  ASSUME NEW t \in DOMAIN tasks, NEW new, Steps(t, new)
  PROVE  /\ \A u \in DOMAIN tasks' : Type(u)' = graph.type[tasks'[u].node]
         /\ \A u \in DOMAIN tasks : Type(u)' = Type(u)
         /\ \A u \in DOMAIN tasks : u # t => (Marked(u)' <=> Marked(u)) /\ (Ran(u)' <=> Ran(u))
         /\ \A u \in new : ~Marked(u)' /\ ~Ran(u)'
         /\ Marked(t)' <=> Marked(t) \/ tasks[t].pc = "executed"
         /\ Ran(t)' <=> Ran(t) \/ tasks'[t].pc = "executed"
<1>1. /\ graph' = graph /\ \A u \in DOMAIN tasks : u # t => tasks'[u] = tasks[u]
      /\ \A u \in new : tasks'[u].pc = "queued"
      /\ tasks'[t].node = tasks[t].node
  BY DEF Steps
<1>2. <<tasks[t].pc, tasks'[t].pc>> \in
          {<<"queued", "running">>, <<"queued", "aborted">>, <<"running", "aborted">>,
           <<"opening", "aborted">>, <<"waiting", "aborted">>,
           <<"running", "executed">>, <<"executed", "done">>, <<"done", "acquiring">>,
           <<"acquiring", "acquiring">>, <<"acquiring", "submitting">>,
           <<"acquiring", "finished">>, <<"submitting", "submitting">>,
           <<"submitting", "finished">>, <<"submitting", "rejected">>,
           <<"running", "entering">>, <<"entering", "looping">>, <<"looping", "opening">>,
           <<"looping", "executed">>, <<"waiting", "looping">>}
  BY DEF Steps, PhaseStep
<1>3. /\ Marked(t)' <=> Marked(t) \/ tasks[t].pc = "executed"
      /\ Ran(t)' <=> Ran(t) \/ tasks'[t].pc = "executed"
  BY <1>2 DEF Marked, Ran
<1>4. \A u \in DOMAIN tasks' : Type(u)' = graph.type[tasks'[u].node]
  BY <1>1 DEF Type
<1>5. \A u \in DOMAIN tasks : Type(u)' = Type(u)
  BY <1>1 DEF Type
<1>6. \A u \in new : ~Marked(u)' /\ ~Ran(u)'
  BY <1>1 DEF Marked, Ran
<1>7. \A u \in DOMAIN tasks : u # t => (Marked(u)' <=> Marked(u)) /\ (Ran(u)' <=> Ran(u))
  BY <1>1 DEF Marked, Ran
<1> QED BY <1>3, <1>4, <1>5, <1>6, <1>7

LEMMA StepsDone ==
  ASSUME DoneInv, NEW t \in DOMAIN tasks, NEW new, Steps(t, new)
  PROVE  DoneInv'
<1> SUFFICES ASSUME NEW s \in DOMAIN scopes, NEW n
             PROVE  n \in scopes'[s].done <=>
                      \E u \in DOMAIN tasks' : tasks'[u].scope = s /\ tasks'[u].node = n
                                                 /\ Marked(u)'
  BY DEF Steps, DoneInv
<1>1. n \in scopes'[s].done <=>
        n \in scopes[s].done \/ (s = tasks[t].scope /\ tasks[t].pc = "executed" /\ n = tasks[t].node)
  BY DEF Steps
<1>2. /\ DOMAIN tasks' = DOMAIN tasks \cup new
      /\ \A u \in DOMAIN tasks : tasks'[u].scope = tasks[u].scope /\ tasks'[u].node = tasks[u].node
  BY DEF Steps
<1>3. /\ \A u \in DOMAIN tasks : u # t => (Marked(u)' <=> Marked(u))
      /\ \A u \in new : ~Marked(u)'
      /\ Marked(t)' <=> Marked(t) \/ tasks[t].pc = "executed"
  BY StepsMark
<1>4. n \in scopes[s].done <=>
        \E u \in DOMAIN tasks : tasks[u].scope = s /\ tasks[u].node = n /\ Marked(u)
  BY DEF DoneInv
<1>5. (\E u \in DOMAIN tasks' : tasks'[u].scope = s /\ tasks'[u].node = n /\ Marked(u)')
        <=> \E u \in DOMAIN tasks : tasks[u].scope = s /\ tasks[u].node = n /\ Marked(u)'
  BY <1>2, <1>3
<1>6. (\E u \in DOMAIN tasks : tasks[u].scope = s /\ tasks[u].node = n /\ Marked(u)')
        <=> \/ \E u \in DOMAIN tasks : tasks[u].scope = s /\ tasks[u].node = n /\ Marked(u)
            \/ tasks[t].scope = s /\ tasks[t].node = n /\ tasks[t].pc = "executed"
  BY <1>3
<1> QED BY <1>1, <1>4, <1>5, <1>6

LEMMA StepsPlace ==
  ASSUME PlaceInv, NEW t \in DOMAIN tasks, NEW new, Steps(t, new)
  PROVE  PlaceInv'
<1>1. /\ graph' = graph /\ \A u \in DOMAIN tasks : u # t => tasks'[u] = tasks[u]
      /\ \A u \in new : tasks'[u].pc = "queued" /\ tasks'[u].node \in graph.nodes
      /\ tasks'[t].node = tasks[t].node /\ DOMAIN tasks' = DOMAIN tasks \cup new
      /\ PhaseStep(tasks[t], tasks'[t])
      /\ tasks[t].pc = "running" => (tasks'[t].pc = "entering" <=> Type(t) = "loop-node"
                                                                     /\ tasks'[t].pc # "aborted")
  BY DEF Steps
<1>2. \A u \in DOMAIN tasks : Type(u)' = Type(u)
  BY StepsMark
<1>3. tasks'[t].pc \in {"entering", "looping", "opening", "waiting"} => Type(t)' = "loop-node"
  BY <1>1, <1>2 DEF PhaseStep, PlaceInv
<1> QED BY <1>1, <1>2, <1>3 DEF PlaceInv

(* A task that executes a break beside an iteration is in its body. *)
LEMMA BreakIsInside ==
  ASSUME LoopInv, PlaceInv, BreaksAreApart, NEW t \in DOMAIN tasks, NEW u \in DOMAIN tasks,
         At(t, "running"), Type(t) \in Ends, Iterating(u)
  PROVE  At(u, "waiting") /\ tasks[t].scope = tasks[u].child
<1>1. u # t /\ tasks[t].node \in graph.nodes /\ graph.type[tasks[t].node] \in Ends
  BY DEF Iterating, At, PlaceInv, Type
<1>2. Scope(t).owner = u
  BY <1>1 DEF BreaksAreApart, At
<1>3. tasks[t].scope \in Bodies(u)
  BY <1>2, TaskFacts DEF LoopInv, Bodies, Scope
<1>4. ~Settled(tasks[t].scope)
  BY ActiveIsUnsettled DEF At, Over
<1>5. tasks[u].pc # "aborted"
  BY DEF Iterating
<1> QED BY <1>3, <1>4, <1>5, LeftBodies

LEMMA StepsBreak ==
  ASSUME LoopInv, StopInv, BreaksAreApart, BreaksAreApart', loopVars' \in LoopVars,
         NEW t \in DOMAIN tasks, NEW new, Steps(t, new), PlaceInv'
  PROVE  BreakInv'
<1> DEFINE breaks == \E n \in graph.nodes : graph.type[n] \in Ends
           X == tasks[t].pc = "running" /\ tasks'[t].pc = "executed" /\ Type(t) \in Ends
<1>1. /\ graph' = graph /\ DOMAIN tasks' = DOMAIN tasks \cup new
      /\ \A u \in DOMAIN tasks : u # t => tasks'[u] = tasks[u]
      /\ \A u \in DOMAIN tasks : tasks'[u].child = tasks[u].child /\ tasks'[u].scope = tasks[u].scope
      /\ \A u \in new : tasks'[u].pc = "queued"
      /\ \A s \in DOMAIN scopes : scopes'[s].owner = scopes[s].owner
      /\ PhaseStep(tasks[t], tasks'[t])
      /\ DOMAIN scopes' = DOMAIN scopes
  BY DEF Steps
<1>2. loopVars'.brk = (tasks'[t].pc # "opening" /\ (loopVars.brk \/ X))
  BY DEF Steps
<1>3. LoopType /\ PlaceInv /\ BreakInv
  BY DEF LoopInv, StopInv
<1>4. loopVars'.brk => breaks
  BY <1>2, <1>3 DEF PlaceInv, BreakInv, Type
<1>5. ASSUME NEW u \in DOMAIN tasks, u # t, At(u, "opening") PROVE ~loopVars'.brk
  <2>1. ~loopVars.brk
    BY <1>3, <1>5 DEF BreakInv
  <2>2. ~X
    BY <1>3, <1>5, BreakIsInside DEF At, Iterating
  <2> QED BY <1>2, <2>1, <2>2
<1>6. \A u \in DOMAIN tasks' : At(u, "opening")' => ~loopVars'.brk
  BY <1>1, <1>2, <1>5 DEF At
<1>7. tasks'[t].pc # "waiting"
  BY <1>1 DEF PhaseStep
<1>8. ASSUME NEW u \in DOMAIN tasks, u # t, At(u, "waiting")
      PROVE  loopVars'.brk <=> Asked(tasks[u].child)'
  <2>1. loopVars.brk <=> Asked(tasks[u].child)
    BY <1>3, <1>8 DEF BreakInv
  <2>2. CASE tasks'[t].pc = "opening"
    <3>1. Iterating(t)' /\ Iterating(u)'
      BY <1>1, <1>8, <2>2 DEF Iterating, At
    <3>2. ~breaks
      BY <1>1, <1>8, <3>1 DEF BreaksAreApart
    <3>3. \A v \in DOMAIN tasks' : Type(v)' \notin Ends
      BY <1>1, <3>2 DEF PlaceInv, Type
    <3>4. ~Asked(tasks[u].child)'
      BY <3>3 DEF Asked
    <3> QED BY <1>1, <1>2, <2>2, <3>4
  <2>3. CASE tasks'[t].pc # "opening"
    <3>1. X => tasks[t].scope = tasks[u].child
      BY <1>8, <1>3, BreakIsInside DEF At, Iterating
    <3>2. /\ \A v \in DOMAIN tasks : v # t => (Ran(v)' <=> Ran(v))
          /\ \A v \in new : ~Ran(v)'
          /\ Ran(t)' <=> Ran(t) \/ tasks'[t].pc = "executed"
          /\ \A v \in DOMAIN tasks : Type(v)' = Type(v)
      BY StepsMark
    <3>3. tasks'[t].pc = "executed" /\ Type(t) \in Ends => X
      <4>1. tasks'[t].pc = "executed" => tasks[t].pc \in {"running", "looping"}
        BY <1>1 DEF PhaseStep
      <4>2. tasks[t].pc = "looping" => Type(t) \notin Ends
        BY <1>3 DEF PlaceInv, Ends
      <4> QED BY <4>1, <4>2
    <3>4. Asked(tasks[u].child)' <=>
            \E v \in DOMAIN tasks : tasks[v].scope = tasks[u].child /\ Ran(v)' /\ Type(v) \in Ends
      <4>1. tasks'[u].child = tasks[u].child
        BY <1>1
      <4> QED BY <1>1, <3>2, <4>1 DEF Asked
    <3>5. Asked(tasks[u].child)' <=>
            Asked(tasks[u].child) \/ (X /\ tasks[t].scope = tasks[u].child)
      BY <3>2, <3>3, <3>4 DEF Asked
    <3> QED BY <1>2, <2>1, <2>3, <3>1, <3>5
  <2> QED BY <2>2, <2>3
<1>9. ASSUME NEW u \in DOMAIN tasks', At(u, "waiting")'
      PROVE  scopes'[tasks'[u].child].owner = u /\ (loopVars'.brk <=> Asked(tasks[u].child)')
  <2>1. u \in DOMAIN tasks /\ u # t /\ At(u, "waiting") /\ tasks'[u] = tasks[u]
    BY <1>1, <1>7, <1>9 DEF At
  <2>2. tasks[u].child \in DOMAIN scopes /\ scopes[tasks[u].child].owner = u
    BY <1>3, <2>1 DEF BreakInv, LoopInv, OwnInv, At
  <2> QED BY <1>1, <1>8, <2>1, <2>2
<1> QED BY <1>1, <1>4, <1>6, <1>9 DEF BreakInv

LEMMA LoopVarsKept ==
  ASSUME LoopType, loopVars \in LoopVars, [Next]_vars
  PROVE  loopVars' \in LoopVars
<1>1. CASE loopVars' = loopVars
  BY <1>1
<1>2. CASE \E t \in DOMAIN tasks, b \in Branch \cup {NoBranch} : Execute(t, b)
  <2>1. PICK t \in DOMAIN tasks, b \in Branch \cup {NoBranch} : Execute(t, b)
    BY <1>2
  <2> DEFINE brk == loopVars.brk \/ Type(t) \in Ends
  <2>2. loopVars' = [loopVars EXCEPT !.brk = brk] /\ brk \in BOOLEAN
    BY <2>1 DEF Execute
  <2> HIDE DEF brk
  <2> QED BY <2>2 DEF LoopVars
<1>3. CASE \E t \in DOMAIN tasks : SetLoop(t)
  <2>1. PICK t \in DOMAIN tasks : SetLoop(t)
    BY <1>3
  <2>2. tasks[t].total - tasks[t].left + 1 \in Int /\ tasks[t].node \in Node
    BY TaskFacts DEF LoopTask
  <2> QED BY <2>1, <2>2 DEF SetLoop, LoopVars
<1>4. CASE \E t \in DOMAIN tasks : Worker(t)
  <2>1. PICK t \in DOMAIN tasks : Worker(t)
    BY <1>4
  <2>2. CASE Start(t) \/ ExecuteRaises(t) \/ MarkDone(t) \/ NextNodes(t) \/ ReleaseSelf(t)
    BY <1>1, <2>2 DEF Start, ExecuteRaises, MarkDone, NextNodes, ReleaseSelf, loop
  <2>3. CASE \/ \E i \in tasks[t].todo : Acquire(t, i)
             \/ \E i \in tasks[t].nxt : Submit(t, i)
             \/ \E n \in 0 .. MaxIterations : EnterLoop(t, n)
             \/ \E n \in graph.nodes : RunSubgraph(t, n)
    BY <1>1, <2>3 DEF Acquire, Submit, EnterLoop, RunSubgraph, loop
  <2>4. CASE WriteDepth(t) \/ EndIteration(t) \/ RaiseFromBody(t) \/ ExitLoop(t)
    BY <1>1, <2>4 DEF WriteDepth, EndIteration, RaiseFromBody, ExitLoop, loop
  <2> QED BY <1>2, <1>3, <2>1, <2>2, <2>3, <2>4 DEF Worker
<1>5. CASE Run \/ Wake \/ Join \/ Terminated \/ UNCHANGED vars
  BY <1>1, <1>5 DEF Run, Wake, Join, Terminated, vars, loop
<1> QED BY <1>4, <1>5 DEF Next

(* A body that has been left is done for good. *)
LEMMA LeftDone ==
  ASSUME LoopInv, NEW t \in DOMAIN tasks, NEW new, Steps(t, new),
         NEW s \in DOMAIN scopes, Settled(s)
  PROVE  Breaking(s)' <=> Breaking(s)
<1>1. ~(s = tasks[t].scope /\ tasks[t].pc = "executed")
  BY ActiveIsUnsettled DEF Over
<1>2. scopes'[s].done = scopes[s].done /\ graph' = graph
  BY <1>1 DEF Steps
<1> QED BY <1>2 DEF Breaking

(* Whose iterations the scopes are. *)
LEMMA Owners ==
  ASSUME LoopInv, NEW s \in DOMAIN scopes
  PROVE  scopes[s].owner = 0 \/ scopes[s].owner \in DOMAIN tasks
<1>1. scopes \in Seq(LoopScope) /\ s \in Nat \ {0} /\ scopes # <<>>
  BY DEF LoopInv, LoopType
<1> QED BY <1>1 DEF LoopInv, OwnInv, Owned

(* A scope that has been left has asked for a break if it holds one. *)
LEMMA AskedIsBreaking ==
  ASSUME LoopInv, DoneInv, NEW s \in DOMAIN scopes, Settled(s)
  PROVE  Asked(s) <=> Breaking(s)
<1>1. \A u \in DOMAIN tasks : tasks[u].scope = s => tasks[u].pc # "executed"
  BY ActiveIsUnsettled DEF Over
<1>2. \A u \in DOMAIN tasks : tasks[u].scope = s => (Ran(u) <=> Marked(u))
  BY <1>1 DEF Ran
<1>3. Asked(s) <=> \E u \in DOMAIN tasks : tasks[u].scope = s /\ Marked(u) /\ Type(u) \in Ends
  BY <1>2 DEF Asked
<1>4. Breaking(s) <=> \E n : n \in scopes[s].done /\ graph.type[n] \in Ends
  BY DEF Breaking
<1>5. \A n : n \in scopes[s].done <=>
        \E u \in DOMAIN tasks : tasks[u].scope = s /\ tasks[u].node = n /\ Marked(u)
  BY DEF DoneInv
<1> QED BY <1>3, <1>4, <1>5 DEF Type

LEMMA StepsOthers ==
  ASSUME LoopInv, LoopInv', StopInv, NEW t \in DOMAIN tasks, NEW new, Steps(t, new),
         NEW u \in DOMAIN tasks', u # t
  PROVE  BodiesOK(u)'
<1>1. /\ graph' = graph /\ DOMAIN tasks' = DOMAIN tasks \cup new
      /\ \A v \in DOMAIN tasks : v # t => tasks'[v] = tasks[v]
      /\ \A v \in new : tasks'[v].pc = "queued"
      /\ DOMAIN tasks \cap new = {}
      /\ \A s \in DOMAIN scopes : scopes'[s].owner = scopes[s].owner
                                    /\ scopes'[s].iteration = scopes[s].iteration
      /\ DOMAIN scopes' = DOMAIN scopes
  BY DEF Steps
<1>2. Bodies(u)' = Bodies(u)
  BY <1>1 DEF Bodies
<1>3. CASE u \in DOMAIN tasks
  <2>1. tasks'[u] = tasks[u] /\ BodiesOK(u) /\ Type(u)' = Type(u)
    BY <1>1, <1>3 DEF StopInv, Type
  <2>2. CASE tasks[u].pc = "aborted"
    BY <2>1, <2>2 DEF BodiesOK
  <2>3. CASE tasks[u].pc # "aborted"
    <3>1. \A s \in Bodies(u) : (At(u, "waiting") => s # tasks[u].child) =>
            (Breaking(s)' <=> Breaking(s))
      BY <1>3, <2>3, LeftBodies, LeftDone DEF Bodies
    <3>2. At(u, "waiting")' <=> At(u, "waiting")
      BY <2>1 DEF At
    <3>3. \A n : Begun(u, n) => Begun(u, n)'
      BY <1>2, <2>1, <3>1, <3>2 DEF Begun
    <3>4. ASSUME ~At(u, "waiting"), Stopped(u) PROVE Stopped(u)'
      <4>1. \A s \in Bodies(u) : Breaking(s)' <=> Breaking(s)
        BY <3>1, <3>4
      <4>2. \A s \in Bodies(u) : scopes'[s].iteration = scopes[s].iteration
        BY <1>1 DEF Bodies
      <4> QED BY <1>2, <2>1, <3>4, <4>1, <4>2 DEF Stopped
    <3>5. At(u, "waiting") => tasks[u].child \in DOMAIN scopes
      BY <1>3 DEF LoopInv, OwnInv, At
    <3> QED BY <1>1, <1>2, <2>1, <3>3, <3>4, <3>5 DEF BodiesOK, At
  <2> QED BY <2>2, <2>3
<1>4. CASE u \in new
  <2>1. u # 0 /\ u \notin DOMAIN tasks
    <3>1. tasks' \in Seq(LoopTask)
      BY DEF LoopInv, LoopType
    <3> QED BY <1>1, <1>4, <3>1
  <2>2. Bodies(u) = {}
    BY <2>1, Owners DEF Bodies
  <2> QED BY <1>1, <1>2, <1>4, <2>2 DEF BodiesOK
<1> QED BY <1>1, <1>3, <1>4

LEMMA StepsSelf ==
  ASSUME LoopInv, LoopInv', StopInv, NEW t \in DOMAIN tasks, NEW new, Steps(t, new)
  PROVE  BodiesOK(t)'
<1> DEFINE task == tasks[t]
           next == tasks'[t]
           card == Cardinality(Bodies(t))
<1>1. /\ graph' = graph /\ next.node = task.node /\ next.child = task.child
      /\ \A s \in DOMAIN scopes : scopes'[s].owner = scopes[s].owner
                                    /\ scopes'[s].iteration = scopes[s].iteration
      /\ DOMAIN scopes' = DOMAIN scopes
      /\ PhaseStep(task, next)
      /\ task.pc = "running" => (next.pc = "entering" <=> Type(t) = "loop-node"
                                                            /\ next.pc # "aborted")
  BY DEF Steps
<1>2. Bodies(t)' = Bodies(t) /\ Type(t)' = Type(t)
  BY <1>1 DEF Bodies, Type
<1>3. BodiesOK(t)
  BY DEF StopInv
<1>4. task.left \in Nat /\ task.total \in Nat
  BY TaskFacts DEF LoopInv, LoopTask
<1>5. ASSUME task.pc # "aborted", next.pc # "aborted", NEW s \in Bodies(t)
      PROVE  Breaking(s)' <=> Breaking(s)
  <2>1. task.pc = "waiting" => Settled(task.child)
    BY <1>1, <1>5 DEF PhaseStep
  <2>2. Settled(s)
    BY <1>5, <2>1, LeftBodies DEF At
  <2> QED BY <2>2, LeftDone DEF Bodies
<1>6. \A s \in Bodies(t) : scopes'[s].iteration = scopes[s].iteration
  BY <1>1 DEF Bodies
<1>7. CASE task.pc = "entering" /\ next.pc = "looping"
  <2>1. Bodies(t) = {} /\ next.left = next.total
    BY <1>1, <1>3, <1>7 DEF BodiesOK, PhaseStep
  <2>2. card = 0
    BY <2>1, FS_EmptySet
  <2> QED BY <1>1, <1>2, <1>4, <1>7, <2>1, <2>2 DEF BodiesOK, Begun, Stopped, PhaseStep
<1>8. CASE task.pc = "looping" /\ next.pc = "opening"
  <2>0. PICK k : k = task.total - task.left
    OBVIOUS
  <2>1. /\ Begun(t, k) /\ next.left = task.left - 1 /\ next.total = task.total
    BY <1>1, <1>3, <1>8, <2>0 DEF BodiesOK, PhaseStep
  <2>2. k = next.total - next.left - 1
    BY <1>4, <2>0, <2>1
  <2>3. \A s \in Bodies(t) : ~Breaking(s)
    BY <1>8, <2>1 DEF Begun, At
  <2>4. \A s \in Bodies(t) : ~Breaking(s)'
    BY <1>5, <1>8, <2>3
  <2>5. Begun(t, k)'
    BY <1>2, <2>1, <2>4 DEF Begun
  <2> QED BY <1>8, <2>2, <2>5 DEF BodiesOK, Begun
<1>9. CASE task.pc = "looping" /\ next.pc = "executed"
  <2>1. Stopped(t) /\ next.total = task.total
    BY <1>1, <1>3, <1>9 DEF BodiesOK, PhaseStep
  <2>2. Stopped(t)'
    BY <1>2, <1>5, <1>6, <1>9, <2>1 DEF Stopped
  <2> QED BY <1>9, <2>2 DEF BodiesOK
<1>10. CASE task.pc = "waiting" /\ next.pc = "looping"
  <2>0. PICK k, c : k = task.total - task.left /\ c = task.child
    OBVIOUS
  <2>1. /\ Settled(c) /\ next.total = task.total
        /\ next.left = (IF loopVars.brk THEN 0 ELSE task.left)
    BY <1>1, <1>10, <2>0 DEF PhaseStep
  <2>2. Begun(t, k) /\ scopes[c].iteration = k
    BY <1>3, <1>10, <2>0 DEF BodiesOK
  <2>3. c \in Bodies(t) /\ (loopVars.brk <=> Asked(c))
    BY <1>10, <2>0 DEF StopInv, BreakInv, Bodies, At, LoopInv, OwnInv
  <2>4. loopVars.brk <=> Breaking(c)
    BY <2>1, <2>3, AskedIsBreaking DEF StopInv, Bodies
  <2>5. \A s \in Bodies(t) : Breaking(s)' <=> Breaking(s)
    BY <1>5, <1>10
  <2>6. \A s \in Bodies(t) : Breaking(s) => s = c
    BY <2>0, <2>2 DEF Begun
  <2>7. card = k
    BY <2>2 DEF Begun
  <2>8. CASE loopVars.brk
    <3>1. Breaking(c)'
      BY <2>3, <2>4, <2>5, <2>8
    <3>2. \A s \in Bodies(t) : Breaking(s)' => scopes'[s].iteration = card
      BY <1>6, <2>2, <2>3, <2>5, <2>6, <2>7
    <3>3. Stopped(t)'
      BY <1>2, <2>3, <3>1, <3>2 DEF Stopped
    <3> QED BY <1>10, <2>1, <2>8, <3>3 DEF BodiesOK
  <2>9. CASE ~loopVars.brk
    <3>1. \A s \in Bodies(t) : ~Breaking(s)'
      BY <2>4, <2>5, <2>6, <2>9
    <3>2. Begun(t, k)'
      BY <1>2, <2>7, <3>1 DEF Begun
    <3>3. task.left = 0 => Stopped(t)'
      BY <1>2, <1>4, <2>0, <2>1, <2>7, <3>1 DEF Stopped
    <3>4. task.total = next.total /\ task.left = next.left
      BY <2>1, <2>9
    <3> QED BY <1>10, <2>0, <3>2, <3>3, <3>4 DEF BodiesOK, Begun
  <2> QED BY <2>8, <2>9
<1>11. CASE task.pc \in {"queued", "running"}
  <2>1. Bodies(t) = {}
    BY <1>3, <1>11 DEF BodiesOK
  <2>2. next.pc \in {"running", "aborted", "executed", "entering"}
    BY <1>1, <1>11 DEF PhaseStep
  <2>3. next.pc = "executed" => Type(t) # "loop-node"
    BY <1>1, <1>11, <2>2 DEF PhaseStep
  <2>4. next.pc = "entering" => next.left = next.total
    BY <1>1 DEF PhaseStep
  <2> QED BY <1>2, <2>1, <2>2, <2>3, <2>4 DEF BodiesOK
<1>12. CASE next.pc \in {"aborted", "done", "acquiring", "submitting", "finished", "rejected"}
  BY <1>12 DEF BodiesOK
<1> QED BY <1>1, <1>7, <1>8, <1>9, <1>10, <1>11, <1>12 DEF PhaseStep

LEMMA StepsStop ==
  ASSUME LoopInv, LoopInv', StopInv, BreaksAreApart, BreaksAreApart', loopVars' \in LoopVars,
         NEW t \in DOMAIN tasks, NEW new, Steps(t, new)
  PROVE  StopInv'
<1>1. DoneInv' /\ PlaceInv'
  BY StepsDone, StepsPlace DEF StopInv
<1>2. BreakInv'
  BY <1>1, StepsBreak
<1>3. \A u \in DOMAIN tasks' : BodiesOK(u)'
  BY StepsOthers, StepsSelf
<1> QED BY <1>1, <1>2, <1>3 DEF StopInv

LEMMA BeginsStop ==
  ASSUME LoopInv, StopInv, loopVars' \in LoopVars, NEW t \in DOMAIN tasks, Begins(t)
  PROVE  StopInv'
<1>0. PICK new, q : new = Len(scopes) + 1 /\ q = Len(tasks) + 1
  OBVIOUS
<1>1. /\ tasks[t].pc = "opening" /\ graph' = graph /\ loopVars' = loopVars
      /\ new \notin DOMAIN scopes /\ q \notin DOMAIN tasks
      /\ DOMAIN tasks' = DOMAIN tasks \cup {q}
      /\ DOMAIN scopes' = DOMAIN scopes \cup {new}
      /\ \A u \in DOMAIN tasks : u # t => tasks'[u] = tasks[u]
      /\ tasks'[t].node = tasks[t].node /\ tasks'[t].scope = tasks[t].scope
      /\ tasks'[t].total = tasks[t].total /\ tasks'[t].left = tasks[t].left
      /\ tasks'[t].pc = "waiting" /\ tasks'[t].child = new
      /\ tasks'[q].pc = "queued" /\ tasks'[q].node \in graph.nodes
      /\ tasks'[q].scope = new
      /\ \A s \in DOMAIN scopes : scopes'[s] = scopes[s]
      /\ scopes'[new].owner = t /\ scopes'[new].done = {}
      /\ scopes'[new].iteration = tasks[t].total - tasks[t].left
  BY <1>0 DEF Begins
<1>2. tasks \in Seq(LoopTask) /\ scopes \in Seq(LoopScope)
  BY DEF LoopInv, LoopType
<1>3. /\ DoneInv /\ PlaceInv /\ BreakInv
      /\ \A u \in DOMAIN tasks : BodiesOK(u)
  BY DEF StopInv
<1>4. \A u \in DOMAIN tasks : tasks[u].scope \in DOMAIN scopes /\ tasks[u].scope # new
  BY <1>1, TaskFacts DEF LoopInv
<1>5. /\ \A u \in DOMAIN tasks : (Marked(u)' <=> Marked(u)) /\ (Ran(u)' <=> Ran(u))
      /\ ~Marked(q)' /\ ~Ran(q)'
      /\ \A u \in DOMAIN tasks : /\ tasks'[u].scope = tasks[u].scope
                                 /\ tasks'[u].node = tasks[u].node /\ Type(u)' = Type(u)
  BY <1>1 DEF Marked, Ran, Type
<1>6. DoneInv'
  <2> SUFFICES ASSUME NEW s \in DOMAIN scopes', NEW n
               PROVE  n \in scopes'[s].done <=>
                        \E u \in DOMAIN tasks' : tasks'[u].scope = s /\ tasks'[u].node = n
                                                   /\ Marked(u)'
    BY DEF DoneInv
  <2>1. (\E u \in DOMAIN tasks' : tasks'[u].scope = s /\ tasks'[u].node = n /\ Marked(u)')
          <=> \E u \in DOMAIN tasks : tasks[u].scope = s /\ tasks[u].node = n /\ Marked(u)
    BY <1>1, <1>5
  <2>2. CASE s = new
    BY <1>1, <1>4, <2>1, <2>2
  <2>3. CASE s \in DOMAIN scopes
    <3>1. n \in scopes[s].done <=>
            \E u \in DOMAIN tasks : tasks[u].scope = s /\ tasks[u].node = n /\ Marked(u)
      BY <1>3, <2>3 DEF DoneInv
    <3> QED BY <1>1, <2>1, <2>3, <3>1
  <2> QED BY <1>1, <2>2, <2>3
<1>7. PlaceInv'
  <2>1. \A u \in DOMAIN tasks : tasks'[u].node \in graph'.nodes
    BY <1>1, <1>3, <1>5 DEF PlaceInv
  <2>2. Type(t)' = "loop-node"
    BY <1>1, <1>3, <1>5 DEF PlaceInv
  <2> QED BY <1>1, <1>3, <1>5, <2>1, <2>2 DEF PlaceInv
<1>8. \A s \in DOMAIN scopes : Asked(s)' <=> Asked(s)
  <2> SUFFICES ASSUME NEW s \in DOMAIN scopes
               PROVE  Asked(s)' <=> Asked(s)
    OBVIOUS
  <2>1. Asked(s)' <=>
          \E u \in DOMAIN tasks : tasks'[u].scope = s /\ Ran(u)' /\ Type(u)' \in Ends
    BY <1>1, <1>5 DEF Asked
  <2> QED BY <1>5, <2>1 DEF Asked
<1>9. BreakInv'
  <2>1. ~loopVars.brk
    BY <1>1, <1>3 DEF BreakInv, At
  <2>2. ~Asked(new)'
    BY <1>1, <1>4, <1>5 DEF Asked
  <2>3. ASSUME NEW u \in DOMAIN tasks', At(u, "waiting")'
        PROVE  scopes'[tasks'[u].child].owner = u /\ (loopVars'.brk <=> Asked(tasks[u].child)')
    <3>1. CASE u = t
      BY <1>1, <2>1, <2>2, <3>1
    <3>2. CASE u # t
      <4>1. u \in DOMAIN tasks /\ tasks'[u] = tasks[u] /\ At(u, "waiting")
        BY <1>1, <2>3, <3>2 DEF At
      <4>2. /\ tasks[u].child \in DOMAIN scopes /\ scopes[tasks[u].child].owner = u
            /\ loopVars.brk <=> Asked(tasks[u].child)
        BY <1>3, <4>1 DEF BreakInv, LoopInv, OwnInv, At
      <4> QED BY <1>1, <1>8, <4>1, <4>2
    <3> QED BY <3>1, <3>2
  <2>4. loopVars' = loopVars /\ graph' = graph
    BY <1>1
  <2> QED BY <2>1, <2>3, <2>4 DEF BreakInv
<1>10. \A s \in DOMAIN scopes : Breaking(s)' <=> Breaking(s)
  BY <1>1 DEF Breaking
<1>11. \A u : Bodies(u)' = Bodies(u) \cup (IF u = t THEN {new} ELSE {})
  BY <1>1 DEF Bodies
<1>12. \A s \in DOMAIN scopes : scopes'[s].iteration = scopes[s].iteration
  BY <1>1
<1>13. ASSUME NEW u \in DOMAIN tasks, u # t PROVE BodiesOK(u)'
  <2>1. tasks'[u] = tasks[u] /\ Bodies(u)' = Bodies(u) /\ BodiesOK(u) /\ Type(u)' = Type(u)
    BY <1>1, <1>3, <1>5, <1>11, <1>13
  <2>2. \A s \in Bodies(u) : (Breaking(s)' <=> Breaking(s)) /\ s \in DOMAIN scopes
    BY <1>10 DEF Bodies
  <2>3. \A n : Begun(u, n)' <=> Begun(u, n)
    BY <2>1, <2>2 DEF Begun, At
  <2>4. Stopped(u)' <=> Stopped(u)
    BY <1>12, <2>1, <2>2 DEF Stopped
  <2>5. At(u, "waiting") => scopes'[tasks[u].child].iteration = scopes[tasks[u].child].iteration
    BY <1>12, <1>13 DEF LoopInv, OwnInv, At
  <2> QED BY <2>1, <2>3, <2>4, <2>5 DEF BodiesOK, At
<1>14. BodiesOK(t)'
  <2>1. Begun(t, tasks[t].total - tasks[t].left - 1)
    BY <1>1, <1>3 DEF BodiesOK
  <2>2. tasks[t].left \in Nat /\ tasks[t].total \in Nat
    BY TaskFacts DEF LoopInv, LoopTask
  <2>3. IsFiniteSet(Bodies(t)) /\ new \notin Bodies(t)
    <3>1. IsFiniteSet(1 .. Len(scopes)) /\ Bodies(t) \subseteq 1 .. Len(scopes)
      BY <1>2, FS_Interval DEF Bodies
    <3> QED BY <1>1, <3>1, FS_Subset DEF Bodies
  <2>4. Cardinality(Bodies(t) \cup {new}) = Cardinality(Bodies(t)) + 1
    BY <2>3, FS_AddElement
  <2>5. Cardinality(Bodies(t)') = tasks[t].total - tasks[t].left
    <3>1. Bodies(t)' = Bodies(t) \cup {new}
      BY <1>11
    <3>2. Cardinality(Bodies(t)) = tasks[t].total - tasks[t].left - 1
      BY <2>1 DEF Begun
    <3> QED BY <2>2, <2>4, <3>1, <3>2
  <2>6. \A s \in Bodies(t) : ~Breaking(s)'
    BY <1>1, <1>10, <2>1 DEF Begun, At, Bodies
  <2>7. Begun(t, tasks[t].total - tasks[t].left)'
    BY <1>1, <1>11, <2>5, <2>6 DEF Begun, At, Breaking
  <2> QED BY <1>1, <2>7 DEF BodiesOK
<1>15. BodiesOK(q)'
  <2>1. q # 0 /\ q # t
    BY <1>0, <1>1, <1>2
  <2>2. Bodies(q) = {}
    BY <1>1, <2>1, Owners DEF Bodies
  <2>3. Bodies(q)' = {}
    BY <1>11, <2>1, <2>2
  <2> QED BY <1>1, <2>3 DEF BodiesOK
<1> QED BY <1>1, <1>6, <1>7, <1>9, <1>13, <1>14, <1>15 DEF StopInv

LEMMA StopInitial == Init => StopInv
BY DEF Init, StopInv, DoneInv, PlaceInv, BreakInv, LoopVars

LEMMA StartIsANode ==
  ASSUME LoopType
  PROVE  GetStart(graph) \in graph.nodes
<1>1. Cardinality(Starts(graph)) = 1
  BY GraphFacts DEF HasStart
<1>2. GetStart(graph) \in Starts(graph)
  BY <1>1, FS_EmptySet DEF GetStart
<1> QED BY <1>2 DEF Starts

LEMMA StopNext ==
  ASSUME LoopInv, LoopInv', StopInv, BreaksAreApart, BreaksAreApart', [Next]_vars
  PROVE  StopInv'
<1>1. loopVars' \in LoopVars
  BY LoopVarsKept DEF LoopInv, StopInv, BreakInv
<1>2. CASE \E t \in DOMAIN tasks : Worker(t)
  BY <1>1, <1>2, WorkerSteps, StepsStop, BeginsStop DEF LoopInv, StopInv, BreakInv
<1>3. CASE Run
  <2>1. /\ tasks' = <<NewTask(GetStart(graph), 1, 0)>>
        /\ scopes' = <<NewScope(NoNode, 0, 0)>> /\ graph' = graph /\ loopVars' = loopVars
    BY <1>3 DEF Run, loop
  <2>2. /\ DOMAIN tasks' = {1} /\ tasks'[1].pc = "queued" /\ tasks'[1].scope = 1
        /\ DOMAIN scopes' = {1} /\ scopes'[1].done = {} /\ scopes'[1].owner = 0
        /\ tasks'[1].node = GetStart(graph)
    BY <2>1 DEF NewTask, NewScope
  <2>5. GetStart(graph) \in graph.nodes
    BY StartIsANode DEF LoopInv
  <2>6. DoneInv'
    BY <2>2 DEF DoneInv, Marked
  <2>7. PlaceInv'
    BY <2>1, <2>2, <2>5 DEF PlaceInv
  <2>8. BreakInv'
    BY <1>1, <2>1, <2>2 DEF BreakInv, StopInv, At
  <2>9. Bodies(1)' = {}
    BY <2>2 DEF Bodies
  <2>10. \A t \in DOMAIN tasks' : BodiesOK(t)'
    BY <2>2, <2>9 DEF BodiesOK
  <2> QED BY <2>6, <2>7, <2>8, <2>10 DEF StopInv
<1>4. CASE UNCHANGED <<graph, tasks, scopes, loopVars>>
  BY <1>4 DEF StopInv, DoneInv, PlaceInv, BreakInv, BodiesOK, Begun, Stopped, Bodies, Breaking,
              Asked, Ran, Marked, At, Type
<1>5. CASE Wake \/ Join \/ Terminated \/ UNCHANGED vars
  BY <1>4, <1>5 DEF Wake, Join, Terminated, vars, pool, loop
<1> QED BY <1>2, <1>3, <1>5 DEF Next

(***************************************************************************)
(* Where breaks are kept apart, a loop stops after the iteration that      *)
(* executed the first of them: while a loop iterates the shared _break     *)
(* says what its own body asked for, and a body that has been left asks    *)
(* for nothing any more.                                                   *)
(***************************************************************************)
THEOREM BreaksStopTheirLoop == Spec /\ []BreaksAreApart => []LoopsStopAtBreak
<1>1. StopInv => LoopsStopAtBreak
  <2>1. \A s \in DOMAIN scopes : /\ Holds(s, "loop-break-node") => Breaking(s)
                                 /\ Breaking(s) => \E kind \in Ends : Holds(s, kind)
    BY DEF Holds, Breaking, Ends
  <2>2. \A t \in DOMAIN tasks : Bodies(t) \subseteq DOMAIN scopes
    BY DEF Bodies
  <2> QED BY <2>1, <2>2 DEF StopInv, BodiesOK, Stopped, LoopsStopAtBreak, At
<1>2. Init => StopInv
  BY StopInitial
<1>3. LoopInv /\ LoopInv' /\ BreaksAreApart /\ BreaksAreApart' /\ StopInv /\ [Next]_vars
        => StopInv'
  BY StopNext
<1> QED BY <1>1, <1>2, <1>3, LoopInvariant, PTL DEF Spec

-----------------------------------------------------------------------------
(* Workflows in which breaks are kept apart.                               *)

HasBreaks == \E n \in graph.nodes : graph.type[n] \in Ends

\* The nodes of a body run in the scopes of its iterations, no others do.
InsideInv ==
  /\ scopes # <<>> => scopes[1].container = NoNode
  /\ \A n \in DOMAIN scopes : n > 1 =>
       /\ scopes[n].container \in Node
       /\ scopes[n].owner \in DOMAIN tasks /\ Type(scopes[n].owner) = "loop-node"
  /\ \A t \in DOMAIN tasks :
       /\ tasks[t].scope > 1 => graph.container[tasks[t].node] = Scope(t).container
       /\ \A i \in tasks[t].nxt : InBoundary(graph, Scope(t).container, Target(graph, i))

\* The main graph runs one node at a time.
OneInv ==
  HasBreaks =>
    /\ \A t, u \in DOMAIN tasks :
         /\ tasks[t].scope = 1 /\ tasks[t].pc # "finished"
         /\ tasks[u].scope = 1 /\ tasks[u].pc # "finished"
         => t = u
    /\ \A t \in DOMAIN tasks : tasks[t].scope = 1 =>
         \A i, j \in tasks[t].nxt : i = j

MainInv == InsideInv /\ OneInv

AloneInv == PlaceInv /\ loopVars \in LoopVars /\ MainInv

(***************************************************************************)
(* Two loops that iterate are the one task of the main graph; a body that  *)
(* outlived its loop would have left an aborted task there.                *)
(***************************************************************************)
LEMMA AloneIsApart ==
  ASSUME LoopInv, PlaceInv, MainInv, LoopsAlone(graph)
  PROVE  BreaksAreApart
<1> SUFFICES ASSUME HasBreaks, NEW t \in DOMAIN tasks, NEW u \in DOMAIN tasks,
                    Iterating(t), t # u
             PROVE  /\ ~Iterating(u)
                    /\ Type(u) \in Ends /\ tasks[u].pc \in {"queued", "running"}
                         => Scope(u).owner = t
  BY DEF BreaksAreApart, HasBreaks
<1>1. LoopType /\ OwnInv
  BY DEF LoopInv
<1>2. \A v \in DOMAIN tasks : Type(v) = "loop-node" => tasks[v].scope = 1
  <2> SUFFICES ASSUME NEW v \in DOMAIN tasks, Type(v) = "loop-node"
               PROVE  tasks[v].scope = 1
    OBVIOUS
  <2>1. graph.container[tasks[v].node] = NoNode
    BY DEF PlaceInv, Type, LoopsAlone, HasBreaks, LoopNodes
  <2>2. tasks[v].scope \in DOMAIN scopes /\ scopes \in Seq(LoopScope)
    BY <1>1, TaskFacts DEF LoopType
  <2>3. tasks[v].scope > 1 => Scope(v).container \in Node
    BY <2>2 DEF MainInv, InsideInv, Scope
  <2>4. ~(tasks[v].scope > 1)
    BY <2>1, <2>3, GraphAssumption DEF MainInv, InsideInv
  <2> QED BY <2>2, <2>4
<1>3. \A v \in DOMAIN tasks : Iterating(v) => tasks[v].scope = 1 /\ tasks[v].pc # "finished"
  BY <1>2 DEF PlaceInv, Iterating
<1>4. ~Iterating(u)
  BY <1>3 DEF MainInv, OneInv
<1>5. ASSUME tasks[u].pc \in {"queued", "running"} PROVE Scope(u).owner = t
  <2>1. tasks[u].scope # 1
    BY <1>3, <1>5 DEF MainInv, OneInv
  <2>2. tasks[u].scope \in DOMAIN scopes /\ scopes \in Seq(LoopScope)
    BY <1>1, TaskFacts DEF LoopType
  <2>3. ~Settled(tasks[u].scope)
    BY <1>5, ActiveIsUnsettled DEF Over
  <2>4. PICK o : o = Scope(u).owner
    OBVIOUS
  <2>5. /\ o \in DOMAIN tasks /\ Type(o) = "loop-node"
        /\ tasks[o].pc \in {"waiting", "aborted"}
    BY <1>1, <2>1, <2>2, <2>3, <2>4 DEF OwnInv, Owned, Scope, MainInv, InsideInv
  <2>6. tasks[o].scope = 1
    BY <1>2, <2>5
  <2> QED BY <1>3, <2>4, <2>5, <2>6 DEF MainInv, OneInv
<1> QED BY <1>4, <1>5

(* A step of a task that hands nothing to the pool. *)
LEMMA StaysMain ==
  ASSUME LoopType, PlaceInv, MainInv, LoopsAlone(graph), NEW t \in DOMAIN tasks, NEW r,
         Become(t, r), graph' = graph, tasks[t].pc # "finished",
         r.node = tasks[t].node, r.scope = tasks[t].scope,
         r.nxt \in {tasks[t].nxt, Selected(t)},
         \/ scopes' = scopes
         \/ \E sc : SetScope(t, sc) /\ sc.container = Scope(t).container
                                    /\ sc.owner = Scope(t).owner
  PROVE  MainInv'
<1>1. /\ DOMAIN tasks' = DOMAIN tasks /\ tasks'[t] = r
      /\ \A u \in DOMAIN tasks : u # t => tasks'[u] = tasks[u]
  BY DEF Become
<1>2. /\ DOMAIN scopes' = DOMAIN scopes
      /\ \A n \in DOMAIN scopes : scopes'[n].container = scopes[n].container
                                    /\ scopes'[n].owner = scopes[n].owner
  <2>1. ASSUME NEW sc, SetScope(t, sc), sc.container = Scope(t).container,
               sc.owner = Scope(t).owner
        PROVE  /\ DOMAIN scopes' = DOMAIN scopes
               /\ \A n \in DOMAIN scopes : scopes'[n].container = scopes[n].container
                                             /\ scopes'[n].owner = scopes[n].owner
    BY <2>1 DEF SetScope, Scope
  <2> QED BY <2>1
<1>3. tasks[t] \in LoopTask /\ tasks[t].node \in graph.nodes
      /\ \A u \in DOMAIN tasks : tasks[u].scope \in DOMAIN scopes
  BY TaskFacts DEF PlaceInv
<1>4. \A u \in DOMAIN tasks : /\ tasks'[u].node = tasks[u].node
                              /\ tasks'[u].scope = tasks[u].scope
                              /\ Type(u)' = Type(u)
                              /\ Scope(u)'.container = Scope(u).container
  <2> SUFFICES ASSUME NEW u \in DOMAIN tasks
               PROVE  /\ tasks'[u].node = tasks[u].node
                      /\ tasks'[u].scope = tasks[u].scope
                      /\ Type(u)' = Type(u)
                      /\ Scope(u)'.container = Scope(u).container
    OBVIOUS
  <2>1. tasks'[u].node = tasks[u].node /\ tasks'[u].scope = tasks[u].scope
    BY <1>1
  <2> QED BY <1>2, <1>3, <2>1 DEF Type, Scope
<1>5. \A i \in Selected(t) : i \in Routed(graph, Scope(t).container, tasks[t].node, tasks[t].branch)
  BY DEF Selected
<1>6. \A i \in r.nxt : InBoundary(graph, Scope(t).container, Target(graph, i))
  <2>1. \A i \in Selected(t) : InBoundary(graph, Scope(t).container, Target(graph, i))
    BY <1>5 DEF Routed, Target
  <2> QED BY <2>1 DEF MainInv, InsideInv
<1>7. InsideInv'
  <2>1. scopes' # <<>> => scopes # <<>> /\ 1 \in DOMAIN scopes
    BY <1>2 DEF LoopType
  <2>2. scopes' # <<>> => scopes'[1].container = NoNode
    BY <1>2, <2>1 DEF MainInv, InsideInv
  <2>3. \A n \in DOMAIN scopes' : n > 1 =>
          /\ scopes'[n].container \in Node
          /\ scopes'[n].owner \in DOMAIN tasks' /\ Type(scopes[n].owner)' = "loop-node"
    BY <1>1, <1>2, <1>4 DEF MainInv, InsideInv
  <2>4. ASSUME NEW u \in DOMAIN tasks'
        PROVE  /\ tasks'[u].scope > 1 => graph.container[tasks'[u].node] = Scope(u)'.container
               /\ \A i \in tasks'[u].nxt : InBoundary(graph, Scope(u)'.container, Target(graph, i))
    BY <1>1, <1>4, <1>6 DEF MainInv, InsideInv
  <2> QED BY <2>2, <2>3, <2>4 DEF InsideInv
<1>8. OneInv'
  <2> SUFFICES ASSUME HasBreaks
               PROVE  /\ \A v, u \in DOMAIN tasks' :
                           /\ tasks'[v].scope = 1 /\ tasks'[v].pc # "finished"
                           /\ tasks'[u].scope = 1 /\ tasks'[u].pc # "finished"
                           => v = u
                      /\ \A v \in DOMAIN tasks' : tasks'[v].scope = 1 =>
                           \A i, j \in tasks'[v].nxt : i = j
    BY DEF OneInv, HasBreaks
  <2>1. \A v \in DOMAIN tasks : tasks'[v].pc # "finished" => tasks[v].pc # "finished"
    BY <1>1
  <2>2. tasks[t].scope = 1 => \A i, j \in r.nxt : i = j
    <3>1. ASSUME tasks[t].scope = 1, NEW i \in Selected(t), NEW j \in Selected(t)
          PROVE  i = j
      <4>1. Scope(t).container = NoNode
        BY <1>3, <3>1 DEF MainInv, InsideInv, Scope
      <4>2. tasks[t].branch \in Branch \cup {NoBranch}
        BY <1>3 DEF LoopTask
      <4> QED BY <1>3, <1>5, <3>1, <4>1, <4>2 DEF LoopsAlone, HasBreaks
    <3> QED BY <3>1 DEF MainInv, OneInv
  <2> QED BY <1>1, <1>4, <2>1, <2>2 DEF MainInv, OneInv
<1> QED BY <1>7, <1>8 DEF MainInv

LEMMA RaiseMain ==
  ASSUME LoopType, PlaceInv, MainInv, LoopsAlone(graph), NEW t \in DOMAIN tasks,
         NEW err, Raise(t, err), graph' = graph, tasks[t].pc # "finished"
  PROVE  MainInv'
<1> DEFINE r == [tasks[t] EXCEPT !.pc = "aborted"]
           sc == Aborted(Scope(t), err)
<1>1. Become(t, r) /\ SetScope(t, sc)
  BY DEF Raise
<1>2. r.node = tasks[t].node /\ r.scope = tasks[t].scope /\ r.nxt = tasks[t].nxt
  BY TaskFacts DEF LoopTask
<1>3. sc.container = Scope(t).container /\ sc.owner = Scope(t).owner
  BY TaskFacts DEF LoopScope, Aborted
<1> HIDE DEF r, sc
<1> QED BY <1>1, <1>2, <1>3, StaysMain

(* The steps that leave the task's node and its successors alone. *)
LEMMA QuietMain ==
  ASSUME LoopType, PlaceInv, MainInv, LoopsAlone(graph), NEW t \in DOMAIN tasks,
         \/ Start(t) \/ ExecuteRaises(t) \/ RaiseFromBody(t)
         \/ \E b \in Branch \cup {NoBranch} : Execute(t, b)
         \/ \E n \in 0 .. MaxIterations : EnterLoop(t, n)
         \/ WriteDepth(t) \/ SetLoop(t) \/ EndIteration(t) \/ ExitLoop(t)
  PROVE  MainInv'
<1>1. graph' = graph /\ tasks[t].pc # "finished"
  BY DEF Start, ExecuteRaises, RaiseFromBody, Execute, EnterLoop, WriteDepth, SetLoop,
         EndIteration, ExitLoop, At
<1>2. CASE \E err : Raise(t, err)
  BY <1>1, <1>2, RaiseMain
<1>3. CASE ~\E err : Raise(t, err)
  <2>1. scopes' = scopes
    BY <1>3 DEF Start, ExecuteRaises, RaiseFromBody, Execute, EnterLoop, WriteDepth, SetLoop,
                EndIteration, ExitLoop
  <2>2. PICK r : Become(t, r) /\ r.node = tasks[t].node /\ r.scope = tasks[t].scope
                   /\ r.nxt = tasks[t].nxt
    <3>1. tasks[t] \in LoopTask
      BY TaskFacts
    <3>2. CASE \/ Start(t) \/ WriteDepth(t) \/ ExitLoop(t)
      <4>1. PICK p : Become(t, [tasks[t] EXCEPT !.pc = p])
        BY <1>3, <3>2 DEF Start, WriteDepth, ExitLoop
      <4> QED BY <3>1, <4>1 DEF LoopTask
    <3>3. CASE \E b \in Branch \cup {NoBranch} : Execute(t, b)
      <4>1. PICK b : Become(t, [tasks[t] EXCEPT !.pc = "executed", !.branch = b])
        BY <3>3 DEF Execute
      <4> DEFINE r == [tasks[t] EXCEPT !.pc = "executed", !.branch = b]
      <4>2. r.node = tasks[t].node /\ r.scope = tasks[t].scope /\ r.nxt = tasks[t].nxt
        BY <3>1 DEF LoopTask
      <4>3. Become(t, r)
        BY <4>1
      <4> HIDE DEF r
      <4> QED BY <4>2, <4>3
    <3>4. CASE \E n \in 0 .. MaxIterations : EnterLoop(t, n)
      <4>1. PICK n : Become(t, [tasks[t] EXCEPT !.pc = "entering", !.total = n, !.left = n,
                                                !.level = loopDepth + 1])
        BY <3>4 DEF EnterLoop
      <4> DEFINE r == [tasks[t] EXCEPT !.pc = "entering", !.total = n, !.left = n,
                                      !.level = loopDepth + 1]
      <4>2. r.node = tasks[t].node /\ r.scope = tasks[t].scope /\ r.nxt = tasks[t].nxt
        BY <3>1 DEF LoopTask
      <4>3. Become(t, r)
        BY <4>1
      <4> HIDE DEF r
      <4> QED BY <4>2, <4>3
    <3>5. CASE SetLoop(t) \/ EndIteration(t)
      <4>1. PICK p, k : Become(t, [tasks[t] EXCEPT !.pc = p, !.left = k])
        <5>1. SetLoop(t) => Become(t, [tasks[t] EXCEPT !.pc = "opening", !.left = tasks[t].left - 1])
          BY DEF SetLoop
        <5>2. EndIteration(t) =>
                Become(t, [tasks[t] EXCEPT !.pc = "looping",
                                           !.left = IF loopVars.brk THEN 0 ELSE tasks[t].left])
          BY DEF EndIteration
        <5> QED BY <3>5, <5>1, <5>2
      <4> DEFINE r == [tasks[t] EXCEPT !.pc = p, !.left = k]
      <4>2. r.node = tasks[t].node /\ r.scope = tasks[t].scope /\ r.nxt = tasks[t].nxt
        BY <3>1 DEF LoopTask
      <4>3. Become(t, r)
        BY <4>1
      <4> HIDE DEF r
      <4> QED BY <4>2, <4>3
    <3> QED BY <1>3, <3>2, <3>3, <3>4, <3>5 DEF ExecuteRaises, RaiseFromBody
  <2> QED BY <1>1, <2>1, <2>2, StaysMain
<1> QED BY <1>2, <1>3

(* The steps of a task whose node has executed. *)
LEMMA AfterMain ==
  ASSUME LoopType, PlaceInv, MainInv, LoopsAlone(graph), NEW t \in DOMAIN tasks,
         MarkDone(t) \/ NextNodes(t) \/ ReleaseSelf(t) \/ \E i \in tasks[t].todo : Acquire(t, i)
  PROVE  MainInv'
<1>1. graph' = graph /\ tasks[t].pc # "finished"
  BY DEF MarkDone, NextNodes, ReleaseSelf, Acquire, At
<1>2. tasks[t] \in LoopTask /\ Scope(t) \in LoopScope
  BY TaskFacts
<1>3. CASE MarkDone(t)
  <2> DEFINE r == [tasks[t] EXCEPT !.pc = "done"]
             sc == [Scope(t) EXCEPT !.done = @ \cup {tasks[t].node}]
  <2>1. Become(t, r) /\ SetScope(t, sc)
    BY <1>3 DEF MarkDone
  <2>2. r.node = tasks[t].node /\ r.scope = tasks[t].scope /\ r.nxt = tasks[t].nxt
    BY <1>2 DEF LoopTask
  <2>3. sc.container = Scope(t).container /\ sc.owner = Scope(t).owner
    BY <1>2 DEF LoopScope
  <2> HIDE DEF r, sc
  <2> QED BY <1>1, <2>1, <2>2, <2>3, StaysMain
<1>4. CASE NextNodes(t)
  <2> DEFINE r == [tasks[t] EXCEPT !.pc = "acquiring", !.todo = Selected(t), !.nxt = Selected(t)]
             sc == [Scope(t) EXCEPT !.activated = @ \cup {Target(graph, i) : i \in Selected(t)}]
  <2>1. Become(t, r) /\ SetScope(t, sc)
    BY <1>4 DEF NextNodes
  <2>2. r.node = tasks[t].node /\ r.scope = tasks[t].scope /\ r.nxt = Selected(t)
    BY <1>2 DEF LoopTask
  <2>3. sc.container = Scope(t).container /\ sc.owner = Scope(t).owner
    BY <1>2 DEF LoopScope
  <2> HIDE DEF r, sc
  <2> QED BY <1>1, <2>1, <2>2, <2>3, StaysMain
<1>5. CASE ReleaseSelf(t)
  <2> DEFINE r == [tasks[t] EXCEPT !.pc = IF tasks[t].nxt = {} THEN "finished" ELSE "submitting"]
             sc == Released(Scope(t))
  <2>1. Become(t, r) /\ SetScope(t, sc)
    BY <1>5 DEF ReleaseSelf
  <2>2. r.node = tasks[t].node /\ r.scope = tasks[t].scope /\ r.nxt = tasks[t].nxt
    BY <1>2 DEF LoopTask
  <2>3. sc.container = Scope(t).container /\ sc.owner = Scope(t).owner
    BY <1>2 DEF LoopScope, Released
  <2> HIDE DEF r, sc
  <2> QED BY <1>1, <2>1, <2>2, <2>3, StaysMain
<1>6. CASE \E i \in tasks[t].todo : Acquire(t, i)
  <2>1. PICK i \in tasks[t].todo : Acquire(t, i)
    BY <1>6
  <2> DEFINE r == [tasks[t] EXCEPT !.todo = @ \ {i}]
             sc == [Scope(t) EXCEPT !.pending = @ + 1]
  <2>2. Become(t, r) /\ SetScope(t, sc)
    BY <2>1 DEF Acquire
  <2>3. r.node = tasks[t].node /\ r.scope = tasks[t].scope /\ r.nxt = tasks[t].nxt
    BY <1>2 DEF LoopTask
  <2>4. sc.container = Scope(t).container /\ sc.owner = Scope(t).owner
    BY <1>2 DEF LoopScope
  <2> HIDE DEF r, sc
  <2> QED BY <1>1, <2>2, <2>3, <2>4, StaysMain
<1> QED BY <1>3, <1>4, <1>5, <1>6

(* The pool takes the only successor a task of the main graph has. *)
LEMMA SubmitMain ==
  ASSUME LoopType, PlaceInv, MainInv, LoopsAlone(graph), NEW t \in DOMAIN tasks,
         NEW i \in tasks[t].nxt, Submit(t, i)
  PROVE  MainInv'
<1>1. graph' = graph /\ tasks[t].pc = "submitting" /\ scopes' = scopes
  BY DEF Submit, At
<1>2. tasks[t] \in LoopTask /\ TaskOK(tasks[t]) /\ tasks \in Seq(LoopTask)
      /\ \A u \in DOMAIN tasks : tasks[u].scope \in DOMAIN scopes
  BY TaskFacts DEF LoopType
<1>3. CASE caller # "waiting"
  <2> DEFINE r == [tasks[t] EXCEPT !.pc = "rejected"]
  <2>1. Become(t, r)
    BY <1>3 DEF Submit
  <2>2. r.node = tasks[t].node /\ r.scope = tasks[t].scope /\ r.nxt = tasks[t].nxt
    BY <1>2 DEF LoopTask
  <2> HIDE DEF r
  <2> QED BY <1>1, <2>1, <2>2, StaysMain
<1>4. CASE caller = "waiting"
  <2>0. PICK q : q = Len(tasks) + 1
    OBVIOUS
  <2> DEFINE rest == tasks[t].nxt \ {i}
             p == IF rest = {} THEN "finished" ELSE "submitting"
             r == [tasks[t] EXCEPT !.nxt = rest, !.pc = p]
             new == NewTask(Target(graph, i), tasks[t].scope, tasks[t].depth + 1)
             mid == [tasks EXCEPT ![t] = r]
  <2>1. tasks' = Append(mid, new)
    BY <1>1, <1>4 DEF Submit
  <2>2. /\ r \in LoopTask /\ r.node = tasks[t].node /\ r.scope = tasks[t].scope
        /\ r.nxt = rest /\ r.pc = p
    BY <1>2 DEF LoopTask, Phases
  <2>3. new.nxt = {} /\ new.scope = tasks[t].scope /\ new.node = Target(graph, i)
    BY DEF NewTask
  <2> HIDE DEF r, new
  <2>4. /\ mid \in Seq(LoopTask) /\ Len(mid) = Len(tasks) /\ mid[t] = r
        /\ \A u \in DOMAIN tasks : u # t => mid[u] = tasks[u]
        /\ DOMAIN tasks = 1 .. Len(tasks) /\ Len(tasks) \in Nat
    BY <1>2, <2>2
  <2> HIDE DEF mid
  <2>5. /\ DOMAIN tasks' = DOMAIN tasks \cup {q} /\ q \notin DOMAIN tasks
        /\ tasks'[q] = new /\ tasks'[t] = r
        /\ \A u \in DOMAIN tasks : u # t => tasks'[u] = tasks[u]
    BY <2>0, <2>1, <2>4
  <2>6. \A u \in DOMAIN tasks : /\ tasks'[u].node = tasks[u].node
                                /\ tasks'[u].scope = tasks[u].scope
                                /\ tasks'[u].nxt \subseteq tasks[u].nxt
                                /\ Type(u)' = Type(u)
                                /\ Scope(u)'.container = Scope(u).container
    BY <1>1, <2>2, <2>5 DEF Type, Scope
  <2>7. Scope(q)'.container = Scope(t).container
    BY <1>1, <2>3, <2>5 DEF Scope
  <2>8. InBoundary(graph, Scope(t).container, Target(graph, i))
    BY DEF MainInv, InsideInv
  <2>9. tasks[t].scope > 1 => graph.container[Target(graph, i)] = Scope(t).container
    <3>1. tasks[t].scope > 1 => Scope(t).container \in Node
      BY <1>2 DEF MainInv, InsideInv, Scope
    <3> QED BY <2>8, <3>1, GraphAssumption DEF InBoundary
  <2>10. InsideInv'
    <3>1. \A n \in DOMAIN scopes : n > 1 =>
            /\ scopes[n].container \in Node
            /\ scopes[n].owner \in DOMAIN tasks' /\ Type(scopes[n].owner)' = "loop-node"
      BY <1>1, <2>5, <2>6 DEF MainInv, InsideInv
    <3>2. ASSUME NEW u \in DOMAIN tasks'
          PROVE  /\ tasks'[u].scope > 1 => graph.container[tasks'[u].node] = Scope(u)'.container
                 /\ \A j \in tasks'[u].nxt : InBoundary(graph, Scope(u)'.container, Target(graph, j))
      <4>1. CASE u \in DOMAIN tasks
        BY <2>6, <4>1 DEF MainInv, InsideInv
      <4>2. CASE u = q
        BY <2>3, <2>5, <2>7, <2>9, <4>2
      <4> QED BY <2>5, <4>1, <4>2
    <3> QED BY <1>1, <3>1, <3>2 DEF MainInv, InsideInv
  <2>11. OneInv'
    <3> SUFFICES ASSUME HasBreaks
                 PROVE  /\ \A v, u \in DOMAIN tasks' :
                             /\ tasks'[v].scope = 1 /\ tasks'[v].pc # "finished"
                             /\ tasks'[u].scope = 1 /\ tasks'[u].pc # "finished"
                             => v = u
                        /\ \A v \in DOMAIN tasks' : tasks'[v].scope = 1 =>
                             \A j, k \in tasks'[v].nxt : j = k
      BY <1>1 DEF OneInv, HasBreaks
    <3>1. tasks[t].scope = 1 => rest = {}
      BY DEF MainInv, OneInv
    <3>2. tasks[t].scope = 1 => tasks'[t].pc = "finished"
      BY <2>2, <2>5, <3>1
    <3>3. \A v \in DOMAIN tasks : tasks'[v].pc # "finished" => tasks[v].pc # "finished"
      BY <1>1, <2>5
    <3>4. ASSUME NEW v \in DOMAIN tasks, tasks'[v].scope = 1, tasks'[v].pc # "finished",
                 tasks[t].scope = 1
          PROVE  FALSE
      BY <1>1, <2>6, <3>2, <3>3, <3>4 DEF MainInv, OneInv
    <3>5. \A v, u \in DOMAIN tasks :
            /\ tasks'[v].scope = 1 /\ tasks'[v].pc # "finished"
            /\ tasks'[u].scope = 1 /\ tasks'[u].pc # "finished"
            => v = u
      BY <2>6, <3>3 DEF MainInv, OneInv
    <3>6. \A v, u \in DOMAIN tasks' :
            /\ tasks'[v].scope = 1 /\ tasks'[v].pc # "finished"
            /\ tasks'[u].scope = 1 /\ tasks'[u].pc # "finished"
            => v = u
      BY <2>3, <2>5, <3>4, <3>5
    <3>7. \A v \in DOMAIN tasks : tasks'[v].scope = 1 =>
            \A j, k \in tasks'[v].nxt : j = k
      BY <2>6 DEF MainInv, OneInv
    <3> QED BY <2>3, <2>5, <3>6, <3>7
  <2> QED BY <2>10, <2>11 DEF MainInv
<1> QED BY <1>3, <1>4

(* An iteration is opened by a loop, for a node of its body. *)
LEMMA OpenMain ==
  ASSUME LoopType, PlaceInv, MainInv, LoopsAlone(graph), NEW t \in DOMAIN tasks,
         NEW n \in graph.nodes, RunSubgraph(t, n)
  PROVE  MainInv'
<1>1. graph' = graph /\ tasks[t].pc = "opening" /\ graph.container[n] = tasks[t].node
  BY DEF RunSubgraph, At, LoopStarts
<1>2. CASE caller # "waiting"
  <2>1. Raise(t, Failure(tasks[t].node))
    BY <1>2 DEF RunSubgraph
  <2> QED BY <1>1, <2>1, RaiseMain
<1>3. CASE caller = "waiting"
  <2>0. PICK q, c : q = Len(tasks) + 1 /\ c = Len(scopes) + 1
    OBVIOUS
  <2> DEFINE r == [tasks[t] EXCEPT !.pc = "waiting", !.child = c]
             new == NewTask(n, c, tasks[t].level + 1)
             sc == NewScope(tasks[t].node, t, tasks[t].total - tasks[t].left)
             mid == [tasks EXCEPT ![t] = r]
  <2>1. tasks[t] \in LoopTask /\ tasks \in Seq(LoopTask) /\ scopes \in Seq(LoopScope)
        /\ \A u \in DOMAIN tasks : tasks[u].scope \in DOMAIN scopes
    BY TaskFacts DEF LoopType
  <2>2. /\ scopes' = Append(scopes, sc)
        /\ tasks' = Append([tasks EXCEPT ![t].pc = "waiting", ![t].child = c], new)
    BY <1>3, <2>0 DEF RunSubgraph
  <2>3. [tasks EXCEPT ![t].pc = "waiting", ![t].child = c] = mid
    BY <2>1 DEF LoopTask
  <2>4. /\ sc.owner = t /\ sc.container = tasks[t].node
        /\ new.nxt = {} /\ new.scope = c /\ new.node = n
    BY DEF NewScope, NewTask
  <2>5. /\ Len(scopes) \in Nat /\ c \in Nat /\ DOMAIN scopes = 1 .. Len(scopes)
        /\ Len(tasks) \in Nat /\ DOMAIN tasks = 1 .. Len(tasks)
    BY <2>0, <2>1
  <2>6. /\ r \in LoopTask /\ r.scope = tasks[t].scope /\ r.pc = "waiting"
        /\ r.node = tasks[t].node /\ r.nxt = tasks[t].nxt
    BY <2>1, <2>5 DEF LoopTask, Phases
  <2> HIDE DEF r, new, sc
  <2>7. /\ mid \in Seq(LoopTask) /\ Len(mid) = Len(tasks) /\ mid[t] = r
        /\ \A u \in DOMAIN tasks : u # t => mid[u] = tasks[u]
    BY <2>1, <2>6
  <2>8. tasks' = Append(mid, new)
    BY <2>2, <2>3
  <2> HIDE DEF mid
  <2>9. /\ DOMAIN tasks' = DOMAIN tasks \cup {q} /\ q \notin DOMAIN tasks
        /\ tasks'[q] = new /\ tasks'[t] = r
        /\ \A u \in DOMAIN tasks : u # t => tasks'[u] = tasks[u]
    BY <2>0, <2>5, <2>7, <2>8
  <2>10. /\ DOMAIN scopes' = DOMAIN scopes \cup {c} /\ scopes'[c] = sc
         /\ \A m \in DOMAIN scopes : scopes'[m] = scopes[m]
    BY <2>0, <2>1, <2>2, <2>5
  <2>11. c > 1 /\ scopes # <<>> /\ 1 \in DOMAIN scopes
    BY <2>0, <2>1, <2>5
  <2>12. \A u \in DOMAIN tasks : /\ tasks'[u].node = tasks[u].node
                                 /\ tasks'[u].scope = tasks[u].scope
                                 /\ tasks'[u].nxt = tasks[u].nxt
                                 /\ Type(u)' = Type(u)
                                 /\ Scope(u)' = Scope(u)
    BY <1>1, <2>1, <2>6, <2>9, <2>10 DEF Type, Scope
  <2>13. Scope(q)' = sc
    BY <2>4, <2>9, <2>10 DEF Scope
  <2>14. Type(t) = "loop-node" /\ tasks[t].node \in Node
    BY <1>1, <2>1 DEF PlaceInv, LoopTask
  <2>15. InsideInv'
    <3>1. scopes'[1].container = NoNode
      BY <2>10, <2>11 DEF MainInv, InsideInv
    <3>2. \A m \in DOMAIN scopes' : m > 1 =>
            /\ scopes'[m].container \in Node
            /\ scopes'[m].owner \in DOMAIN tasks' /\ Type(scopes[m].owner)' = "loop-node"
      BY <2>4, <2>9, <2>10, <2>12, <2>14 DEF MainInv, InsideInv
    <3>3. ASSUME NEW u \in DOMAIN tasks'
          PROVE  /\ tasks'[u].scope > 1 => graph.container[tasks'[u].node] = Scope(u)'.container
                 /\ \A j \in tasks'[u].nxt : InBoundary(graph, Scope(u)'.container, Target(graph, j))
      <4>1. CASE u \in DOMAIN tasks
        BY <2>12, <4>1 DEF MainInv, InsideInv
      <4>2. CASE u = q
        BY <1>1, <2>4, <2>9, <2>13, <4>2
      <4> QED BY <2>9, <4>1, <4>2
    <3> QED BY <1>1, <3>1, <3>2, <3>3 DEF InsideInv
  <2>16. OneInv'
    <3>1. \A v \in DOMAIN tasks : tasks'[v].pc # "finished" => tasks[v].pc # "finished"
      BY <1>1, <2>9
    <3>2. tasks'[q].scope # 1 /\ tasks'[q].nxt = {}
      BY <2>4, <2>9, <2>11
    <3> QED BY <1>1, <2>9, <2>12, <3>1, <3>2 DEF MainInv, OneInv, HasBreaks
  <2> QED BY <2>15, <2>16 DEF MainInv
<1> QED BY <1>2, <1>3

LEMMA MainRun ==
  ASSUME LoopType, Run
  PROVE  MainInv'
<1>1. /\ tasks' = <<NewTask(GetStart(graph), 1, 0)>> /\ scopes' = <<NewScope(NoNode, 0, 0)>>
      /\ graph' = graph
  BY DEF Run
<1>2. /\ DOMAIN tasks' = {1} /\ tasks'[1].scope = 1 /\ tasks'[1].nxt = {}
      /\ DOMAIN scopes' = {1} /\ scopes'[1].container = NoNode
  BY <1>1 DEF NewTask, NewScope
<1> QED BY <1>2 DEF MainInv, InsideInv, OneInv

LEMMA MainNext ==
  ASSUME LoopType, PlaceInv, loopVars \in LoopVars, MainInv, LoopsAlone(graph), [Next]_vars
  PROVE  PlaceInv' /\ loopVars' \in LoopVars /\ MainInv'
<1>1. loopVars' \in LoopVars
  BY LoopVarsKept
<1>2. ASSUME NEW t \in DOMAIN tasks, Worker(t) PROVE PlaceInv' /\ MainInv'
  <2>1. PlaceInv'
    <3>1. CASE \E new : Steps(t, new)
      BY <3>1, StepsPlace
    <3>2. CASE Begins(t)
      <4>1. PICK q : q = Len(tasks) + 1
        OBVIOUS
      <4>2. /\ DOMAIN tasks' = DOMAIN tasks \cup {q} /\ graph' = graph
            /\ \A u \in DOMAIN tasks : u # t => tasks'[u] = tasks[u]
            /\ tasks'[t].node = tasks[t].node /\ tasks[t].pc = "opening"
            /\ tasks'[q].pc = "queued" /\ tasks'[q].node \in graph.nodes
        BY <3>2, <4>1 DEF Begins
      <4>3. \A u \in DOMAIN tasks : Type(u)' = Type(u)
        BY <4>2 DEF Type
      <4> QED BY <4>2, <4>3 DEF PlaceInv
    <3> QED BY <1>2, <3>1, <3>2, WorkerSteps
  <2>2. MainInv'
    <3>1. CASE \E n \in graph.nodes : RunSubgraph(t, n)
      BY <3>1, OpenMain
    <3>2. CASE \E i \in tasks[t].nxt : Submit(t, i)
      BY <3>2, SubmitMain
    <3>3. CASE MarkDone(t) \/ NextNodes(t) \/ ReleaseSelf(t) \/ \E i \in tasks[t].todo : Acquire(t, i)
      BY <3>3, AfterMain
    <3>4. CASE \/ Start(t) \/ ExecuteRaises(t) \/ RaiseFromBody(t)
               \/ \E b \in Branch \cup {NoBranch} : Execute(t, b)
               \/ \E n \in 0 .. MaxIterations : EnterLoop(t, n)
               \/ WriteDepth(t) \/ SetLoop(t) \/ EndIteration(t) \/ ExitLoop(t)
      BY <3>4, QuietMain
    <3> QED BY <1>2, <3>1, <3>2, <3>3, <3>4 DEF Worker
  <2> QED BY <2>1, <2>2
<1>3. CASE Run
  <2>1. /\ tasks' = <<NewTask(GetStart(graph), 1, 0)>> /\ graph' = graph
    BY <1>3 DEF Run
  <2>2. /\ DOMAIN tasks' = {1} /\ tasks'[1].pc = "queued" /\ tasks'[1].node = GetStart(graph)
    BY <2>1 DEF NewTask
  <2>3. PlaceInv'
    BY <2>1, <2>2, StartIsANode DEF PlaceInv
  <2> QED BY <1>1, <1>3, <2>3, MainRun
<1>4. CASE UNCHANGED <<graph, tasks, scopes>>
  BY <1>1, <1>4 DEF PlaceInv, MainInv, InsideInv, OneInv, HasBreaks, Type, Scope
<1>5. CASE Wake \/ Join \/ Terminated \/ UNCHANGED vars
  BY <1>4, <1>5 DEF Wake, Join, Terminated, vars, pool, loop
<1> QED BY <1>1, <1>2, <1>3, <1>5 DEF Next

(***************************************************************************)
(* A workflow whose breaks are in loops of a main graph that runs one node *)
(* at a time keeps them apart, whatever runs side by side in a body.       *)
(***************************************************************************)
THEOREM AloneKeepsApart ==
  ASSUME \A g \in Graphs : LoopsAlone(g)
  PROVE  Spec => []BreaksAreApart
<1>1. Init => AloneInv
  BY DEF Init, AloneInv, PlaceInv, LoopVars, MainInv, InsideInv, OneInv
<1>2. LoopInv => LoopType /\ LoopsAlone(graph)
  BY DEF LoopInv, LoopType
<1>3. LoopInv /\ AloneInv /\ [Next]_vars => AloneInv'
  BY <1>2, MainNext DEF AloneInv
<1>4. LoopInv /\ AloneInv => BreaksAreApart
  BY <1>2, AloneIsApart DEF AloneInv
<1> QED BY <1>1, <1>3, <1>4, LoopInvariant, PTL DEF Spec

(***************************************************************************)
(* In such a workflow a loop that ends normally has stopped after the      *)
(* first iteration that executed a break, and has run all its iterations   *)
(* if none executed a break or a continue.                                 *)
(***************************************************************************)
THEOREM LoopsStop ==
  ASSUME \A g \in Graphs : LoopsAlone(g)
  PROVE  Spec => []LoopsStopAtBreak
<1> QED BY AloneKeepsApart, BreaksStopTheirLoop, PTL

-----------------------------------------------------------------------------
(* What can keep run() from coming back.                                   *)

\* The next step of task t is open, and it has a worker or one is free for it.
CanStep(t) ==
  \/ At(t, "queued") /\ t = started + 1 /\ Cardinality(Busy) < PoolSize
  \/ At(t, "running") /\ (Type(t) \notin {"loop-node", "form-node"} => Branches(t) # {})
  \/ tasks[t].pc \in {"entering", "looping", "executed", "done"}
  \/ At(t, "opening") /\ \E n \in graph.nodes : n \in LoopStarts(tasks[t].node)
  \/ At(t, "waiting") /\ scopes[tasks[t].child].idle
  \/ /\ At(t, "acquiring")
     /\ tasks[t].todo # {} => \E i \in tasks[t].todo : \A j \in tasks[t].todo : i <= j
  \/ At(t, "submitting") /\ \E i \in tasks[t].nxt : \A j \in tasks[t].nxt : i <= j

CanGoOn ==
  \/ caller = "idle"
  \/ caller = "waiting" /\ scopes[1].idle
  \/ caller = "shutdown" /\ Drained
  \/ \E t \in DOMAIN tasks : CanStep(t)

Waiting == {t \in DOMAIN tasks : At(t, "waiting")}

\* No worker is left for what the loops wait for.
AllWorkersWait == PoolSize <= Cardinality(Waiting)

\* A loop waits for a body of which the pool, shut down, refused a node.
BodyRefused ==
  \E t \in Waiting : \E u \in DOMAIN tasks :
    tasks[u].scope = tasks[t].child /\ At(u, "rejected")

StuckOnlyInLoops ==
  caller \notin {"returned", "raised"} =>
    CanGoOn \/ AllWorkersWait \/ (BodyRefused /\ scopes[1].error # NoError)

(***************************************************************************)
(* Workers take tasks in order; a scope that is not idle has no error and  *)
(* somebody to release it; a task is refused only after run() woke up.     *)
(***************************************************************************)
StallInv ==
  /\ PlaceInv /\ loopVars \in LoopVars
  /\ started \in 0 .. Len(tasks)
  /\ \A t \in DOMAIN tasks : At(t, "queued") <=> t > started
  /\ \A t \in Waiting : scopes[tasks[t].child].owner = t
  /\ \A n \in DOMAIN scopes :
       ~scopes[n].idle => scopes[n].error = NoError /\ scopes[n].pending > 0
  /\ caller \in {"idle", "waiting", "shutdown", "returned", "raised"}
  /\ caller = "waiting" => \A t \in DOMAIN tasks : ~At(t, "rejected")
  /\ caller = "shutdown" => scopes[1].idle

\* Where a task may be after a step, and in the queue only before its first.
LEMMA WorkerPhase ==
  ASSUME LoopType, loopVars \in LoopVars, NEW t \in DOMAIN tasks, Worker(t)
  PROVE  /\ Start(t) \/ (started' = started /\ ~At(t, "queued"))
         /\ caller' = caller
         /\ caller = "waiting" => ~At(t, "rejected")'
<1>1. CASE Start(t)
  <2>1. Become(t, [tasks[t] EXCEPT !.pc = "running"]) \/ Become(t, [tasks[t] EXCEPT !.pc = "aborted"])
    BY <1>1 DEF Start, Raise
  <2>2. tasks[t] \in LoopTask
    BY TaskFacts
  <2>3. tasks'[t].pc \in {"running", "aborted"}
    BY <2>1, <2>2 DEF Become, LoopTask
  <2> QED BY <1>1, <2>3 DEF Start, At
<1>2. CASE \E i \in tasks[t].nxt : Submit(t, i)
  <2>1. PICK i \in tasks[t].nxt : Submit(t, i)
    BY <1>2
  <2>2. started' = started /\ ~At(t, "queued") /\ caller' = caller
    BY <2>1 DEF Submit, At
  <2>3. ASSUME caller = "waiting" PROVE ~At(t, "rejected")'
    <3>1. PICK r, q : Adds(t, r, q) /\ r.pc \in {"submitting", "finished"}
      BY <2>1, <2>3, Handed
    <3>2. tasks'[t] = r
      BY <3>1, Added
    <3> QED BY <3>1, <3>2 DEF At
  <2> QED BY <2>2, <2>3
<1>3. CASE ~Start(t) /\ ~\E i \in tasks[t].nxt : Submit(t, i)
  <2>1. /\ started' = started /\ caller' = caller
        /\ tasks[t].pc \in {"running", "executed", "done", "acquiring", "entering", "looping",
                            "opening", "waiting"}
    BY <1>3 DEF Worker, Execute, ExecuteRaises, MarkDone, NextNodes, Acquire, ReleaseSelf,
                EnterLoop, WriteDepth, SetLoop, RunSubgraph, EndIteration, RaiseFromBody,
                ExitLoop, At
  <2>2. (\E new : Steps(t, new)) \/ Begins(t)
    BY WorkerSteps
  <2>3. tasks'[t].pc # "rejected"
    BY <2>1, <2>2 DEF Steps, PhaseStep, Begins
  <2> QED BY <2>1, <2>3 DEF At
<1> QED BY <1>1, <1>2, <1>3

\* The tasks after a step of a worker.
LEMMA WorkerQueue ==
  ASSUME LoopInv, StallInv, NEW t \in DOMAIN tasks, Worker(t), LoopType'
  PROVE  /\ started' \in 0 .. Len(tasks')
         /\ \A u \in DOMAIN tasks' : At(u, "queued")' <=> u > started'
         /\ caller' = "waiting" => \A u \in DOMAIN tasks' : ~At(u, "rejected")'
<1>1. /\ LoopType /\ loopVars \in LoopVars /\ started \in 0 .. Len(tasks)
      /\ \A u \in DOMAIN tasks : At(u, "queued") <=> u > started
      /\ caller = "waiting" => \A u \in DOMAIN tasks : ~At(u, "rejected")
  BY DEF LoopInv, StallInv
<1>2. /\ Len(tasks) \in Nat /\ DOMAIN tasks = 1 .. Len(tasks)
      /\ Len(tasks') \in Nat /\ DOMAIN tasks' = 1 .. Len(tasks')
  BY <1>1 DEF LoopType
<1>3. PICK new : /\ DOMAIN tasks' = DOMAIN tasks \cup new /\ DOMAIN tasks \cap new = {}
                 /\ \A u \in DOMAIN tasks : u # t => tasks'[u] = tasks[u]
                 /\ \A u \in new : tasks'[u].pc = "queued"
                 /\ tasks'[t].pc # "queued"
  <2>1. CASE Begins(t)
    <3>1. PICK q : q = Len(tasks) + 1
      OBVIOUS
    <3>2. /\ q \notin DOMAIN tasks /\ DOMAIN tasks' = DOMAIN tasks \cup {q}
          /\ \A u \in DOMAIN tasks : u # t => tasks'[u] = tasks[u]
          /\ tasks'[q].pc = "queued" /\ tasks'[t].pc = "waiting"
      BY <2>1, <3>1 DEF Begins
    <3> QED BY <3>2
  <2>2. ASSUME NEW n, Steps(t, n)
        PROVE  /\ DOMAIN tasks' = DOMAIN tasks \cup n /\ DOMAIN tasks \cap n = {}
               /\ \A u \in DOMAIN tasks : u # t => tasks'[u] = tasks[u]
               /\ \A u \in n : tasks'[u].pc = "queued"
               /\ tasks'[t].pc # "queued"
    BY <2>2 DEF Steps, PhaseStep
  <2> QED BY <1>1, <2>1, <2>2, WorkerSteps
<1>4. /\ Start(t) \/ (started' = started /\ ~At(t, "queued"))
      /\ caller' = caller
      /\ caller = "waiting" => ~At(t, "rejected")'
  BY <1>1, WorkerPhase
<1>5. Len(tasks) <= Len(tasks')
  <2>1. 1 .. Len(tasks) \subseteq 1 .. Len(tasks')
    BY <1>2, <1>3
  <2> QED BY <1>2, <2>1
<1>6. started' \in 0 .. Len(tasks) /\ (Start(t) => started' = t /\ t = started + 1)
  BY <1>1, <1>2, <1>4 DEF Start
<1>7. ASSUME NEW u \in DOMAIN tasks' PROVE At(u, "queued")' <=> u > started'
  <2>1. CASE u \in new
    <3>1. u \notin 1 .. Len(tasks) /\ u \in 1 .. Len(tasks')
      BY <1>2, <1>3, <2>1
    <3> QED BY <1>2, <1>3, <1>6, <2>1, <3>1 DEF At
  <2>2. CASE u = t
    <3>1. ~At(t, "queued")'
      BY <1>3 DEF At
    <3>2. ~(t > started')
      BY <1>1, <1>2, <1>4, <1>6
    <3> QED BY <2>2, <3>1, <3>2
  <2>3. CASE u \in DOMAIN tasks /\ u # t
    <3>1. At(u, "queued")' <=> At(u, "queued")
      BY <1>3, <2>3 DEF At
    <3>2. u > started' <=> u > started
      BY <1>1, <1>2, <1>4, <1>6, <2>3
    <3> QED BY <1>1, <2>3, <3>1, <3>2
  <2> QED BY <1>3, <2>1, <2>2, <2>3
<1>8. caller' = "waiting" => \A u \in DOMAIN tasks' : ~At(u, "rejected")'
  BY <1>1, <1>3, <1>4 DEF At
<1> QED BY <1>2, <1>5, <1>6, <1>7, <1>8

\* The scopes after a step of a worker.
LEMMA WorkerScopes ==
  ASSUME LoopInv, StallInv, NEW t \in DOMAIN tasks, Worker(t)
  PROVE  /\ \A n \in DOMAIN scopes' :
              ~scopes'[n].idle => scopes'[n].error = NoError /\ scopes'[n].pending > 0
         /\ \A n \in DOMAIN scopes : scopes[n].idle => scopes'[n].idle
<1>1. /\ LoopType /\ OwnInv /\ scopes \in Seq(LoopScope)
      /\ \A n \in DOMAIN scopes :
           ~scopes[n].idle => scopes[n].error = NoError /\ scopes[n].pending > 0
  BY DEF LoopInv, LoopType, StallInv
<1>2. CASE Moving(t)
  <2>1. PICK r, sc : /\ Moves(t, r, sc)
                     /\ \/ Keeps(t, r, sc) \/ Aborts(t, r, sc)
                        \/ Acquires(t, r, sc) \/ Releases(t, r, sc)
    BY <1>2 DEF Moving
  <2>2. PICK s : s = tasks[t].scope
    OBVIOUS
  <2>3. /\ DOMAIN scopes' = DOMAIN scopes /\ s \in DOMAIN scopes /\ scopes'[s] = sc
        /\ \A n \in DOMAIN scopes : n # s => scopes'[n] = scopes[n]
        /\ Scope(t) = scopes[s] /\ scopes[s] \in LoopScope
    BY <1>1, <2>1, <2>2, Moved, TaskFacts DEF Scope
  <2>4. /\ ~scopes[s].idle => scopes[s].error = NoError /\ scopes[s].pending > 0
        /\ scopes[s].pending \in Int /\ scopes[s].idle \in BOOLEAN /\ sc.idle \in BOOLEAN
    BY <1>1, <2>1, <2>3 DEF LoopScope, Moves
  <2>5. /\ ~sc.idle => sc.error = NoError /\ sc.pending > 0
        /\ scopes[s].idle => sc.idle
    <3>1. CASE Keeps(t, r, sc) \/ Acquires(t, r, sc)
      BY <2>3, <2>4, <3>1 DEF Keeps, Acquires
    <3>2. CASE Aborts(t, r, sc)
      BY <3>2 DEF Aborts
    <3>3. CASE Releases(t, r, sc)
      <4>1. /\ sc.idle = (scopes[s].idle \/ (scopes[s].pending = 1 /\ scopes[s].error = NoError))
            /\ sc.pending = scopes[s].pending - 1 /\ sc.error = scopes[s].error
        BY <2>3, <3>3 DEF Releases
      <4>2. scopes[s].idle => sc.idle
        BY <4>1
      <4>3. ~sc.idle => ~scopes[s].idle /\ ~(scopes[s].pending = 1 /\ scopes[s].error = NoError)
        BY <4>1
      <4> QED BY <2>4, <4>1, <4>2, <4>3
    <3> QED BY <2>1, <3>1, <3>2, <3>3
  <2> QED BY <1>1, <2>3, <2>5
<1>3. CASE Hands(t)
  <2>1. scopes' = scopes
    BY <1>1, <1>3, Handed DEF Hands
  <2> QED BY <1>1, <2>1
<1>4. CASE Opens(t)
  <2>1. /\ DOMAIN scopes' = DOMAIN scopes \cup {Len(scopes) + 1}
        /\ \A n \in DOMAIN scopes : scopes'[n] = scopes[n]
        /\ scopes'[Len(scopes) + 1].pending = 1
        /\ scopes'[Len(scopes) + 1].error = NoError
    BY <1>1, <1>4, Opened DEF Opens
  <2> QED BY <1>1, <2>1
<1> QED BY <1>1, <1>2, <1>3, <1>4, WorkerMoves

\* Whose body a loop waits for.
LEMMA WorkerChildren ==
  ASSUME LoopInv, StallInv, NEW t \in DOMAIN tasks, Worker(t)
  PROVE  \A u \in Waiting' : scopes'[tasks'[u].child].owner = u
<1>1. /\ LoopType /\ OwnInv /\ loopVars \in LoopVars
      /\ \A u \in Waiting : scopes[tasks[u].child].owner = u
      /\ \A u \in Waiting : tasks[u].child \in DOMAIN scopes
  BY DEF LoopInv, StallInv, OwnInv, Waiting, At
<1> SUFFICES ASSUME NEW u \in Waiting' PROVE scopes'[tasks'[u].child].owner = u
  OBVIOUS
<1>2. u \in DOMAIN tasks' /\ tasks'[u].pc = "waiting"
  BY DEF Waiting, At
<1>3. ASSUME NEW new, Steps(t, new) PROVE scopes'[tasks'[u].child].owner = u
  <2>1. u \in DOMAIN tasks /\ u # t /\ tasks'[u] = tasks[u]
    BY <1>2, <1>3 DEF Steps, PhaseStep
  <2>2. u \in Waiting
    BY <1>2, <2>1 DEF Waiting, At
  <2> QED BY <1>1, <1>3, <2>1, <2>2 DEF Steps
<1>4. CASE Begins(t)
  <2>1. /\ scopes'[tasks'[t].child].owner = t
        /\ \A n \in DOMAIN scopes : scopes'[n] = scopes[n]
    BY <1>4 DEF Begins
  <2>2. u # t => u \in DOMAIN tasks /\ tasks'[u] = tasks[u]
    BY <1>2, <1>4 DEF Begins
  <2>3. u # t => u \in Waiting
    BY <1>2, <2>2 DEF Waiting, At
  <2> QED BY <1>1, <2>1, <2>2, <2>3
<1> QED BY <1>1, <1>3, <1>4, WorkerSteps

LEMMA WorkerPlace ==
  ASSUME LoopInv, StallInv, NEW t \in DOMAIN tasks, Worker(t)
  PROVE  PlaceInv' /\ loopVars' \in LoopVars
<1>1. LoopType /\ PlaceInv /\ loopVars \in LoopVars
  BY DEF LoopInv, StallInv
<1>2. loopVars' \in LoopVars
  BY <1>1, LoopVarsKept DEF Next
<1>3. CASE Begins(t)
  <2>1. PICK q : /\ graph' = graph /\ tasks[t].pc = "opening"
                 /\ DOMAIN tasks' = DOMAIN tasks \cup {q}
                 /\ \A u \in DOMAIN tasks : u # t => tasks'[u] = tasks[u]
                 /\ tasks'[t].node = tasks[t].node
                 /\ tasks'[q].pc = "queued" /\ tasks'[q].node \in graph.nodes
    BY <1>3 DEF Begins
  <2>2. \A u \in DOMAIN tasks : Type(u)' = Type(u)
    BY <2>1 DEF Type
  <2> QED BY <1>1, <1>2, <2>1, <2>2 DEF PlaceInv
<1> QED BY <1>1, <1>2, <1>3, WorkerSteps, StepsPlace

LEMMA StallRun ==
  ASSUME LoopInv, StallInv, Run
  PROVE  StallInv'
<1>1. /\ tasks' = <<NewTask(GetStart(graph), 1, 0)>> /\ caller' = "waiting"
      /\ scopes' = <<NewScope(NoNode, 0, 0)>> /\ graph' = graph /\ loopVars' = loopVars
      /\ started' = started /\ caller = "idle"
  BY DEF Run, loop
<1>2. /\ DOMAIN tasks' = {1} /\ tasks'[1].pc = "queued" /\ tasks'[1].node = GetStart(graph)
      /\ Len(tasks') = 1 /\ DOMAIN scopes' = {1}
      /\ scopes'[1].pending = 1 /\ scopes'[1].error = NoError
  BY <1>1 DEF NewTask, NewScope
<1>3. started = 0
  <2>1. tasks \in Seq(LoopTask) /\ \A u \in DOMAIN tasks : tasks[u].scope \in DOMAIN scopes
    BY DEF LoopInv, LoopType
  <2>2. DOMAIN scopes = {}
    BY <1>1 DEF LoopInv, OwnInv
  <2>3. DOMAIN tasks = {}
    BY <2>1, <2>2
  <2>4. Len(tasks) = 0
    BY <2>1, <2>3
  <2> QED BY <2>4 DEF StallInv
<1>4. GetStart(graph) \in graph.nodes
  BY StartIsANode DEF LoopInv
<1>5. PlaceInv' /\ loopVars' \in LoopVars
  BY <1>1, <1>2, <1>4 DEF PlaceInv, StallInv
<1>6. Waiting' = {}
  BY <1>2 DEF Waiting, At
<1> QED BY <1>1, <1>2, <1>3, <1>5, <1>6 DEF StallInv, At

LEMMA StallNext ==
  ASSUME LoopInv, LoopInv', StallInv, [Next]_vars
  PROVE  StallInv'
<1>1. CASE Run
  BY <1>1, StallRun
<1>2. CASE \E t \in DOMAIN tasks : Worker(t)
  <2>1. PICK t \in DOMAIN tasks : Worker(t)
    BY <1>2
  <2>2. PlaceInv' /\ loopVars' \in LoopVars
    BY <2>1, WorkerPlace
  <2>3. /\ started' \in 0 .. Len(tasks')
        /\ \A u \in DOMAIN tasks' : At(u, "queued")' <=> u > started'
        /\ caller' = "waiting" => \A u \in DOMAIN tasks' : ~At(u, "rejected")'
    BY <2>1, WorkerQueue DEF LoopInv
  <2>4. \A u \in Waiting' : scopes'[tasks'[u].child].owner = u
    BY <2>1, WorkerChildren
  <2>5. /\ \A n \in DOMAIN scopes' :
             ~scopes'[n].idle => scopes'[n].error = NoError /\ scopes'[n].pending > 0
        /\ \A n \in DOMAIN scopes : scopes[n].idle => scopes'[n].idle
    BY <2>1, WorkerScopes
  <2>6. caller' = caller
    BY <2>1, WorkerPhase DEF LoopInv, StallInv
  <2>7. 1 \in DOMAIN scopes
    <3>1. scopes \in Seq(LoopScope) /\ tasks[t].scope \in DOMAIN scopes
      BY <2>1, TaskFacts DEF LoopInv, LoopType
    <3> QED BY <3>1
  <2>8. /\ caller' \in {"idle", "waiting", "shutdown", "returned", "raised"}
        /\ caller' = "shutdown" => scopes'[1].idle
    BY <2>5, <2>6, <2>7 DEF StallInv
  <2> QED BY <2>2, <2>3, <2>4, <2>5, <2>8 DEF StallInv
<1>3. CASE Wake \/ Join \/ Terminated \/ UNCHANGED vars
  <2>1. UNCHANGED <<graph, tasks, started, scopes, loopVars>>
    BY <1>3 DEF Wake, Join, Terminated, vars, pool, loop
  <2>2. /\ caller' \in {"idle", "waiting", "shutdown", "returned", "raised"}
        /\ caller' = "waiting" => caller = "waiting"
        /\ caller' = "shutdown" => scopes[1].idle
    BY <1>3 DEF Wake, Join, Terminated, vars, StallInv
  <2>3. PlaceInv' /\ Waiting' = Waiting
    BY <2>1 DEF StallInv, PlaceInv, Type, Waiting, At
  <2>4. \A u : (At(u, "queued")' <=> At(u, "queued")) /\ (At(u, "rejected")' <=> At(u, "rejected"))
    BY <2>1 DEF At
  <2> QED BY <2>1, <2>2, <2>3, <2>4 DEF StallInv
<1> QED BY <1>1, <1>2, <1>3 DEF Next

LEMMA StallInvariant == Spec => []StallInv
<1>1. Init => StallInv
  BY DEF Init, StallInv, PlaceInv, LoopVars, Waiting
<1>2. LoopInv /\ LoopInv' /\ StallInv /\ [Next]_vars => StallInv'
  BY StallNext
<1> QED BY <1>1, <1>2, LoopInvariant, PTL DEF Spec

\* A set of numbers that are not too large has a greatest.
LEMMA GreatestElement ==
  ASSUME NEW m \in Nat, NEW T \in SUBSET (0 .. m), T # {}
  PROVE  \E x \in T : \A y \in T : y <= x
<1> DEFINE U == {k \in Nat : m - k \in T}
<1>1. \A x \in T : x \in Nat /\ m - x \in U
  <2> SUFFICES ASSUME NEW x \in T PROVE x \in Nat /\ m - x \in U
    OBVIOUS
  <2>1. x \in 0 .. m
    OBVIOUS
  <2>2. x \in Nat /\ m - x \in Nat /\ m - (m - x) = x
    BY <2>1
  <2> QED BY <2>2
<1>2. U \subseteq Nat /\ U # {}
  BY <1>1
<1>3. PICK k \in U : \A j \in U : ~(j < k)
  <2> HIDE DEF U
  <2> QED BY <1>2, LeastElement
<1>4. ASSUME NEW y \in T PROVE y <= m - k
  <2>1. y \in Nat /\ m - y \in Nat /\ ~(m - y < k) /\ k \in Nat
    BY <1>1, <1>3
  <2> QED BY <2>1
<1> QED BY <1>3, <1>4

LEMMA FirstEdge ==
  ASSUME NEW S \in SUBSET Nat, S # {}
  PROVE  \E i \in S : \A j \in S : i <= j
<1>1. PICK i \in S : \A j \in S : ~(j < i)
  BY LeastElement
<1>2. \A j \in S : i <= j
  BY <1>1
<1> QED BY <1>2

(* A task with a worker goes on, unless it waits for an iteration. *)
LEMMA BusyCanStep ==
  ASSUME Branch # {}, LoopInv, StallInv, NEW t \in Busy, ~At(t, "waiting")
  PROVE  t \in DOMAIN tasks /\ CanStep(t)
<1>1. /\ LoopType /\ PlaceInv /\ started \in 0 .. Len(tasks)
      /\ \A u \in DOMAIN tasks : At(u, "queued") <=> u > started
  BY DEF LoopInv, StallInv
<1>2. t \in DOMAIN tasks /\ ~(t > started) /\ tasks[t].pc \notin Over
  BY <1>1 DEF Busy, LoopType
<1>3. /\ tasks[t].pc \in Phases /\ TaskOK(tasks[t]) /\ tasks[t].nxt \in SUBSET Nat
      /\ tasks[t].todo \in SUBSET Nat
  BY <1>1, <1>2, TaskFacts DEF LoopTask
<1>4. tasks[t].pc \in Phases \ (Over \cup {"queued", "waiting"})
  BY <1>1, <1>2, <1>3 DEF At
<1>5. CASE tasks[t].pc = "running"
  <2>1. Branches(t) # {}
    BY DEF Branches
  <2> QED BY <1>2, <1>5, <2>1 DEF CanStep, At
<1>6. CASE tasks[t].pc \in {"entering", "looping", "executed", "done"}
  BY <1>2, <1>6 DEF CanStep
<1>7. CASE tasks[t].pc = "opening"
  <2>1. tasks[t].node \in LoopNodes(graph)
    BY <1>1, <1>2, <1>7 DEF PlaceInv, Type, LoopNodes
  <2>2. ContainersClosed(graph)
    BY <1>1, LoopAssumption DEF LoopType
  <2>3. \E n \in graph.nodes : n \in LoopStarts(tasks[t].node)
    BY <2>1, <2>2 DEF ContainersClosed, LoopStarts
  <2> QED BY <1>2, <1>7, <2>3 DEF CanStep, At
<1>8. CASE tasks[t].pc = "acquiring"
  <2>1. tasks[t].todo # {} => \E i \in tasks[t].todo : \A j \in tasks[t].todo : i <= j
    BY <1>3, FirstEdge
  <2> QED BY <1>2, <1>8, <2>1 DEF CanStep, At
<1>9. CASE tasks[t].pc = "submitting"
  <2>1. tasks[t].nxt # {}
    BY <1>3, <1>9 DEF TaskOK
  <2>2. \E i \in tasks[t].nxt : \A j \in tasks[t].nxt : i <= j
    BY <1>3, <2>1, FirstEdge
  <2> QED BY <1>2, <1>9, <2>2 DEF CanStep, At
<1> QED BY <1>4, <1>5, <1>6, <1>7, <1>8, <1>9 DEF Phases, Over

(* If no task can step and a worker is free, the tasks not over all wait. *)
LEMMA OthersAreOver ==
  ASSUME Branch # {}, LoopInv, StallInv, ~AllWorkersWait,
         \A t \in DOMAIN tasks : ~CanStep(t)
  PROVE  \A t \in DOMAIN tasks : tasks[t].pc \in Over \cup {"waiting"}
<1>1. /\ tasks \in Seq(LoopTask) /\ started \in 0 .. Len(tasks)
      /\ \A u \in DOMAIN tasks : At(u, "queued") <=> u > started
  BY DEF LoopInv, LoopType, StallInv
<1>2. \A t \in Busy : At(t, "waiting")
  BY BusyCanStep
<1>3. Busy \subseteq Waiting /\ Waiting \subseteq DOMAIN tasks
  BY <1>1, <1>2 DEF Waiting, Busy
<1>4. IsFiniteSet(Waiting)
  <2>1. IsFiniteSet(1 .. Len(tasks)) /\ DOMAIN tasks = 1 .. Len(tasks)
    BY <1>1, FS_Interval
  <2> QED BY <1>3, <2>1, FS_Subset
<1>5. Cardinality(Busy) < PoolSize
  <2>1. /\ Cardinality(Busy) <= Cardinality(Waiting)
        /\ Cardinality(Busy) \in Nat /\ Cardinality(Waiting) \in Nat
    BY <1>3, <1>4, FS_Subset, FS_CardinalityType
  <2> QED BY <2>1, LoopAssumption DEF AllWorkersWait
<1>6. started + 1 \notin DOMAIN tasks
  <2> SUFFICES ASSUME started + 1 \in DOMAIN tasks PROVE FALSE
    OBVIOUS
  <2>1. At(started + 1, "queued")
    BY <1>1
  <2> QED BY <1>5, <2>1 DEF CanStep
<1>7. \A t \in DOMAIN tasks : t \in 1 .. started
  BY <1>1, <1>6
<1> QED BY <1>2, <1>7 DEF Busy, At

(* Who keeps a scope from being idle, when no task can step. *)
LEMMA HolderOfScope ==
  ASSUME LoopInv, StallInv, \A t \in DOMAIN tasks : tasks[t].pc \in Over \cup {"waiting"},
         NEW n \in DOMAIN scopes, ~scopes[n].idle
  PROVE  \E u \in DOMAIN tasks : /\ tasks[u].scope = n
                                 /\ At(u, "waiting") \/ At(u, "rejected")
<1>1. scopes[n].error = NoError /\ scopes[n].pending > 0
  BY DEF StallInv
<1>2. scopes[n].pending = Cardinality(Tokens(n))
  BY <1>1 DEF LoopInv, CountInv
<1>3. Tokens(n) # {}
  BY <1>1, <1>2, FS_EmptySet
<1>4. PICK u, i : u \in DOMAIN tasks /\ tasks[u].scope = n /\ i \in Owed(tasks[u])
  BY <1>3, TokenPairs DEF LoopInv, TokensArePairs
<1>5. TaskOK(tasks[u]) /\ tasks[u].pc \in Over \cup {"waiting"}
  BY <1>4, TaskFacts DEF LoopInv
<1>6. tasks[u].pc \in {"waiting", "rejected"}
  BY <1>4, <1>5 DEF Owed, TaskOK, Unreleased, Over
<1> QED BY <1>4, <1>6 DEF At

(* As long as a task is not over, the main graph is not settled. *)
LEMMA MainIsUnsettled ==
  ASSUME LoopInv, NEW t \in DOMAIN tasks, tasks[t].pc \notin Over
  PROVE  ~Settled(1)
<1>1. LoopType /\ OwnInv /\ scopes \in Seq(LoopScope)
  BY DEF LoopInv, LoopType
<1> DEFINE Open == {n \in DOMAIN scopes : ~Settled(n)}
<1>2. tasks[t].scope \in Open
  BY <1>1, TaskFacts, ActiveIsUnsettled
<1>3. Open \subseteq Nat /\ Open # {}
  BY <1>1, <1>2
<1>4. PICK n \in Open : \A m \in Open : ~(m < n)
  <2> HIDE DEF Open
  <2> QED BY <1>3, LeastElement
<1>5. n \in DOMAIN scopes /\ ~Settled(n) /\ (n = 1 \/ n > 1)
  BY <1>1, <1>4
<1>6. ASSUME n > 1 PROVE FALSE
  <2>1. PICK o : o = scopes[n].owner
    OBVIOUS
  <2>2. /\ o \in DOMAIN tasks /\ tasks[o].scope < n
        /\ tasks[o].pc = "waiting" \/ Scope(o).error # NoError
    BY <1>1, <1>5, <1>6, <2>1 DEF OwnInv, Owned
  <2>3. ~Settled(tasks[o].scope)
    BY <2>2, ActiveIsUnsettled DEF Over, Settled, Scope
  <2>4. tasks[o].scope \in Open
    BY <1>1, <2>2, <2>3, TaskFacts
  <2> QED BY <1>4, <2>2, <2>4
<1> QED BY <1>5, <1>6

(***************************************************************************)
(* A loop gives its worker back only when its iteration is over.  Until    *)
(* run() has returned or raised, somebody can take a step, unless every    *)
(* worker of the pool waits in a loop (run_subgraph, scope.wait), or the   *)
(* main graph has failed beside a loop and the pool, already shut down,    *)
(* refused a node of the body that the loop waits for (_submit).           *)
(***************************************************************************)
THEOREM RunsStickOnlyInLoops ==
  ASSUME Branch # {}
  PROVE  Spec => []StuckOnlyInLoops
<1>1. LoopInv /\ StallInv => StuckOnlyInLoops
  <2> SUFFICES ASSUME LoopInv, StallInv, caller \notin {"returned", "raised"},
                      ~CanGoOn, ~AllWorkersWait
               PROVE  BodyRefused /\ scopes[1].error # NoError
    BY DEF StuckOnlyInLoops
  <2>1. /\ LoopType /\ OwnInv /\ scopes \in Seq(LoopScope) /\ tasks \in Seq(LoopTask)
        /\ \A t \in Waiting : scopes[tasks[t].child].owner = t
        /\ caller = "waiting" => \A t \in DOMAIN tasks : ~At(t, "rejected")
        /\ caller = "shutdown" => scopes[1].idle
        /\ caller \in {"idle", "waiting", "shutdown", "returned", "raised"}
    BY DEF LoopInv, LoopType, StallInv
  <2>2. /\ caller \in {"waiting", "shutdown"} /\ scopes # <<>> /\ 1 \in DOMAIN scopes
        /\ caller = "waiting" => ~scopes[1].idle
        /\ caller = "shutdown" => ~Drained
        /\ \A t \in DOMAIN tasks : ~CanStep(t)
    BY <2>1 DEF CanGoOn, OwnInv
  <2>3. \A t \in DOMAIN tasks : tasks[t].pc \in Over \cup {"waiting"}
    BY <2>2, OthersAreOver
  <2>4. Waiting # {}
    <3>1. CASE caller = "shutdown"
      BY <2>2, <2>3, <3>1 DEF Drained, Waiting, At
    <3>2. CASE caller = "waiting"
      <4>1. PICK u \in DOMAIN tasks : At(u, "waiting") \/ At(u, "rejected")
        BY <2>2, <2>3, <3>2, HolderOfScope
      <4> QED BY <2>1, <3>2, <4>1 DEF Waiting
    <3> QED BY <2>2, <3>1, <3>2
  <2> DEFINE Children == {tasks[t].child : t \in Waiting}
  <2>5. Children \in SUBSET (0 .. Len(scopes)) /\ Children # {} /\ Len(scopes) \in Nat
    BY <2>1, <2>4 DEF OwnInv, Waiting, At
  <2>6. PICK t \in Waiting : \A u \in Waiting : tasks[u].child <= tasks[t].child
    <3>1. PICK c \in Children : \A d \in Children : d <= c
      <4> HIDE DEF Children
      <4> QED BY <2>5, GreatestElement
    <3> QED BY <3>1
  <2>7. /\ t \in DOMAIN tasks /\ At(t, "waiting")
        /\ tasks[t].child \in DOMAIN scopes /\ tasks[t].child > 1
    BY <2>1 DEF OwnInv, Waiting, At
  <2>8. ~scopes[tasks[t].child].idle
    BY <2>2, <2>7 DEF CanStep
  <2>9. PICK u \in DOMAIN tasks : /\ tasks[u].scope = tasks[t].child
                                  /\ At(u, "waiting") \/ At(u, "rejected")
    BY <2>3, <2>7, <2>8, HolderOfScope
  <2>10. ~At(u, "waiting")
    <3> SUFFICES ASSUME At(u, "waiting") PROVE FALSE
      OBVIOUS
    <3>1. /\ u \in Waiting /\ tasks[u].child \in DOMAIN scopes /\ tasks[u].child > 1
          /\ scopes[tasks[u].child].owner = u
      BY <2>1 DEF OwnInv, Waiting, At
    <3>2. tasks[u].scope < tasks[u].child
      BY <2>1, <3>1 DEF OwnInv, Owned
    <3>3. tasks[u].child <= tasks[t].child
      BY <2>6, <3>1
    <3>4. tasks[u].child \in Nat /\ tasks[t].child \in Nat
      BY <2>1, <2>7, <3>1
    <3> QED BY <2>9, <3>2, <3>3, <3>4
  <2>11. BodyRefused
    BY <2>9, <2>10 DEF BodyRefused
  <2>12. caller = "shutdown"
    BY <2>1, <2>2, <2>9, <2>10
  <2>13. ~Settled(1)
    BY <2>7, MainIsUnsettled DEF At, Over
  <2> QED BY <2>1, <2>11, <2>12, <2>13 DEF Settled
<1> QED BY <1>1, LoopInvariant, StallInvariant, PTL

-----------------------------------------------------------------------------
(* No task runs for ever.                                                  *)

\* What a task has still to do: the statements of _run_node, the edges it
\* may choose or has chosen, and the iterations, each of three statements.
PlacesLeft(task) ==
  IF task.pc = "queued" THEN 8
  ELSE IF task.pc \in {"running", "opening"} THEN 7
  ELSE IF task.pc \in {"entering", "waiting"} THEN 6
  ELSE IF task.pc = "looping" THEN 5
  ELSE IF task.pc = "executed" THEN 4
  ELSE IF task.pc = "done" THEN 3
  ELSE IF task.pc = "acquiring" THEN 2
  ELSE IF task.pc = "submitting" THEN 1 ELSE 0

EdgesLeft(task, m) ==
  IF task.pc \in Over THEN 0
  ELSE IF task.pc = "submitting" THEN Cardinality(task.nxt)
  ELSE IF task.pc = "acquiring" THEN Cardinality(task.todo) + Cardinality(task.nxt)
  ELSE 2 * m

IterationsLeft(task) ==
  IF task.pc \in {"queued", "running"} THEN MaxIterations
  ELSE IF task.pc \in {"entering", "looping", "opening", "waiting"} THEN task.left ELSE 0

AllLeft(task, m) == PlacesLeft(task) + EdgesLeft(task, m) + 3 * IterationsLeft(task)

TaskLeft(t) == AllLeft(tasks[t], Len(graph.edges))

Shortens ==
  \A t \in DOMAIN tasks : /\ Worker(t) => TaskLeft(t)' < TaskLeft(t)
                          /\ TaskLeft(t)' <= TaskLeft(t)

LEMMA LeftByPhase ==
  ASSUME NEW task, NEW m \in Nat
  PROVE  /\ task.pc = "queued" => AllLeft(task, m) = 8 + 2 * m + 3 * MaxIterations
         /\ task.pc = "running" => AllLeft(task, m) = 7 + 2 * m + 3 * MaxIterations
         /\ task.pc = "opening" => AllLeft(task, m) = 7 + 2 * m + 3 * task.left
         /\ task.pc \in {"entering", "waiting"} => AllLeft(task, m) = 6 + 2 * m + 3 * task.left
         /\ task.pc = "looping" => AllLeft(task, m) = 5 + 2 * m + 3 * task.left
         /\ task.pc = "executed" => AllLeft(task, m) = 4 + 2 * m
         /\ task.pc = "done" => AllLeft(task, m) = 3 + 2 * m
         /\ task.pc = "acquiring" =>
              AllLeft(task, m) = 2 + (Cardinality(task.todo) + Cardinality(task.nxt)) + 0
         /\ task.pc = "submitting" => AllLeft(task, m) = 1 + Cardinality(task.nxt) + 0
         /\ task.pc \in Over => AllLeft(task, m) = 0
BY DEF AllLeft, PlacesLeft, EdgesLeft, IterationsLeft, Over

\* The edges a task has chosen are not more than there are.
LEMMA ChosenEdges ==
  ASSUME LoopType, NEW t \in DOMAIN tasks
  PROVE  /\ IsFiniteSet(tasks[t].todo) /\ Cardinality(tasks[t].todo) \in 0 .. Len(graph.edges)
         /\ IsFiniteSet(tasks[t].nxt) /\ Cardinality(tasks[t].nxt) \in 0 .. Len(graph.edges)
<1> DEFINE m == Len(graph.edges)
<1>1. m \in Nat /\ DOMAIN graph.edges = 1 .. m
  BY GraphFacts
<1>2. tasks[t].todo \subseteq 1 .. m /\ tasks[t].nxt \subseteq 1 .. m
  BY <1>1, TaskFacts DEF TaskOK
<1>3. IsFiniteSet(1 .. m) /\ Cardinality(1 .. m) = m
  BY <1>1, FS_Interval
<1>4. ASSUME NEW S, S \subseteq 1 .. m
      PROVE  IsFiniteSet(S) /\ Cardinality(S) \in 0 .. m
  <2>1. IsFiniteSet(S) /\ Cardinality(S) <= m
    BY <1>3, <1>4, FS_Subset
  <2> QED BY <1>1, <2>1, FS_CardinalityType
<1> QED BY <1>2, <1>4

LEMMA LeftIsNatural ==
  ASSUME LoopType, NEW t \in DOMAIN tasks
  PROVE  TaskLeft(t) \in Nat
<1>1. tasks[t].pc \in Phases /\ tasks[t].left \in Nat
  BY TaskFacts DEF LoopTask
<1>2. Len(graph.edges) \in Nat /\ MaxIterations \in Nat
  BY GraphFacts, LoopAssumption
<1>3. Cardinality(tasks[t].todo) \in Nat /\ Cardinality(tasks[t].nxt) \in Nat
  BY <1>2, ChosenEdges
<1>4. /\ PlacesLeft(tasks[t]) \in Nat /\ EdgesLeft(tasks[t], Len(graph.edges)) \in Nat
      /\ IterationsLeft(tasks[t]) \in Nat
  BY <1>1, <1>2, <1>3 DEF PlacesLeft, EdgesLeft, IterationsLeft
<1> QED BY <1>4 DEF TaskLeft, AllLeft

LeftOK ==
  \A t \in DOMAIN tasks : /\ TaskLeft(t) \in Nat
                          /\ Cardinality(tasks[t].todo) \in 0 .. Len(graph.edges)
                          /\ Cardinality(tasks[t].nxt) \in 0 .. Len(graph.edges)

LEMMA ChosenNow == LoopType => LeftOK
BY ChosenEdges, LeftIsNatural DEF LeftOK

LEMMA ChosenNext ==
  ASSUME LoopType'
  PROVE  LeftOK'
<1> QED BY ChosenNow, PTL

\* What a step makes of the iterations and of the edges chosen.
LEMMA WorkerLeft ==
  ASSUME LoopType, LoopType', NEW t \in DOMAIN tasks, Worker(t), t \in DOMAIN tasks'
  PROVE  /\ tasks'[t].pc = "entering" /\ At(t, "running") => tasks'[t].left <= MaxIterations
         /\ At(t, "acquiring") /\ tasks'[t].pc = "acquiring" =>
              \E i \in tasks[t].todo : /\ tasks'[t].todo = tasks[t].todo \ {i}
                                       /\ tasks'[t].nxt = tasks[t].nxt
         /\ At(t, "acquiring") /\ tasks'[t].pc = "submitting" => tasks'[t].nxt = tasks[t].nxt
         /\ At(t, "submitting") /\ tasks'[t].pc = "submitting" =>
              \E i \in tasks[t].nxt : tasks'[t].nxt = tasks[t].nxt \ {i}
<1>1. tasks[t] \in LoopTask /\ tasks \in Seq(LoopTask)
  BY TaskFacts DEF LoopType
<1>2. ASSUME At(t, "running"), tasks'[t].pc = "entering"
      PROVE  tasks'[t].left <= MaxIterations
  <2>1. CASE \E n \in 0 .. MaxIterations : EnterLoop(t, n)
    <3>1. PICK n \in 0 .. MaxIterations : EnterLoop(t, n)
      BY <2>1
    <3>2. tasks'[t].left = n
      BY <1>1, <3>1 DEF EnterLoop, Become, LoopTask
    <3> QED BY <3>1, <3>2, LoopAssumption
  <2>2. CASE \E b \in Branch \cup {NoBranch} : Execute(t, b)
    BY <1>1, <1>2, <2>2 DEF Execute, Become, LoopTask
  <2>3. CASE ExecuteRaises(t)
    BY <1>1, <1>2, <2>3 DEF ExecuteRaises, Raise, Become, LoopTask
  <2> QED
    BY <1>2, <2>1, <2>2, <2>3 DEF Worker, At, Start, MarkDone, NextNodes, Acquire, ReleaseSelf,
         Submit, WriteDepth, SetLoop, RunSubgraph, EndIteration, RaiseFromBody, ExitLoop
<1>3. ASSUME At(t, "acquiring")
      PROVE  /\ tasks'[t].pc = "acquiring" =>
                  \E i \in tasks[t].todo : /\ tasks'[t].todo = tasks[t].todo \ {i}
                                           /\ tasks'[t].nxt = tasks[t].nxt
             /\ tasks'[t].pc = "submitting" => tasks'[t].nxt = tasks[t].nxt
  <2>1. CASE \E i \in tasks[t].todo : Acquire(t, i)
    <3>1. PICK i \in tasks[t].todo : Acquire(t, i)
      BY <2>1
    <3>2. /\ tasks'[t].todo = tasks[t].todo \ {i} /\ tasks'[t].nxt = tasks[t].nxt
      BY <1>1, <3>1 DEF Acquire, Become, LoopTask
    <3> QED BY <3>2
  <2>2. CASE ReleaseSelf(t)
    <3>1. tasks'[t].nxt = tasks[t].nxt
      BY <1>1, <2>2 DEF ReleaseSelf, Become, LoopTask
    <3>2. tasks'[t].pc # "acquiring"
      BY <1>1, <2>2 DEF ReleaseSelf, Become, LoopTask
    <3> QED BY <3>1, <3>2
  <2> QED
    BY <1>3, <2>1, <2>2 DEF Worker, At, Start, Execute, ExecuteRaises, MarkDone, NextNodes, Submit,
         EnterLoop, WriteDepth, SetLoop, RunSubgraph, EndIteration, RaiseFromBody, ExitLoop
<1>4. ASSUME At(t, "submitting"), tasks'[t].pc = "submitting"
      PROVE  \E i \in tasks[t].nxt : tasks'[t].nxt = tasks[t].nxt \ {i}
  <2>1. PICK i \in tasks[t].nxt : Submit(t, i)
    BY <1>4 DEF Worker, At, Start, Execute, ExecuteRaises, MarkDone, NextNodes, Acquire,
         ReleaseSelf, EnterLoop, WriteDepth, SetLoop, RunSubgraph, EndIteration, RaiseFromBody,
         ExitLoop
  <2>2. caller = "waiting"
    <3>1. ASSUME caller # "waiting" PROVE tasks'[t].pc = "rejected"
      BY <1>1, <2>1, <3>1 DEF Submit, Become, LoopTask
    <3> QED BY <1>4, <3>1
  <2> DEFINE rest == tasks[t].nxt \ {i}
             r == [tasks[t] EXCEPT !.nxt = rest, !.pc = IF rest = {} THEN "finished" ELSE @]
             q == NewTask(Target(graph, i), tasks[t].scope, tasks[t].depth + 1)
             mid == [tasks EXCEPT ![t] = r]
  <2>3. tasks' = Append(mid, q)
    BY <2>1, <2>2 DEF Submit
  <2>4. DOMAIN mid = DOMAIN tasks /\ mid[t] = r /\ Len(mid) = Len(tasks) /\ r.nxt = rest
    BY <1>1 DEF LoopTask
  <2>5. t \in 1 .. Len(tasks) /\ Len(tasks) \in Nat
    BY <1>1
  <2> HIDE DEF r, q, mid
  <2>6. tasks'[t] = r
    BY <2>3, <2>4, <2>5
  <2> QED BY <2>4, <2>6
<1> QED BY <1>2, <1>3, <1>4

LEMMA WorkerShortens ==
  ASSUME LoopType, LoopType', loopVars \in LoopVars, NEW t \in DOMAIN tasks, Worker(t)
  PROVE  /\ TaskLeft(t)' < TaskLeft(t)
         /\ \A u \in DOMAIN tasks : u # t => TaskLeft(u)' = TaskLeft(u)
<1> DEFINE m == Len(graph.edges)
<1>1. (\E new : Steps(t, new)) \/ Begins(t)
  BY WorkerSteps
<1>2. /\ graph' = graph /\ \A u \in DOMAIN tasks : u # t => tasks'[u] = tasks[u]
      /\ t \in DOMAIN tasks'
  BY <1>1 DEF Steps, Begins
<1>3. \A u \in DOMAIN tasks : u # t => TaskLeft(u)' = TaskLeft(u)
  BY <1>2 DEF TaskLeft
<1>4. /\ tasks[t].pc \in Phases /\ tasks[t].left \in Nat /\ m \in Nat
      /\ MaxIterations \in Nat /\ tasks'[t].left \in Nat /\ tasks'[t].pc \in Phases
      /\ Cardinality(tasks[t].todo) \in 0 .. m /\ Cardinality(tasks[t].nxt) \in 0 .. m
      /\ IsFiniteSet(tasks[t].todo) /\ IsFiniteSet(tasks[t].nxt)
  <2>1. tasks'[t] \in LoopTask
    BY <1>2 DEF LoopType
  <2>2. tasks[t].pc \in Phases /\ tasks[t].left \in Nat
        /\ tasks'[t].pc \in Phases /\ tasks'[t].left \in Nat
    BY <2>1, TaskFacts DEF LoopTask
  <2> QED BY <2>2, GraphFacts, ChosenEdges, LoopAssumption
<1>5. /\ Cardinality(tasks'[t].todo) \in 0 .. m /\ Cardinality(tasks'[t].nxt) \in 0 .. m
  BY <1>2, ChosenNext DEF LeftOK
<1>6. /\ tasks'[t].pc = "entering" /\ At(t, "running") => tasks'[t].left <= MaxIterations
      /\ At(t, "acquiring") /\ tasks'[t].pc = "acquiring" =>
           \E i \in tasks[t].todo : /\ tasks'[t].todo = tasks[t].todo \ {i}
                                    /\ tasks'[t].nxt = tasks[t].nxt
      /\ At(t, "acquiring") /\ tasks'[t].pc = "submitting" => tasks'[t].nxt = tasks[t].nxt
      /\ At(t, "submitting") /\ tasks'[t].pc = "submitting" =>
           \E i \in tasks[t].nxt : tasks'[t].nxt = tasks[t].nxt \ {i}
  BY <1>2, WorkerLeft
<1>7. /\ At(t, "acquiring") /\ tasks'[t].pc = "acquiring" =>
           /\ Cardinality(tasks'[t].todo) = Cardinality(tasks[t].todo) - 1
           /\ Cardinality(tasks'[t].nxt) = Cardinality(tasks[t].nxt)
      /\ At(t, "submitting") /\ tasks'[t].pc = "submitting" =>
           Cardinality(tasks'[t].nxt) = Cardinality(tasks[t].nxt) - 1
  BY <1>4, <1>6, FS_RemoveElement
<1>8. \/ /\ <<tasks[t].pc, tasks'[t].pc>> \in
              {<<"queued", "running">>, <<"queued", "aborted">>, <<"running", "aborted">>,
               <<"opening", "aborted">>, <<"waiting", "aborted">>,
               <<"running", "executed">>, <<"executed", "done">>, <<"done", "acquiring">>,
               <<"acquiring", "acquiring">>, <<"acquiring", "submitting">>,
               <<"acquiring", "finished">>, <<"submitting", "submitting">>,
               <<"submitting", "finished">>, <<"submitting", "rejected">>,
               <<"running", "entering">>}
      \/ tasks[t].pc = "entering" /\ tasks'[t].pc = "looping" /\ tasks'[t].left = tasks[t].left
      \/ /\ tasks[t].pc = "looping" /\ tasks'[t].pc = "opening"
         /\ tasks'[t].left = tasks[t].left - 1
      \/ tasks[t].pc = "looping" /\ tasks'[t].pc = "executed"
      \/ tasks[t].pc = "waiting" /\ tasks'[t].pc = "looping" /\ tasks'[t].left <= tasks[t].left
      \/ tasks[t].pc = "opening" /\ tasks'[t].pc = "waiting" /\ tasks'[t].left = tasks[t].left
  <2>1. CASE Begins(t)
    BY <2>1 DEF Begins
  <2>2. ASSUME NEW new, Steps(t, new)
        PROVE  PhaseStep(tasks[t], tasks'[t]) /\ loopVars.brk \in BOOLEAN
    BY <2>2 DEF Steps, LoopVars
  <2>3. CASE ~Begins(t)
    <3>1. PhaseStep(tasks[t], tasks'[t])
      BY <1>1, <2>2, <2>3
    <3>2. tasks[t].pc = "waiting" /\ tasks'[t].pc = "looping" => tasks'[t].left <= tasks[t].left
      BY <1>4, <3>1 DEF PhaseStep
    <3> QED BY <3>1, <3>2 DEF PhaseStep
  <2> QED BY <2>1, <2>3
<1>9. TaskLeft(t)' < TaskLeft(t)
  <2> DEFINE old == AllLeft(tasks[t], m)
             next == AllLeft(tasks'[t], m)
  <2>1. TaskLeft(t)' = next /\ TaskLeft(t) = old
    BY <1>2 DEF TaskLeft
  <2>2. /\ tasks[t].pc = "queued" => old = 8 + 2 * m + 3 * MaxIterations
        /\ tasks[t].pc = "running" => old = 7 + 2 * m + 3 * MaxIterations
        /\ tasks[t].pc = "opening" => old = 7 + 2 * m + 3 * tasks[t].left
        /\ tasks[t].pc \in {"entering", "waiting"} => old = 6 + 2 * m + 3 * tasks[t].left
        /\ tasks[t].pc = "looping" => old = 5 + 2 * m + 3 * tasks[t].left
        /\ tasks[t].pc = "executed" => old = 4 + 2 * m
        /\ tasks[t].pc = "done" => old = 3 + 2 * m
        /\ tasks[t].pc = "acquiring" =>
             old = 2 + (Cardinality(tasks[t].todo) + Cardinality(tasks[t].nxt)) + 0
        /\ tasks[t].pc = "submitting" => old = 1 + Cardinality(tasks[t].nxt) + 0
    BY <1>4, LeftByPhase
  <2>3. /\ tasks'[t].pc = "running" => next = 7 + 2 * m + 3 * MaxIterations
        /\ tasks'[t].pc = "opening" => next = 7 + 2 * m + 3 * tasks'[t].left
        /\ tasks'[t].pc \in {"entering", "waiting"} => next = 6 + 2 * m + 3 * tasks'[t].left
        /\ tasks'[t].pc = "looping" => next = 5 + 2 * m + 3 * tasks'[t].left
        /\ tasks'[t].pc = "executed" => next = 4 + 2 * m
        /\ tasks'[t].pc = "done" => next = 3 + 2 * m
        /\ tasks'[t].pc = "acquiring" =>
             next = 2 + (Cardinality(tasks'[t].todo) + Cardinality(tasks'[t].nxt)) + 0
        /\ tasks'[t].pc = "submitting" => next = 1 + Cardinality(tasks'[t].nxt) + 0
        /\ tasks'[t].pc \in {"finished", "aborted", "rejected"} => next = 0
    BY <1>4, LeftByPhase DEF Over
  <2> SUFFICES next < old
    BY <2>1
  <2> HIDE DEF old, next, m
  <2>4. CASE tasks'[t].pc \in {"finished", "aborted", "rejected"}
    <3>1. next = 0
      BY <2>3, <2>4
    <3>2. old > 0
      <4>1. CASE tasks[t].pc \in {"queued", "running", "opening", "waiting"}
        BY <1>4, <2>2, <4>1
      <4>2. CASE tasks[t].pc \in {"acquiring", "submitting"}
        BY <1>4, <2>2, <4>2
      <4> QED BY <1>8, <2>4, <4>1, <4>2
    <3> QED BY <3>1, <3>2
  <2>5. CASE tasks[t].pc = "queued" /\ tasks'[t].pc = "running"
    BY <1>4, <2>2, <2>3, <2>5
  <2>6. CASE tasks[t].pc = "running" /\ tasks'[t].pc \in {"entering", "executed"}
    <3>1. old = 7 + 2 * m + 3 * MaxIterations
      BY <2>2, <2>6
    <3>2. next = 4 + 2 * m \/ (next = 6 + 2 * m + 3 * tasks'[t].left /\ tasks'[t].left <= MaxIterations)
      BY <1>6, <2>3, <2>6 DEF At
    <3> QED BY <1>4, <3>1, <3>2
  <2>7. CASE tasks[t].pc \in {"entering", "looping", "opening", "waiting"}
             /\ tasks'[t].pc \in {"looping", "opening", "waiting", "executed"}
    <3>1. CASE tasks[t].pc \in {"entering", "waiting"}
      <4>1. old = 6 + 2 * m + 3 * tasks[t].left /\ next = 5 + 2 * m + 3 * tasks'[t].left
            /\ tasks'[t].left <= tasks[t].left
        BY <1>4, <1>8, <2>2, <2>3, <2>7, <3>1
      <4> QED BY <1>4, <4>1
    <3>2. CASE tasks[t].pc = "looping"
      <4>1. old = 5 + 2 * m + 3 * tasks[t].left
        BY <2>2, <3>2
      <4>2. next = 4 + 2 * m \/ (/\ next = 7 + 2 * m + 3 * tasks'[t].left
                                 /\ tasks'[t].left = tasks[t].left - 1)
        BY <1>8, <2>3, <3>2
      <4> QED BY <1>4, <4>1, <4>2
    <3>3. CASE tasks[t].pc = "opening"
      <4>1. old = 7 + 2 * m + 3 * tasks[t].left /\ next = 6 + 2 * m + 3 * tasks'[t].left
            /\ tasks'[t].left = tasks[t].left
        BY <1>8, <2>2, <2>3, <2>7, <3>3
      <4> QED BY <1>4, <4>1
    <3> QED BY <2>7, <3>1, <3>2, <3>3
  <2>8. CASE tasks[t].pc \in {"executed", "done"}
    <3>1. \/ old = 4 + 2 * m /\ next = 3 + 2 * m
          \/ old = 3 + 2 * m
             /\ next = 2 + (Cardinality(tasks'[t].todo) + Cardinality(tasks'[t].nxt)) + 0
      BY <1>8, <2>2, <2>3, <2>8
    <3> QED BY <1>4, <1>5, <3>1
  <2>9. CASE tasks[t].pc = "acquiring" /\ tasks'[t].pc = "acquiring"
    BY <1>4, <1>5, <1>7, <2>2, <2>3, <2>9 DEF At
  <2>10. CASE tasks[t].pc = "acquiring" /\ tasks'[t].pc = "submitting"
    <3>1. Cardinality(tasks'[t].nxt) = Cardinality(tasks[t].nxt)
      BY <1>6, <2>10 DEF At
    <3> QED BY <1>4, <2>2, <2>3, <2>10, <3>1
  <2>11. CASE tasks[t].pc = "submitting" /\ tasks'[t].pc = "submitting"
    BY <1>4, <1>5, <1>7, <2>2, <2>3, <2>11 DEF At
  <2> QED BY <1>8, <2>4, <2>5, <2>6, <2>7, <2>8, <2>9, <2>10, <2>11
<1> QED BY <1>3, <1>9

\* Tasks do not go away.
LEMMA TasksStay ==
  ASSUME LoopInv, StallInv, Next
  PROVE  DOMAIN tasks \subseteq DOMAIN tasks'
<1>1. ASSUME NEW t \in DOMAIN tasks, Worker(t) PROVE DOMAIN tasks \subseteq DOMAIN tasks'
  <2>1. (\E new : Steps(t, new)) \/ Begins(t)
    BY <1>1, WorkerSteps DEF LoopInv, StallInv
  <2> QED BY <2>1 DEF Steps, Begins
<1>2. CASE Wake \/ Join \/ Terminated
  BY <1>2 DEF Wake, Join, Terminated, vars, pool
<1>3. CASE Run
  <2>1. scopes = <<>> /\ LoopType
    BY <1>3 DEF Run, LoopInv, OwnInv
  <2>2. \A t \in DOMAIN tasks : tasks[t].scope \in DOMAIN scopes
    BY <2>1 DEF LoopType
  <2> QED BY <2>1, <2>2
<1> QED BY <1>1, <1>2, <1>3 DEF Next

(***************************************************************************)
(* Every task comes to an end, loop-nodes with all their iterations        *)
(* included: what it has left to do is a number, every step of its worker  *)
(* makes that smaller, and no step of anybody else makes it larger.        *)
(***************************************************************************)
THEOREM TasksAreFinite ==
  Spec => [](\A t \in DOMAIN tasks : TaskLeft(t) \in Nat) /\ [][Shortens]_vars
<1>1. LoopInv => \A t \in DOMAIN tasks : TaskLeft(t) \in Nat
  BY LeftIsNatural DEF LoopInv
<1>2. LoopInv /\ LoopInv' /\ StallInv /\ [Next]_vars => [Shortens]_vars
  <2> SUFFICES ASSUME LoopInv, LoopInv', StallInv, Next, NEW t \in DOMAIN tasks
               PROVE  /\ Worker(t) => TaskLeft(t)' < TaskLeft(t)
                      /\ TaskLeft(t)' <= TaskLeft(t)
    BY DEF Shortens
  <2>1. LoopInv /\ StallInv /\ Next /\ LoopType /\ LoopType' /\ loopVars \in LoopVars
        /\ TaskLeft(t) \in Nat
    BY LeftIsNatural DEF LoopInv, StallInv
  <2>2. ASSUME Worker(t) PROVE TaskLeft(t)' < TaskLeft(t)
    BY <2>1, <2>2, WorkerShortens
  <2>3. TaskLeft(t)' = TaskLeft(t) \/ TaskLeft(t)' < TaskLeft(t)
    <3>1. CASE \E u \in DOMAIN tasks : Worker(u)
      BY <2>1, <3>1, WorkerShortens
    <3>2. CASE Wake \/ Join \/ Terminated
      <4>1. tasks' = tasks /\ graph' = graph
        BY <3>2 DEF Wake, Join, Terminated, vars, pool
      <4> QED BY <4>1 DEF TaskLeft
    <3>3. CASE Run
      <4>1. scopes = <<>>
        BY <3>3 DEF Run, LoopInv, OwnInv
      <4>2. tasks[t].scope \in DOMAIN scopes
        BY <2>1, TaskFacts
      <4> QED BY <4>1, <4>2
    <3> QED BY <3>1, <3>2, <3>3 DEF Next
  <2>4. TaskLeft(t)' \in Nat \/ TaskLeft(t)' = TaskLeft(t)
    <3>1. CASE t \in DOMAIN tasks'
      BY <2>1, <3>1, ChosenNext DEF LeftOK
    <3>2. t \in DOMAIN tasks'
      BY <2>1, TasksStay
    <3> QED BY <3>1, <3>2
  <2> QED BY <2>1, <2>2, <2>3, <2>4
<1> QED BY <1>1, <1>2, LoopInvariant, StallInvariant, PTL DEF Spec
================================================================================
