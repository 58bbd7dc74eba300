---------------------------- MODULE WorkflowGraph ----------------------------
(***************************************************************************)
(* The workflow graph of apps/agent/engine/graph.py: nodes, edges in the   *)
(* order they were added, and the queries the executor asks of them.       *)
(*                                                                         *)
(* A graph is a record                                                     *)
(*   nodes      the node ids                                               *)
(*   edges      the edges in insertion order; an edge is named by its      *)
(*              index, so that two parallel edges stay two edges           *)
(*   type       the node_type of each node                                 *)
(*   join       the nodes whose config says join_mode == "AND"             *)
(*   container  the loop_container of each node (NoNode: the main graph)   *)
(***************************************************************************)
EXTENDS Integers, Sequences, FiniteSets

CONSTANTS
  Node,      \* node ids
  Branch,    \* branch ids a condition-node may select
  NoNode,    \* None where a node id is optional
  NoBranch   \* None where a branch id is optional

ASSUME GraphAssumption == /\ NoNode \notin Node
                          /\ NoBranch \notin Branch

NodeType == {"start-node", "condition-node", "form-node",
             "loop-node", "loop-start-node", "loop-break-node",
             "loop-continue-node", "plain-node"}

Edge == [source : Node, target : Node, branch : Branch \cup {NoBranch}]

IsGraph(g) ==
  /\ g.nodes \subseteq Node
  /\ g.edges \in Seq(Edge)
  /\ g.type \in [g.nodes -> NodeType]
  /\ g.join \subseteq g.nodes
  /\ g.container \in [g.nodes -> g.nodes \cup {NoNode}]
  /\ \A i \in DOMAIN g.edges : /\ g.edges[i].source \in g.nodes
                               /\ g.edges[i].target \in g.nodes

-----------------------------------------------------------------------------
(* Queries.                                                                *)

\* Graphs come from JSON, so an edge is an index of the "edges" list.
OutEdges(g, n) == {i \in DOMAIN g.edges : g.edges[i].source = n}

Predecessors(g, n) ==
  {g.edges[i].source : i \in {j \in DOMAIN g.edges : g.edges[j].target = n}}

RequiresAll(g, n) == n \in g.join

Starts(g) ==
  {n \in g.nodes : Predecessors(g, n) = {} /\ g.type[n] = "start-node"}

HasStart(g) == Cardinality(Starts(g)) = 1

GetStart(g) == CHOOSE n \in Starts(g) : TRUE

\* No two edges connect the same nodes; validate() does not ask for it.
NoParallelEdges(g) ==
  \A i, j \in DOMAIN g.edges :
    g.edges[i].source = g.edges[j].source /\ g.edges[i].target = g.edges[j].target => i = j

-----------------------------------------------------------------------------
(* The structural part of validate(): the loop containers are closed.      *)

LoopNodes(g) == {n \in g.nodes : g.type[n] = "loop-node"}

ContainersClosed(g) ==
  /\ \A n \in g.nodes : g.container[n] \in LoopNodes(g) \cup {NoNode}
  /\ \A l \in LoopNodes(g) :
       \E n \in g.nodes : g.container[n] = l /\ g.type[n] = "loop-start-node"

(***************************************************************************)
(* The edges _check_acyclic counts: it ignores self edges and every edge   *)
(* into the body of a loop.                                                *)
(***************************************************************************)
Counted(g, e) == e.source # e.target /\ g.container[e.target] = NoNode

-----------------------------------------------------------------------------
(* Which out-edges _next_nodes follows, before it looks at the scope: the  *)
(* target lies in the same container, and a branch edge carries the branch *)
(* the node returned.                                                      *)

InBoundary(g, container, n) ==
  /\ container # NoNode => g.container[n] = container
  /\ container = NoNode => g.container[n] = NoNode

Routed(g, container, n, branch) ==
  {i \in OutEdges(g, n) :
     /\ InBoundary(g, container, g.edges[i].target)
     /\ g.edges[i].branch \in {NoBranch, branch}}

\* The node an edge leads to.
Target(g, i) == g.edges[i].target
=============================================================================
