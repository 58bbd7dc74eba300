----------------------------- MODULE MCScheduler -----------------------------
(***************************************************************************)
(* Small workflows for the scheduler runs.  Node names: s is the start     *)
(* node, m usually a join.                                                 *)
(***************************************************************************)
EXTENDS Scheduler

CONSTANTS s, a, b, c, m, bad,  \* nodes
          yes, no              \* branches

Plain(x, y) == [source |-> x, target |-> y, branch |-> NoBranch]
When(x, br, y) == [source |-> x, target |-> y, branch |-> br]

\* A workflow of main-graph nodes; special maps some nodes to their type.
Workflow(nodes, edges, joins, conditions, forms) ==
  [nodes |-> nodes, edges |-> edges, join |-> joins,
   type |-> [n \in nodes |-> IF n = s THEN "start-node"
                             ELSE IF n \in conditions THEN "condition-node"
                             ELSE IF n \in forms THEN "form-node"
                             ELSE "plain-node"],
   container |-> [n \in nodes |-> NoNode]]

-----------------------------------------------------------------------------
(* Every DAG on s, a, b, c, m in which s is the only source, with every    *)
(* choice of AND joins among the nodes with two or more predecessors.      *)

Pairs == <<Plain(s, a), Plain(s, b), Plain(s, c), Plain(s, m), Plain(a, b),
           Plain(a, c), Plain(a, m), Plain(b, c), Plain(b, m), Plain(c, m)>>

Pick(S) ==
  LET wanted(e) == e \in S IN SelectSeq(Pairs, wanted)

AllDags ==
  LET edgeSets == {S \in SUBSET {Pairs[i] : i \in DOMAIN Pairs} :
                     \A n \in {a, b, c, m} : \E e \in S : e.target = n}
      joinable(S) == {n \in {a, b, c, m} : Cardinality({e \in S : e.target = n}) >= 2}
  IN  UNION {{Workflow({s, a, b, c, m}, Pick(S), J, {}, {}) : J \in SUBSET joinable(S)}
               : S \in edgeSets}

\* The same on s, a, b, m with a condition at a: an edge of a carries a branch
\* or none.
BranchDags ==
  LET label(e, f) == IF e.source = a THEN [e EXCEPT !.branch = f[e.target]] ELSE e
      edges == <<Plain(s, a), Plain(s, b), Plain(a, b), Plain(a, m), Plain(b, m)>>
      labelled(S, f) == LET wanted(e) == e \in S
                            picked == SelectSeq(edges, wanted)
                        IN  [i \in DOMAIN picked |-> label(picked[i], f)]
      edgeSets == {S \in SUBSET {edges[i] : i \in DOMAIN edges} :
                     \A n \in {a, b, m} : \E e \in S : e.target = n}
  IN  {Workflow({s, a, b, m}, labelled(S, f), J, {a}, {}) :
         S \in edgeSets, J \in SUBSET {m}, f \in [{b, m} -> {NoBranch, yes, no}]}

(***************************************************************************)
(* Runs that end early: the node bad may fail, and forms interrupt.         *)
(* s -> a and s -> bad lead to the join m; the same with two forms in      *)
(* parallel, and with a node before the join.                              *)
(***************************************************************************)
ForkEdges == <<Plain(s, a), Plain(s, bad), Plain(a, m), Plain(bad, m)>>

ForkJoin == Workflow({s, a, bad, m}, ForkEdges, {m}, {}, {})

ParallelForms == Workflow({s, a, bad, m}, ForkEdges, {m}, {}, {a, bad})

FormBeside == Workflow({s, a, bad, c, m},
  <<Plain(s, a), Plain(s, bad), Plain(bad, c), Plain(c, m), Plain(a, m)>>, {m}, {}, {a})

\* A condition with an edge for each branch and one for both, then a join.
Switch == Workflow({s, a, bad, c, m},
  <<Plain(s, a), When(a, yes, bad), When(a, no, c), Plain(a, m), Plain(bad, m), Plain(c, m)>>,
  {}, {a}, {})

AbortGraphs == {ForkJoin, ParallelForms, FormBeside, Switch}

AllGraphs == AllDags \cup BranchDags \cup AbortGraphs

\* The join hangs on one branch of b; the other branch leads elsewhere.
SkippedBranch == {Workflow({s, a, b, c, m},
  <<Plain(s, a), Plain(s, b), Plain(a, m), When(b, yes, m), When(b, no, c)>>,
  {m}, {b}, {})}
=============================================================================
