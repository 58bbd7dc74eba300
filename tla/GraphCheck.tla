------------------------------ MODULE GraphCheck ------------------------------
(***************************************************************************)
(* WorkflowGraph.validate, which every save and publish of a workflow goes *)
(* through: the start node, the loop containers, then Kahn's algorithm as  *)
(* _check_acyclic runs it, one iteration of its while loop per step.       *)
(***************************************************************************)
EXTENDS WorkflowGraph, SequencesExt

CONSTANT Given   \* the workflows handed to validate()

ASSUME GraphCheckAssumption == \A g \in Given : IsGraph(g) /\ IsFiniteSet(g.nodes)

VARIABLES
  self,     \* the workflow
  verdict,  \* "unchecked", "counting", "accepted" or the error raised
  indeg,    \* in-degrees still to be accounted for
  queue,    \* the deque q
  seen      \* nodes popped so far

checkVars == <<self, verdict, indeg, queue, seen>>

\* The counted edges from m to n, and all that lead to n.
Between(m, n) ==
  {i \in OutEdges(self, m) : Target(self, i) = n /\ Counted(self, self.edges[i])}

InDegree(n) ==
  Cardinality({i \in DOMAIN self.edges :
                 Target(self, i) = n /\ Counted(self, self.edges[i])})

CheckInit ==
  /\ self \in Given
  /\ verdict = "unchecked"
  /\ indeg = [n \in self.nodes |-> 0]
  /\ queue = <<>>
  /\ seen = 0

Reject(reason) ==
  /\ verdict' = reason
  /\ UNCHANGED <<self, indeg, queue, seen>>

RejectStart ==
  /\ verdict = "unchecked"
  /\ ~HasStart(self)
  /\ Reject("no unique start")

RejectContainers ==
  /\ verdict = "unchecked"
  /\ HasStart(self) /\ ~ContainersClosed(self)
  /\ Reject("container not closed")

\* The nodes without counted in-edges enter the queue, in some dict order.
StartCounting ==
  /\ verdict = "unchecked"
  /\ HasStart(self) /\ ContainersClosed(self)
  /\ verdict' = "counting"
  /\ indeg' = [n \in self.nodes |-> InDegree(n)]
  /\ queue' \in SetToSeqs({n \in self.nodes : InDegree(n) = 0})
  /\ UNCHANGED <<self, seen>>

\* What is left of n's in-degree once m is popped.
CountDown(m, n) == indeg[n] - Cardinality(Between(m, n))

PopLeft ==
  /\ verdict = "counting" /\ queue # <<>>
  /\ LET cur   == Head(queue)
         freed == {n \in self.nodes : Between(cur, n) # {} /\ CountDown(cur, n) = 0}
     IN  /\ seen' = seen + 1
         /\ indeg' = [n \in self.nodes |-> CountDown(cur, n)]
         /\ \E order \in SetToSeqs(freed) : queue' = Tail(queue) \o order
  /\ UNCHANGED <<self, verdict>>

\* Variant: an emptied queue is taken as success.
AcceptAlways ==
  /\ verdict = "counting" /\ queue = <<>>
  /\ verdict' = "accepted"
  /\ UNCHANGED <<self, indeg, queue, seen>>

Decide ==
  /\ verdict = "counting" /\ queue = <<>>
  /\ verdict' = IF seen = Cardinality(self.nodes) THEN "accepted" ELSE "cycle"
  /\ UNCHANGED <<self, indeg, queue, seen>>

\* validate() has returned or raised.
Decided ==
  /\ verdict \notin {"unchecked", "counting"}
  /\ UNCHANGED checkVars

CheckNext == RejectStart \/ RejectContainers \/ StartCounting \/ PopLeft \/ Decide \/ Decided

CheckSpec == CheckInit /\ [][CheckNext]_checkVars

-----------------------------------------------------------------------------
\* Where the counted edges of n lead.
Onward(n) ==
  {Target(self, i) : i \in {j \in OutEdges(self, n) : Counted(self, self.edges[j])}}

EdgeClosed(S) == \A n \in S : Onward(n) \subseteq S

\* Every node that counted edges lead to from n, one or several.
Reach(n) ==
  {m \in self.nodes : \A S \in SUBSET self.nodes :
                        Onward(n) \subseteq S /\ EdgeClosed(S) => m \in S}

(***************************************************************************)
(* Kahn's verdict is exact: among the edges that _check_acyclic counts, a  *)
(* graph is accepted just when no node reaches itself.                     *)
(***************************************************************************)
AcceptsExactlyAcyclic ==
  verdict \in {"accepted", "cycle"} =>
    (verdict = "accepted" <=> \A n \in self.nodes : n \notin Reach(n))
=============================================================================
