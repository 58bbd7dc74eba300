------------------------------- MODULE Dataflow -------------------------------
(***************************************************************************)
(* What Executor.run promises its caller, without pool, counters or locks: *)
(* nodes are released, each released node completes at most once, a node   *)
(* is released by a completed predecessor, and when the run reports        *)
(* success every released node has completed and nothing happens any more. *)
(***************************************************************************)
CONSTANT Node

VARIABLES
  succ,      \* the edges of the workflow, as a set of pairs
  released,  \* nodes that were allowed to run
  completed, \* nodes that have run
  outcome    \* "running", "returned" or "raised"

vars == <<succ, released, completed, outcome>>

Init ==
  /\ succ \subseteq Node \X Node
  /\ released = {}
  /\ completed = {}
  /\ outcome = "running"

\* The run releases its entry node.
Begin(n) ==
  /\ outcome = "running"
  /\ released = {}
  /\ released' = {n}
  /\ UNCHANGED <<succ, completed, outcome>>

Complete(n) ==
  /\ outcome = "running"
  /\ n \in released \ completed
  /\ completed' = completed \cup {n}
  /\ UNCHANGED <<succ, released, outcome>>

\* A completed node releases successors that were not released before.
Release(n, S) ==
  /\ outcome = "running"
  /\ n \in completed
  /\ S \subseteq {m \in Node : <<n, m>> \in succ} \ (released \cup completed)
  /\ released' = released \cup S
  /\ UNCHANGED <<succ, completed, outcome>>

Succeed ==
  /\ outcome = "running"
  /\ released # {}
  /\ released \subseteq completed
  /\ outcome' = "returned"
  /\ UNCHANGED <<succ, released, completed>>

\* A failed run may leave released nodes that never run.
Raise ==
  /\ outcome = "running"
  /\ ~(released \subseteq completed)
  /\ outcome' = "raised"
  /\ UNCHANGED <<succ, released, completed>>

Next ==
  \/ \E n \in Node : Begin(n) \/ Complete(n)
  \/ \E n \in Node, S \in SUBSET Node : Release(n, S)
  \/ Succeed
  \/ Raise

Spec == Init /\ [][Next]_vars
=============================================================================
