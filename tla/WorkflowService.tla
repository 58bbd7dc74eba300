---------------------------- MODULE WorkflowService ----------------------------
(***************************************************************************)
(* Executing, interrupting and resuming workflows: agent/services.py over  *)
(* the scheduler, with the one workflow_execution row that                 *)
(* engine/persistence.py keeps for an application.                         *)
(*                                                                         *)
(* execute() runs the draft and, when a form interrupts it, saves done,    *)
(* the form's node and the context.  resume() rebuilds the run from the    *)
(* row, sets _form_submitted and starts at the saved node.  The steps of   *)
(* the run in between are those of Scheduler.  The editor (agent/views.py)  *)
(* saves the draft and publishes it: a version is a copy of the draft as   *)
(* the request has read it.                                                *)
(***************************************************************************)
EXTENDS Scheduler

CONSTANTS
  Saved,    \* workflows the editor may save over the draft
  MaxRuns,  \* bound: runs of one behaviour
  Publisher \* requests that publish the application

ASSUME ServiceAssumption ==
  /\ Saved \subseteq Graphs
  /\ MaxRuns \in Nat

VARIABLES
  draft,    \* application.work_flow
  row,      \* the workflow_execution row, or NoRow
  session,  \* what the run in progress was started by
  runs,     \* runs started so far
  versions, \* application_version rows: graph and is_published
  publish   \* what each publishing request has read

published   == <<versions, publish>>
service     == <<draft, row, session, runs, published>>
serviceVars == <<vars, service>>

NoRow == [status |-> "none"]

NotYet == [at |-> "start"]

ServiceInit ==
  /\ Init
  /\ draft = graph
  /\ row = NoRow
  /\ session = "none"
  /\ runs = 0
  /\ versions = <<>>
  /\ publish = [p \in Publisher |-> NotYet]

MayStart == session = "none" /\ runs < MaxRuns

\* execute(): a fresh store, and a run of the draft from its start node.
ExecuteDraft ==
  /\ MayStart
  /\ graph' = draft
  /\ entry' = GetStart(draft)
  /\ submitted' = FALSE
  /\ store' = {}
  /\ Launch(entry', {})
  /\ session' = "execute"
  /\ runs' = runs + 1
  /\ UNCHANGED <<draft, row, published>>

\* Variant: run() is not given the saved node to start from.
ResumeFromStart(filled) ==
  /\ MayStart
  /\ row # NoRow
  /\ graph' = row.graph
  /\ entry' = GetStart(row.graph)
  /\ submitted' = filled
  /\ store' = row.store
  /\ Launch(entry', row.done)
  /\ session' = "resume"
  /\ runs' = runs + 1
  /\ UNCHANGED <<draft, row, published>>

\* Variant: run() is not given pre_done.
ResumeForgetful(filled) ==
  /\ MayStart
  /\ row # NoRow
  /\ graph' = row.graph
  /\ entry' = row.next
  /\ submitted' = filled
  /\ store' = row.store
  /\ Launch(entry', {})
  /\ session' = "resume"
  /\ runs' = runs + 1
  /\ UNCHANGED <<draft, row, published>>

(***************************************************************************)
(* resume(): the graph, done set and context of the row, from its next     *)
(* node.  filled is FALSE for an empty form, which a form-node takes for a *)
(* missing one.                                                            *)
(***************************************************************************)
Resume(filled) ==
  /\ MayStart
  /\ row # NoRow
  /\ graph' = row.graph
  /\ entry' = row.next
  /\ submitted' = filled
  /\ store' = row.store
  /\ Launch(entry', row.done)
  /\ session' = "resume"
  /\ runs' = runs + 1
  /\ UNCHANGED <<draft, row, published>>

\* The graph of a row is written when the row is created, and kept.
RowGraph == IF row = NoRow THEN graph ELSE row.graph

SavedRow == [status |-> "WAIT_USER", graph |-> RowGraph,
             done |-> done, next |-> error.node, store |-> store]

\* Variant: the snapshot is taken before the workers have stopped.
SnapshotEarly ==
  /\ session = "execute" /\ caller \in {"shutdown", "raised"} /\ error.kind = "interrupt"
  /\ row' = SavedRow
  /\ session' = "none"
  /\ UNCHANGED <<vars, draft, runs, published>>

\* execute() catches WorkflowInterrupt and saves the snapshot.
Snapshot ==
  /\ session = "execute" /\ caller = "raised" /\ error.kind = "interrupt"
  /\ row' = SavedRow
  /\ session' = "none"
  /\ UNCHANGED <<vars, draft, runs, published>>

\* Every other end of a run leaves the row alone: success, a failure, and an
\* interrupt of a resumed run, which resume() does not catch.
Finish ==
  /\ caller \in {"returned", "raised"}
  /\ session = "resume" \/ (session = "execute" /\ error.kind # "interrupt")
  /\ session' = "none"
  /\ UNCHANGED <<vars, draft, row, runs, published>>

\* The editor saves another workflow; only work_flow and name are written.
Edit(g) ==
  /\ g # draft
  /\ runs < MaxRuns
  /\ draft' = g
  /\ UNCHANGED <<vars, row, session, runs, published>>

(***************************************************************************)
(* Publishing: the application is read and its draft validated; then one   *)
(* transaction unpublishes the versions its UPDATE sees, which are the     *)
(* committed ones, and creates the new one.                                *)
(***************************************************************************)
ReadDraft(p) ==
  /\ publish[p].at = "start"
  /\ publish' = [publish EXCEPT ![p] = [at |-> "read", graph |-> draft]]
  /\ UNCHANGED <<vars, draft, row, session, runs, versions>>

Published == {v \in DOMAIN versions : versions[v].is_published}

\* Variant: the UPDATE runs outside the transaction.
UnpublishAlone(p) ==
  /\ publish[p].at = "read"
  /\ publish' = [publish EXCEPT ![p] = [at |-> "unpublished", graph |-> @.graph, seen |-> {}]]
  /\ versions' = [v \in DOMAIN versions |-> [versions[v] EXCEPT !.is_published = FALSE]]
  /\ UNCHANGED <<vars, draft, row, session, runs>>

Unpublish(p) ==
  /\ publish[p].at = "read"
  /\ publish' = [publish EXCEPT ![p] =
       [at |-> "unpublished", graph |-> @.graph, seen |-> Published]]
  /\ UNCHANGED <<vars, draft, row, session, runs, versions>>

CommitVersion(p) ==
  /\ publish[p].at = "unpublished"
  /\ versions' = Append(
       [v \in DOMAIN versions |->
          IF v \in publish[p].seen THEN [versions[v] EXCEPT !.is_published = FALSE]
                                   ELSE versions[v]],
       [graph |-> publish[p].graph, is_published |-> TRUE])
  /\ publish' = [publish EXCEPT ![p] = [at |-> "published"]]
  /\ UNCHANGED <<vars, draft, row, session, runs>>

Publish(p) == ReadDraft(p) \/ Unpublish(p) \/ CommitVersion(p)

\* The scheduler's own steps; a run is started by ExecuteDraft and Resume.
Running ==
  /\ session # "none"
  /\ \/ Wake
     \/ Join
     \/ \E t \in DOMAIN tasks : Worker(t)
  /\ UNCHANGED service

\* No run may be started any more.
Closed ==
  /\ session = "none" /\ runs = MaxRuns
  /\ UNCHANGED serviceVars

ServiceNext ==
  \/ ExecuteDraft
  \/ \E filled \in BOOLEAN : Resume(filled)
  \/ Snapshot
  \/ Finish
  \/ \E g \in Saved : Edit(g)
  \/ \E p \in Publisher : Publish(p)
  \/ Running
  \/ Closed

ServiceSpec == ServiceInit /\ [][ServiceNext]_serviceVars

-----------------------------------------------------------------------------
(* Properties.                                                             *)

(***************************************************************************)
(* The context saved for a resume belongs to the done set saved with it: a *)
(* node counts as done exactly when its variables are in the context, so   *)
(* no worker is between write_result and done.add when a run is saved.     *)
(***************************************************************************)
SnapshotIsExact == row # NoRow => row.store = row.done

(***************************************************************************)
(* A resumed run executes no node that the interrupted run has completed,  *)
(* however often the row is resumed.                                       *)
(***************************************************************************)
ResumeRepeatsNothing ==
  session = "resume" => \A t \in DOMAIN tasks : tasks[t].node \notin row.done

\* The edges a completed node is sure to follow: those without a branch, and
\* if they lead to an AND join, with no branch edge beside them.
Certain ==
  {i \in DOMAIN graph.edges :
     /\ graph.edges[i].branch = NoBranch
     /\ InBoundary(graph, NoNode, Target(graph, i))
     /\ RequiresAll(graph, Target(graph, i)) => Unconditional(Target(graph, i))}

\* The nodes that certain edges connect the saved form with, through nodes
\* that were not done.
BehindForm ==
  {n \in graph.nodes :
     \A C \in SUBSET Node :
       /\ row.next \in C
       /\ \A i \in Certain :
            graph.edges[i].source \in C => Target(graph, i) \in C \cup row.done
       => n \in C}

(***************************************************************************)
(* When the run was saved, nothing but the form and what lies behind it    *)
(* was left to do.                                                         *)
(***************************************************************************)
OnlyFormLeft ==
  \A i \in Certain :
    graph.edges[i].source \in row.done => Target(graph, i) \in row.done \cup BehindForm

(***************************************************************************)
(* "After an interrupt the run continues from the first unfinished node"   *)
(* (persistence.py): if only the form was left, a resumed run that returns *)
(* has completed the workflow: no certain edge leads from a done node to   *)
(* one that is not.  A form beside another branch is out of this: what the *)
(* abort cut off there is never run.                                       *)
(***************************************************************************)
ResumeCompletes ==
  session = "resume" /\ caller = "returned" /\ OnlyFormLeft =>
    \A i \in Certain : graph.edges[i].source \in done => Target(graph, i) \in done

(***************************************************************************)
(* A published application stays published: at no moment between two       *)
(* publishing requests, however they interleave, does a reader find no     *)
(* published version.                                                      *)
(***************************************************************************)
StaysPublished == versions # <<>> => Published # {}
=============================================================================
