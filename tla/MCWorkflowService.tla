-------------------------- MODULE MCWorkflowService --------------------------
(***************************************************************************)
(* Small workflows with forms for the runs of the service.                 *)
(***************************************************************************)
EXTENDS WorkflowService

CONSTANTS s, a, b, c, f, g,  \* nodes; f and g may be forms
          yes, no            \* branches of a condition

Plain(x, y) == [source |-> x, target |-> y, branch |-> NoBranch]

When(x, y, z) == [source |-> x, target |-> y, branch |-> z]

Workflow(nodes, edges, joins, forms) ==
  [nodes |-> nodes, edges |-> edges, join |-> joins,
   type |-> [n \in nodes |-> IF n = s THEN "start-node"
                             ELSE IF n \in forms THEN "form-node" ELSE "plain-node"],
   container |-> [n \in nodes |-> NoNode]]

-----------------------------------------------------------------------------
(***************************************************************************)
(* Workflows in which the form stands alone: every other node lies before  *)
(* or behind it, and no edge passes it by.                                 *)
(***************************************************************************)
Chain == Workflow({s, a, f, b}, <<Plain(s, a), Plain(a, f), Plain(f, b)>>, {}, {f})

ForkBehind(joins) ==
  Workflow({s, f, a, b, c}, <<Plain(s, f), Plain(f, a), Plain(f, b), Plain(a, c), Plain(b, c)>>,
           joins, {f})

ForkBefore(joins) ==
  Workflow({s, a, b, f, c}, <<Plain(s, a), Plain(s, b), Plain(a, f), Plain(b, f), Plain(f, c)>>,
           joins, {f})

Alone == {Chain, ForkBehind({}), ForkBehind({c}), ForkBefore({f})}

\* A form beside another branch, a form that waits for one of two branches
\* only, and two forms side by side before a join.
Beside == Workflow({s, f, a, b}, <<Plain(s, f), Plain(s, a), Plain(a, b)>>, {}, {f})

TwoForms == Workflow({s, f, g, c}, <<Plain(s, f), Plain(s, g), Plain(f, c), Plain(g, c)>>,
                     {c}, {f, g})

Parallel == {Beside, ForkBefore({}), TwoForms}

\* One form after the other.
Series == {Workflow({s, f, g}, <<Plain(s, f), Plain(f, g)>>, {}, {f, g})}

\* A condition behind the form: only one of its branches comes back to c, which
\* an edge that passes the form by may have activated before the interrupt.
Decides ==
  [Workflow({s, f, b, a, g, c},
            <<Plain(s, f), Plain(f, b), When(b, a, yes), When(b, g, no),
              Plain(a, c), Plain(s, c)>>, {}, {f})
   EXCEPT !.type[b] = "condition-node"]

\* Workflows the editor saves between two runs.
Edited == {Chain, Workflow({s, f}, <<Plain(s, f)>>, {}, {f})}

AllForms == Alone \cup Parallel \cup Series \cup {Decides} \cup Edited
=============================================================================
