---------------------------- MODULE MCLoopExecutor ----------------------------
(***************************************************************************)
(* Small workflows with loops.  s starts the main graph, l and k are       *)
(* loop-nodes with loop-starts ls and ks, the other names are nodes of a   *)
(* body or of the main graph.                                              *)
(***************************************************************************)
EXTENDS LoopExecutor

CONSTANTS s, l, k, ls, ks, p, q, m, e,  \* nodes
          yes, no                       \* branches

Plain(x, y) == [source |-> x, target |-> y, branch |-> NoBranch]
When(x, br, y) == [source |-> x, target |-> y, branch |-> br]

\* body maps the nodes inside a loop to it; special maps nodes to their type.
Workflow(nodes, edges, joins, body, special) ==
  [nodes |-> nodes, edges |-> edges, join |-> joins,
   type |-> [n \in nodes |-> IF n \in DOMAIN special THEN special[n]
                             ELSE IF n = s THEN "start-node"
                             ELSE IF n \in {l, k} THEN "loop-node"
                             ELSE IF n \in {ls, ks} THEN "loop-start-node"
                             ELSE "plain-node"],
   container |-> [n \in nodes |-> IF n \in DOMAIN body THEN body[n] ELSE NoNode]]

None == [n \in {} |-> NoNode]

\* A body that forks and joins; p may fail, q may be a form.
Fork(joins, kind) ==
  Workflow({s, l, ls, p, q, m}, <<Plain(s, l), Plain(ls, p), Plain(ls, q),
                                  Plain(p, m), Plain(q, m)>>,
           joins, [n \in {ls, p, q, m} |-> l], [n \in {q} |-> kind])

\* A condition m decides between breaking off and an ordinary node q.
Until(kind) ==
  Workflow({s, l, ls, m, e, q}, <<Plain(s, l), Plain(ls, m), When(m, yes, e), When(m, no, q)>>,
           {}, [n \in {ls, m, e, q} |-> l],
           [n \in {m, e} |-> IF n = m THEN "condition-node" ELSE kind])

\* A loop that may break, then another loop.
Sequence ==
  Workflow({s, l, ls, e, k, ks}, <<Plain(s, l), Plain(ls, e), Plain(l, k)>>, {},
           [n \in {ls, e, ks} |-> IF n = ks THEN k ELSE l],
           [n \in {e} |-> "loop-break-node"])

\* Loop k inside loop l; p of the inner body may fail, m follows k.
Nested(type) ==
  Workflow({s, l, ls, k, m, ks, p}, <<Plain(s, l), Plain(ls, k), Plain(k, m), Plain(ks, p)>>,
           {}, [n \in {ls, k, m, ks, p} |-> IF n \in {ks, p} THEN k ELSE l],
           [n \in {p} |-> type])

\* A body too long for the depth limit.
Deep ==
  Workflow({s, l, ls, p, q, m, e}, <<Plain(s, l), Plain(ls, p), Plain(p, q), Plain(q, m), Plain(m, e)>>,
           {}, [n \in {ls, p, q, m, e} |-> l], None)

\* Two loops side by side, without breaks.
Beside ==
  Workflow({s, l, ls, k, ks}, <<Plain(s, l), Plain(s, k)>>, {},
           [n \in {ls, ks} |-> IF n = ks THEN k ELSE l], None)

Sound ==
  {Fork(J, kind) : J \in {{}, {m}}, kind \in {"plain-node", "form-node"}}
    \cup {Until(kind) : kind \in Ends}
    \cup {Sequence, Deep, Nested("plain-node"), Nested("form-node"), Beside}

\* What the theorem about breaks asks of a workflow holds of these.
ASSUME ApartAssumption == \A g \in Sound : LoopsAlone(g)
=============================================================================
