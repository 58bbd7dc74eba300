----------------------------- MODULE MCAlgorithms -----------------------------
(***************************************************************************)
(* The two algorithms that run alone on whatever input they are given: the *)
(* validation of a workflow and the splitting of a text.  A behaviour runs *)
(* one of them, on each small input.                                       *)
(***************************************************************************)
EXTENDS GraphCheck, SplitModel

CONSTANTS
  st, n1, n2, n3,  \* main-graph nodes; st has type start-node
  lp, bd           \* a loop-node and a node of its body

Arrow(x, y) == [source |-> x, target |-> y, branch |-> NoBranch]

\* The edges of a set of pairs, in a fixed order.
Order == <<st, n1, n2, n3, lp, bd>>
AllPairs == [i \in 1 .. 36 |-> <<Order[((i - 1) \div 6) + 1], Order[((i - 1) % 6) + 1]>>]
EdgeList(pairs) ==
  LET given(x) == x \in pairs
      kept == SelectSeq(AllPairs, given)
  IN  [i \in DOMAIN kept |-> Arrow(kept[i][1], kept[i][2])]

MainType(n) == IF n = st THEN "start-node" ELSE "plain-node"

MainGraph(nodes, pairs) ==
  [nodes |-> nodes, join |-> {},
   edges |-> EdgeList(pairs),
   type |-> [n \in nodes |-> MainType(n)],
   container |-> [n \in nodes |-> NoNode]]

\* All edge sets on three nodes, and on four nodes those without self edges.
MainGraphs ==
  {MainGraph({st, n1, n2}, pairs) : pairs \in SUBSET ({st, n1, n2} \X {st, n1, n2})} \cup
  {MainGraph({st, n1, n2, n3}, pairs) :
     pairs \in SUBSET {x \in {st, n1, n2, n3} \X {n1, n2, n3} : x[1] # x[2]}}

\* Two starts, and every edge doubled.
TwoStarts ==
  {[MainGraph({st, n1, n2}, pairs) EXCEPT !.type[n1] = "start-node"] :
     pairs \in SUBSET ({st, n1, n2} \X {st, n1, n2})}

Doubled ==
  {LET g == MainGraph({st, n1, n2}, pairs) IN [g EXCEPT !.edges = @ \o @] :
     pairs \in SUBSET ({st, n1, n2} \X {n1, n2})}

\* A loop with one body node, its container and the types given or left out.
LoopGraphs ==
  {[MainGraph({st, lp, bd}, pairs) EXCEPT
      !.type = [n \in {st, lp, bd} |-> IF n = lp THEN loopType
                                       ELSE IF n = bd THEN bodyType ELSE "start-node"],
      !.container[bd] = container] :
     pairs \in SUBSET ({st, lp, bd} \X {lp, bd}),
     loopType \in {"loop-node", "plain-node"},
     bodyType \in {"loop-start-node", "plain-node"},
     container \in {lp, NoNode}}

MCGraphs == MainGraphs \cup TwoStarts \cup Doubled \cup LoopGraphs

-----------------------------------------------------------------------------
\* Texts of up to five lines: headings, one of them blank, and body lines.
MCHeading(level, title) == [heading |-> TRUE, level |-> level, title |-> title]
MCBody(body) == [heading |-> FALSE, body |-> body]

MCLine ==
  {MCHeading(1, "one"), MCHeading(2, "two"), MCHeading(2, ""), MCHeading(3, "three")} \cup
  {MCBody(<<"a", "stop", "b">>), MCBody(<<"dash", "dash", "dash">>)}

\* One section of sentences, long enough for every kind of break.
MCSentences ==
  {<<MCBody(body), MCBody(<<"d", "e", "f">>)>> : body \in TupleOf({"a", "stop", "bang"}, 5)}

MCText == (UNION {TupleOf(MCLine, n) : n \in 0 .. 5}) \cup MCSentences

\* Validation has a graph and an empty text; splitting has any other text.
Validating == text = <<>>

AlgorithmsInit ==
  \/ Validating /\ limit = 0 /\ SplitInit /\ CheckInit
  \/ self = (CHOOSE g \in Given : TRUE) /\ CheckInit /\ SplitInit /\ ~Validating

AlgorithmsNext ==
  \/ Validating /\ CheckNext /\ UNCHANGED splitVars
  \/ ~Validating /\ SplitNext /\ UNCHANGED checkVars

AlgorithmsSpec == AlgorithmsInit /\ [][AlgorithmsNext]_<<checkVars, splitVars>>
=============================================================================
