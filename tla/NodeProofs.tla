------------------------------- MODULE NodeProofs -------------------------------
(***************************************************************************)
(* Proofs about the nodes of a workflow, every configuration of them and   *)
(* every order in which parallel branches run, fail or wait for the user:  *)
(* whose answer a run ends with, that what nodes compute is made of        *)
(* values, on which comparators decide, and what the default template      *)
(* answers.                                                                *)
(***************************************************************************)
EXTENDS MCNodeLibrary, FiniteSetTheorems, SequenceTheorems, WellFoundedInduction, TLAPS

Phases == {"waiting", "released", "executed", "failed", "interrupted", "done"}

Reached == {n \in Nodes : at[n] # "waiting"}

\* A way along which the completed nodes went.
Taking(way) ==
  \A n \in Nodes : at[n] = "done" => Followed(n, out[n].branch) \subseteq Along(flow, way)

ShapeInv ==
  /\ flow \in Flow
  /\ at \in [Nodes -> Phases]
  /\ "global" \in DOMAIN store
  /\ \A n \in Nodes : at[n] \in {"executed", "done"} =>
       n \in DOMAIN out /\ ("answer" \in DOMAIN out[n].globals => n \in MayAnswer(flow))
  /\ \A n \in asked : n \in Nodes /\ at[n] = "interrupted"

(***************************************************************************)
(* Until a node has completed, every node that was reached was reached     *)
(* around it, on every way that the completed nodes have left open.        *)
(***************************************************************************)
WayInv ==
  \A way \in Ways(flow) : \A n \in Nodes :
    Taking(way) /\ at[n] # "done" => Reached \subseteq Around(flow, way, n)

AnswerInv ==
  Answered # {} =>
    /\ "answer" \in DOMAIN store.global
    /\ \E n \in Answered : /\ store.global["answer"] = out[n].globals["answer"]
                           /\ Answered \cap Behind(flow, n) = {}

NodeInv == ShapeInv /\ WayInv /\ AnswerInv

-----------------------------------------------------------------------------
(* What nodes return, and what it makes of the context.                    *)

LEMMA KeysOfOne ==
  ASSUME NEW key, NEW v
  PROVE  DOMAIN One(key, v) = {key} /\ One(key, v)[key] = v
BY DEF One

LEMMA WrittenGlobal ==
  ASSUME NEW st, "global" \in DOMAIN st, NEW name, NEW vs, NEW globals
  PROVE  /\ "global" \in DOMAIN WriteResult(st, name, vs, globals)
         /\ WriteResult(st, name, vs, globals).global = Updated(st.global, globals)
BY DEF WriteResult

LEMMA NoGlobals == DOMAIN <<>> = {}
OBVIOUS

(* Only some types of nodes set the answer. *)
LEMMA AnswersAreKnown ==
  ASSUME IsFlow(flow), NEW n \in Nodes, NEW r \in Results(n), "answer" \in DOMAIN r.globals
  PROVE  n \in MayAnswer(flow)
<1> DEFINE ty == Type(n)
<1>1. ty \in NodeType /\ n \in DOMAIN flow.nodes
  BY DEF IsFlow, Nodes, Type
<1>2. CASE ty \in {"reply-node", "ai-chat-node", "application-node"}
  BY <1>1, <1>2 DEF MayAnswer, Type
<1>3. CASE ty = "start-node"
  <2>1. r \in StartNode(n)
    BY <1>3 DEF Results
  <2>2. DOMAIN r.globals = DOMAIN flow.nodes[n].variables
    BY <2>1 DEF StartNode, Result, Config
  <2> QED BY <1>1, <1>3, <2>2 DEF MayAnswer, Type
<1>4. CASE ty = "variable-assign-node"
  <2>1. r \in VariableAssignNode(n)
    BY <1>4 DEF Results
  <2>2. DOMAIN r.globals \subseteq DOMAIN flow.nodes[n].variables
    BY <2>1 DEF VariableAssignNode, Result, Config
  <2> QED BY <1>1, <1>4, <2>2 DEF MayAnswer, Type
<1>5. CASE ty \in {"question-node", "reranker-node", "form-node"}
  <2>1. r \in QuestionNode(n) \cup RerankerNode(n) \cup FormNode(n)
    BY <1>5 DEF Results
  <2>2. DOMAIN r.globals \subseteq {"question", "rerank_list", "form_data"}
    BY <2>1 DEF QuestionNode, RerankerNode, FormNode, Both, Result, One
  <2> QED BY <2>2
<1>6. CASE ty = "condition-node"
  <2>1. r \in ConditionNode(n)
    BY <1>6 DEF Results
  <2>2. r.globals = <<>>
    BY <2>1 DEF ConditionNode, Result
  <2> QED BY <2>2, NoGlobals
<1>7. CASE ty \in {"splitting-node", "aggregation-node", "parameter-extraction-node",
                   "search-knowledge-node", "search-document-node", "document-extract-node",
                   "document-split-node", "knowledge-write-node"}
  <2>1. r \in SplittingNode(n) \cup AggregationNode(n) \cup ParameterExtractionNode(n)
              \cup SearchKnowledgeNode(n) \cup SearchDocumentNode(n) \cup DocumentExtractNode(n)
              \cup DocumentSplitNode(n) \cup KnowledgeWriteNode(n)
    BY <1>7 DEF Results
  <2>2. \E vs : r = Result(vs, <<>>)
    BY <2>1 DEF SplittingNode, AggregationNode, ParameterExtractionNode, SearchKnowledgeNode,
                SearchDocumentNode, DocumentExtractNode, DocumentSplitNode, KnowledgeWriteNode
  <2>3. r.globals = <<>>
    BY <2>2 DEF Result
  <2> QED BY <2>3, NoGlobals
<1> QED BY <1>1, <1>2, <1>3, <1>4, <1>5, <1>6, <1>7 DEF NodeType, External

-----------------------------------------------------------------------------
(* Reachability.                                                           *)

LEMMA ClosureHas ==
  ASSUME NEW f, NEW first, NEW edges
  PROVE  first \cap DOMAIN f.nodes \subseteq Closure(f, first, edges)
BY DEF Closure

LEMMA ClosureGrows ==
  ASSUME NEW f, NEW first, NEW edges, NEW e \in edges,
         e.source \in Closure(f, first, edges), e.target \in DOMAIN f.nodes
  PROVE  e.target \in Closure(f, first, edges)
BY DEF Closure

(* The edges of a node that takes a branch, on some way. *)
LEMMA SomeWay ==
  ASSUME IsFlow(flow)
  PROVE  \E way \in Ways(flow) : Taking(way)
<1> DEFINE split == {e \in flow.edges : e.branch # NoBranch}
           sources == {e.source : e \in split}
           branches == {e.branch : e \in split}
           way == [s \in sources |->
                     IF out[s].branch \in branches THEN out[s].branch
                     ELSE CHOOSE b \in branches : TRUE]
<1>1. \A s \in sources : branches # {}
  OBVIOUS
<1>2. way \in Ways(flow)
  BY <1>1 DEF Ways
<1>3. ASSUME NEW n \in Nodes, NEW e \in Followed(n, out[n].branch)
      PROVE  e \in Along(flow, way)
  <2>1. e \in flow.edges /\ e.source = n /\ (e.branch = NoBranch \/ e.branch = out[n].branch)
    BY <1>3 DEF Followed
  <2>2. CASE e.branch # NoBranch
    <3>1. e \in split /\ n \in sources /\ out[n].branch \in branches
      BY <2>1, <2>2
    <3>2. way[n] = out[n].branch
      BY <3>1
    <3> QED BY <2>1, <2>2, <3>2 DEF Along
  <2> QED BY <2>1, <2>2 DEF Along
<1>4. Taking(way)
  BY <1>3 DEF Taking
<1> QED BY <1>2, <1>4

-----------------------------------------------------------------------------
(* Steps.                                                                  *)

LEMMA FlowFacts ==
  ASSUME \A f \in Flow : IsFlow(f) /\ AnswersInOrder(f), ShapeInv
  PROVE  IsFlow(flow) /\ AnswersInOrder(flow) /\ DOMAIN at = Nodes
BY DEF ShapeInv

(* A step in which the same nodes have completed, and are reached. *)
LEMMA SameProgress ==
  ASSUME NodeInv, UNCHANGED <<flow, store.global>>, "global" \in DOMAIN store', ShapeInv',
         \A n \in Nodes : (at'[n] = "done" <=> at[n] = "done")
                            /\ (at'[n] = "waiting" <=> at[n] = "waiting"),
         \A n \in Nodes : at[n] = "done" => out'[n] = out[n]
  PROVE  NodeInv'
<1>1. Nodes' = Nodes /\ DOMAIN at = Nodes /\ DOMAIN at' = Nodes
  BY DEF NodeInv, ShapeInv, Nodes
<1>2. Reached' = Reached
  BY <1>1 DEF Reached
<1>3. \A way : Taking(way)' <=> Taking(way)
  BY <1>1 DEF Taking, Followed
<1>4. WayInv'
  BY <1>1, <1>2, <1>3 DEF NodeInv, WayInv
<1>5. Answered' = Answered
  BY <1>1 DEF Answered, At
<1>6. \A n \in Answered : out'[n] = out[n]
  BY <1>1 DEF Answered, At
<1>7. AnswerInv'
  BY <1>5, <1>6 DEF NodeInv, AnswerInv
<1> QED BY <1>4, <1>7 DEF NodeInv

LEMMA ExecuteStep ==
  ASSUME \A f \in Flow : IsFlow(f) /\ AnswersInOrder(f), NodeInv, NEW n \in Nodes, Execute(n)
  PROVE  NodeInv'
<1>1. ShapeInv /\ IsFlow(flow)
  BY FlowFacts DEF NodeInv
<1>2. PICK r \in Results(n) : out' = Updated(out, One(n, r))
  BY DEF Execute
<1>3. /\ DOMAIN out' = DOMAIN out \cup {n} /\ out'[n] = r
      /\ \A m \in DOMAIN out \ {n} : out'[m] = out[m]
  <2>1. DOMAIN One(n, r) = {n} /\ One(n, r)[n] = r
    BY KeysOfOne
  <2>2. /\ DOMAIN out' = DOMAIN out \cup DOMAIN One(n, r)
        /\ \A k \in DOMAIN One(n, r) : out'[k] = One(n, r)[k]
        /\ \A k \in DOMAIN out \ DOMAIN One(n, r) : out'[k] = out[k]
    BY <1>2 DEF Updated
  <2> QED BY <2>1, <2>2
<1>4. "answer" \in DOMAIN r.globals => n \in MayAnswer(flow)
  BY <1>1, AnswersAreKnown
<1>5. /\ at[n] = "released" /\ at' = [at EXCEPT ![n] = "executed"]
      /\ UNCHANGED <<flow, store, raised, asked>>
  BY DEF Execute
<1>6. Nodes' = Nodes /\ at' \in [Nodes -> Phases]
  BY <1>1, <1>5 DEF ShapeInv, Phases, Nodes
<1>7. \A m \in Nodes : at'[m] = IF m = n THEN "executed" ELSE at[m]
  BY <1>1, <1>5 DEF ShapeInv
<1>8. \A m \in Nodes : at'[m] \in {"executed", "done"} =>
        m \in DOMAIN out' /\ ("answer" \in DOMAIN out'[m].globals => m \in MayAnswer(flow))
  BY <1>1, <1>3, <1>4, <1>7 DEF ShapeInv
<1>9. ShapeInv'
  BY <1>1, <1>5, <1>6, <1>7, <1>8 DEF ShapeInv
<1>10. \A m \in Nodes : at[m] = "done" => out'[m] = out[m]
  BY <1>1, <1>3, <1>5 DEF ShapeInv
<1> QED BY <1>1, <1>5, <1>7, <1>9, <1>10, SameProgress DEF ShapeInv

(* A step that only moves nodes that are reached and have not completed. *)
LEMMA MoveStep ==
  ASSUME NodeInv, UNCHANGED <<flow, out>>, "global" \in DOMAIN store', NEW set \in SUBSET Nodes,
         NEW phase \in {"released", "failed", "interrupted"},
         at' = [n \in Nodes |-> IF n \in set THEN phase ELSE at[n]],
         \A n \in set : at[n] \in {"released", "interrupted"},
         \A n \in asked' : n \in Nodes /\ at'[n] = "interrupted",
         store'.global = store.global
  PROVE  NodeInv'
<1>1. ShapeInv /\ Nodes' = Nodes
  BY DEF NodeInv, Nodes
<1>2. at' \in [Nodes -> Phases]
  BY <1>1 DEF ShapeInv, Phases
<1>3. \A n \in Nodes : at'[n] \in {"executed", "done"} => at'[n] = at[n]
  OBVIOUS
<1>4. ShapeInv'
  BY <1>1, <1>2, <1>3 DEF ShapeInv
<1>5. \A n \in Nodes : (at'[n] = "done" <=> at[n] = "done")
                         /\ (at'[n] = "waiting" <=> at[n] = "waiting")
  OBVIOUS
<1> QED BY <1>4, <1>5, SameProgress

LEMMA RaiseStep ==
  ASSUME NodeInv, NEW n \in Nodes, Raise(n)
  PROVE  NodeInv'
<1>1. /\ at[n] = "released" /\ at' = [at EXCEPT ![n] = "failed"]
      /\ UNCHANGED <<flow, store, out, asked>>
  BY DEF Raise
<1>2. ShapeInv
  BY DEF NodeInv
<1>3. at' = [m \in Nodes |-> IF m \in {n} THEN "failed" ELSE at[m]]
  BY <1>1, <1>2 DEF ShapeInv
<1>4. \A m \in asked : m \in Nodes /\ at'[m] = "interrupted"
  BY <1>1, <1>2, <1>3 DEF ShapeInv
<1> QED BY <1>1, <1>2, <1>3, <1>4, MoveStep DEF ShapeInv

LEMMA InterruptStep ==
  ASSUME NodeInv, NEW n \in Nodes, Interrupt(n)
  PROVE  NodeInv'
<1>1. /\ at[n] = "released" /\ at' = [at EXCEPT ![n] = "interrupted"]
      /\ asked' \subseteq asked \cup {n} /\ UNCHANGED <<flow, store, out>>
  BY DEF Interrupt
<1>2. ShapeInv
  BY DEF NodeInv
<1>3. at' = [m \in Nodes |-> IF m \in {n} THEN "interrupted" ELSE at[m]]
  BY <1>1, <1>2 DEF ShapeInv
<1>4. \A m \in asked' : m \in Nodes /\ at'[m] = "interrupted"
  BY <1>1, <1>2, <1>3 DEF ShapeInv
<1> QED BY <1>1, <1>2, <1>3, <1>4, MoveStep DEF ShapeInv

(* What the user submits is no answer. *)
LEMMA ResumeStep ==
  ASSUME NodeInv, NEW dict, Resume(dict)
  PROVE  NodeInv'
<1>1. /\ at' = [n \in Nodes |-> IF n \in asked THEN "released" ELSE at[n]]
      /\ store' = [store EXCEPT !.global = Updated(@, One("submitted", dict))]
      /\ asked' = {} /\ UNCHANGED <<flow, out>>
  BY DEF Resume
<1>2. ShapeInv /\ Nodes' = Nodes /\ DOMAIN at = Nodes
  BY <1>1 DEF NodeInv, ShapeInv, Nodes
<1>3. \A n \in asked : n \in Nodes /\ at[n] = "interrupted"
  BY <1>2 DEF ShapeInv
<1>4. /\ "global" \in DOMAIN store'
      /\ store'.global = Updated(store.global, One("submitted", dict))
  BY <1>1, <1>2 DEF ShapeInv
<1>5. "answer" \in DOMAIN store.global =>
        "answer" \in DOMAIN store'.global /\ store'.global["answer"] = store.global["answer"]
  <2>1. DOMAIN One("submitted", dict) = {"submitted"}
    BY KeysOfOne
  <2>2. "answer" \notin DOMAIN One("submitted", dict)
    BY <2>1
  <2> QED BY <1>4, <2>2 DEF Updated
<1>6. at' \in [Nodes -> Phases]
  BY <1>1, <1>2 DEF ShapeInv, Phases
<1>7. \A n \in Nodes : (at'[n] = "done" <=> at[n] = "done")
                         /\ (at'[n] = "waiting" <=> at[n] = "waiting")
                         /\ (at'[n] \in {"executed", "done"} => at'[n] = at[n])
  BY <1>1, <1>3
<1>8. ShapeInv'
  BY <1>1, <1>2, <1>4, <1>6, <1>7 DEF ShapeInv
<1>9. WayInv'
  <2>1. Reached' = Reached
    BY <1>2, <1>7 DEF Reached
  <2>2. \A way : Taking(way)' <=> Taking(way)
    BY <1>1, <1>2, <1>7 DEF Taking, Followed
  <2> QED BY <1>1, <1>2, <1>7, <2>1, <2>2 DEF NodeInv, WayInv
<1>10. AnswerInv'
  <2>1. Answered' = Answered
    BY <1>1, <1>2, <1>7 DEF Answered, At
  <2> QED BY <1>1, <1>5, <2>1 DEF NodeInv, AnswerInv
<1> QED BY <1>8, <1>9, <1>10 DEF NodeInv

(* Way of a node that completes: its successors are reached around others. *)
LEMMA WriteKeepsWays ==
  ASSUME \A f \in Flow : IsFlow(f) /\ AnswersInOrder(f), NodeInv, NEW n \in Nodes, Write(n)
  PROVE  WayInv'
<1>1. ShapeInv /\ IsFlow(flow) /\ Nodes' = Nodes /\ UNCHANGED <<flow, out>> /\ at[n] = "executed"
  BY FlowFacts DEF NodeInv, Write, Nodes
<1>2. PICK taken : /\ taken \subseteq {e.target : e \in Followed(n, out[n].branch)}
                   /\ at' = [m \in Nodes |-> IF m = n THEN "done"
                                             ELSE IF m \in taken THEN "released" ELSE at[m]]
                   /\ \A m \in taken : at[m] = "waiting"
  <2>1. \E ready : \E taken \in IF Aborted THEN SUBSET ready ELSE {ready} :
          /\ ready \subseteq {e.target : e \in Followed(n, out[n].branch)}
          /\ \A m \in ready : at[m] = "waiting"
          /\ at' = [m \in Nodes |-> IF m = n THEN "done"
                                    ELSE IF m \in taken THEN "released" ELSE at[m]]
    BY DEF Write
  <2> QED BY <2>1
<1>3. SUFFICES ASSUME NEW way \in Ways(flow), NEW x \in Nodes, Taking(way)', at'[x] # "done"
               PROVE  Reached' \subseteq Around(flow, way, x)
  BY <1>1 DEF WayInv
<1>4. x # n /\ at[x] # "done"
  BY <1>2, <1>3
<1>5. Taking(way)
  BY <1>1, <1>2, <1>3 DEF Taking, Followed
<1>6. Reached \subseteq Around(flow, way, x) /\ n \in Reached
  BY <1>1, <1>4, <1>5 DEF NodeInv, WayInv, Reached
<1>7. ASSUME NEW e \in Followed(n, out[n].branch)
      PROVE  e.target \in Around(flow, way, x)
  <2>1. e \in Along(flow, way)
    BY <1>1, <1>2, <1>3, <1>7 DEF Taking, Followed
  <2>2. e \in flow.edges /\ e.source = n
    BY <1>7 DEF Followed
  <2>3. e.target \in DOMAIN flow.nodes
    BY <1>1, <2>2 DEF IsFlow
  <2> QED BY <1>4, <1>6, <2>1, <2>2, <2>3, ClosureGrows DEF Around
<1> QED BY <1>1, <1>2, <1>6, <1>7 DEF Reached

(* The answer of a node replaces one that no answering node before it gave. *)
LEMMA WriteKeepsAnswer ==
  ASSUME \A f \in Flow : IsFlow(f) /\ AnswersInOrder(f), NodeInv, NEW n \in Nodes, Write(n)
  PROVE  AnswerInv'
<1> DEFINE globals == out[n].globals
<1>1. /\ ShapeInv /\ IsFlow(flow) /\ AnswersInOrder(flow)
      /\ Nodes' = Nodes /\ UNCHANGED <<flow, out>> /\ at[n] = "executed"
      /\ DOMAIN at = Nodes
  BY FlowFacts DEF NodeInv, Write, Nodes
<1>2. Answered' = Answered \cup (IF "answer" \in DOMAIN globals THEN {n} ELSE {})
  <2>1. DOMAIN at' = Nodes /\ \A m \in Nodes : at'[m] = "done" <=> m = n \/ at[m] = "done"
    BY <1>1 DEF Write
  <2> QED BY <1>1, <2>1 DEF Answered, At
<1>3. store'.global = Updated(store.global, globals)
  BY <1>1, WrittenGlobal DEF Write, ShapeInv
<1>4. CASE "answer" \notin DOMAIN globals
  <2>1. "answer" \in DOMAIN store.global =>
          "answer" \in DOMAIN store'.global /\ store'.global["answer"] = store.global["answer"]
    BY <1>3, <1>4 DEF Updated
  <2> QED BY <1>1, <1>2, <1>4, <2>1 DEF NodeInv, AnswerInv
<1>5. CASE "answer" \in DOMAIN globals
  <2>1. "answer" \in DOMAIN store'.global /\ store'.global["answer"] = globals["answer"]
    BY <1>3, <1>5 DEF Updated
  <2>2. PICK way \in Ways(flow) : Taking(way)
    BY <1>1, SomeWay
  <2>3. Reached \subseteq Around(flow, way, n)
    BY <1>1, <2>2 DEF NodeInv, WayInv
  <2>4. Answered' \subseteq Reached /\ n \in Reached
    BY <1>1, <1>2 DEF Answered, At, Reached
  <2>5. Answered' \subseteq MayAnswer(flow) /\ n \in MayAnswer(flow)
    <3>1. \A m \in Answered : m \in Nodes /\ at[m] = "done" /\ "answer" \in DOMAIN out[m].globals
      BY <1>1 DEF Answered, At
    <3> QED BY <1>1, <1>2, <1>5, <3>1 DEF ShapeInv
  <2>6. Answered' \cap Behind(flow, n) = {}
    BY <1>1, <2>2, <2>3, <2>4, <2>5 DEF AnswersInOrder
  <2>7. n \in Answered'
    BY <1>2, <1>5
  <2> QED BY <1>1, <2>1, <2>6, <2>7 DEF AnswerInv
<1> QED BY <1>4, <1>5

LEMMA WriteStep ==
  ASSUME \A f \in Flow : IsFlow(f) /\ AnswersInOrder(f), NodeInv, NEW n \in Nodes, Write(n)
  PROVE  NodeInv'
<1>1. ShapeInv /\ UNCHANGED <<flow, out, raised, asked>> /\ Nodes' = Nodes
      /\ at[n] = "executed"
  BY DEF NodeInv, Write, Nodes
<1>2. /\ at' \in [Nodes -> Phases]
      /\ \A m \in Nodes : at'[m] = at[m] \/ m = n \/ (at[m] = "waiting" /\ at'[m] = "released")
  <2>1. PICK taken : /\ at' = [m \in Nodes |-> IF m = n THEN "done"
                                               ELSE IF m \in taken THEN "released" ELSE at[m]]
                     /\ \A m \in taken : at[m] = "waiting"
    BY DEF Write
  <2> QED BY <1>1, <2>1 DEF ShapeInv, Phases
<1>3. "global" \in DOMAIN store'
  BY <1>1, WrittenGlobal DEF Write, ShapeInv
<1>4. \A m \in asked : m \in Nodes /\ at'[m] = "interrupted"
  BY <1>1, <1>2 DEF ShapeInv
<1>5. ShapeInv'
  BY <1>1, <1>2, <1>3, <1>4 DEF ShapeInv
<1> QED BY <1>5, WriteKeepsWays, WriteKeepsAnswer DEF NodeInv

LEMMA StutterStep ==
  ASSUME NodeInv, UNCHANGED vars PROVE NodeInv'
BY DEF vars, NodeInv, ShapeInv, WayInv, AnswerInv, Answered, At, Reached, Nodes, Taking, Followed

LEMMA NodeInit ==
  ASSUME \A f \in Flow : IsFlow(f) /\ AnswersInOrder(f), Init
  PROVE  NodeInv
<1>1. /\ flow \in Flow /\ asked = {}
      /\ at = [n \in Nodes |-> IF Type(n) = "start-node" THEN "released" ELSE "waiting"]
      /\ \E q \in Question : store = [EmptyStore EXCEPT !.chat = [question |-> q]]
  BY DEF Init
<1>2. ShapeInv
  <2>1. "global" \in DOMAIN store
    BY <1>1 DEF EmptyStore
  <2> QED BY <1>1, <2>1 DEF ShapeInv, Phases
<1>3. \A n \in Reached : n \in DOMAIN flow.nodes /\ flow.nodes[n].type = "start-node"
  BY <1>1 DEF Reached, Type, Nodes
<1>4. WayInv
  BY <1>3, ClosureHas DEF WayInv, Around
<1>5. Answered = {}
  BY <1>1 DEF Answered, At
<1> QED BY <1>2, <1>4, <1>5 DEF NodeInv, AnswerInv

(***************************************************************************)
(* Where no answering node can be reached around one that it lies behind,  *)
(* the answer of a run is that of a last answering node, whatever the      *)
(* nodes return and in whatever order parallel branches run.               *)
(***************************************************************************)
THEOREM AnswersAreLast ==
  ASSUME \A f \in Flow : IsFlow(f) /\ AnswersInOrder(f)
  PROVE  Spec => []AnswerIsOfALastNode
<1>1. Init => NodeInv
  BY NodeInit
<1>2. NodeInv /\ [Next]_vars => NodeInv'
  BY ExecuteStep, RaiseStep, InterruptStep, WriteStep, ResumeStep, StutterStep DEF Next, Ended
<1>3. NodeInv => AnswerIsOfALastNode
  BY DEF NodeInv, AnswerInv, AnswerIsOfALastNode
<1> QED BY <1>1, <1>2, <1>3, PTL DEF Spec

-----------------------------------------------------------------------------
(* Recursion along a path, and over the number of sequences to join.       *)

LEMMA LeastNumber ==
  ASSUME NEW T, T \subseteq Nat, T # {}
  PROVE  \E x \in T : \A y \in T : ~(y < x)
<1>1. \E x \in T : \A y \in T : ~(<<y, x>> \in OpToRel(<, Nat))
  BY NatLessThanWellFounded, WFMin
<1> QED BY <1>1 DEF OpToRel

(***************************************************************************)
(* A walk is defined by recursion over the path.                           *)
(***************************************************************************)
StepTo(f, src, path, i) == IF i = 0 THEN src ELSE Below(f[i - 1], path[i])

LEMMA WalksExist ==
  ASSUME NEW src, NEW path, NEW N \in Nat
  PROVE  \E f : f = [i \in 0 .. N |-> StepTo(f, src, path, i)]
<1> DEFINE Built(n) == \E f : f = [i \in 0 .. n |-> StepTo(f, src, path, i)]
           Without == {n \in 0 .. N : ~Built(n)}
<1>1. Built(0)
  <2>1. PICK f : f = [i \in 0 .. 0 |-> src]
    OBVIOUS
  <2>2. f = [i \in 0 .. 0 |-> StepTo(f, src, path, i)]
    BY <2>1 DEF StepTo
  <2> QED BY <2>2
<1>2. ASSUME NEW n \in 1 .. N, Built(n - 1)
      PROVE  Built(n)
  <2>1. PICK f : f = [i \in 0 .. n - 1 |-> StepTo(f, src, path, i)]
    BY <1>2
  <2>2. PICK g : g = [i \in 0 .. n |-> StepTo(f, src, path, i)]
    OBVIOUS
  <2>3. \A i \in 0 .. n - 1 : g[i] = f[i]
    BY <2>1, <2>2
  <2>4. \A i \in 0 .. n : StepTo(g, src, path, i) = StepTo(f, src, path, i)
    <3>1. \A i \in 0 .. n : i # 0 => i - 1 \in 0 .. n - 1
      OBVIOUS
    <3> QED BY <2>3, <3>1 DEF StepTo
  <2>5. g = [i \in 0 .. n |-> StepTo(g, src, path, i)]
    BY <2>2, <2>4
  <2> QED BY <2>5
<1> HIDE DEF Built
<1>3. Without = {}
  <2> SUFFICES ASSUME Without # {}
               PROVE  FALSE
    OBVIOUS
  <2>1. PICK n \in Without : \A m \in Without : ~(m < n)
    <3>1. Without \subseteq Nat
      OBVIOUS
    <3> HIDE DEF Without
    <3> QED BY <3>1, LeastNumber
  <2>2. n \in 1 .. N /\ n - 1 \notin Without /\ ~Built(n)
    BY <1>1, <2>1
  <2>3. Built(n - 1)
    BY <2>2
  <2> QED BY <1>2, <2>2, <2>3
<1>4. Built(N)
  BY <1>3
<1> QED BY <1>4 DEF Built

LEMMA WalkSteps ==
  ASSUME NEW src, NEW path, Len(path) \in Nat
  PROVE  \E f : /\ Walk(src, path) = f[Len(path)] /\ f[0] = src
                /\ \A i \in 1 .. Len(path) : f[i] = Below(f[i - 1], path[i])
<1>1. PICK f : f = CHOOSE g : g = [i \in 0 .. Len(path) |-> StepTo(g, src, path, i)]
  OBVIOUS
<1>2. f = [i \in 0 .. Len(path) |-> StepTo(f, src, path, i)]
  BY <1>1, WalksExist
<1>3. Walk(src, path) = f[Len(path)]
  BY <1>1 DEF Walk, StepTo
<1>4. f[0] = src
  BY <1>2 DEF StepTo
<1>5. \A i \in 1 .. Len(path) : f[i] = Below(f[i - 1], path[i])
  BY <1>2 DEF StepTo
<1> QED BY <1>3, <1>4, <1>5

(***************************************************************************)
(* Values, and the dicts that hold them.                                   *)
(***************************************************************************)
IsValue(v) == \E values : Whole(values) /\ v \in values
IsDict(fun) == IsFiniteSet(DOMAIN fun) /\ \A k \in DOMAIN fun : IsValue(fun[k])

LEMMA OfASeq ==
  ASSUME NEW S, NEW s \in Seq(S)
  PROVE  IsSeq(s)
<1>1. PICK n \in Nat : s \in [1 .. n -> S]
  BY SeqDef
<1>2. \A i \in 1 .. n : s[i] \in ToSet(s)
  BY <1>1 DEF ToSet
<1>3. s \in [1 .. n -> ToSet(s)]
  BY <1>1, <1>2
<1> QED BY <1>3, SeqDef DEF IsSeq

LEMMA SeqFacts ==
  ASSUME NEW s, IsSeq(s)
  PROVE  Len(s) \in Nat /\ DOMAIN s = 1 .. Len(s)
<1>1. PICK S : S = ToSet(s) /\ s \in Seq(S)
  BY DEF IsSeq
<1> QED BY <1>1

LEMMA Single ==
  ASSUME NEW v, v.kind \notin {"num", "text", "list", "dict"}
  PROVE  IsValue(v)
<1>1. Whole({v})
  BY DEF Whole
<1> QED BY <1>1 DEF IsValue

LEMMA SimpleValues ==
  /\ IsValue(NoValue) /\ IsValue(Missing)
  /\ \A n \in Nat : IsValue(Num(n))
  /\ \A s : IsSeq(s) => IsValue(String(s))
<1>1. IsValue(NoValue) /\ IsValue(Missing)
  BY Single DEF NoValue, Missing
<1>2. ASSUME NEW n \in Nat PROVE IsValue(Num(n))
  <2>1. Whole({Num(n)})
    BY DEF Whole, Num
  <2> QED BY <2>1 DEF IsValue
<1>3. ASSUME NEW s, IsSeq(s) PROVE IsValue(String(s))
  <2>1. Whole({String(s)})
    BY <1>3 DEF Whole, String
  <2> QED BY <2>1 DEF IsValue
<1> QED BY <1>1, <1>2, <1>3

LEMMA WholeUnion ==
  ASSUME NEW families, \A S \in families : Whole(S)
  PROVE  Whole(UNION families)
<1> SUFFICES ASSUME NEW S \in families, NEW v \in S
             PROVE  /\ v.kind = "num" => v.n \in Nat
                    /\ v.kind = "text" => IsSeq(v.s)
                    /\ v.kind = "list" => v.items \in Seq(UNION families)
                    /\ v.kind = "dict" => IsFiniteSet(DOMAIN v.of)
                                            /\ Range(v.of) \subseteq UNION families
  BY DEF Whole
<1>1. /\ v.kind = "num" => v.n \in Nat
      /\ v.kind = "text" => IsSeq(v.s)
      /\ v.kind = "list" => v.items \in Seq(S)
      /\ v.kind = "dict" => IsFiniteSet(DOMAIN v.of) /\ Range(v.of) \subseteq S
  BY DEF Whole
<1>2. S \subseteq UNION families
  OBVIOUS
<1>3. v.kind = "list" => v.items \in Seq(UNION families)
  <2> HAVE v.kind = "list"
  <2>1. v.items \in Seq(S)
    BY <1>1
  <2>2. \A s \in Seq(S) : s \in Seq(UNION families)
    BY <1>2
  <2> QED BY <2>1, <2>2
<1> QED BY <1>1, <1>2, <1>3

\* Values together are in one whole set.
LEMMA ValuesTogether ==
  ASSUME NEW V, \A v \in V : IsValue(v)
  PROVE  \E values : Whole(values) /\ V \subseteq values
<1> DEFINE of(v) == CHOOSE values : Whole(values) /\ v \in values
           all == {of(v) : v \in V}
<1>1. \A v \in V : Whole(of(v)) /\ v \in of(v)
  BY DEF IsValue
<1> HIDE DEF of
<1>2. Whole(UNION all)
  BY <1>1, WholeUnion
<1>3. V \subseteq UNION all
  BY <1>1
<1> QED BY <1>2, <1>3

LEMMA ListValue ==
  ASSUME NEW s, IsSeq(s), \A i \in DOMAIN s : IsValue(s[i])
  PROVE  IsValue(List(s))
<1>1. \A v \in ToSet(s) : IsValue(v)
  BY DEF ToSet
<1>2. PICK S : Whole(S) /\ ToSet(s) \subseteq S
  BY <1>1, ValuesTogether
<1>3. PICK U : U = S \cup {List(s)}
  OBVIOUS
<1>4. s \in Seq(U)
  BY <1>2, <1>3 DEF IsSeq
<1>5. \A x \in Seq(S) : x \in Seq(U)
  BY <1>3
<1>6. \A v \in S : /\ v.kind = "num" => v.n \in Nat
                   /\ v.kind = "text" => IsSeq(v.s)
                   /\ v.kind = "list" => v.items \in Seq(U)
                   /\ v.kind = "dict" => IsFiniteSet(DOMAIN v.of) /\ Range(v.of) \subseteq U
  BY <1>2, <1>3, <1>5 DEF Whole
<1>7. List(s).kind = "list" /\ List(s).items = s
  BY DEF List
<1>8. Whole(U)
  BY <1>3, <1>4, <1>6, <1>7 DEF Whole
<1> QED BY <1>3, <1>8 DEF IsValue

LEMMA DictValue ==
  ASSUME NEW fun, IsDict(fun)
  PROVE  IsValue(Dict(fun))
<1>1. \A v \in Range(fun) : IsValue(v)
  BY DEF Range, IsDict
<1>2. PICK S : Whole(S) /\ Range(fun) \subseteq S
  BY <1>1, ValuesTogether
<1>3. PICK U : U = S \cup {Dict(fun)}
  OBVIOUS
<1>5. \A x \in Seq(S) : x \in Seq(U)
  BY <1>3
<1>6. \A v \in S : /\ v.kind = "num" => v.n \in Nat
                   /\ v.kind = "text" => IsSeq(v.s)
                   /\ v.kind = "list" => v.items \in Seq(U)
                   /\ v.kind = "dict" => IsFiniteSet(DOMAIN v.of) /\ Range(v.of) \subseteq U
  BY <1>2, <1>3, <1>5 DEF Whole
<1>7. Dict(fun).kind = "dict" /\ Dict(fun).of = fun
  BY DEF Dict
<1>8. Whole(U)
  BY <1>2, <1>3, <1>6, <1>7 DEF Whole, IsDict
<1> QED BY <1>3, <1>8 DEF IsValue

LEMMA PartsOfValue ==
  ASSUME NEW v, IsValue(v)
  PROVE  /\ v.kind = "num" => v.n \in Nat
         /\ v.kind = "text" => IsSeq(v.s)
         /\ v.kind = "list" => IsSeq(v.items) /\ \A i \in DOMAIN v.items : IsValue(v.items[i])
         /\ v.kind = "dict" => IsDict(v.of)
<1>1. PICK S : Whole(S) /\ v \in S
  BY DEF IsValue
<1>2. /\ v.kind = "num" => v.n \in Nat
      /\ v.kind = "text" => IsSeq(v.s)
      /\ v.kind = "list" => v.items \in Seq(S)
      /\ v.kind = "dict" => IsFiniteSet(DOMAIN v.of) /\ Range(v.of) \subseteq S
  BY <1>1 DEF Whole
<1>3. \A x \in S : IsValue(x)
  BY <1>1 DEF IsValue
<1>4. v.kind = "list" => IsSeq(v.items) /\ \A i \in DOMAIN v.items : IsValue(v.items[i])
  <2> HAVE v.kind = "list"
  <2>1. v.items \in Seq(S)
    BY <1>2
  <2>2. PICK s : s = v.items /\ s \in Seq(S)
    BY <2>1
  <2>3. \A i \in DOMAIN s : s[i] \in S
    <3>1. PICK n \in Nat : s \in [1 .. n -> S]
      BY <2>2, SeqDef
    <3> QED BY <3>1
  <2>4. IsSeq(s)
    BY <2>2, OfASeq
  <2> QED BY <1>3, <2>2, <2>3, <2>4
<1>5. v.kind = "dict" => IsDict(v.of)
  BY <1>2, <1>3 DEF IsDict, Range
<1> QED BY <1>2, <1>4, <1>5

LEMMA BelowValue ==
  ASSUME NEW cur, NEW part, IsValue(cur)
  PROVE  IsValue(Below(cur, part))
<1>1. CASE cur.kind = "dict" /\ part \in DOMAIN cur.of
  BY <1>1, PartsOfValue DEF Below, IsDict
<1>2. CASE cur.kind = "list" /\ part \in DOMAIN Digits /\ Digits[part] < Len(cur.items)
  <2>1. IsSeq(cur.items) /\ \A i \in DOMAIN cur.items : IsValue(cur.items[i])
    BY <1>2, PartsOfValue
  <2>2. Digits[part] + 1 \in DOMAIN cur.items
    <3>1. Len(cur.items) \in Nat /\ DOMAIN cur.items = 1 .. Len(cur.items)
      BY <2>1, SeqFacts
    <3>2. Digits[part] \in {0, 1, 2}
      BY <1>2 DEF Digits
    <3> QED BY <1>2, <3>1, <3>2
  <2>3. Below(cur, part) = cur.items[Digits[part] + 1]
    BY <1>2 DEF Below
  <2> QED BY <2>1, <2>2, <2>3
<1>3. CASE /\ ~(cur.kind = "dict" /\ part \in DOMAIN cur.of)
           /\ ~(cur.kind = "list" /\ part \in DOMAIN Digits /\ Digits[part] < Len(cur.items))
  <2>1. Below(cur, part) = Missing
    BY <1>3 DEF Below
  <2> QED BY <2>1, SimpleValues
<1> QED BY <1>1, <1>2, <1>3

LEMMA WalkValue ==
  ASSUME NEW src, NEW path, IsSeq(path), IsValue(src)
  PROVE  IsValue(Walk(src, path))
<1>1. PICK N \in Nat : N = Len(path)
  BY SeqFacts
<1>2. PICK f : /\ Walk(src, path) = f[N] /\ f[0] = src
               /\ \A i \in 1 .. N : f[i] = Below(f[i - 1], path[i])
  <2>1. Len(path) \in Nat
    BY <1>1
  <2>2. \E f : /\ Walk(src, path) = f[Len(path)] /\ f[0] = src
               /\ \A i \in 1 .. Len(path) : f[i] = Below(f[i - 1], path[i])
    BY <2>1, WalkSteps
  <2> QED BY <1>1, <2>2
<1> DEFINE Bad == {i \in 0 .. N : ~IsValue(f[i])}
<1>3. ASSUME Bad # {} PROVE FALSE
  <2>1. PICK i \in Bad : \A j \in Bad : ~(j < i)
    <3>1. Bad \subseteq Nat
      OBVIOUS
    <3> HIDE DEF Bad
    <3> QED BY <1>3, <3>1, LeastNumber
  <2>2. i \in 1 .. N /\ ~IsValue(f[i])
    BY <1>2, <2>1
  <2>3. IsValue(f[i - 1])
    <3>1. i - 1 \in 0 .. N /\ i - 1 < i
      BY <2>2
    <3> QED BY <2>1, <3>1
  <2> QED BY <1>2, <2>2, <2>3, BelowValue
<1>4. N \in 0 .. N
  BY <1>1
<1> QED BY <1>2, <1>3, <1>4

(***************************************************************************)
(* Joined sequences, defined by recursion over their number.               *)
(***************************************************************************)
JoinBy(f, parts, i) == IF i = 1 THEN parts[i] ELSE f[i - 1] \o parts[i]

LEMMA JoinsExist ==
  ASSUME NEW parts, NEW N \in Nat
  PROVE  \E f : f = [i \in 1 .. N |-> JoinBy(f, parts, i)]
<1> DEFINE Built(n) == \E f : f = [i \in 1 .. n |-> JoinBy(f, parts, i)]
           Without == {n \in 0 .. N : ~Built(n)}
<1>1. Built(0)
  <2>1. PICK f : f = [i \in 1 .. 0 |-> 0]
    OBVIOUS
  <2>2. f = [i \in 1 .. 0 |-> JoinBy(f, parts, i)]
    BY <2>1
  <2> QED BY <2>2
<1>2. ASSUME NEW n \in 1 .. N, Built(n - 1)
      PROVE  Built(n)
  <2>1. PICK f : f = [i \in 1 .. n - 1 |-> JoinBy(f, parts, i)]
    BY <1>2
  <2>2. PICK g : g = [i \in 1 .. n |-> JoinBy(f, parts, i)]
    OBVIOUS
  <2>3. \A i \in 1 .. n - 1 : g[i] = f[i]
    BY <2>1, <2>2
  <2>4. \A i \in 1 .. n : JoinBy(g, parts, i) = JoinBy(f, parts, i)
    <3>1. \A i \in 1 .. n : i # 1 => i - 1 \in 1 .. n - 1
      OBVIOUS
    <3> QED BY <2>3, <3>1 DEF JoinBy
  <2>5. g = [i \in 1 .. n |-> JoinBy(g, parts, i)]
    BY <2>2, <2>4
  <2> QED BY <2>5
<1> HIDE DEF Built
<1>3. Without = {}
  <2> SUFFICES ASSUME Without # {}
               PROVE  FALSE
    OBVIOUS
  <2>1. PICK n \in Without : \A m \in Without : ~(m < n)
    <3>1. Without \subseteq Nat
      OBVIOUS
    <3> HIDE DEF Without
    <3> QED BY <3>1, LeastNumber
  <2>2. n \in 1 .. N /\ n - 1 \notin Without /\ ~Built(n)
    BY <1>1, <2>1
  <2>3. Built(n - 1)
    BY <2>2
  <2> QED BY <1>2, <2>2, <2>3
<1>4. Built(N)
  BY <1>3
<1> QED BY <1>4 DEF Built

LEMMA FlattenType ==
  ASSUME NEW S, NEW parts \in Seq(Seq(S))
  PROVE  FlattenSeq(parts) \in Seq(S)
<1>1. PICK N \in Nat : N = Len(parts) /\ \A i \in 1 .. N : parts[i] \in Seq(S)
  OBVIOUS
<1>2. CASE N = 0
  <2>1. parts = <<>>
    BY <1>1, <1>2, EmptySeq
  <2>2. FlattenSeq(parts) = <<>> /\ <<>> \in Seq(S)
    BY <1>1, <1>2, <2>1 DEF FlattenSeq
  <2> QED BY <2>2
<1>3. CASE N # 0
  <2>1. \E f : f = [i \in 1 .. N |-> JoinBy(f, parts, i)]
    BY JoinsExist
  <2>2. PICK f : f = CHOOSE g : g = [i \in 1 .. N |-> JoinBy(g, parts, i)]
    OBVIOUS
  <2>3. \A i \in 1 .. N : f[i] = JoinBy(f, parts, i)
    BY <2>1, <2>2
  <2>4. FlattenSeq(parts) = f[N]
    BY <1>1, <1>3, <2>2 DEF FlattenSeq, JoinBy
  <2> DEFINE Bad == {i \in 1 .. N : f[i] \notin Seq(S)}
  <2>5. ASSUME Bad # {} PROVE FALSE
    <3>1. PICK i \in Bad : \A j \in Bad : ~(j < i)
      <4>1. Bad \subseteq Nat
        OBVIOUS
      <4> HIDE DEF Bad
      <4> QED BY <2>5, <4>1, LeastNumber
    <3>2. i \in 1 .. N /\ f[i] \notin Seq(S)
      BY <3>1
    <3>3. i # 1
      BY <1>1, <2>3, <3>2 DEF JoinBy
    <3>4. i - 1 \in 1 .. N /\ i - 1 < i
      BY <3>2, <3>3
    <3>5. f[i - 1] \in Seq(S)
      BY <3>1, <3>4
    <3>6. f[i] = f[i - 1] \o parts[i] /\ parts[i] \in Seq(S)
      BY <1>1, <2>3, <3>2, <3>3 DEF JoinBy
    <3>7. f[i - 1] \o parts[i] \in Seq(S)
      BY <3>5, <3>6, ConcatProperties
    <3> QED BY <3>2, <3>6, <3>7
  <2>6. N \in 1 .. N
    BY <1>3
  <2> QED BY <2>4, <2>5, <2>6
<1> QED BY <1>2, <1>3

-----------------------------------------------------------------------------
(* The values in a context.                                                *)

LEMMA UpdatedDict ==
  ASSUME NEW fun, NEW by, IsDict(fun), IsDict(by)
  PROVE  IsDict(Updated(fun, by))
<1>1. PICK u : u = Updated(fun, by)
  OBVIOUS
<1>2. DOMAIN u = DOMAIN fun \cup DOMAIN by
  BY <1>1 DEF Updated
<1>3. IsFiniteSet(DOMAIN u)
  BY <1>2, FS_Union DEF IsDict
<1>4. \A k \in DOMAIN u : u[k] = IF k \in DOMAIN by THEN by[k] ELSE fun[k]
  BY <1>1 DEF Updated
<1> QED BY <1>1, <1>2, <1>3, <1>4 DEF IsDict

LEMMA EmptyDict == IsDict(<<>>)
<1>1. DOMAIN <<>> = {}
  OBVIOUS
<1> QED BY <1>1, FS_EmptySet DEF IsDict

LEMMA WrittenNode ==
  ASSUME NEW st, "node" \in DOMAIN st, NEW name, NEW vs, NEW globals,
         NEW bucket, bucket = (IF name \in DOMAIN st.node THEN st.node[name] ELSE <<>>)
  PROVE  LET node == WriteResult(st, name, vs, globals).node
         IN  /\ DOMAIN node = DOMAIN st.node \cup {name}
             /\ node[name] = Updated(bucket, vs)
             /\ \A x \in DOMAIN st.node \ {name} : node[x] = st.node[x]
<1>1. PICK new, by : new = Updated(bucket, vs) /\ by = [x \in {name} |-> new]
  OBVIOUS
<1>2. WriteResult(st, name, vs, globals).node = Updated(st.node, by)
  BY <1>1 DEF WriteResult
<1> QED BY <1>1, <1>2 DEF Updated

LEMMA OneDict ==
  ASSUME NEW key, NEW v, IsValue(v)
  PROVE  IsDict(One(key, v))
<1>1. DOMAIN One(key, v) = {key} /\ One(key, v)[key] = v
  BY DEF One
<1>2. IsFiniteSet({key})
  BY FS_Singleton
<1> QED BY <1>1, <1>2 DEF IsDict

\* A context holds dicts of values, one for each of its scopes and nodes.
IsStore(st) ==
  /\ st = [global |-> st.global, chat |-> st.chat, loop |-> st.loop, node |-> st.node]
  /\ IsDict(st.global) /\ IsDict(st.chat) /\ IsDict(st.loop)
  /\ IsFiniteSet(DOMAIN st.node) /\ \A name \in DOMAIN st.node : IsDict(st.node[name])

LEMMA FoundValue ==
  ASSUME NEW fun, IsDict(fun), NEW path, IsSeq(path)
  PROVE  IsValue(Found(Walk(Dict(fun), path))) /\ IsValue(Walk(Dict(fun), path))
<1>1. IsValue(Walk(Dict(fun), path))
  BY DictValue, WalkValue
<1> QED BY <1>1, SimpleValues DEF Found

LEMMA ResolvedValue ==
  ASSUME NEW st, IsStore(st), NEW ref, IsSeq(ref.path)
  PROVE  IsValue(Resolve(st, ref))
<1>1. CASE ref.path = <<>>
  BY <1>1, SimpleValues DEF Resolve
<1>2. CASE ref.path # <<>> /\ ref.scope \in {"global", "chat", "loop"}
  <2>1. IsDict(st[ref.scope])
    BY <1>2 DEF IsStore
  <2>2. Resolve(st, ref) = Found(Walk(Dict(st[ref.scope]), ref.path))
    BY <1>2 DEF Resolve
  <2> QED BY <2>1, <2>2, FoundValue
<1>3. CASE ref.path # <<>> /\ ref.scope \notin {"global", "chat", "loop"}
  <2>1. CASE ref.scope \in DOMAIN st.node
    <3>1. Resolve(st, ref) = Found(Walk(Dict(st.node[ref.scope]), ref.path))
      BY <1>3, <2>1 DEF Resolve
    <3> QED BY <2>1, <3>1, FoundValue DEF IsStore
  <2>2. CASE ref.scope \notin DOMAIN st.node
    BY <1>3, <2>2, SimpleValues DEF Resolve
  <2> QED BY <2>1, <2>2
<1> QED BY <1>1, <1>2, <1>3

LEMMA ContextValue ==
  ASSUME NEW st, IsStore(st)
  PROVE  IsValue(JinjaContext(st))
<1> DEFINE flat == Updated(st.chat, st.global)
           scopes == [global |-> Dict(st.global), chat |-> Dict(st.chat)]
           nodes == [n \in DOMAIN st.node |-> Dict(st.node[n])]
<1>1. IsDict(flat)
  BY UpdatedDict DEF IsStore
<1>2. IsDict(scopes)
  <2>1. DOMAIN scopes = {"global"} \cup {"chat"}
    OBVIOUS
  <2>2. IsFiniteSet(DOMAIN scopes)
    <3>1. IsFiniteSet({"global"})
      BY FS_Singleton
    <3> QED BY <2>1, <3>1, FS_AddElement
  <2>3. IsValue(scopes.global) /\ IsValue(scopes.chat)
    BY DictValue DEF IsStore
  <2> QED BY <2>1, <2>2, <2>3 DEF IsDict
<1>3. IsDict(nodes)
  <2>1. DOMAIN nodes = DOMAIN st.node /\ \A n \in DOMAIN st.node : nodes[n] = Dict(st.node[n])
    OBVIOUS
  <2> QED BY <2>1, DictValue DEF IsStore, IsDict
<1> QED BY <1>1, <1>2, <1>3, UpdatedDict, DictValue DEF JinjaContext

LEMMA RenderedValue ==
  ASSUME NEW st, IsStore(st), NEW ref, IsSeq(ref.path)
  PROVE  IsValue(Rendered(st, ref))
<1>1. IsSeq(<<ref.scope>> \o ref.path)
  <2>1. PICK T : T = ToSet(ref.path) \cup {ref.scope}
    OBVIOUS
  <2>2. ref.path \in Seq(T) /\ <<ref.scope>> \in Seq(T)
    BY <2>1 DEF IsSeq
  <2>3. <<ref.scope>> \o ref.path \in Seq(T)
    BY <2>2, ConcatProperties
  <2> QED BY <2>3, OfASeq
<1> QED BY <1>1, ContextValue, WalkValue DEF Rendered

LEMMA WrittenStore ==
  ASSUME NEW st, IsStore(st), NEW name, NEW vs, IsDict(vs), NEW globals, IsDict(globals)
  PROVE  IsStore(WriteResult(st, name, vs, globals))
<1>1. PICK bucket : bucket = IF name \in DOMAIN st.node THEN st.node[name] ELSE <<>>
  OBVIOUS
<1>2. IsDict(bucket)
  BY <1>1, EmptyDict DEF IsStore
<1>3. PICK b : b = Updated(bucket, vs)
  OBVIOUS
<1>4. IsDict(b)
  BY <1>2, <1>3, UpdatedDict
<1>5. PICK nodes : nodes = Updated(st.node, [n \in {name} |-> b])
  OBVIOUS
<1>6. /\ DOMAIN nodes = DOMAIN st.node \cup {name}
      /\ \A n \in DOMAIN nodes : nodes[n] = IF n = name THEN b ELSE st.node[n]
  BY <1>5 DEF Updated
<1>7. IsFiniteSet(DOMAIN nodes) /\ \A n \in DOMAIN nodes : IsDict(nodes[n])
  BY <1>4, <1>6, FS_AddElement DEF IsStore
<1>8. WriteResult(st, name, vs, globals) =
        [global |-> Updated(st.global, globals), chat |-> st.chat, loop |-> st.loop,
         node |-> nodes]
  <2>1. PICK u : u = Updated(st.global, globals)
    OBVIOUS
  <2>2. WriteResult(st, name, vs, globals) = [st EXCEPT !.node = nodes, !.global = u]
    BY <1>1, <1>3, <1>5, <2>1 DEF WriteResult
  <2>3. PICK g, c, l, d : st = [global |-> g, chat |-> c, loop |-> l, node |-> d]
    BY DEF IsStore
  <2> QED BY <2>1, <2>2, <2>3
<1>9. IsDict(Updated(st.global, globals))
  BY UpdatedDict DEF IsStore
<1> QED BY <1>7, <1>8, <1>9 DEF IsStore

-----------------------------------------------------------------------------
(* What nodes return is made of values.                                    *)

AreValues(s) == IsSeq(s) /\ \A i \in DOMAIN s : IsValue(s[i])

LEMMA SeqOnNumbers ==
  ASSUME NEW n \in Nat, NEW s, s = [i \in 1 .. n |-> s[i]]
  PROVE  IsSeq(s) /\ DOMAIN s = 1 .. n
<1>1. \A i \in 1 .. n : s[i] \in ToSet(s)
  BY DEF ToSet
<1>2. s \in [1 .. n -> ToSet(s)]
  BY <1>1
<1> QED BY <1>2, SeqDef DEF IsSeq

LEMMA SeqOfOne ==
  ASSUME NEW x
  PROVE  IsSeq(<<x>>) /\ DOMAIN <<x>> = {1} /\ <<x>>[1] = x
<1>1. <<x>> \in Seq({x})
  OBVIOUS
<1>2. IsSeq(<<x>>)
  BY <1>1, OfASeq
<1>3. DOMAIN <<x>> = {1} /\ <<x>>[1] = x
  OBVIOUS
<1> QED BY <1>2, <1>3

LEMMA SeqOfNone == IsSeq(<<>>) /\ DOMAIN <<>> = {}
<1>1. <<>> \in Seq({})
  OBVIOUS
<1>2. IsSeq(<<>>)
  BY <1>1, OfASeq
<1>3. DOMAIN <<>> = {}
  OBVIOUS
<1> QED BY <1>2, <1>3

LEMMA NoValues == AreValues(<<>>)
BY SeqOfNone DEF AreValues

LEMMA OneValue ==
  ASSUME NEW v, IsValue(v)
  PROVE  AreValues(<<v>>)
BY SeqOfOne DEF AreValues

LEMMA PiecesValues ==
  ASSUME NEW s, IsSeq(s)
  PROVE  AreValues(Pieces(s))
<1>1. PICK n \in Nat : DOMAIN s = 1 .. n
  BY SeqFacts
<1>2. PICK t : t = Pieces(s)
  OBVIOUS
<1>3. t = [i \in 1 .. n |-> t[i]] /\ \A i \in 1 .. n : t[i] = String(<<s[i]>>)
  BY <1>1, <1>2 DEF Pieces
<1>4. \A i \in 1 .. n : IsValue(t[i])
  BY <1>3, SeqOfOne, SimpleValues
<1> QED BY <1>2, <1>3, <1>4, SeqOnNumbers DEF AreValues

LEMMA StrSeq ==
  ASSUME NEW v, IsValue(v)
  PROVE  IsSeq(Str(v))
<1>1. CASE v.kind = "text"
  BY <1>1, PartsOfValue DEF Str
<1>2. CASE v.kind # "text"
  <2>1. \E x : Str(v) = <<x>>
    BY <1>2 DEF Str
  <2> QED BY <2>1, SeqOfOne
<1> QED BY <1>1, <1>2

LEMMA OrBlankValue ==
  ASSUME NEW v, IsValue(v)
  PROVE  IsValue(OrBlank(v))
BY SimpleValues, SeqOfNone DEF OrBlank

LEMMA ItemsValues ==
  ASSUME NEW v, IsValue(v)
  PROVE  AreValues(ItemsOf(v))
BY PartsOfValue, NoValues DEF ItemsOf, AreValues

LEMMA SetToSeqSeq ==
  ASSUME NEW S, IsFiniteSet(S)
  PROVE  IsSeq(SetToSeq(S))
<1>1. PICK n \in Nat : n = Cardinality(S)
  BY FS_CardinalityType
<1>2. ExistsBijection(1 .. n, S)
  BY <1>1, FS_CardinalityType
<1>3. \E f \in [1 .. n -> S] : IsInjective(f)
  BY <1>2 DEF ExistsBijection, Bijection, Injection, IsInjective
<1>4. SetToSeq(S) \in [1 .. n -> S]
  BY <1>1, <1>3 DEF SetToSeq
<1> QED BY <1>4, SeqOnNumbers

LEMMA ElementsValues ==
  ASSUME NEW v, IsValue(v)
  PROVE  AreValues(Elements(v))
<1>1. CASE v.kind = "text"
  BY <1>1, PartsOfValue, PiecesValues DEF Elements
<1>2. CASE v.kind = "dict"
  <2>1. IsFiniteSet(DOMAIN v.of)
    BY <1>2, PartsOfValue DEF IsDict
  <2>2. AreValues(Pieces(SetToSeq(DOMAIN v.of)))
    BY <2>1, SetToSeqSeq, PiecesValues
  <2> QED BY <1>2, <2>2 DEF Elements
<1>3. CASE v.kind \notin {"text", "dict"}
  BY <1>3, ItemsValues DEF Elements
<1> QED BY <1>1, <1>2, <1>3

LEMMA SingletonsValues ==
  ASSUME NEW v, IsValue(v)
  PROVE  AreValues(Singletons(v))
<1>1. PICK e : e = Elements(v) /\ AreValues(e)
  BY ElementsValues
<1>2. PICK n \in Nat : DOMAIN e = 1 .. n
  BY <1>1, SeqFacts DEF AreValues
<1>3. PICK t : t = Singletons(v)
  OBVIOUS
<1>4. t = [i \in 1 .. n |-> t[i]] /\ \A i \in 1 .. n : t[i] = List(<<e[i]>>)
  BY <1>1, <1>2, <1>3 DEF Singletons
<1>5. \A i \in 1 .. n : IsValue(t[i])
  <2> TAKE i \in 1 .. n
  <2>1. AreValues(<<e[i]>>)
    BY <1>1, <1>2, OneValue DEF AreValues
  <2>2. IsValue(List(<<e[i]>>))
    BY <2>1, ListValue DEF AreValues
  <2> QED BY <1>4, <2>2
<1> QED BY <1>3, <1>4, <1>5, SeqOnNumbers DEF AreValues

LEMMA ReverseValues ==
  ASSUME NEW s, AreValues(s)
  PROVE  AreValues(Reverse(s))
<1>1. PICK n \in Nat : n = Len(s) /\ DOMAIN s = 1 .. n
  BY SeqFacts DEF AreValues
<1>2. PICK t : t = Reverse(s)
  OBVIOUS
<1>3. t = [i \in 1 .. n |-> t[i]] /\ \A i \in 1 .. n : t[i] = s[(n - i) + 1]
  BY <1>1, <1>2 DEF Reverse
<1>4. \A i \in 1 .. n : (n - i) + 1 \in 1 .. n
  OBVIOUS
<1>5. \A i \in 1 .. n : IsValue(t[i])
  BY <1>1, <1>3, <1>4 DEF AreValues
<1> QED BY <1>2, <1>3, <1>5, SeqOnNumbers DEF AreValues

LEMMA ListOfValues ==
  ASSUME NEW s, AreValues(s)
  PROVE  IsValue(List(s))
BY ListValue DEF AreValues

(* Hits are what a search returns. *)
LEMMA HitsValues ==
  ASSUME NEW hits \in Hits
  PROVE  IsValue(hits)
<1>1. IsValue(String(<<"hit">>))
  BY SeqOfOne, SimpleValues
<1>2. IsDict([content |-> String(<<"hit">>)])
  <2>1. PICK d : d = [content |-> String(<<"hit">>)]
    OBVIOUS
  <2>2. DOMAIN d = {"content"} /\ d["content"] = String(<<"hit">>)
    BY <2>1
  <2> QED BY <1>1, <2>1, <2>2, FS_Singleton DEF IsDict
<1>3. PICK h : h = Hit /\ IsValue(h)
  BY <1>2, DictValue DEF Hit
<1>4. AreValues(<<h, h>>)
  <2>1. <<h, h>> \in Seq({h}) /\ DOMAIN <<h, h>> = 1 .. 2 /\ <<h, h>>[1] = h /\ <<h, h>>[2] = h
    OBVIOUS
  <2>2. \A i \in 1 .. 2 : i = 1 \/ i = 2
    OBVIOUS
  <2> QED BY <1>3, <2>1, <2>2, OfASeq DEF AreValues
<1>5. hits \in {List(<<>>), List(<<h>>), List(<<h, h>>)}
  BY <1>3 DEF Hits
<1> QED BY <1>3, <1>4, <1>5, NoValues, OneValue, ListOfValues

LEMMA SaidValues ==
  ASSUME NEW n, NEW text \in Said(n)
  PROVE  IsValue(text)
BY SeqOfOne, SeqOfNone, SimpleValues DEF Said

LEMMA ParamsValues ==
  ASSUME NEW n, NEW p \in Params(n)
  PROVE  IsValue(p)
<1>1. IsValue(String(<<n>>))
  BY SeqOfOne, SimpleValues
<1>2. PICK d : d = [p |-> String(<<n>>)]
  OBVIOUS
<1>3. DOMAIN d = {"p"} /\ d["p"] = String(<<n>>)
  BY <1>2
<1>4. IsDict(d)
  BY <1>1, <1>3, FS_Singleton DEF IsDict
<1>5. Params(n) = {Dict(d)}
  BY <1>2 DEF Params
<1> QED BY <1>4, <1>5, DictValue

IsResult(r) == IsDict(r.vars) /\ IsDict(r.globals)

LEMMA OneResult ==
  ASSUME NEW key, NEW v, IsValue(v)
  PROVE  IsResult(Both(One(key, v))) /\ IsResult(Result(One(key, v), <<>>))
BY OneDict, EmptyDict DEF Both, Result, IsResult

LEMMA GotValue ==
  ASSUME IsStore(store), NEW ref, IsSeq(ref.path)
  PROVE  IsValue(Get(ref))
BY ResolvedValue DEF Get

(* Variables of a start or an assignment. *)
LEMMA VariablesResult ==
  ASSUME NEW values, Whole(values), IsConfigured(flow, values), IsStore(store),
         NEW n \in Nodes, Type(n) \in {"start-node", "variable-assign-node"},
         NEW r \in Results(n)
  PROVE  IsResult(r)
<1>1. PICK variables : variables = Config(n).variables
  OBVIOUS
<1>2. /\ IsFiniteSet(DOMAIN variables)
      /\ \A k \in DOMAIN variables :
           IF variables[k].braced THEN IsSeq(variables[k].ref.path) ELSE variables[k].value \in values
  BY <1>1 DEF IsConfigured, Nodes, Type, Config, Range
<1>3. \A k \in DOMAIN variables : ~variables[k].braced => IsValue(variables[k].value)
  BY <1>2 DEF IsValue
<1>4. CASE Type(n) = "start-node"
  <2>1. PICK fun : fun = [k \in DOMAIN variables |-> Materialize(variables[k])]
    OBVIOUS
  <2>2. r = Result(<<>>, fun)
    BY <1>1, <1>4, <2>1 DEF Results, StartNode
  <2>3. \A k \in DOMAIN variables : IsValue(Materialize(variables[k]))
    BY <1>2, <1>3, GotValue DEF Materialize
  <2>4. IsDict(fun)
    BY <1>2, <2>1, <2>3 DEF IsDict
  <2> QED BY <2>2, <2>4, EmptyDict DEF Result, IsResult
<1>5. CASE Type(n) = "variable-assign-node"
  <2> DEFINE of(target) == {k \in DOMAIN variables : variables[k].target = target}
             fun(target) == [k \in of(target) |-> Assigned(variables[k])]
  <2>1. r = Result(fun("node"), fun("global"))
    BY <1>1, <1>5 DEF Results, VariableAssignNode
  <2>2. \A k \in DOMAIN variables : IsValue(Assigned(variables[k]))
    <3> SUFFICES ASSUME NEW k \in DOMAIN variables
                 PROVE  IsValue(Assigned(variables[k]))
      OBVIOUS
    <3>1. CASE variables[k].braced
      <4>1. PICK ref : ref = Ref("{{", variables[k].ref.path)
        OBVIOUS
      <4>2. ref.path = variables[k].ref.path /\ IsSeq(ref.path)
        BY <1>2, <3>1, <4>1 DEF Ref
      <4> QED BY <3>1, <4>1, <4>2, GotValue DEF Assigned
    <3>2. CASE ~variables[k].braced
      BY <1>3, <3>2 DEF Assigned
    <3> QED BY <3>1, <3>2
  <2>3. \A target : IsDict(fun(target))
    <3> TAKE target
    <3>1. DOMAIN fun(target) = of(target) /\ \A k \in of(target) : fun(target)[k] = Assigned(variables[k])
      OBVIOUS
    <3>2. IsFiniteSet(of(target))
      BY <1>2, FS_Subset
    <3> QED BY <2>2, <3>1, <3>2 DEF IsDict
  <2> HIDE DEF fun
  <2> QED BY <2>1, <2>3 DEF Result, IsResult
<1> QED BY <1>4, <1>5

LEMMA AggregationResult ==
  ASSUME NEW values, IsConfigured(flow, values), IsStore(store),
         NEW n \in Nodes, Type(n) = "aggregation-node", NEW r \in Results(n)
  PROVE  IsResult(r)
<1>1. PICK refs : refs = Config(n).source_refs
  OBVIOUS
<1>2. IsSeq(refs) /\ \A i \in DOMAIN refs : IsSeq(refs[i].path)
  BY <1>1 DEF IsConfigured, Nodes, Type, Config
<1>3. PICK k \in Nat : DOMAIN refs = 1 .. k
  BY <1>2, SeqFacts
<1>4. \A i \in 1 .. k : IsValue(Get(refs[i]))
  BY <1>2, <1>3, GotValue
<1>5. PICK found : found = [i \in 1 .. k |-> IF Get(refs[i]) = NoValue THEN <<>> ELSE <<Get(refs[i])>>]
  OBVIOUS
<1>6. PICK S : S = {Get(refs[i]) : i \in 1 .. k}
  OBVIOUS
<1>7. found \in Seq(Seq(S))
  <2>1. \A i \in 1 .. k : found[i] \in Seq(S)
    <3> TAKE i \in 1 .. k
    <3>1. PICK x : x = Get(refs[i]) /\ x \in S
      BY <1>6
    <3>2. <<>> \in Seq(S) /\ <<x>> \in Seq(S)
      BY <3>1
    <3> QED BY <1>5, <3>1, <3>2
  <2> QED BY <1>5, <2>1
<1>8. PICK result : result = FlattenSeq(found) /\ result \in Seq(S)
  BY <1>7, FlattenType
<1>9. AreValues(result)
  <2>1. \A i \in DOMAIN result : result[i] \in S
    <3>1. PICK m \in Nat : result \in [1 .. m -> S]
      BY <1>8, SeqDef
    <3> QED BY <3>1
  <2> QED BY <1>4, <1>6, <1>8, <2>1, OfASeq DEF AreValues
<1>10. r = Result(One("result_list", List(result)), <<>>)
  BY <1>1, <1>3, <1>5, <1>8 DEF Results, AggregationNode
<1> QED BY <1>9, <1>10, ListOfValues, OneResult

LEMMA ReplyResult ==
  ASSUME NEW values, IsConfigured(flow, values), IsStore(store),
         NEW n \in Nodes, Type(n) = "reply-node", NEW r \in Results(n)
  PROVE  IsResult(r)
<1>1. PICK template : template = Config(n).template
  OBVIOUS
<1>2. IsSeq(template) /\ \A i \in DOMAIN template : IsSeq(template[i].path)
  BY <1>1 DEF IsConfigured, Nodes, Type, Config
<1>3. PICK k \in Nat : DOMAIN template = 1 .. k
  BY <1>2, SeqFacts
<1>4. PICK t : t = Render(store, template)
  OBVIOUS
<1>5. t = [i \in 1 .. k |-> t[i]] /\ \A i \in 1 .. k : t[i] = Rendered(store, template[i])
  BY <1>3, <1>4 DEF Render
<1>6. AreValues(t)
  BY <1>2, <1>3, <1>5, RenderedValue, SeqOnNumbers DEF AreValues
<1>7. r = Both(One("answer", List(t)))
  BY <1>1, <1>4 DEF Results, ReplyNode
<1> QED BY <1>6, <1>7, ListOfValues, OneResult

LEMMA LibraryResult ==
  ASSUME NEW values, IsConfigured(flow, values), IsStore(store),
         NEW n \in Nodes, NEW r \in Results(n),
         Type(n) \in {"condition-node", "splitting-node", "form-node", "ai-chat-node",
                      "question-node", "application-node", "parameter-extraction-node",
                      "search-knowledge-node", "search-document-node", "reranker-node",
                      "document-extract-node", "document-split-node", "knowledge-write-node"}
  PROVE  IsResult(r)
<1>1. CASE Type(n) = "condition-node"
  <2>1. r.vars = <<>> /\ r.globals = <<>>
    BY <1>1 DEF Results, ConditionNode, Result
  <2> QED BY <2>1, EmptyDict DEF IsResult
<1>2. CASE Type(n) = "splitting-node"
  <2>1. PICK source : source = Get(Config(n).source_ref) /\ IsValue(source)
    BY <1>2, GotValue DEF IsConfigured, Nodes, Type, Config
  <2>2. AreValues(Pieces(Str(source))) /\ AreValues(Singletons(source))
    BY <2>1, StrSeq, PiecesValues, SingletonsValues
  <2>3. \E s : AreValues(s) /\ r = Result(One("output_list", List(s)), <<>>)
    BY <1>2, <2>1, <2>2 DEF Results, SplittingNode
  <2> QED BY <2>3, ListOfValues, OneResult
<1>3. CASE Type(n) = "form-node"
  <2>1. IsValue(Submitted)
    BY SimpleValues DEF Submitted, IsStore, IsDict
  <2>2. r = Both(One("form_data", Submitted))
    BY <1>3 DEF Results, FormNode
  <2> QED BY <2>1, <2>2, OneResult
<1>4. CASE Type(n) \in {"ai-chat-node", "application-node"}
  <2>1. r \in AiChatNode(n) \cup ApplicationNode(n)
    BY <1>4 DEF Results
  <2>2. PICK text \in Said(n) : r = Both(One("answer", List(<<text>>)))
    BY <2>1 DEF AiChatNode, ApplicationNode
  <2> QED BY <2>2, SaidValues, OneValue, ListOfValues, OneResult
<1>5. CASE Type(n) = "question-node"
  <2>1. PICK text \in Said(n) : r = Both(One("question", text))
    BY <1>5 DEF Results, QuestionNode
  <2> QED BY <2>1, SaidValues, OneResult
<1>6. CASE Type(n) = "parameter-extraction-node"
  <2>1. PICK p \in Params(n) : r = Result(One("extracted_params", p), <<>>)
    BY <1>6 DEF Results, ParameterExtractionNode
  <2> QED BY <2>1, ParamsValues, OneResult
<1>7. CASE Type(n) = "search-knowledge-node"
  <2>1. PICK hits \in Hits : r = Result([k \in {"paragraph_list", "hit_list"} |-> hits], <<>>)
    BY <1>7 DEF Results, SearchKnowledgeNode
  <2>2. PICK fun : fun = [k \in {"paragraph_list", "hit_list"} |-> hits]
    OBVIOUS
  <2>3. IsDict(fun)
    <3>1. DOMAIN fun = {"paragraph_list"} \cup {"hit_list"} /\ \A k \in DOMAIN fun : fun[k] = hits
      BY <2>2
    <3>2. IsFiniteSet({"paragraph_list"})
      BY FS_Singleton
    <3>3. IsFiniteSet(DOMAIN fun)
      BY <3>1, <3>2, FS_AddElement
    <3> QED BY <3>1, <3>3, HitsValues DEF IsDict
  <2> QED BY <2>1, <2>2, <2>3, EmptyDict DEF Result, IsResult
<1>8. CASE Type(n) = "search-document-node"
  <2>1. PICK hits \in Hits : r = Result(One("paragraph_list", hits), <<>>)
    BY <1>8 DEF Results, SearchDocumentNode
  <2> QED BY <2>1, HitsValues, OneResult
<1>9. CASE Type(n) = "reranker-node"
  <2>1. PICK paragraphs : paragraphs = Get(Config(n).paragraph_ref) /\ IsValue(paragraphs)
    BY <1>9, GotValue DEF IsConfigured, Nodes, Type, Config
  <2>2. AreValues(ItemsOf(paragraphs)) /\ AreValues(Reverse(ItemsOf(paragraphs)))
    BY <2>1, ItemsValues, ReverseValues
  <2>3. \E s : AreValues(s) /\ r = Both(One("rerank_list", List(s)))
    BY <1>9, <2>1, <2>2 DEF Results, RerankerNode
  <2> QED BY <2>3, ListOfValues, OneResult
<1>10. CASE Type(n) = "document-extract-node"
  <2>1. PICK text \in Said(n) : r = Result(One("content", text), <<>>)
    BY <1>10 DEF Results, DocumentExtractNode
  <2> QED BY <2>1, SaidValues, OneResult
<1>11. CASE Type(n) = "document-split-node"
  <2>1. PICK content : content = Get(Config(n).content_ref) /\ IsValue(content)
    BY <1>11, GotValue DEF IsConfigured, Nodes, Type, Config
  <2>2. AreValues(Pieces(Str(OrBlank(content))))
    BY <2>1, OrBlankValue, StrSeq, PiecesValues
  <2>3. r = Result(One("paragraph_list", List(Pieces(Str(OrBlank(content))))), <<>>)
    BY <1>11, <2>1 DEF Results, DocumentSplitNode
  <2> QED BY <2>2, <2>3, ListOfValues, OneResult
<1>12. CASE Type(n) = "knowledge-write-node"
  <2>1. PICK paragraphs : paragraphs = Get(Config(n).paragraph_ref) /\ IsValue(paragraphs)
    BY <1>12, GotValue DEF IsConfigured, Nodes, Type, Config
  <2>2. PICK k \in Nat : k = Len(ItemsOf(paragraphs))
    BY <2>1, ItemsValues, SeqFacts DEF AreValues
  <2>3. r = Result(One("written", Num(k)), <<>>)
    BY <1>12, <2>1, <2>2 DEF Results, KnowledgeWriteNode
  <2> QED BY <2>2, <2>3, SimpleValues, OneResult
<1> QED BY <1>1, <1>2, <1>3, <1>4, <1>5, <1>6, <1>7, <1>8, <1>9, <1>10, <1>11, <1>12

LEMMA NodeResult ==
  ASSUME NEW values, Whole(values), IsConfigured(flow, values), IsFlow(flow), IsStore(store),
         NEW n \in Nodes, NEW r \in Results(n)
  PROVE  IsResult(r)
<1>1. Type(n) \in NodeType
  BY DEF IsFlow, Nodes, Type
<1> QED BY <1>1, VariablesResult, AggregationResult, ReplyResult, LibraryResult
        DEF NodeType, External

-----------------------------------------------------------------------------
(* What nodes have computed and written is made of values.                 *)

ValueInv ==
  /\ flow \in Flow /\ at \in [Nodes -> Phases]
  /\ IsStore(store)
  /\ \A n \in Nodes : at[n] = "executed" => n \in DOMAIN out
  /\ \A n \in DOMAIN out : IsResult(out[n])

LEMMA ValueInit ==
  ASSUME NEW values, Whole(values), Question \subseteq values, Init
  PROVE  ValueInv
<1>1. PICK q \in Question : store = [EmptyStore EXCEPT !.chat = [question |-> q]]
  BY DEF Init
<1>2. /\ store = [global |-> <<>>, chat |-> [question |-> q], loop |-> <<>>, node |-> <<>>]
  BY <1>1 DEF EmptyStore
<1>3. IsDict([question |-> q])
  <2>1. PICK d : d = [question |-> q]
    OBVIOUS
  <2>2. DOMAIN d = {"question"} /\ d["question"] = q
    BY <2>1
  <2>3. IsValue(q)
    BY DEF IsValue
  <2> QED BY <2>1, <2>2, <2>3, FS_Singleton DEF IsDict
<1>4. IsStore(store)
  <2>1. DOMAIN <<>> = {} /\ IsFiniteSet({})
    BY FS_EmptySet
  <2> QED BY <1>2, <1>3, <2>1, EmptyDict DEF IsStore
<1>5. flow \in Flow /\ at = [n \in Nodes |-> IF Type(n) = "start-node" THEN "released" ELSE "waiting"]
      /\ out = <<>>
  BY DEF Init
<1>6. at \in [Nodes -> Phases] /\ DOMAIN out = {} /\ \A n \in Nodes : at[n] # "executed"
  BY <1>5 DEF Phases
<1> QED BY <1>4, <1>5, <1>6 DEF ValueInv

LEMMA ValueStep ==
  ASSUME NEW values, Whole(values), Form \subseteq values,
         \A f \in Flow : IsFlow(f) /\ IsConfigured(f, values),
         ValueInv, [Next]_vars
  PROVE  ValueInv'
<1>1. /\ flow \in Flow /\ at \in [Nodes -> Phases] /\ IsStore(store)
      /\ \A n \in Nodes : at[n] = "executed" => n \in DOMAIN out
      /\ \A n \in DOMAIN out : IsResult(out[n])
      /\ IsFlow(flow) /\ IsConfigured(flow, values)
  BY DEF ValueInv
<1>2. ASSUME NEW n \in Nodes, Execute(n) PROVE ValueInv'
  <2>1. PICK r \in Results(n) : out' = Updated(out, One(n, r))
    BY <1>2 DEF Execute
  <2>2. /\ DOMAIN out' = DOMAIN out \cup {n} /\ out'[n] = r
        /\ \A m \in DOMAIN out \ {n} : out'[m] = out[m]
    <3>1. DOMAIN One(n, r) = {n} /\ One(n, r)[n] = r
      BY KeysOfOne
    <3> QED BY <2>1, <3>1 DEF Updated
  <2>3. IsResult(r)
    BY <1>1, NodeResult
  <2>4. at' = [at EXCEPT ![n] = "executed"] /\ UNCHANGED <<flow, store>> /\ Nodes' = Nodes
    BY <1>2 DEF Execute, Nodes
  <2>5. at' \in [Nodes -> Phases] /\ \A m \in Nodes : m # n => at'[m] = at[m]
    BY <1>1, <2>4 DEF Phases
  <2> QED BY <1>1, <2>2, <2>3, <2>4, <2>5 DEF ValueInv
<1>3. ASSUME NEW n \in Nodes, Raise(n) \/ Interrupt(n) PROVE ValueInv'
  <2>1. /\ \E phase \in {"failed", "interrupted"} : at' = [at EXCEPT ![n] = phase]
        /\ UNCHANGED <<flow, store, out>> /\ Nodes' = Nodes
    BY <1>3 DEF Raise, Interrupt, Nodes
  <2>2. at' \in [Nodes -> Phases] /\ \A m \in Nodes : at'[m] = "executed" => at[m] = "executed"
    BY <1>1, <2>1 DEF Phases
  <2> QED BY <1>1, <2>1, <2>2 DEF ValueInv
<1>4. ASSUME NEW n \in Nodes, Write(n) PROVE ValueInv'
  <2>1. /\ at[n] = "executed" /\ UNCHANGED <<flow, out>> /\ Nodes' = Nodes
        /\ store' = WriteResult(store, Config(n).name, out[n].vars, out[n].globals)
    BY <1>4 DEF Write, Nodes
  <2>2. IsResult(out[n])
    BY <1>1, <2>1
  <2>3. IsStore(store')
    BY <1>1, <2>1, <2>2, WrittenStore DEF IsResult
  <2>4. at' \in [Nodes -> Phases] /\ \A m \in Nodes : at'[m] = "executed" => at[m] = "executed"
    <3>1. \E taken : at' = [m \in Nodes |-> IF m = n THEN "done"
                                            ELSE IF m \in taken THEN "released" ELSE at[m]]
      BY <1>4 DEF Write
    <3> QED BY <1>1, <3>1 DEF Phases
  <2> QED BY <1>1, <2>1, <2>3, <2>4 DEF ValueInv
<1>5. ASSUME NEW dict \in Form, Resume(dict) PROVE ValueInv'
  <2>1. /\ at' = [n \in Nodes |-> IF n \in asked THEN "released" ELSE at[n]]
        /\ UNCHANGED <<flow, out>> /\ Nodes' = Nodes
        /\ store' = [store EXCEPT !.global = Updated(@, One("submitted", dict))]
    BY <1>5 DEF Resume, Nodes
  <2>2. PICK g : g = Updated(store.global, One("submitted", dict)) /\ IsDict(g)
    <3>1. IsValue(dict)
      BY DEF IsValue
    <3>2. IsDict(One("submitted", dict))
      BY <3>1, OneDict
    <3>3. IsDict(Updated(store.global, One("submitted", dict)))
      BY <1>1, <3>2, UpdatedDict DEF IsStore
    <3> QED BY <3>3
  <2>3. IsStore(store')
    <3>1. store' = [store EXCEPT !.global = g]
      BY <2>1, <2>2
    <3>2. store' = [global |-> g, chat |-> store.chat, loop |-> store.loop, node |-> store.node]
      BY <1>1, <3>1 DEF IsStore
    <3> QED BY <1>1, <2>2, <3>2 DEF IsStore
  <2>4. at' \in [Nodes -> Phases] /\ \A m \in Nodes : at'[m] = "executed" => at[m] = "executed"
    BY <1>1, <2>1 DEF Phases
  <2> QED BY <1>1, <2>1, <2>3, <2>4 DEF ValueInv
<1>6. ASSUME UNCHANGED vars PROVE ValueInv'
  BY <1>6 DEF vars, ValueInv, Nodes
<1> QED BY <1>2, <1>3, <1>4, <1>5, <1>6 DEF Next, Ended

-----------------------------------------------------------------------------
(* Comparators.                                                            *)

LEMMA NumberOfValue ==
  ASSUME NEW v, v.kind = "num" => v.n \in Nat
  PROVE  Number(v) = {} \/ \E x \in Nat : Number(v) = {x}
<1>1. CASE v.kind = "num"
  BY <1>1 DEF Number
<1>2. CASE v.kind = "text" /\ \E d \in DOMAIN Digits : v.s = <<d>>
  <2>1. PICK d \in DOMAIN Digits : v.s = <<d>>
    BY <1>2
  <2>2. v.s[1] = d /\ Digits[d] \in {0, 1, 2}
    BY <2>1 DEF Digits
  <2> QED BY <1>2, <2>2 DEF Number
<1>3. CASE v.kind # "num" /\ ~(v.kind = "text" /\ \E d \in DOMAIN Digits : v.s = <<d>>)
  BY <1>3 DEF Number
<1> QED BY <1>1, <1>2, <1>3

LEMMA NegationOf ==
  ASSUME NEW v, NEW w, NEW pair \in Negated
  PROVE  Compare(pair[1], v, w) # Compare(pair[2], v, w)
<1>1. CASE pair = <<"eq", "ne">>
  BY <1>1 DEF Compare
<1>2. CASE pair = <<"contains", "not_contains">>
  BY <1>2 DEF Compare
<1>3. CASE pair = <<"is_empty", "is_not_empty">>
  BY <1>3 DEF Compare
<1>4. CASE pair = <<"is_true", "is_false">>
  BY <1>4 DEF Compare
<1>5. CASE pair = <<"in", "not_in">>
  BY <1>5 DEF Compare
<1> QED BY <1>1, <1>2, <1>3, <1>4, <1>5 DEF Negated

LEMMA OrderOf ==
  ASSUME NEW v, v.kind = "num" => v.n \in Nat, NEW w, w.kind = "num" => w.n \in Nat,
         NEW pair \in Ordered
  PROVE  /\ ~(Compare(pair[1], v, w) /\ Compare(pair[2], v, w))
         /\ (Compare(pair[1], v, w) \/ Compare(pair[2], v, w))
              <=> (Number(v) # {} /\ Number(w) # {})
         /\ ~CompareRaises(pair[1], v, w) /\ ~CompareRaises(pair[2], v, w)
<1>1. PICK A, B : /\ A = Number(v) /\ B = Number(w)
                  /\ A = {} \/ \E x \in Nat : A = {x}
                  /\ B = {} \/ \E y \in Nat : B = {y}
  BY NumberOfValue
<1>2. /\ Compare("gt", v, w) <=> \E x \in A, y \in B : x > y
      /\ Compare("ge", v, w) <=> \E x \in A, y \in B : x >= y
      /\ Compare("lt", v, w) <=> \E x \in A, y \in B : x < y
      /\ Compare("le", v, w) <=> \E x \in A, y \in B : x <= y
  BY <1>1 DEF Compare, Le
<1>3. \A op \in {"gt", "ge", "lt", "le"} : ~CompareRaises(op, v, w)
  BY DEF CompareRaises, Comparators
<1>4. (pair[1] = "gt" /\ pair[2] = "le") \/ (pair[1] = "ge" /\ pair[2] = "lt")
  <2>1. pair = <<"gt", "le">> \/ pair = <<"ge", "lt">>
    BY DEF Ordered
  <2> QED BY <2>1
<1>5. CASE A = {} \/ B = {}
  BY <1>1, <1>2, <1>3, <1>4, <1>5
<1>6. CASE A # {} /\ B # {}
  <2>1. PICK x \in Nat, y \in Nat : A = {x} /\ B = {y}
    BY <1>1, <1>6
  <2> QED BY <1>1, <1>2, <1>3, <1>4, <2>1
<1> QED BY <1>5, <1>6

LEMMA ValuesDecide ==
  ASSUME ValueInv
  PROVE  NegationsDecide
<1>1. \A v \in Value : v.kind = "num" => v.n \in Nat
  BY DEF Value, NoValue, Num, String, List, Dict
<1>2. \A v \in Range(store.global) : v.kind = "num" => v.n \in Nat
  BY PartsOfValue DEF ValueInv, IsStore, IsDict, Range
<1>3. \A n \in DOMAIN out : \A v \in Range(out[n].vars) : v.kind = "num" => v.n \in Nat
  BY PartsOfValue DEF ValueInv, IsResult, IsDict, Range
<1>4. \A v \in Compared : v.kind = "num" => v.n \in Nat
  BY <1>1, <1>2, <1>3 DEF Compared
<1> QED BY <1>4, NegationOf, OrderOf DEF NegationsDecide

(***************************************************************************)
(* Whatever values the nodes of a workflow compute, a comparator and its   *)
(* negation never both hold of two of them, one of them does unless they   *)
(* raise, and an order never raises.                                       *)
(***************************************************************************)
THEOREM ComparatorsDecide ==
  ASSUME NEW values, Whole(values), Question \cup Form \subseteq values,
         \A f \in Flow : IsFlow(f) /\ IsConfigured(f, values)
  PROVE  Spec => []NegationsDecide
<1>1. Init => ValueInv
  BY ValueInit
<1>2. ValueInv /\ [Next]_vars => ValueInv'
  BY ValueStep
<1>3. ValueInv => NegationsDecide
  BY ValuesDecide
<1> QED BY <1>1, <1>2, <1>3, PTL DEF Spec
-----------------------------------------------------------------------------
(* The default template.                                                   *)

Shipped == {Default, InMode(Default, "knowledge")}
Steps == {"start", "search", "cond", "answer", "none"}

LEMMA ShippedFacts ==
  ASSUME NEW f \in Shipped
  PROVE  /\ f.nodes = Default.nodes /\ f.edges = Default.edges /\ f.joins = {}
         /\ f.mode \in {"application", "knowledge"}
<1>1. Default = [nodes |-> Default.nodes, edges |-> Default.edges, joins |-> {},
                 mode |-> "application"]
  BY DEF Default, Flow_
<1>2. InMode(Default, "knowledge") =
        [nodes |-> Default.nodes, edges |-> Default.edges, joins |-> {}, mode |-> "knowledge"]
  BY <1>1 DEF InMode
<1> QED BY <1>1, <1>2 DEF Shipped

LEMMA DefaultNodes ==
  /\ DOMAIN Default.nodes = Steps
  /\ Default.nodes["start"] = [type |-> "start-node", name |-> "start", variables |-> <<>>]
  /\ Default.nodes["search"].type = "search-knowledge-node" /\ Default.nodes["search"].name = "search"
  /\ Default.nodes["cond"] =
       [type |-> "condition-node", name |-> "hit?",
        branches |-> <<[branch |-> "true",
                        conditions |-> <<[field |-> Ref("search", <<"paragraph_list">>),
                                          comparator |-> "is_not_empty", value |-> NoValue,
                                          logical_operator |-> "and"]>>]>>,
        default |-> "false"]
  /\ Default.nodes["answer"] =
       [type |-> "reply-node", name |-> "answer",
        template |-> <<Ref("search", <<"paragraph_list", "0", "content">>)>>]
  /\ Default.nodes["none"] = [type |-> "reply-node", name |-> "none", template |-> <<>>]
BY DEF Default, Flow_, Steps, Start, Condition, When, Test, Reply

LEMMA DefaultEdges ==
  ASSUME NoBranch \notin {"true", "false"}
  PROVE  Default.edges =
           {[source |-> "start", target |-> "search", branch |-> NoBranch],
            [source |-> "search", target |-> "cond", branch |-> NoBranch],
            [source |-> "cond", target |-> "answer", branch |-> "true"],
            [source |-> "cond", target |-> "none", branch |-> "false"]}
BY DEF Default, Flow_, Edge, BranchEdge

LEMMA Successors ==
  ASSUME NoBranch \notin {"true", "false"}, flow \in Shipped
  PROVE  /\ \A b : {e.target : e \in Followed("start", b)} = {"search"}
         /\ \A b : {e.target : e \in Followed("search", b)} = {"cond"}
         /\ {e.target : e \in Followed("cond", "true")} = {"answer"}
         /\ {e.target : e \in Followed("cond", "false")} = {"none"}
         /\ \A b : {e.target : e \in Followed("answer", b)} = {}
         /\ \A b : {e.target : e \in Followed("none", b)} = {}
<1>1. PICK ss, sc, ca, cn :
        /\ flow.edges = {ss, sc, ca, cn}
        /\ ss = [source |-> "start", target |-> "search", branch |-> NoBranch]
        /\ sc = [source |-> "search", target |-> "cond", branch |-> NoBranch]
        /\ ca = [source |-> "cond", target |-> "answer", branch |-> "true"]
        /\ cn = [source |-> "cond", target |-> "none", branch |-> "false"]
  BY ShippedFacts, DefaultEdges
<1>2. /\ \A b : Followed("start", b) = {ss}
      /\ \A b : Followed("search", b) = {sc}
      /\ Followed("cond", "true") = {ca}
      /\ Followed("cond", "false") = {cn}
      /\ \A b : Followed("answer", b) = {}
      /\ \A b : Followed("none", b) = {}
  BY <1>1 DEF Followed
<1>3. /\ ss.target = "search" /\ sc.target = "cond"
      /\ ca.target = "answer" /\ cn.target = "none"
  BY <1>1
<1> QED BY <1>2, <1>3

LEMMA StepFacts ==
  ASSUME flow \in Shipped
  PROVE  /\ Nodes = Steps
         /\ \A n \in Steps : Config(n) = Default.nodes[n] /\ Has(n)
         /\ Type("start") = "start-node" /\ Type("search") = "search-knowledge-node"
         /\ Type("cond") = "condition-node" /\ Type("answer") = "reply-node"
         /\ Type("none") = "reply-node"
<1>1. /\ flow.nodes = Default.nodes /\ flow.mode \in {"application", "knowledge"}
      /\ DOMAIN Default.nodes = Steps
  BY ShippedFacts, DefaultNodes
<1>2. /\ Type("start") = "start-node" /\ Type("search") = "search-knowledge-node"
      /\ Type("cond") = "condition-node" /\ Type("answer") = "reply-node"
      /\ Type("none") = "reply-node"
  BY <1>1, DefaultNodes DEF Type
<1>3. \A n \in Steps : Has(n)
  BY <1>1, <1>2 DEF Has, WorkflowModes, Steps
<1> QED BY <1>1, <1>2, <1>3 DEF Nodes, Config

(* What the search found, once it is in the context. *)
Expected(hits) == List(IF hits.items = <<>> THEN <<>> ELSE <<hits.items[1].of["content"]>>)

LEMMA HitsFacts ==
  ASSUME NEW hits \in Hits
  PROVE  /\ hits.kind = "list" /\ (IsEmpty(hits) <=> hits.items = <<>>)
         /\ hits.items # <<>> => Len(hits.items) \in {1, 2} /\ hits.items[1] = Hit
<1>1. PICK h : h = Hit
  OBVIOUS
<1>2. \/ hits = [kind |-> "list", items |-> <<>>]
      \/ hits = [kind |-> "list", items |-> <<h>>]
      \/ hits = [kind |-> "list", items |-> <<h, h>>]
  BY <1>1 DEF Hits, List
<1>3. hits.kind = "list"
  BY <1>2
<1>4. IsEmpty(hits) <=> hits.items = <<>>
  BY <1>2 DEF IsEmpty, NoValue, String, List, Dict
<1>5. hits.items # <<>> => Len(hits.items) \in {1, 2} /\ hits.items[1] = h
  BY <1>2
<1> QED BY <1>1, <1>3, <1>4, <1>5

Finds(hits) ==
  /\ "search" \in DOMAIN store.node /\ "paragraph_list" \in DOMAIN store.node["search"]
  /\ store.node["search"]["paragraph_list"] = hits

LEMMA ResolvesHits ==
  ASSUME NEW hits \in Hits, Finds(hits)
  PROVE  Resolve(store, Ref("search", <<"paragraph_list">>)) = hits
<1>1. PICK path : path = <<"paragraph_list">>
  OBVIOUS
<1>2. Len(path) = 1 /\ path[1] = "paragraph_list" /\ path # <<>>
  BY <1>1
<1>3. PICK src : src = Dict(store.node["search"])
  OBVIOUS
<1>4. Walk(src, path) = Below(src, "paragraph_list")
  <2>1. PICK f : /\ Walk(src, path) = f[Len(path)] /\ f[0] = src
                 /\ \A i \in 1 .. Len(path) : f[i] = Below(f[i - 1], path[i])
    BY <1>2, WalkSteps
  <2> QED BY <1>2, <2>1
<1>5. Below(src, "paragraph_list") = hits
  BY <1>3 DEF Finds, Dict, Below
<1>6. hits # Missing
  BY HitsFacts DEF Missing
<1>7. Resolve(store, Ref("search", path)) = Found(Walk(src, path))
  BY <1>2, <1>3 DEF Resolve, Ref, Finds
<1> QED BY <1>1, <1>4, <1>5, <1>6, <1>7 DEF Found

LEMMA RendersHit ==
  ASSUME NEW hits \in Hits, Finds(hits), hits.items # <<>>
  PROVE  Rendered(store, Ref("search", <<"paragraph_list", "0", "content">>)) = String(<<"hit">>)
<1>1. PICK path : path = <<"search">> \o <<"paragraph_list", "0", "content">>
  OBVIOUS
<1>2. /\ Len(path) = 4 /\ path[1] = "search" /\ path[2] = "paragraph_list"
      /\ path[3] = "0" /\ path[4] = "content"
  BY <1>1
<1>3. PICK src : src = JinjaContext(store)
  OBVIOUS
<1>4. PICK f : /\ Walk(src, path) = f[4] /\ f[0] = src
               /\ \A i \in 1 .. 4 : f[i] = Below(f[i - 1], path[i])
  <2>1. Len(path) \in Nat
    BY <1>2
  <2>2. \E f : /\ Walk(src, path) = f[Len(path)] /\ f[0] = src
               /\ \A i \in 1 .. Len(path) : f[i] = Below(f[i - 1], path[i])
    BY <2>1, WalkSteps
  <2> QED BY <1>2, <2>2
<1>5. f[1] = Dict(store.node["search"])
  <2>1. src.kind = "dict" /\ "search" \in DOMAIN src.of
        /\ src.of["search"] = Dict(store.node["search"])
    <3>1. PICK nodes : nodes = [n \in DOMAIN store.node |-> Dict(store.node[n])]
      OBVIOUS
    <3>2. \E flat : src = Dict(Updated(flat, nodes))
      BY <1>3, <3>1 DEF JinjaContext
    <3>3. "search" \in DOMAIN nodes /\ nodes["search"] = Dict(store.node["search"])
      BY <3>1 DEF Finds
    <3> QED BY <3>2, <3>3 DEF Dict, Updated
  <2>2. f[1] = Below(src, "search")
    BY <1>2, <1>4
  <2> QED BY <2>1, <2>2 DEF Below
<1>6. f[2] = hits
  <2>1. f[2] = Below(f[1], "paragraph_list")
    BY <1>2, <1>4
  <2> QED BY <1>5, <2>1 DEF Below, Dict, Finds
<1>7. f[3] = Hit
  <2>1. f[3] = Below(hits, "0")
    BY <1>2, <1>4, <1>6
  <2>2. "0" \in DOMAIN Digits /\ Digits["0"] = 0
    BY DEF Digits
  <2>3. hits.kind = "list" /\ Len(hits.items) \in {1, 2} /\ hits.items[1] = Hit
    BY HitsFacts
  <2> QED BY <2>1, <2>2, <2>3 DEF Below
<1>8. f[4] = String(<<"hit">>)
  <2>1. f[4] = Below(Hit, "content")
    BY <1>2, <1>4, <1>7
  <2> QED BY <2>1 DEF Below, Hit, Dict
<1> QED BY <1>1, <1>3, <1>4, <1>8 DEF Rendered, Ref

HitsFound == out["search"].vars["paragraph_list"]

\* The nodes run one after the other, the last one as the search decides.
PlaceInv ==
  /\ at \in [Steps -> Phases]
  /\ at["start"] \in {"released", "executed", "done"}
  /\ at["search"] \in {"waiting", "released", "executed", "failed", "done"}
  /\ at["cond"] \in {"waiting", "released", "executed", "done"}
  /\ at["search"] = "waiting" <=> at["start"] # "done"
  /\ at["cond"] = "waiting" <=> at["search"] # "done"
  /\ \A n \in {"answer", "none"} :
       /\ at[n] \in {"waiting", "released", "executed", "done"}
       /\ at[n] = "waiting" <=>
            \/ at["cond"] # "done"
            \/ n = IF HitsFound.items = <<>> THEN "answer" ELSE "none"
  /\ raised = IF at["search"] = "failed" THEN {"search"} ELSE {}
  /\ asked = {}

\* What the search found stays in the context, and the last node answers with it.
ResultInv ==
  /\ {"global", "node"} \subseteq DOMAIN store
  /\ at["search"] \in {"executed", "done"} =>
       /\ "search" \in DOMAIN out /\ HitsFound \in Hits
       /\ "paragraph_list" \in DOMAIN out["search"].vars
  /\ at["search"] = "done" => Finds(HitsFound)
  /\ at["cond"] = "executed" =>
       out["cond"].branch = IF HitsFound.items = <<>> THEN "false" ELSE "true"
  /\ \A n \in {"answer", "none"} :
       /\ at[n] = "executed" => out[n].globals = One("answer", Expected(HitsFound))
       /\ at[n] = "done" => /\ "answer" \in DOMAIN store.global
                            /\ store.global["answer"] = Expected(HitsFound)

\* Of the default template, in a mode that knows all its nodes.
DefaultInv == flow \in Shipped => PlaceInv /\ ResultInv

(* What the nodes of the template return. *)
LEMMA SearchReturns ==
  ASSUME flow \in Shipped, NEW r \in Results("search")
  PROVE  "paragraph_list" \in DOMAIN r.vars /\ r.vars["paragraph_list"] \in Hits
<1>1. PICK hits \in Hits : r = Result([k \in {"paragraph_list", "hit_list"} |-> hits], <<>>)
  BY StepFacts DEF Results, SearchKnowledgeNode
<1>2. PICK fun : fun = [k \in {"paragraph_list", "hit_list"} |-> hits]
  OBVIOUS
<1>3. r.vars = fun
  BY <1>1, <1>2 DEF Result
<1> QED BY <1>2, <1>3

LEMMA CondReturns ==
  ASSUME flow \in Shipped, NEW hits \in Hits, Finds(hits), NEW r \in Results("cond")
  PROVE  r.branch = IF hits.items = <<>> THEN "false" ELSE "true"
<1>1. PICK test, branch, config :
        /\ test = [field |-> Ref("search", <<"paragraph_list">>), comparator |-> "is_not_empty",
                   value |-> NoValue, logical_operator |-> "and"]
        /\ branch = [branch |-> "true", conditions |-> <<test>>]
        /\ config = Config("cond") /\ config.branches = <<branch>> /\ config.default = "false"
  BY StepFacts, DefaultNodes DEF Steps
<1>2. Compare("is_not_empty", Resolve(store, test.field), test.value) <=> hits.items # <<>>
  <2>1. Resolve(store, test.field) = hits
    BY <1>1, ResolvesHits
  <2>2. Compare("is_not_empty", hits, test.value) <=> ~IsEmpty(hits)
    BY DEF Compare
  <2> QED BY <2>1, <2>2, HitsFacts
<1>3. Evaluate(store, branch.conditions) <=> hits.items # <<>>
  <2>1. PICK conds : conds = <<test>>
    OBVIOUS
  <2>2. conds # <<>> /\ DOMAIN conds = {1} /\ conds[1] = test
    BY <2>1
  <2>3. test.comparator = "is_not_empty" /\ test.logical_operator = "and"
    BY <1>1
  <2>4. Evaluate(store, conds) <=> hits.items # <<>>
    BY <1>2, <2>2, <2>3 DEF Evaluate
  <2> QED BY <1>1, <2>1, <2>4
<1>4. Taken("cond") = IF hits.items = <<>> THEN "false" ELSE "true"
  <2>1. config.branches[1] = branch /\ Len(config.branches) = 1
    BY <1>1
  <2>2. PICK I : I = {i \in 1 .. Len(config.branches) :
                        Evaluate(store, config.branches[i].conditions)}
    OBVIOUS
  <2>3. I = IF hits.items = <<>> THEN {} ELSE {1}
    <3>1. \A i \in 1 .. 1 : i = 1
      OBVIOUS
    <3> QED BY <1>3, <2>1, <2>2, <3>1
  <2>4. Min({1}) = 1
    BY DEF Min
  <2>5. SelectInSeq(config.branches, LAMBDA b : Evaluate(store, b.conditions))
          = IF hits.items = <<>> THEN 0 ELSE 1
    BY <2>2, <2>3, <2>4 DEF SelectInSeq
  <2>6. branch.branch = "true" /\ config.default = "false"
    BY <1>1
  <2> QED BY <1>1, <2>1, <2>5, <2>6 DEF Taken
<1>5. r.branch = Taken("cond")
  BY StepFacts DEF Results, ConditionNode, Result
<1> QED BY <1>4, <1>5

LEMMA AnswerReturns ==
  ASSUME flow \in Shipped, NEW hits \in Hits, Finds(hits), hits.items # <<>>,
         NEW r \in Results("answer")
  PROVE  r.globals = One("answer", Expected(hits))
<1>1. PICK ref, template : /\ ref = Ref("search", <<"paragraph_list", "0", "content">>)
                           /\ template = Config("answer").template /\ template = <<ref>>
  BY StepFacts, DefaultNodes DEF Steps
<1>2. PICK text : text = String(<<"hit">>) /\ Rendered(store, ref) = text
  BY <1>1, RendersHit
<1>3. Render(store, template) = <<text>>
  <2>1. PICK t : t = Render(store, template)
    OBVIOUS
  <2>2. DOMAIN template = 1 .. 1 /\ template[1] = ref
    BY <1>1
  <2>3. t = [i \in 1 .. 1 |-> text]
    <3>1. \A i \in 1 .. 1 : Rendered(store, template[i]) = text
      BY <1>2, <2>2
    <3> QED BY <2>1, <2>2, <3>1 DEF Render
  <2>4. t \in Seq({text}) /\ Len(t) = 1 /\ t[1] = text
    BY <2>3
  <2>5. t = <<text>>
    BY <2>4
  <2> QED BY <2>1, <2>5
<1>4. hits.items[1].of["content"] = text
  BY <1>2, HitsFacts DEF Hit, Dict
<1>5. r = Both(One("answer", List(Render(store, template))))
  BY <1>1, StepFacts DEF Results, ReplyNode
<1> QED BY <1>3, <1>4, <1>5 DEF Both, Result, Expected

LEMMA NoneReturns ==
  ASSUME flow \in Shipped, NEW hits, hits.items = <<>>, NEW r \in Results("none")
  PROVE  r.globals = One("answer", Expected(hits))
<1>1. Config("none").template = <<>>
  BY StepFacts, DefaultNodes DEF Steps
<1>2. Render(store, <<>>) = <<>>
  BY DEF Render
<1>3. r = Both(One("answer", List(<<>>)))
  BY <1>1, <1>2, StepFacts DEF Results, ReplyNode
<1> QED BY <1>3 DEF Both, Result, Expected

(* Only the search raises. *)
LEMMA NoneRaises ==
  ASSUME flow \in Shipped, NEW hits \in Hits, NEW n \in Steps \ {"search"},
         n = "answer" => Finds(hits) /\ hits.items # <<>>
  PROVE  ~Raises(n) /\ Type(n) \notin External /\ ~WaitsForUser(n)
<1>1. /\ Has(n) /\ Config(n) = Default.nodes[n]
      /\ Type(n) = IF n = "start" THEN "start-node"
                   ELSE IF n = "cond" THEN "condition-node" ELSE "reply-node"
  BY StepFacts DEF Steps
<1>2. Renders(store, Template(n))
  <2>1. Renders(store, <<>>)
    BY DEF Renders
  <2>2. CASE n \in {"start", "cond"}
    <3>1. "template" \notin DOMAIN Config(n)
      BY <1>1, <2>2, DefaultNodes
    <3> QED BY <2>1, <3>1 DEF Template
  <2>3. CASE n = "none"
    <3>1. "template" \in DOMAIN Config(n) /\ Config(n).template = <<>>
      BY <1>1, <2>3, DefaultNodes
    <3> QED BY <2>1, <3>1 DEF Template
  <2>4. CASE n = "answer"
    <3>1. PICK ref, template : /\ ref = Ref("search", <<"paragraph_list", "0", "content">>)
                               /\ template = Config(n).template /\ template = <<ref>>
                               /\ "template" \in DOMAIN Config(n)
      BY <1>1, <2>4, DefaultNodes
    <3>2. Rendered(store, ref) # Missing
      BY <2>4, <3>1, RendersHit DEF String, Missing
    <3>3. DOMAIN template = {1} /\ template[1] = ref
      BY <3>1
    <3> QED BY <3>1, <3>2, <3>3 DEF Renders, Template
  <2> QED BY <2>2, <2>3, <2>4 DEF Steps
<1>3. n = "cond" => ~ConditionRaises(n)
  <2> HAVE n = "cond"
  <2>1. PICK test, branch, branches :
          /\ test = [field |-> Ref("search", <<"paragraph_list">>), comparator |-> "is_not_empty",
                     value |-> NoValue, logical_operator |-> "and"]
          /\ branch = [branch |-> "true", conditions |-> <<test>>]
          /\ branches = Config(n).branches /\ branches = <<branch>>
    BY <1>1, DefaultNodes
  <2>2. \A v, w : ~CompareRaises("is_not_empty", v, w)
    BY DEF CompareRaises, Comparators
  <2>3. ~EvaluateRaises(store, branch.conditions)
    <3>1. PICK conds : conds = branch.conditions
      OBVIOUS
    <3>2. DOMAIN conds = {1} /\ conds[1] = test /\ test.comparator = "is_not_empty"
      BY <2>1, <3>1
    <3> QED BY <2>2, <3>1, <3>2 DEF EvaluateRaises
  <2>4. DOMAIN branches = {1} /\ branches[1] = branch
    BY <2>1
  <2> QED BY <2>1, <2>3, <2>4 DEF ConditionRaises
<1> QED BY <1>1, <1>2, <1>3 DEF Raises, WaitsForUser, External

(* A node of the template computes its result. *)
LEMMA DefaultExecute ==
  ASSUME DefaultInv, flow \in Shipped, NEW n \in Steps, Execute(n)
  PROVE  DefaultInv'
<1>1. PlaceInv /\ ResultInv
  BY DEF DefaultInv
<1>2. PICK r \in Results(n) : out' = Updated(out, One(n, r))
  BY DEF Execute
<1>3. /\ DOMAIN out' = DOMAIN out \cup {n} /\ out'[n] = r
      /\ \A m \in DOMAIN out \ {n} : out'[m] = out[m]
  <2>1. DOMAIN One(n, r) = {n} /\ One(n, r)[n] = r
    BY KeysOfOne
  <2> QED BY <1>2, <2>1 DEF Updated
<1>4. /\ at[n] = "released" /\ at' = [at EXCEPT ![n] = "executed"]
      /\ UNCHANGED <<flow, store, raised, asked>>
  BY DEF Execute
<1>5. /\ at' \in [Steps -> Phases] /\ at'[n] = "executed"
      /\ \A m \in Steps : m # n => at'[m] = at[m]
  BY <1>1, <1>4 DEF PlaceInv, Phases
<1>6. CASE n = "start"
  <2>1. /\ at["search"] = "waiting" /\ at["cond"] = "waiting"
        /\ at["answer"] = "waiting" /\ at["none"] = "waiting"
    BY <1>1, <1>4, <1>6 DEF PlaceInv
  <2>2. /\ at'["start"] = "executed" /\ at'["search"] = "waiting" /\ at'["cond"] = "waiting"
        /\ at'["answer"] = "waiting" /\ at'["none"] = "waiting"
    BY <1>5, <1>6, <2>1 DEF Steps
  <2>3. PlaceInv'
    BY <1>1, <1>4, <1>5, <2>1, <2>2 DEF PlaceInv
  <2>4. ResultInv'
    BY <1>1, <1>4, <2>2 DEF ResultInv
  <2> QED BY <2>3, <2>4 DEF DefaultInv
<1>7. CASE n = "search"
  <2>1. /\ at["start"] = "done" /\ at["cond"] = "waiting"
        /\ at["answer"] = "waiting" /\ at["none"] = "waiting"
    BY <1>1, <1>4, <1>7 DEF PlaceInv
  <2>2. /\ at'["start"] = "done" /\ at'["search"] = "executed" /\ at'["cond"] = "waiting"
        /\ at'["answer"] = "waiting" /\ at'["none"] = "waiting"
    BY <1>5, <1>7, <2>1 DEF Steps
  <2>3. PlaceInv'
    BY <1>1, <1>4, <1>5, <1>7, <2>1, <2>2 DEF PlaceInv
  <2>4. "search" \in DOMAIN out' /\ HitsFound' \in Hits /\ "paragraph_list" \in DOMAIN out'["search"].vars
    BY <1>3, <1>7, SearchReturns DEF HitsFound
  <2>5. ResultInv'
    BY <1>1, <1>4, <2>2, <2>4 DEF ResultInv
  <2> QED BY <2>3, <2>5 DEF DefaultInv
<1>8. CASE n \in {"cond", "answer", "none"}
  <2>1. /\ at["start"] = "done" /\ at["search"] = "done"
        /\ n \in {"answer", "none"} => at["cond"] = "done"
    BY <1>1, <1>4, <1>8 DEF PlaceInv, Phases
  <2>2. HitsFound \in Hits /\ Finds(HitsFound) /\ HitsFound' = HitsFound
    BY <1>1, <1>3, <1>8, <2>1 DEF ResultInv, HitsFound
  <2>3. PICK hits \in Hits : hits = HitsFound
    BY <2>2
  <2>4. at'["start"] = "done" /\ at'["search"] = "done"
    BY <1>5, <1>8, <2>1 DEF Steps
  <2>5. /\ n = "answer" => hits.items # <<>>
        /\ n = "none" => hits.items = <<>>
    BY <1>1, <1>4, <2>3 DEF PlaceInv
  <2>6. \A m \in {"cond", "answer", "none"} :
          /\ at'[m] = "waiting" <=> at[m] = "waiting"
          /\ at'[m] = "done" <=> at[m] = "done"
          /\ at'[m] \in {"waiting", "released", "executed", "done"}
    BY <1>1, <1>4, <1>5 DEF PlaceInv, Steps
  <2>7. PlaceInv'
    BY <1>1, <1>4, <1>5, <2>1, <2>2, <2>4, <2>6 DEF PlaceInv
  <2>8. ResultInv'
    <3>1. /\ "search" \in DOMAIN out' /\ HitsFound' \in Hits /\ Finds(HitsFound)'
          /\ "paragraph_list" \in DOMAIN out'["search"].vars
      BY <1>1, <1>3, <1>4, <1>8, <2>1, <2>2 DEF ResultInv, Finds
    <3>2. at'["cond"] = "executed" =>
            out'["cond"].branch = IF hits.items = <<>> THEN "false" ELSE "true"
      <4>1. CASE n = "cond"
        BY <1>3, <2>2, <2>3, <4>1, CondReturns
      <4>2. CASE n # "cond"
        BY <1>8, <2>1, <2>6, <4>2
      <4> QED BY <4>1, <4>2
    <3>3. ASSUME NEW m \in {"answer", "none"}, at'[m] = "executed"
          PROVE  out'[m].globals = One("answer", Expected(hits))
      <4>1. CASE n = m
        BY <1>3, <2>2, <2>3, <2>5, <4>1, AnswerReturns, NoneReturns
      <4>2. CASE n # m
        <5>1. at[m] = "executed"
          BY <1>5, <3>3, <4>2 DEF Steps
        <5>2. n = "cond" => at[m] = "waiting"
          BY <1>1, <1>4 DEF PlaceInv
        <5>3. n \in {"answer", "none"} => at[m] = "waiting" \/ at[n] = "waiting"
          BY <1>1, <1>8, <4>2 DEF PlaceInv
        <5> QED BY <1>4, <1>8, <5>1, <5>2, <5>3
      <4> QED BY <4>1, <4>2
    <3>4. \A m \in {"answer", "none"} : at'[m] = "done" =>
            /\ "answer" \in DOMAIN store'.global /\ store'.global["answer"] = Expected(hits)
      BY <1>1, <1>4, <2>3, <2>6 DEF ResultInv
    <3>5. {"global", "node"} \subseteq DOMAIN store'
      BY <1>1, <1>4 DEF ResultInv
    <3> QED BY <2>2, <2>3, <3>1, <3>2, <3>3, <3>4, <3>5 DEF ResultInv
  <2> QED BY <2>7, <2>8 DEF DefaultInv
<1> QED BY <1>6, <1>7, <1>8 DEF Steps

LEMMA DefaultRaise ==
  ASSUME DefaultInv, flow \in Shipped, NEW n \in Steps, Raise(n) \/ Interrupt(n)
  PROVE  DefaultInv'
<1>1. PlaceInv /\ ResultInv
  BY DEF DefaultInv
<1>2. at[n] = "released"
  BY DEF Raise, Interrupt
<1>3. n = "search"
  <2> SUFFICES ASSUME n # "search" PROVE FALSE
    OBVIOUS
  <2>1. \E hits \in Hits : n = "answer" => Finds(hits) /\ hits.items # <<>>
    <3>1. CASE n = "answer"
      BY <1>1, <1>2, <3>1 DEF PlaceInv, ResultInv
    <3>2. CASE n # "answer"
      BY <3>2 DEF Hits
    <3> QED BY <3>1, <3>2
  <2>2. ~Raises(n) /\ Type(n) \notin External /\ ~WaitsForUser(n)
    BY <2>1, NoneRaises
  <2> QED BY <2>2 DEF Raise, Interrupt
<1>4. ~WaitsForUser(n)
  BY <1>3, StepFacts DEF WaitsForUser
<1>5. /\ at' = [at EXCEPT !["search"] = "failed"] /\ raised' = raised \cup {"search"}
      /\ UNCHANGED <<flow, store, out, asked>>
  BY <1>3, <1>4 DEF Raise, Interrupt
<1>6. /\ at["start"] = "done" /\ at["cond"] = "waiting"
      /\ at["answer"] = "waiting" /\ at["none"] = "waiting" /\ raised = {}
  BY <1>1, <1>2, <1>3 DEF PlaceInv
<1>7. /\ at' \in [Steps -> Phases] /\ at'["search"] = "failed" /\ raised' = {"search"}
      /\ at'["start"] = "done" /\ at'["cond"] = "waiting"
      /\ at'["answer"] = "waiting" /\ at'["none"] = "waiting"
  BY <1>1, <1>5, <1>6 DEF PlaceInv, Phases, Steps
<1>8. PlaceInv'
  BY <1>1, <1>5, <1>7 DEF PlaceInv
<1>9. ResultInv'
  BY <1>1, <1>5, <1>7 DEF ResultInv
<1> QED BY <1>8, <1>9 DEF DefaultInv

(* What is released behind a node of the template that is done. *)
LEMMA DefaultReleases ==
  ASSUME flow \in Shipped, PlaceInv, NEW n \in Steps, Write(n), NEW behind \in SUBSET Steps,
         behind = {e.target : e \in Followed(n, out[n].branch)},
         \A m \in behind : at[m] = "waiting"
  PROVE  at' = [m \in Steps |-> IF m = n THEN "done" ELSE IF m \in behind THEN "released" ELSE at[m]]
<1>1. ~Aborted
  BY DEF Aborted, PlaceInv, Write, Phases, Steps
<1>2. PICK done : at' = [m \in Nodes |-> IF m = n THEN "done"
                           ELSE IF m \in {k \in behind : at[k] = "waiting" /\ Ready(k, done)}
                                THEN "released" ELSE at[m]]
  BY <1>1 DEF Write
<1>3. \A k : Ready(k, done)
  BY ShippedFacts DEF Ready
<1>4. {k \in behind : at[k] = "waiting" /\ Ready(k, done)} = behind
  BY <1>3
<1> QED BY <1>2, <1>4, StepFacts

LEMMA DefaultWrite ==
  ASSUME NoBranch \notin {"true", "false"}, DefaultInv, flow \in Shipped, NEW n \in Steps, Write(n)
  PROVE  DefaultInv'
<1>1. PlaceInv /\ ResultInv
  BY DEF DefaultInv
<1>2. /\ at[n] = "executed" /\ UNCHANGED <<flow, out, raised, asked>>
      /\ store' = WriteResult(store, Config(n).name, out[n].vars, out[n].globals)
  BY DEF Write
<1>3. PICK behind : behind = {e.target : e \in Followed(n, out[n].branch)}
  OBVIOUS
<1>4. HitsFound' = HitsFound
  BY <1>2 DEF HitsFound
<1>5. {"global", "node"} \subseteq DOMAIN store'
  BY <1>1, <1>2 DEF WriteResult, ResultInv
<1>6. PICK name, vs, bucket :
        /\ name = Config(n).name /\ vs = out[n].vars
        /\ DOMAIN store'.node = DOMAIN store.node \cup {name}
        /\ store'.node[name] = Updated(bucket, vs)
        /\ \A x \in DOMAIN store.node \ {name} : store'.node[x] = store.node[x]
  <2>1. PICK name, vs, bucket :
          /\ name = Config(n).name /\ vs = out[n].vars
          /\ bucket = (IF name \in DOMAIN store.node THEN store.node[name] ELSE <<>>)
    OBVIOUS
  <2>2. store' = WriteResult(store, name, vs, out[n].globals) /\ "node" \in DOMAIN store
    BY <1>1, <1>2, <2>1 DEF ResultInv
  <2> QED BY <2>1, <2>2, WrittenNode
<1>7. name = "search" <=> n = "search"
  BY <1>6, StepFacts, DefaultNodes DEF Steps
<1>8. store'.global = Updated(store.global, out[n].globals)
  BY <1>1, <1>2, WrittenGlobal DEF ResultInv
<1>9. CASE n = "start"
  <2>1. /\ at["search"] = "waiting" /\ at["cond"] = "waiting"
        /\ at["answer"] = "waiting" /\ at["none"] = "waiting" /\ behind = {"search"}
    BY <1>1, <1>2, <1>3, <1>9, Successors DEF PlaceInv
  <2>2. at' = [m \in Steps |-> IF m = n THEN "done" ELSE IF m \in behind THEN "released" ELSE at[m]]
    BY <1>1, <1>3, <2>1, DefaultReleases DEF Steps
  <2>3. /\ at'["start"] = "done" /\ at'["search"] = "released" /\ at'["cond"] = "waiting"
        /\ at'["answer"] = "waiting" /\ at'["none"] = "waiting" /\ at' \in [Steps -> Phases]
    BY <1>1, <1>9, <2>1, <2>2 DEF Steps, PlaceInv, Phases
  <2>4. PlaceInv'
    BY <1>1, <1>2, <2>1, <2>3 DEF PlaceInv
  <2>5. ResultInv'
    BY <1>5, <2>3 DEF ResultInv
  <2> QED BY <2>4, <2>5 DEF DefaultInv
<1>10. CASE n = "search"
  <2>1. /\ at["start"] = "done" /\ at["cond"] = "waiting"
        /\ at["answer"] = "waiting" /\ at["none"] = "waiting" /\ behind = {"cond"}
    BY <1>1, <1>2, <1>3, <1>10, Successors DEF PlaceInv
  <2>2. at' = [m \in Steps |-> IF m = n THEN "done" ELSE IF m \in behind THEN "released" ELSE at[m]]
    BY <1>1, <1>3, <2>1, DefaultReleases DEF Steps
  <2>3. /\ at'["start"] = "done" /\ at'["search"] = "done" /\ at'["cond"] = "released"
        /\ at'["answer"] = "waiting" /\ at'["none"] = "waiting" /\ at' \in [Steps -> Phases]
    BY <1>1, <1>10, <2>1, <2>2 DEF Steps, PlaceInv, Phases
  <2>4. PlaceInv'
    BY <1>1, <1>2, <1>10, <2>1, <2>3 DEF PlaceInv
  <2>5. Finds(HitsFound)'
    <3>1. vs = out["search"].vars /\ "paragraph_list" \in DOMAIN vs /\ name = "search"
      BY <1>1, <1>2, <1>6, <1>7, <1>10 DEF ResultInv
    <3>2. PICK new : new = Updated(bucket, vs)
      OBVIOUS
    <3>3. "paragraph_list" \in DOMAIN new /\ new["paragraph_list"] = vs["paragraph_list"]
      BY <3>1, <3>2 DEF Updated
    <3>4. "search" \in DOMAIN store'.node /\ store'.node["search"] = new
      BY <1>6, <3>1, <3>2
    <3> QED BY <1>4, <3>1, <3>3, <3>4 DEF Finds, HitsFound
  <2>6. ResultInv'
    BY <1>1, <1>2, <1>4, <1>5, <1>10, <2>3, <2>5 DEF ResultInv
  <2> QED BY <2>4, <2>6 DEF DefaultInv
<1>11. ASSUME n \in {"cond", "answer", "none"}
       PROVE  /\ at["start"] = "done" /\ at["search"] = "done" /\ HitsFound \in Hits
              /\ Finds(HitsFound)'
  <2>1. at["start"] = "done" /\ at["search"] = "done"
    BY <1>1, <1>2, <1>11 DEF PlaceInv
  <2>2. Finds(HitsFound) /\ HitsFound \in Hits
    BY <1>1, <2>1 DEF ResultInv
  <2>3. name # "search"
    BY <1>7, <1>11
  <2>4. "search" \in DOMAIN store'.node /\ store'.node["search"] = store.node["search"]
    BY <1>6, <2>2, <2>3 DEF Finds
  <2> QED BY <1>4, <2>1, <2>2, <2>4 DEF Finds
<1>12. CASE n = "cond"
  <2>1. PICK last, other : /\ last = IF HitsFound.items = <<>> THEN "none" ELSE "answer"
                           /\ other = IF HitsFound.items = <<>> THEN "answer" ELSE "none"
    OBVIOUS
  <2>2. at["answer"] = "waiting" /\ at["none"] = "waiting" /\ behind = {last}
    BY <1>1, <1>2, <1>3, <1>12, <2>1, Successors DEF PlaceInv, ResultInv
  <2>3. at' = [m \in Steps |-> IF m = n THEN "done" ELSE IF m \in behind THEN "released" ELSE at[m]]
    BY <1>1, <1>3, <2>1, <2>2, DefaultReleases DEF Steps
  <2>4. /\ at'["start"] = "done" /\ at'["search"] = "done" /\ at'["cond"] = "done"
        /\ at'[last] = "released" /\ at'[other] = "waiting" /\ at' \in [Steps -> Phases]
    BY <1>1, <1>11, <1>12, <2>1, <2>2, <2>3 DEF Steps, PlaceInv, Phases
  <2>5. PlaceInv'
    BY <1>1, <1>2, <1>4, <1>11, <1>12, <2>1, <2>4 DEF PlaceInv
  <2>6. ResultInv'
    BY <1>1, <1>2, <1>4, <1>5, <1>11, <1>12, <2>1, <2>4 DEF ResultInv
  <2> QED BY <2>5, <2>6 DEF DefaultInv
<1>13. CASE n \in {"answer", "none"}
  <2>1. /\ at["cond"] = "done" /\ behind = {}
        /\ \A m \in {"answer", "none"} : m # n => at[m] = "waiting"
    BY <1>1, <1>2, <1>3, <1>13, Successors DEF PlaceInv
  <2>2. at' = [m \in Steps |-> IF m = n THEN "done" ELSE IF m \in behind THEN "released" ELSE at[m]]
    BY <1>1, <1>3, <2>1, DefaultReleases
  <2>3. /\ at'["start"] = "done" /\ at'["search"] = "done" /\ at'["cond"] = "done"
        /\ at'[n] = "done" /\ \A m \in {"answer", "none"} : m # n => at'[m] = "waiting"
        /\ at' \in [Steps -> Phases]
    BY <1>1, <1>11, <1>13, <2>1, <2>2 DEF Steps, PlaceInv, Phases
  <2>4. \A m \in {"answer", "none"} : at[m] = "waiting" <=> at'[m] = "waiting"
    BY <1>2, <1>13, <2>1, <2>3
  <2>5. PlaceInv'
    BY <1>1, <1>2, <1>4, <1>11, <1>13, <2>1, <2>3, <2>4 DEF PlaceInv
  <2>6. "answer" \in DOMAIN store'.global /\ store'.global["answer"] = Expected(HitsFound)
    <3>1. PICK e : e = Expected(HitsFound) /\ out[n].globals = One("answer", e)
      BY <1>1, <1>2, <1>13 DEF ResultInv
    <3>2. PICK one : one = One("answer", e) /\ DOMAIN one = {"answer"} /\ one["answer"] = e
      BY KeysOfOne
    <3>3. store'.global = Updated(store.global, one)
      BY <1>8, <3>1, <3>2
    <3> QED BY <3>1, <3>2, <3>3 DEF Updated
  <2>7. ResultInv'
    BY <1>1, <1>2, <1>4, <1>5, <1>11, <1>13, <2>3, <2>6 DEF ResultInv
  <2> QED BY <2>5, <2>7 DEF DefaultInv
<1> QED BY <1>9, <1>10, <1>12, <1>13 DEF Steps

LEMMA DefaultInit ==
  ASSUME Init
  PROVE  DefaultInv
<1> SUFFICES ASSUME flow \in Shipped
             PROVE  PlaceInv /\ ResultInv
  BY DEF DefaultInv
<1>1. /\ at = [n \in Steps |-> IF Type(n) = "start-node" THEN "released" ELSE "waiting"]
      /\ raised = {} /\ asked = {}
      /\ \E q \in Question : store = [EmptyStore EXCEPT !.chat = [question |-> q]]
  BY StepFacts DEF Init
<1>2. /\ at["start"] = "released" /\ at["search"] = "waiting" /\ at["cond"] = "waiting"
      /\ at["answer"] = "waiting" /\ at["none"] = "waiting" /\ at \in [Steps -> Phases]
  BY <1>1, StepFacts DEF Steps, Phases
<1>3. {"global", "node"} \subseteq DOMAIN store
  BY <1>1 DEF EmptyStore
<1> QED BY <1>1, <1>2, <1>3 DEF PlaceInv, ResultInv

LEMMA DefaultStep ==
  ASSUME NoBranch \notin {"true", "false"}, DefaultInv, [Next]_vars
  PROVE  DefaultInv'
<1>1. CASE flow \notin Shipped
  <2>1. flow' = flow
    BY DEF Next, vars, Execute, Raise, Interrupt, Write, Resume, Ended
  <2> QED BY <1>1, <2>1 DEF DefaultInv
<1>2. CASE flow \in Shipped
  <2>1. Nodes = Steps
    BY <1>2, StepFacts
  <2>2. ASSUME NEW dict, Resume(dict) PROVE FALSE
    BY <1>2, <2>2 DEF Resume, DefaultInv, PlaceInv
  <2>3. ASSUME UNCHANGED vars PROVE DefaultInv'
    BY <2>3 DEF vars, DefaultInv, PlaceInv, ResultInv, HitsFound, Finds
  <2> QED BY <1>2, <2>1, <2>2, <2>3, DefaultExecute, DefaultRaise, DefaultWrite DEF Next, Ended
<1> QED BY <1>1, <1>2

LEMMA DefaultEnds ==
  ASSUME DefaultInv
  PROVE  DefaultAnswers
<1> SUFFICES ASSUME flow \in Shipped
             PROVE  /\ raised \subseteq {"search"}
                    /\ Quiet /\ raised = {} =>
                         store.global["answer"] = Expected(HitsFound)
  BY DEF DefaultAnswers, Shipped, HitsFound, Expected
<1>1. PlaceInv /\ ResultInv
  BY DEF DefaultInv
<1>2. raised \subseteq {"search"}
  BY <1>1 DEF PlaceInv
<1>3. ASSUME Quiet, raised = {} PROVE store.global["answer"] = Expected(HitsFound)
  <2>1. \A n \in Steps : at[n] \notin {"released", "executed"}
    BY <1>1, <1>3 DEF Quiet, At, PlaceInv
  <2>2. at["start"] = "done" /\ at["search"] = "done" /\ at["cond"] = "done"
    BY <1>1, <1>3, <2>1 DEF PlaceInv, Steps
  <2>3. at["answer"] = "done" \/ at["none"] = "done"
    BY <1>1, <2>1, <2>2 DEF PlaceInv, Steps
  <2> QED BY <1>1, <2>3 DEF ResultInv
<1> QED BY <1>2, <1>3

(***************************************************************************)
(* The default template answers, whatever it is asked and whatever the     *)
(* search returns: a run in which the search does not raise ends with the  *)
(* first hit, or with the text for no hits.                                *)
(***************************************************************************)
THEOREM TemplateAnswers ==
  ASSUME NoBranch \notin {"true", "false"}
  PROVE  Spec => []DefaultAnswers
<1>1. Init => DefaultInv
  BY DefaultInit
<1>2. DefaultInv /\ [Next]_vars => DefaultInv'
  BY DefaultStep
<1>3. DefaultInv => DefaultAnswers
  BY DefaultEnds
<1> QED BY <1>1, <1>2, <1>3, PTL DEF Spec
===============================================================================
