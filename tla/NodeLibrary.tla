------------------------------ MODULE NodeLibrary ------------------------------
(***************************************************************************)
(* The built-in nodes of a workflow (agent/engine/nodes) at work on one    *)
(* ContextStore: what each reads, what it writes, when it raises.  A node  *)
(* reads while it executes and its result is written in a later step, so   *)
(* nodes of parallel branches see each other's results or not.             *)
(*                                                                         *)
(* Which node may run is decided in one step with write_result here; the   *)
(* steps in between are module Scheduler's.  Loops are LoopExecutor's.     *)
(***************************************************************************)
EXTENDS ContextStore

CONSTANTS
  Flow,     \* workflows: nodes, edges, AND joins and the mode they run in
  Question, \* what the user may ask
  Form,     \* what the user may submit: dicts
  NoBranch

\* Models, knowledge bases and applications are outside: they return or raise.
Hit == Dict([content |-> String(<<"hit">>)])
Hits == {List(<<>>), List(<<Hit>>), List(<<Hit, Hit>>)}
Said(n) == {String(<<>>), String(<<n>>)}
Params(n) == {Dict([p |-> String(<<n>>)])}

External ==
  {"ai-chat-node", "question-node", "parameter-extraction-node", "search-knowledge-node",
   "search-document-node", "reranker-node", "document-extract-node", "document-split-node",
   "knowledge-write-node", "application-node"}

VARIABLES
  flow,    \* the workflow
  at,      \* where each node is
  store,   \* the ContextStore
  out,     \* the result of a node that has executed
  raised,  \* nodes that raised
  asked    \* the form-node that interrupted the run, if any

vars == <<flow, at, store, out, raised, asked>>

Nodes == DOMAIN flow.nodes
Type(n) == flow.nodes[n].type
Config(n) == flow.nodes[n]
At(phase) == {n \in DOMAIN at : at[n] = phase}
Aborted == raised # {} \/ asked # {}
Quiet == At("released") = {} /\ At("executed") = {}

Init ==
  /\ flow \in Flow
  /\ at = [n \in Nodes |-> IF Type(n) = "start-node" THEN "released" ELSE "waiting"]
  /\ store \in {[EmptyStore EXCEPT !.chat = [question |-> q]] : q \in Question}
  /\ out = <<>>
  /\ raised = {} /\ asked = {}

-----------------------------------------------------------------------------
(* What a node returns: its variables, global variables and branch.        *)

Result(vars_, globals) == [vars |-> vars_, globals |-> globals, branch |-> NoBranch]
Both(fun) == Result(fun, fun)
One(key, v) == [k \in {key} |-> v]

Get(ref) == Resolve(store, ref)
ItemsOf(v) == IF v.kind = "list" THEN v.items ELSE <<>>
Pieces(s) == [i \in DOMAIN s |-> String(<<s[i]>>)]

\* start-node: a value in braces is resolved.
Materialize(item) == IF item.braced THEN Get(item.ref) ELSE item.value
StartNode(n) ==
  {Result(<<>>, [k \in DOMAIN Config(n).variables |-> Materialize(Config(n).variables[k])])}

\* variable-assign-node: the braces stay in the reference, which names no scope.
Assigned(item) == IF item.braced THEN Get(Ref("{{", item.ref.path)) ELSE item.value
VariableAssignNode(n) ==
  LET of(target) == {k \in DOMAIN Config(n).variables : Config(n).variables[k].target = target}
  IN  {Result([k \in of("node") |-> Assigned(Config(n).variables[k])],
              [k \in of("global") |-> Assigned(Config(n).variables[k])])}

\* condition-node: the first branch whose conditions hold, or the default.
Taken(n) ==
  LET i == SelectInSeq(Config(n).branches, LAMBDA b : Evaluate(store, b.conditions))
  IN  IF i = 0 THEN Config(n).default ELSE Config(n).branches[i].branch
ConditionNode(n) == {[Result(<<>>, <<>>) EXCEPT !.branch = Taken(n)]}
ConditionRaises(n) ==
  \E i \in DOMAIN Config(n).branches :
    /\ EvaluateRaises(store, Config(n).branches[i].conditions)
    /\ \A j \in 1 .. i - 1 : ~Evaluate(store, Config(n).branches[j].conditions)

\* splitting-node: a list into lists of one, or a text at its delimiters.
Elements(v) ==
  IF v.kind = "text" THEN Pieces(v.s)
  ELSE IF v.kind = "dict" THEN Pieces(SetToSeq(DOMAIN v.of)) ELSE ItemsOf(v)
Singletons(v) == [i \in DOMAIN Elements(v) |-> List(<<Elements(v)[i]>>)]
SplittingNode(n) ==
  LET source == Get(Config(n).source_ref)
  IN  {Result(One("output_list", List(IF Config(n).mode = "string" THEN Pieces(Str(source))
                                      ELSE Singletons(source))), <<>>)}

\* aggregation-node: what the references have that is not None.
AggregationNode(n) ==
  LET found(v) == IF v = NoValue THEN <<>> ELSE <<v>>
      collected == [i \in DOMAIN Config(n).source_refs |-> found(Get(Config(n).source_refs[i]))]
  IN  {Result(One("result_list", List(FlattenSeq(collected))), <<>>)}

\* reply-node: the rendered template.
ReplyNode(n) == {Both(One("answer", List(Render(store, Config(n).template))))}

\* form-node: what was submitted, kept under _form_submitted.
Submitted == IF "submitted" \in DOMAIN store.global THEN store.global["submitted"] ELSE NoValue
FormNode(n) == {Both(One("form_data", Submitted))}

AiChatNode(n) == {Both(One("answer", List(<<text>>))) : text \in Said(n)}
QuestionNode(n) == {Both(One("question", text)) : text \in Said(n)}
ApplicationNode(n) == {Both(One("answer", List(<<text>>))) : text \in Said(n)}
ParameterExtractionNode(n) == {Result(One("extracted_params", p), <<>>) : p \in Params(n)}
SearchKnowledgeNode(n) ==
  {Result([k \in {"paragraph_list", "hit_list"} |-> hits], <<>>) : hits \in Hits}
SearchDocumentNode(n) == {Result(One("paragraph_list", hits), <<>>) : hits \in Hits}
RerankerNode(n) ==
  LET paragraphs == Get(Config(n).paragraph_ref)
  IN  {Both(One("rerank_list", List(order))) :
         order \in {ItemsOf(paragraphs), Reverse(ItemsOf(paragraphs))}}
DocumentExtractNode(n) == {Result(One("content", text), <<>>) : text \in Said(n)}
DocumentSplitNode(n) ==
  {Result(One("paragraph_list", List(Pieces(Str(OrBlank(Get(Config(n).content_ref)))))), <<>>)}
KnowledgeWriteNode(n) ==
  {Result(One("written", Num(Len(ItemsOf(Get(Config(n).paragraph_ref))))), <<>>)}

Results(n) ==
  CASE Type(n) = "start-node" -> StartNode(n)
    [] Type(n) = "variable-assign-node" -> VariableAssignNode(n)
    [] Type(n) = "condition-node" -> ConditionNode(n)
    [] Type(n) = "splitting-node" -> SplittingNode(n)
    [] Type(n) = "aggregation-node" -> AggregationNode(n)
    [] Type(n) = "reply-node" -> ReplyNode(n)
    [] Type(n) = "form-node" -> FormNode(n)
    [] Type(n) = "ai-chat-node" -> AiChatNode(n)
    [] Type(n) = "question-node" -> QuestionNode(n)
    [] Type(n) = "application-node" -> ApplicationNode(n)
    [] Type(n) = "parameter-extraction-node" -> ParameterExtractionNode(n)
    [] Type(n) = "search-knowledge-node" -> SearchKnowledgeNode(n)
    [] Type(n) = "search-document-node" -> SearchDocumentNode(n)
    [] Type(n) = "reranker-node" -> RerankerNode(n)
    [] Type(n) = "document-extract-node" -> DocumentExtractNode(n)
    [] Type(n) = "document-split-node" -> DocumentSplitNode(n)
    [] Type(n) = "knowledge-write-node" -> KnowledgeWriteNode(n)

\* The templates a node renders: its content, question, source or prompt.
Template(n) == IF "template" \in DOMAIN Config(n) THEN Config(n).template ELSE <<>>

\* The modes a node type is registered for.
WorkflowModes(type) ==
  {"application"}
    \cup (IF type \in {"form-node", "application-node", "question-node"} THEN {} ELSE {"knowledge"})
    \cup (IF type \in {"start-node", "reply-node", "condition-node", "ai-chat-node",
                       "variable-assign-node", "splitting-node", "aggregation-node",
                       "parameter-extraction-node"} THEN {"tool"} ELSE {})
Has(n) == flow.mode \in WorkflowModes(Type(n))

NothingToWrite(n) == Get(Config(n).paragraph_ref) \in {NoValue, List(<<>>)}
NotIterable(n) ==
  Config(n).mode = "list" /\ Get(Config(n).source_ref).kind = "num"
    /\ Get(Config(n).source_ref) # Num(0)

Raises(n) ==
  \/ ~Has(n)
  \/ ~Renders(store, Template(n))
  \/ Type(n) = "condition-node" /\ ConditionRaises(n)
  \/ Type(n) = "knowledge-write-node" /\ NothingToWrite(n)
  \/ Type(n) = "splitting-node" /\ NotIterable(n)

WaitsForUser(n) == Type(n) = "form-node" /\ Has(n) /\ Submitted \in {NoValue, Dict(<<>>)}

-----------------------------------------------------------------------------
\* execute() returns.
Execute(n) ==
  /\ at[n] = "released" /\ ~Raises(n) /\ ~WaitsForUser(n)
  /\ \E r \in Results(n) : out' = Updated(out, One(n, r))
  /\ at' = [at EXCEPT ![n] = "executed"]
  /\ UNCHANGED <<flow, store, raised, asked>>

\* execute() raises; one that calls out may do so at any time.
Raise(n) ==
  /\ at[n] = "released"
  /\ Raises(n) \/ Type(n) \in External
  /\ raised' = raised \cup {n}
  /\ at' = [at EXCEPT ![n] = "failed"]
  /\ UNCHANGED <<flow, store, out, asked>>

Interrupt(n) ==
  /\ at[n] = "released" /\ WaitsForUser(n)
  /\ at' = [at EXCEPT ![n] = "interrupted"]
  /\ asked' = IF Aborted THEN asked ELSE {n}
  /\ UNCHANGED <<flow, store, out, raised>>

\* The edges a node that took branch b releases along.
Followed(n, b) ==
  {e \in flow.edges : e.source = n /\ (e.branch = NoBranch \/ e.branch = b)}

\* An AND join waits for the predecessors that have been released.
Ready(m, done) ==
  m \in flow.joins =>
    \A e \in flow.edges : e.target = m /\ at[e.source] # "waiting" => e.source \in done

\* write_result, and the successors that become ready; after an abort the pool
\* takes those that come before its shutdown.
Write(n) ==
  /\ at[n] = "executed"
  /\ store' = WriteResult(store, Config(n).name, out[n].vars, out[n].globals)
  /\ LET done == At("done") \cup {n}
         next == {e.target : e \in Followed(n, out[n].branch)}
         ready == {m \in next : at[m] = "waiting" /\ Ready(m, done)}
     IN  \E taken \in IF Aborted THEN SUBSET ready ELSE {ready} :
           at' = [m \in Nodes |-> IF m = n THEN "done"
                                  ELSE IF m \in taken THEN "released" ELSE at[m]]
  /\ UNCHANGED <<flow, out, raised, asked>>

\* The user answers the form, and the run goes on from it.  The snapshot is
\* WorkflowService's; here a workflow has one form, and nothing beside it.
Resume(dict) ==
  /\ Quiet /\ asked # {} /\ raised = {}
  /\ store' = [store EXCEPT !.global = Updated(@, One("submitted", dict))]
  /\ at' = [n \in Nodes |-> IF n \in asked THEN "released" ELSE at[n]]
  /\ asked' = {}
  /\ UNCHANGED <<flow, out, raised>>

Ended == Quiet /\ (asked = {} \/ raised # {}) /\ UNCHANGED vars

Next ==
  \/ \E n \in Nodes : Execute(n) \/ Raise(n) \/ Interrupt(n) \/ Write(n)
  \/ \E dict \in Form : Resume(dict)
  \/ Ended

Spec == Init /\ [][Next]_vars

-----------------------------------------------------------------------------
(* Properties.                                                             *)

\* What some of these edges lead to from some of the nodes in first, and these.
Closure(f, first, edges) ==
  {m \in DOMAIN f.nodes :
     \A S \in SUBSET DOMAIN f.nodes :
       first \subseteq S /\ (\A e \in edges : e.source \in S => e.target \in S) => m \in S}

\* Nodes that a chain of edges leads to from n.
Behind(f, n) == Closure(f, {e.target : e \in {d \in f.edges : d.source = n}}, f.edges)

Answered == {n \in At("done") : "answer" \in DOMAIN out[n].globals}

(***************************************************************************)
(* The answer of a run (services.py reads it from global_vars) is that of  *)
(* a last answering node: no node that lies behind it has answered too, in *)
(* whatever order parallel branches finish.                                *)
(***************************************************************************)
AnswerIsOfALastNode ==
  Quiet /\ Answered # {} =>
    \E n \in Answered :
      /\ store.global["answer"] = out[n].globals["answer"]
      /\ Answered \cap Behind(flow, n) = {}

NodeType ==
  External \cup {"start-node", "variable-assign-node", "condition-node", "splitting-node",
                 "aggregation-node", "reply-node", "form-node"}

IsFlow(f) ==
  /\ \A n \in DOMAIN f.nodes : f.nodes[n].type \in NodeType
  /\ \A e \in f.edges : {e.source, e.target} \subseteq DOMAIN f.nodes

(***************************************************************************)
(* What values are made of: numbers, sequences and finite dicts.  A set of *)
(* values is whole if what its lists and dicts hold is in it.              *)
(***************************************************************************)
IsSeq(s) == s \in Seq(ToSet(s))

Whole(values) ==
  \A v \in values :
    /\ v.kind = "num" => v.n \in Nat
    /\ v.kind = "text" => IsSeq(v.s)
    /\ v.kind = "list" => v.items \in Seq(values)
    /\ v.kind = "dict" => IsFiniteSet(DOMAIN v.of) /\ Range(v.of) \subseteq values

\* The values and references that the nodes of a workflow are configured with.
IsConfigured(f, values) ==
  \A n \in DOMAIN f.nodes :
    LET c == f.nodes[n]
    IN  /\ c.type \in {"start-node", "variable-assign-node"} =>
             /\ IsFiniteSet(DOMAIN c.variables)
             /\ \A item \in Range(c.variables) :
                  IF item.braced THEN IsSeq(item.ref.path) ELSE item.value \in values
        /\ c.type = "splitting-node" => IsSeq(c.source_ref.path)
        /\ c.type = "aggregation-node" =>
             IsSeq(c.source_refs) /\ \A i \in DOMAIN c.source_refs : IsSeq(c.source_refs[i].path)
        /\ c.type = "reply-node" =>
             IsSeq(c.template) /\ \A i \in DOMAIN c.template : IsSeq(c.template[i].path)
        /\ c.type \in {"reranker-node", "knowledge-write-node"} => IsSeq(c.paragraph_ref.path)
        /\ c.type = "document-split-node" => IsSeq(c.content_ref.path)

(***************************************************************************)
(* The workflows with a certain answer.  A way through one is a branch for *)
(* each node that has them; Around are the nodes that are reached on a way *)
(* by edges that do not leave n.                                           *)
(***************************************************************************)
Ways(f) ==
  LET split == {e \in f.edges : e.branch # NoBranch}
  IN  [{e.source : e \in split} -> {e.branch : e \in split}]

Along(f, way) == {e \in f.edges : e.branch = NoBranch \/ e.branch = way[e.source]}

Around(f, way, n) ==
  Closure(f, {s \in DOMAIN f.nodes : f.nodes[s].type = "start-node"},
          {e \in Along(f, way) : e.source # n})

\* Nodes that may set the global variable "answer".
MayAnswer(f) ==
  {n \in DOMAIN f.nodes :
     \/ f.nodes[n].type \in {"reply-node", "ai-chat-node", "application-node"}
     \/ f.nodes[n].type \in {"start-node", "variable-assign-node"}
          /\ "answer" \in DOMAIN f.nodes[n].variables}

\* What answers behind an answering node is not reached around it.
AnswersInOrder(f) ==
  \A way \in Ways(f) : \A n \in MayAnswer(f) :
    n \in Around(f, way, n) =>
      MayAnswer(f) \cap Behind(f, n) \cap Around(f, way, n) = {}
===============================================================================
