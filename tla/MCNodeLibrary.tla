----------------------------- MODULE MCNodeLibrary -----------------------------
(***************************************************************************)
(* The workflow that ships as the default template, and small ones that    *)
(* put every node type to work.                                            *)
(***************************************************************************)
EXTENDS NodeLibrary

Edge(x, y) == [source |-> x, target |-> y, branch |-> NoBranch]
BranchEdge(x, b, y) == [source |-> x, target |-> y, branch |-> b]
Flow_(nodes, edges, joins) ==
  [nodes |-> nodes, edges |-> edges, joins |-> joins, mode |-> "application"]
InMode(f, mode) == [f EXCEPT !.mode = mode]

Start(variables) == [type |-> "start-node", name |-> "start", variables |-> variables]
Const(v, target) == [braced |-> FALSE, value |-> v, target |-> target]
Braced(ref, target) == [braced |-> TRUE, ref |-> ref, target |-> target]
Plain(name, type) == [type |-> type, name |-> name]
Reply(name, template) == [type |-> "reply-node", name |-> name, template |-> template]
Condition(name, branches, default) ==
  [type |-> "condition-node", name |-> name, branches |-> branches, default |-> default]
When(branch, conditions) == [branch |-> branch, conditions |-> conditions]
Test(field, comparator, value, op) ==
  [field |-> field, comparator |-> comparator, value |-> value, logical_operator |-> op]
Collect(name, refs) == [type |-> "aggregation-node", name |-> name, source_refs |-> refs]
Asks == <<Ref("chat", <<"question">>)>>

\* default_workflow/*.json
Default ==
  Flow_([start  |-> Start(<<>>),
         search |-> [type |-> "search-knowledge-node", name |-> "search", template |-> Asks],
         cond   |-> Condition("hit?", <<When("true",
                      <<Test(Ref("search", <<"paragraph_list">>), "is_not_empty", NoValue, "and")>>)>>,
                      "false"),
         answer |-> Reply("answer", <<Ref("search", <<"paragraph_list", "0", "content">>)>>),
         none   |-> Reply("none", <<>>)],
        {Edge("start", "search"), Edge("search", "cond"), BranchEdge("cond", "true", "answer"),
         BranchEdge("cond", "false", "none")}, {})

\* Two model calls side by side, joined, then a condition on what they said.
Parallel(joins, op) ==
  Flow_([start   |-> Start([topic |-> Braced(Ref("chat", <<"question">>), "global")]),
         rewrite |-> Plain("rewrite", "question-node"),
         extract |-> Plain("extract", "parameter-extraction-node"),
         collect |-> Collect("collect", <<Ref("rewrite", <<"question">>),
                                          Ref("extract", <<"extracted_params", "p">>),
                                          Ref("nobody", <<"x">>)>>),
         cond    |-> Condition("said?", <<When("yes",
                       <<Test(Ref("collect", <<"result_list">>), "length_eq", Num(2), op),
                         Test(Ref("global", <<"question">>), "is_true", NoValue, op)>>)>>, "no"),
         yes     |-> [type |-> "ai-chat-node", name |-> "yes", template |-> Asks],
         no      |-> Reply("no", <<Ref("question", <<>>)>>)],
        {Edge("start", "rewrite"), Edge("start", "extract"), Edge("rewrite", "collect"),
         Edge("extract", "collect"), Edge("collect", "cond"), BranchEdge("cond", "yes", "yes"),
         BranchEdge("cond", "no", "no")}, joins)

\* Answers in parallel branches, one of which goes on to a last one.
Answers ==
  Flow_([start |-> Start(<<>>),
         chat  |-> [type |-> "ai-chat-node", name |-> "chat", template |-> Asks],
         sub   |-> [type |-> "application-node", name |-> "sub", template |-> Asks],
         last  |-> Reply("last", <<Ref("chat", <<"answer">>)>>)],
        {Edge("start", "chat"), Edge("start", "sub"), Edge("chat", "last")}, {})

\* Documents: extract, split, write; and a list split, collected and reranked.
Documents ==
  Flow_([start   |-> Start(<<>>),
         extract |-> Plain("extract", "document-extract-node"),
         split   |-> [type |-> "document-split-node", name |-> "split",
                      content_ref |-> Ref("extract", <<"content">>)],
         write   |-> [type |-> "knowledge-write-node", name |-> "write",
                      paragraph_ref |-> Ref("split", <<"paragraph_list">>)],
         words   |-> [type |-> "splitting-node", name |-> "words", mode |-> "list",
                      source_ref |-> Ref("split", <<"paragraph_list">>)],
         collect |-> Collect("collect", <<Ref("words", <<"output_list", "0">>),
                                          Ref("write", <<"written">>)>>)],
        {Edge("start", "extract"), Edge("extract", "split"), Edge("split", "write"),
         Edge("split", "words"), Edge("words", "collect"), Edge("write", "collect")},
        {"collect"})

\* A form, what it was given, and an assignment.
Forms ==
  Flow_([start  |-> Start(<<>>),
         form   |-> Plain("form", "form-node"),
         assign |-> [type |-> "variable-assign-node", name |-> "assign",
                     variables |-> [kept |-> Const(Num(1), "global"),
                                    own  |-> Const(Num(2), "node"),
                                    none |-> Braced(Ref("form", <<"form_data">>), "global")]],
         docs   |-> [type |-> "search-document-node", name |-> "docs", template |-> Asks],
         rerank |-> [type |-> "reranker-node", name |-> "rerank", template |-> Asks,
                     paragraph_ref |-> Ref("docs", <<"paragraph_list">>)],
         reply  |-> Reply("reply", <<Ref("form", <<"form_data", "x">>), Ref("kept", <<>>)>>)],
        {Edge("start", "form"), Edge("form", "assign"), Edge("assign", "docs"),
         Edge("docs", "rerank"), Edge("rerank", "reply")}, {})

\* A question taken apart, and two tests of which the first that holds decides;
\* "contains" refuses a number.
Words(field) ==
  Flow_([start |-> Start([count |-> Const(Num(1), "global"),
                          topic |-> Braced(Ref("chat", <<"question">>), "global")]),
         words |-> [type |-> "splitting-node", name |-> "words", mode |-> "string",
                    source_ref |-> Ref("global", <<"topic">>)],
         cond  |-> Condition("which?",
                     <<When("first", <<Test(Ref("words", <<"output_list", "0">>), "startswith",
                                            String(<<"what">>), "and")>>),
                       When("second", <<Test(field, "contains", String(<<"how">>), "and"),
                                        Test(Ref("words", <<"output_list">>), "length_gt",
                                             Num(1), "and")>>)>>, "none"),
         one   |-> Reply("one", <<Ref("words", <<"output_list", "0">>)>>),
         two   |-> Reply("two", <<Ref("topic", <<>>)>>),
         both  |-> [type |-> "ai-chat-node", name |-> "both", template |-> Asks]],
        {Edge("start", "words"), Edge("words", "cond"), BranchEdge("cond", "first", "one"),
         BranchEdge("cond", "second", "two"), Edge("one", "both"), Edge("two", "both")}, {})

MCFlow ==
  {Default, Parallel({"collect"}, "and"), Parallel({"collect"}, "or"), Parallel({}, "and"),
   Answers, Documents, Forms, Words(Ref("global", <<"topic">>)), Words(Ref("global", <<"count">>))}
    \cup {InMode(f, mode) : f \in {Default, Documents, Forms}, mode \in {"knowledge", "tool"}}
MCQuestion == {String(<<"what">>), String(<<"how", "what">>), String(<<>>)}
MCForm == {Dict([x |-> String(<<"data">>)]), Dict(<<>>)}

ASSUME OrderAssumption == \A f \in MCFlow : IsFlow(f) /\ AnswersInOrder(f)

\* What is asked, submitted and configured.
MCValue ==
  {Num(1), Num(2), String(<<"what">>), String(<<"how", "what">>), String(<<>>),
   String(<<"data">>), Dict([x |-> String(<<"data">>)]), Dict(<<>>)}

ASSUME ValueAssumption ==
  /\ Whole(MCValue) /\ MCQuestion \cup MCForm \subseteq MCValue
  /\ \A f \in MCFlow : IsConfigured(f, MCValue)

-----------------------------------------------------------------------------
(* Properties.                                                             *)

(***************************************************************************)
(* The default template answers whatever the search finds: only the search *)
(* itself may raise, and a run without that ends with the first hit, or    *)
(* with the text for no hits.                                              *)
(***************************************************************************)
DefaultAnswers ==
  flow \in {Default, InMode(Default, "knowledge")} =>
    /\ raised \subseteq {"search"}
    /\ Quiet /\ raised = {} =>
         LET hits == out["search"].vars["paragraph_list"].items
         IN  store.global["answer"] =
               List(IF hits = <<>> THEN <<>> ELSE <<hits[1].of["content"]>>)

\* Values of every kind, among them texts that are numbers.
Value == {NoValue, Num(0), Num(1), Num(2), String(<<>>), String(<<"1">>), String(<<"a", "b">>),
          List(<<>>), List(<<String(<<"1">>), Num(2)>>), Dict(<<>>), Dict([a |-> Num(1)])}

Negated == {<<"eq", "ne">>, <<"contains", "not_contains">>, <<"is_empty", "is_not_empty">>,
            <<"is_true", "is_false">>, <<"in", "not_in">>}
Ordered == {<<"gt", "le">>, <<"ge", "lt">>}

\* What a condition may find: the values the nodes have written, besides these.
Compared == Value \cup Range(store.global) \cup UNION {Range(out[n].vars) : n \in DOMAIN out}

(***************************************************************************)
(* "Comparing numbers: if either side is none, False, no exception"        *)
(* (comparators.py:15): a comparator and its negation never both hold, and *)
(* unless they raise one of them does, except that neither orders what is  *)
(* not a number; an order never raises.                                    *)
(***************************************************************************)
NegationsDecide ==
  \A v, w \in Compared :
    /\ \A pair \in Negated :
         CompareRaises(pair[1], v, w) \/ (Compare(pair[1], v, w) # Compare(pair[2], v, w))
    /\ \A pair \in Ordered :
         /\ ~(Compare(pair[1], v, w) /\ Compare(pair[2], v, w))
         /\ (Compare(pair[1], v, w) \/ Compare(pair[2], v, w))
              <=> (Number(v) # {} /\ Number(w) # {})
         /\ ~CompareRaises(pair[1], v, w) /\ ~CompareRaises(pair[2], v, w)
===============================================================================
