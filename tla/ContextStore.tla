----------------------------- MODULE ContextStore -----------------------------
(***************************************************************************)
(* The values of a workflow run: how a reference to one is resolved and    *)
(* rendered (engine/context.py) and how conditions compare them            *)
(* (engine/comparators.py).                                                *)
(*                                                                         *)
(* A value is None, a number, a text, a list or a dict.  A text is a       *)
(* sequence of tokens, a token that is a digit a number.  A reference is   *)
(* its scope and the path below it.                                        *)
(***************************************************************************)
EXTENDS Naturals, Sequences, FiniteSets, SequencesExt

NoValue    == [kind |-> "none"]
Missing    == [kind |-> "missing"]
Num(n)     == [kind |-> "num", n |-> n]
String(s)  == [kind |-> "text", s |-> s]
List(seq)  == [kind |-> "list", items |-> seq]
Dict(fun)  == [kind |-> "dict", of |-> fun]

Ref(scope, path) == [scope |-> scope, path |-> path]
Digits == [d \in {"0", "1", "2"} |-> IF d = "0" THEN 0 ELSE IF d = "1" THEN 1 ELSE 2]

-----------------------------------------------------------------------------
(* context.py.  A store has a dict for each of global, chat and loop, and  *)
(* one per node name.                                                      *)

EmptyStore == [global |-> <<>>, chat |-> <<>>, loop |-> <<>>, node |-> <<>>]

\* Variant: a variable that is set already is kept.
KeepFirst(fun, by) ==
  [k \in DOMAIN fun \cup DOMAIN by |-> IF k \in DOMAIN fun THEN fun[k] ELSE by[k]]

\* dict.update
Updated(fun, by) ==
  [k \in DOMAIN fun \cup DOMAIN by |-> IF k \in DOMAIN by THEN by[k] ELSE fun[k]]

\* write_result: the outputs of a node, and the global variables it sets.
WriteResult(st, name, vars, globals) ==
  LET bucket == IF name \in DOMAIN st.node THEN st.node[name] ELSE <<>>
  IN  [st EXCEPT !.node = Updated(@, [n \in {name} |-> Updated(bucket, vars)]),
                 !.global = Updated(@, globals)]

\* One part of a path, below a dict or a list.
Below(cur, part) ==
  IF cur.kind = "dict" /\ part \in DOMAIN cur.of THEN cur.of[part]
  ELSE IF cur.kind = "list" /\ part \in DOMAIN Digits /\ Digits[part] < Len(cur.items)
       THEN cur.items[Digits[part] + 1]
       ELSE Missing

Walk(src, path) ==
  LET cur[i \in 0 .. Len(path)] == IF i = 0 THEN src ELSE Below(cur[i - 1], path[i])
  IN  cur[Len(path)]

Found(v) == IF v = Missing THEN NoValue ELSE v

\* resolve(): what is not there is None, and so is a scope with nothing below it.
Resolve(st, ref) ==
  IF ref.path = <<>> THEN NoValue
  ELSE IF ref.scope \in {"global", "chat", "loop"} THEN Found(Walk(Dict(st[ref.scope]), ref.path))
  ELSE IF ref.scope \in DOMAIN st.node THEN Found(Walk(Dict(st.node[ref.scope]), ref.path))
  ELSE NoValue

\* build_jinja_ctx: node names hide global and chat, which hide flat variables.
JinjaContext(st) ==
  Dict(Updated(Updated(Updated(st.chat, st.global),
                       [global |-> Dict(st.global), chat |-> Dict(st.chat)]),
               [n \in DOMAIN st.node |-> Dict(st.node[n])]))

\* A template is the references it renders; one that is undefined raises.
Rendered(st, ref) == Walk(JinjaContext(st), <<ref.scope>> \o ref.path)
Renders(st, template) ==
  \A i \in DOMAIN template : Rendered(st, template[i]) # Missing

Render(st, template) == [i \in DOMAIN template |-> Rendered(st, template[i])]

-----------------------------------------------------------------------------
(* comparators.py                                                          *)

\* float(x), or nothing.
Number(v) ==
  IF v.kind = "num" THEN {v.n}
  ELSE IF v.kind = "text" /\ \E d \in DOMAIN Digits : v.s = <<d>> THEN {Digits[v.s[1]]}
  ELSE {}

\* Variant: only None is empty.
IsNone(v) == v = NoValue

IsEmpty(v) == v \in {NoValue, String(<<>>), List(<<>>), Dict(<<>>)}
OrBlank(v) == IF IsEmpty(v) \/ v = Num(0) THEN String(<<>>) ELSE v

\* str(x); what a list or a dict looks like is left out.
Str(v) ==
  IF v.kind = "text" THEN v.s
  ELSE IF v.kind = "num" THEN <<CHOOSE d \in DOMAIN Digits : Digits[d] = v.n>>
  ELSE IF v.kind = "none" THEN <<"None">> ELSE <<"repr">>

Length(v) ==
  IF v.kind = "none" THEN 0
  ELSE IF v.kind = "num" THEN Len(Str(v))
  ELSE IF v.kind = "text" THEN Len(v.s)
  ELSE IF v.kind = "list" THEN Len(v.items) ELSE Cardinality(DOMAIN v.of)

Occurs(s, t) == \E i \in 0 .. Len(t) - Len(s) : SubSeq(t, i + 1, i + Len(s)) = s

\* x in c, and when Python refuses it.
MemberOf(x, c) ==
  \/ c.kind = "list" /\ x \in ToSet(c.items)
  \/ c.kind = "dict" /\ \E k \in DOMAIN c.of : x = String(<<k>>)
  \/ c.kind = "text" /\ x.kind = "text" /\ Occurs(x.s, c.s)
MemberRaises(x, c) ==
  \/ c.kind = "num"
  \/ c.kind = "text" /\ x.kind # "text"
  \/ c.kind = "dict" /\ x.kind \in {"list", "dict"}

Container(v) == IF v.kind \in {"list", "dict"} THEN v ELSE String(Str(OrBlank(v)))

\* Variant: "at most" is taken for the negation of "more than".
LeOfAnything(a, b) == ~\E x \in Number(a), y \in Number(b) : x > y

Le(a, b) == \E x \in Number(a), y \in Number(b) : x <= y

Comparators ==
  {"eq", "ne", "gt", "ge", "lt", "le", "contains", "not_contains", "is_empty",
   "is_not_empty", "startswith", "endswith", "length_eq", "length_gt", "length_lt",
   "length_le", "regex_match", "is_true", "is_false", "in", "not_in"}

\* A regular expression is taken for the text it spells.
Compare(op, a, b) ==
  \/ op = "eq" /\ a = b
  \/ op = "ne" /\ a # b
  \/ op = "gt" /\ \E x \in Number(a), y \in Number(b) : x > y
  \/ op = "ge" /\ \E x \in Number(a), y \in Number(b) : x >= y
  \/ op = "lt" /\ \E x \in Number(a), y \in Number(b) : x < y
  \/ op = "le" /\ Le(a, b)
  \/ op = "contains" /\ MemberOf(b, OrBlank(a))
  \/ op = "not_contains" /\ ~MemberOf(b, OrBlank(a))
  \/ op = "is_empty" /\ IsEmpty(a)
  \/ op = "is_not_empty" /\ ~IsEmpty(a)
  \/ op = "startswith" /\ IsPrefix(Str(b), Str(OrBlank(a)))
  \/ op = "endswith" /\ IsSuffix(Str(b), Str(OrBlank(a)))
  \/ op = "length_eq" /\ Length(a) \in Number(b)
  \/ op = "length_gt" /\ \E y \in Number(b) : Length(a) > y
  \/ op = "length_lt" /\ \E y \in Number(b) : Length(a) < y
  \/ op = "length_le" /\ \E y \in Number(b) : Length(a) <= y
  \/ op = "regex_match" /\ Occurs(Str(b), Str(OrBlank(a)))
  \/ op = "is_true" /\ OrBlank(a) # String(<<>>)
  \/ op = "is_false" /\ OrBlank(a) = String(<<>>)
  \/ op = "in" /\ MemberOf(a, Container(b))
  \/ op = "not_in" /\ ~MemberOf(a, Container(b))

CompareRaises(op, a, b) ==
  \/ op \in {"contains", "not_contains"} /\ MemberRaises(b, OrBlank(a))
  \/ op \in {"in", "not_in"} /\ MemberRaises(a, Container(b))
  \/ op \notin Comparators

\* evaluate(): the first condition's operator joins them all.
Evaluate(st, conds) ==
  LET Result(i) == Compare(conds[i].comparator, Resolve(st, conds[i].field), conds[i].value)
  IN  \/ conds = <<>>
      \/ conds # <<>> /\ conds[1].logical_operator = "and" /\ \A i \in DOMAIN conds : Result(i)
      \/ conds # <<>> /\ conds[1].logical_operator = "or" /\ \E i \in DOMAIN conds : Result(i)

EvaluateRaises(st, conds) ==
  \E i \in DOMAIN conds :
    CompareRaises(conds[i].comparator, Resolve(st, conds[i].field), conds[i].value)
===============================================================================
