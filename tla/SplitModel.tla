------------------------------ MODULE SplitModel ------------------------------
(***************************************************************************)
(* How a text becomes paragraphs (knowledge/splitter/split_model.py): the  *)
(* lines are read into a tree of titled sections, then the sections are    *)
(* walked in order and each one's content is cut into pieces of at most    *)
(* limit characters.                                                       *)
(*                                                                         *)
(* Sections are numbered in the order in which they are made, which is the *)
(* preorder the walk visits them in; section 1 is the root.  A character   *)
(* is one of a few classes: letters, the breaks, the dashes of a rule.     *)
(***************************************************************************)
EXTENDS Naturals, Sequences, SequencesExt

CONSTANTS
  Text,       \* texts: sequences of lines
  Limit,      \* chunk sizes an upload may ask for
  FileTitle,  \* the title of what stands under no heading
  MaxCalls    \* bound: nested calls until Python raises RecursionError

ASSUME SplitAssumption ==
  /\ Limit \subseteq Nat
  /\ MaxCalls \in Nat
  /\ \A x \in Text : x \in Seq([heading : {TRUE}, level : 1 .. 6, title : STRING]
                               \cup [heading : {FALSE}, body : Seq(STRING)])

VARIABLES
  text,    \* the text
  limit,   \* self.limit
  phase,   \* "parse", "walk", "done", or "raised"
  line,    \* lines read
  tree,    \* the sections: title, level, parent and content
  stack,   \* the open sections, from the root to the innermost
  buf,     \* body lines read since the last heading, each with its newline
  visited, \* the section the walk has come to
  rest,    \* what is left to cut of it
  calls,   \* nested calls of smart_split_paragraph
  raws     \* paragraphs made

splitVars == <<text, limit, phase, line, tree, stack, buf, visited, rest, calls, raws>>

\* The title of the root, and of a heading without text.
NoTitle == ""

\* A new section.
Section(title, level, parent) ==
  [title |-> title, level |-> level, parent |-> parent, content |-> <<>>]

SplitInit ==
  /\ text \in Text /\ limit \in Limit
  /\ phase = "parse" /\ line = 0
  /\ tree = <<Section(NoTitle, 0, 0)>>
  /\ stack = <<1>>
  /\ buf = <<>>
  /\ visited = 0 /\ rest = <<>> /\ calls = 0 /\ raws = <<>>

-----------------------------------------------------------------------------
(* Characters.                                                             *)

\* str.strip()
Strip(s) ==
  LET inked == {i \in DOMAIN s : s[i] # "newline"}
  IN  IF inked = {} THEN <<>> ELSE SubSeq(s, Min(inked), Max(inked))

\* A piece that the filter drops: blank, or nothing but a rule.
IsNoise(piece) == Strip(piece) \in {<<>>, <<"dash", "dash", "dash">>}

Breaks == <<"stop", "bang", "ask", "newline">>

\* Variant: a line end is preferred to the end of a sentence.
NewlineFirst(content) ==
  LET window == SubSeq(content, 1, limit)
      found  == SelectInSeq(Reverse(Breaks), LAMBDA b : Contains(window, b))
  IN  IF Len(content) <= limit THEN Len(content)
      ELSE IF found = 0 THEN limit
      ELSE SelectLastInSeq(window, LAMBDA c : c = Reverse(Breaks)[found])

(***************************************************************************)
(* Where the first piece ends: at the last of the best breaks that the     *)
(* first limit characters have, or at the limit.                           *)
(***************************************************************************)
CutAt(content) ==
  LET window == SubSeq(content, 1, limit)
      found  == SelectInSeq(Breaks, LAMBDA b : Contains(window, b))
  IN  IF Len(content) <= limit THEN Len(content)
      ELSE IF found = 0 THEN limit
      ELSE SelectLastInSeq(window, LAMBDA c : c = Breaks[found])

-----------------------------------------------------------------------------
(* parse_to_tree, a line at a time.                                        *)

\* What has been read goes to the innermost section.
Flushed == [tree EXCEPT ![Last(stack)].content = @ \o Strip(buf)]

\* Variant: a section of the same level stays open.
OpenAboveOrEqual(level) ==
  SubSeq(stack, 1, Max({1} \cup {k \in DOMAIN stack : tree[stack[k]].level <= level}))

\* The sections a heading of this level leaves open: the root, and those above it.
OpenAbove(level) ==
  SubSeq(stack, 1, Max({1} \cup {k \in DOMAIN stack : tree[stack[k]].level < level}))

ReadHeading ==
  /\ phase = "parse" /\ line < Len(text)
  /\ text[line + 1].heading
  /\ LET head == text[line + 1]
         open == OpenAbove(head.level)
     IN  /\ tree' = Append(Flushed, Section(head.title, head.level, Last(open)))
         /\ stack' = Append(open, Len(tree) + 1)
  /\ buf' = <<>>
  /\ line' = line + 1
  /\ UNCHANGED <<text, limit, phase, visited, rest, calls, raws>>

ReadBody ==
  /\ phase = "parse" /\ line < Len(text)
  /\ ~text[line + 1].heading
  /\ buf' = buf \o Append(text[line + 1].body, "newline")
  /\ line' = line + 1
  /\ UNCHANGED <<text, limit, phase, tree, stack, visited, rest, calls, raws>>

\* Variant: the lines behind the last heading are forgotten.
EndUnflushed ==
  /\ phase = "parse" /\ line = Len(text)
  /\ phase' = "walk"
  /\ UNCHANGED <<text, limit, line, tree, stack, buf, visited, rest, calls, raws>>

EndOfText ==
  /\ phase = "parse" /\ line = Len(text)
  /\ tree' = Flushed
  /\ phase' = "walk"
  /\ UNCHANGED <<text, limit, line, stack, buf, visited, rest, calls, raws>>

-----------------------------------------------------------------------------
(* parse_to_paragraphs.                                                    *)

\* The title of a section, or of the nearest section around it that has one.
CurTitle ==
  LET cur[s \in DOMAIN tree] ==
        IF tree[s].title # NoTitle THEN tree[s].title
        ELSE IF s = 1 THEN FileTitle ELSE cur[tree[s].parent]
  IN  cur

Visit ==
  /\ phase = "walk" /\ rest = <<>> /\ visited < Len(tree)
  /\ visited' = visited + 1
  /\ rest' = Strip(tree[visited + 1].content)
  /\ calls' = 0
  /\ UNCHANGED <<text, limit, phase, line, tree, stack, buf, raws>>

\* One call of smart_split_paragraph, whose result the walk keeps or drops.
Cut ==
  /\ phase = "walk" /\ rest # <<>> /\ calls < MaxCalls
  /\ LET piece == SubSeq(rest, 1, CutAt(rest))
     IN  /\ raws' = IF IsNoise(piece) THEN raws
                    ELSE Append(raws, [title |-> CurTitle[visited], section |-> visited,
                                       content |-> piece])
         /\ rest' = SubSeq(rest, CutAt(rest) + 1, Len(rest))
  /\ calls' = calls + 1
  /\ UNCHANGED <<text, limit, phase, line, tree, stack, buf, visited>>

\* Too many pieces, or a limit of 0, which never shortens the rest.
TooDeep ==
  /\ phase = "walk" /\ rest # <<>> /\ calls = MaxCalls
  /\ phase' = "raised"
  /\ UNCHANGED <<text, limit, line, tree, stack, buf, visited, rest, calls, raws>>

Return ==
  /\ phase = "walk" /\ rest = <<>> /\ visited = Len(tree)
  /\ phase' = "done"
  /\ UNCHANGED <<text, limit, line, tree, stack, buf, visited, rest, calls, raws>>

SplitEnded == phase \in {"done", "raised"} /\ UNCHANGED splitVars

SplitNext ==
  \/ ReadHeading \/ ReadBody \/ EndOfText
  \/ Visit \/ Cut \/ TooDeep \/ Return \/ SplitEnded

SplitSpec == SplitInit /\ [][SplitNext]_splitVars

-----------------------------------------------------------------------------
(* Properties.                                                             *)

\* The lines that are headings; section s + 1 is made by the s-th of them.
HeadLines == {i \in DOMAIN text : text[i].heading}
HeadsTo(i) == {j \in HeadLines : j <= i}
Heads == [s \in 1 .. Cardinality(HeadLines) |->
            CHOOSE i \in HeadLines : Cardinality(HeadsTo(i)) = s]

\* Heading i and the headings it stands under: those above it with only
\* headings of lower rank in between.
Around(i) ==
  {j \in HeadsTo(i) : \A h \in HeadsTo(i) : h > j => text[h].level > text[j].level}

\* The title a reader gives heading i and what follows it.
TitleOfLine(i) ==
  LET titled == {j \in Around(i) : text[j].title # NoTitle}
  IN  IF titled = {} THEN FileTitle ELSE text[Max(titled)].title

(***************************************************************************)
(* "The title is taken from the nearest level": a paragraph has the title  *)
(* of the nearest enclosing heading that is not blank, headings that skip  *)
(* levels or go back up included.                                          *)
(***************************************************************************)
TitleIsNearest ==
  \A k \in DOMAIN raws :
    raws[k].title = IF raws[k].section = 1 THEN FileTitle
                    ELSE TitleOfLine(Heads[raws[k].section - 1])

\* The letters of a content, in order.
Letters(s) ==
  FlattenSeq([i \in DOMAIN s |-> IF s[i] \in {"newline", "dash"} THEN <<>> ELSE <<s[i]>>])

\* The lines of section s, and what stands on them.
LinesOf(s) ==
  (IF s = 1 THEN 1 ELSE Heads[s - 1] + 1) .. (IF s > Len(Heads) THEN Len(text) ELSE Heads[s] - 1)
BodyOf(s) ==
  FlattenSeq([i \in DOMAIN text |-> IF i \in LinesOf(s) THEN text[i].body ELSE <<>>])

\* The pieces made of section s.
PiecesOf(s) ==
  FlattenSeq([k \in DOMAIN raws |-> IF raws[k].section = s THEN raws[k].content ELSE <<>>])

(***************************************************************************)
(* Nothing is lost, doubled or moved: when the split returns, the pieces   *)
(* of each section are the text between its heading and the next, in       *)
(* order, but for blank lines and rules.                                   *)
(***************************************************************************)
SectionsAreWhole ==
  phase = "done" =>
    \A s \in 1 .. Len(Heads) + 1 : Letters(PiecesOf(s)) = Letters(BodyOf(s))

\* The rank of a character as a place to cut at.
Rank(c) == IF Contains(Breaks, c) THEN SelectInSeq(Breaks, LAMBDA b : b = c) ELSE 5

(***************************************************************************)
(* A piece is no longer than the limit, and one that others of its section *)
(* follow ends at a break at least as good as any in it: a sentence is cut *)
(* inside only when the limit leaves no other way.                         *)
(***************************************************************************)
CutsAtBestBreak ==
  \A k \in DOMAIN raws :
    LET piece == raws[k].content
    IN  /\ Len(piece) \in 1 .. limit
        /\ (\E m \in DOMAIN raws : m > k /\ raws[m].section = raws[k].section) =>
             /\ \A i \in DOMAIN piece : Rank(Last(piece)) <= Rank(piece[i])
             /\ Rank(Last(piece)) = 5 => Len(piece) = limit
===============================================================================
