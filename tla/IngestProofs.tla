----------------------------- MODULE IngestProofs -----------------------------
(***************************************************************************)
(* Proofs about documents on their way to paragraphs and vectors, for      *)
(* every number of documents, files, workers and edits, and all faults,    *)
(* and about the cutting of a text, the titles of its parts and what they  *)
(* hold, for every text and limit.                                         *)
(***************************************************************************)
EXTENDS Ingest, SplitModel, FiniteSetTheorems, SequenceTheorems, WellFoundedInduction, TLAPS

DocRow == [status : Status, count : Nat, given : BOOLEAN]
TaskRow == [split : Status \cup {"none"}, embed : Status \cup {"none"}]

Phase == {"split", "start_task", "create", "finish", "finish_task", "then_embed",
          "fail", "fail_task", "next", "embed", "reset_task", "start_embed", "vectors",
          "fail_paragraphs"}
Item == [job : Job, at : Phase, d : Doc, todo : SUBSET Doc, ids : SUBSET Nat]

IngestType ==
  /\ doc \in [Doc -> DocRow \cup {NoRow}]
  /\ task \in [Doc -> TaskRow]
  /\ para \in [Doc -> Seq(Status)]
  /\ DOMAIN file = Doc /\ \A d \in Doc : file[d].pieces \in Nat
  /\ queue \in [Job -> Nat]
  /\ work \in [Worker -> Item \cup {Idle}]
  /\ edit \in [Editor -> [at : {"save"}, d : Doc, row : DocRow] \cup {Idle}]
  /\ losses \in Nat

Present == {d \in Doc : Exists(d)}
Handled == {d \in Doc : Splits(d)}
Whole == {d \in Handled : Len(para[d]) = file[d].pieces}

(***************************************************************************)
(* Nobody works on, or has read, a document that is not there; its rows    *)
(* are as they were.                                                       *)
(***************************************************************************)
NothingBefore ==
  /\ \A d \in Doc \ Present : para[d] = <<>> /\ task[d].split = "none" /\ queue[SplitJob(d)] = 0
  /\ \A w \in Worker : work[w] # Idle =>
       work[w].todo \subseteq Present /\ (work[w].d \in Present \/ work[w].at = "next")
  /\ \A e \in Editor : edit[e] # Idle => edit[e].d \in Present

(***************************************************************************)
(* A document has never more paragraphs than its file, so that whoever has *)
(* seen all of them may say so later.                                      *)
(***************************************************************************)
WholeInv ==
  /\ \A d \in Doc :
       /\ Len(para[d]) <= file[d].pieces
       /\ Earned(doc[d]) => d \in Whole /\ doc[d].count = file[d].pieces
       /\ task[d].split = "SUCCESS" => d \in Whole
  /\ \A w \in Worker : work[w] # Idle =>
       /\ work[w].at = "create" => work[w].d \in Handled
       /\ work[w].at \in {"finish", "finish_task"} => work[w].d \in Whole
  /\ \A e \in Editor : edit[e] # Idle /\ Earned(edit[e].row) =>
       edit[e].d \in Whole /\ edit[e].row.count = file[edit[e].d].pieces

\* The embedding that made paragraphs fail, or is about to, has said so.
Failing ==
  {d \in Doc : \/ \E i \in DOMAIN para[d] : para[d][i] = "FAILURE"
               \/ \E w \in Worker : work[w] # Idle /\ work[w].at = "fail_paragraphs" /\ work[w].d = d}
Told ==
  {d \in Doc : \/ task[d].embed = "FAILURE" \/ d \in cut
               \/ \E w \in Worker : work[w] # Idle /\ work[w].at \in Starting /\ work[w].d = d}
ToldInv == Failing \subseteq Told

IngestInv == IngestType /\ NothingBefore /\ WholeInv /\ ToldInv

-----------------------------------------------------------------------------
(* Rows.                                                                   *)

LEMMA RowsExist ==
  ASSUME IngestType, NEW d \in Doc
  PROVE  d \in Present <=> doc[d] \in DocRow
BY DEF IngestType, Present, Exists, NoRow, DocRow, Status

LEMMA ItemIsNotIdle ==
  /\ \A i \in Item : i # Idle
  /\ \A e \in [at : {"save"}, d : Doc, row : DocRow] : e # Idle
<1>1. Idle.at = "idle"
  BY DEF Idle
<1>2. \A i \in Item : i.at # "idle"
  BY DEF Item, Phase
<1>3. \A e \in [at : {"save"}, d : Doc, row : DocRow] : e.at # "idle"
  OBVIOUS
<1> QED
  BY <1>1, <1>2, <1>3

(* Who works on a document, but for looking for the next, has one. *)
LEMMA WorkedOn ==
  ASSUME IngestInv, NEW w \in Worker, work[w] # Idle
  PROVE  /\ work[w] \in Item /\ work[w].d \in Doc
         /\ work[w].at # "next" => work[w].d \in Present /\ doc[work[w].d] \in DocRow
<1>1. work[w] \in Item /\ work[w].d \in Doc
  BY DEF IngestInv, IngestType, Item
<1>2. work[w].at # "next" => work[w].d \in Present
  BY DEF IngestInv, NothingBefore
<1> QED
  BY <1>1, <1>2, RowsExist DEF IngestInv

LEMMA IngestInitial ==
  ASSUME Init PROVE IngestInv
<1> USE DEF Init
<1>1. IngestType
  <2>1. [split |-> "none", embed |-> "none"] \in TaskRow
    BY DEF TaskRow
  <2> QED
    BY <2>1 DEF IngestType
<1>2. NothingBefore
  <2>1. \A d \in Doc : SplitJob(d) \in Job
    BY DEF Job
  <2> QED
    BY <2>1 DEF NothingBefore
<1>3. WholeInv
  BY DEF WholeInv, NoRow, Earned
<1>4. ToldInv
  BY DEF ToldInv, Failing
<1> QED
  BY <1>1, <1>2, <1>3, <1>4 DEF IngestInv

-----------------------------------------------------------------------------
(* A step of a worker on a document that is there: what it may write.      *)

Advance(w, d, i, row, t, p) ==
  /\ work[w] # Idle /\ work[w].d = d /\ d \in Present
  /\ work' = [work EXCEPT ![w] = i]
  /\ doc' = [doc EXCEPT ![d] = row]
  /\ task' = [task EXCEPT ![d] = t]
  /\ para' = [para EXCEPT ![d] = p]
  /\ queue' \in [Job -> Nat] /\ \A x \in Doc : queue'[SplitJob(x)] = queue[SplitJob(x)]
  /\ UNCHANGED <<file, edit, cut, losses>>

MayWrite(w, d, i, row, t, p) ==
  /\ i # Idle => i.d = d /\ i.todo \subseteq work[w].todo
  /\ Len(para[d]) <= Len(p) /\ Len(p) <= file[d].pieces
  /\ Earned(row) => d \in Handled /\ Len(p) = file[d].pieces /\ row.count = file[d].pieces
  /\ t.split = "SUCCESS" => d \in Handled /\ Len(p) = file[d].pieces
  /\ i # Idle => /\ i.at = "create" => d \in Handled
                 /\ i.at \in {"finish", "finish_task"} => d \in Handled /\ Len(p) = file[d].pieces

LEMMA AdvanceRows ==
  ASSUME IngestInv, NEW w \in Worker, NEW d \in Doc, NEW i \in Item \cup {Idle},
         NEW row \in DocRow, NEW t \in TaskRow, NEW p \in Seq(Status),
         Advance(w, d, i, row, t, p)
  PROVE  /\ IngestType'
         /\ work'[w] = i /\ \A v \in Worker \ {w} : work'[v] = work[v]
         /\ doc'[d] = row /\ task'[d] = t /\ para'[d] = p
         /\ \A x \in Doc \ {d} : doc'[x] = doc[x] /\ task'[x] = task[x] /\ para'[x] = para[x]
         /\ Present' = Present /\ Handled' = Handled /\ file' = file /\ edit' = edit
<1> USE DEF IngestInv, IngestType, Advance
<1>1. /\ work'[w] = i /\ \A v \in Worker \ {w} : work'[v] = work[v]
      /\ doc'[d] = row /\ task'[d] = t /\ para'[d] = p
      /\ \A x \in Doc \ {d} : doc'[x] = doc[x] /\ task'[x] = task[x] /\ para'[x] = para[x]
  OBVIOUS
<1>2. Handled' = Handled
  BY DEF Handled, Splits
<1>3. row # NoRow
  BY DEF DocRow, NoRow, Status
<1>4. Present' = Present
  BY <1>1, <1>3 DEF Present, Exists
<1>5. IngestType'
  BY <1>1, <1>2
<1> QED
  BY <1>1, <1>2, <1>4, <1>5

LEMMA AdvanceKeeps ==
  ASSUME IngestInv, NEW w \in Worker, NEW d \in Doc, NEW i \in Item \cup {Idle},
         NEW row \in DocRow, NEW t \in TaskRow, NEW p \in Seq(Status),
         Advance(w, d, i, row, t, p), MayWrite(w, d, i, row, t, p),
         d \in Failing' => d \in Told'
  PROVE  IngestInv'
<1>1. /\ IngestType'
      /\ work'[w] = i /\ \A v \in Worker \ {w} : work'[v] = work[v]
      /\ doc'[d] = row /\ task'[d] = t /\ para'[d] = p
      /\ \A x \in Doc \ {d} : doc'[x] = doc[x] /\ task'[x] = task[x] /\ para'[x] = para[x]
      /\ Present' = Present /\ Handled' = Handled /\ file' = file /\ edit' = edit
  BY AdvanceRows
<1>2. NothingBefore'
  <2>1. \A x \in Doc \ Present : para'[x] = <<>> /\ task'[x].split = "none" /\ queue'[SplitJob(x)] = 0
    BY <1>1 DEF IngestInv, NothingBefore, Advance
  <2>2. \A v \in Worker : work'[v] # Idle =>
          work'[v].todo \subseteq Present /\ (work'[v].d \in Present \/ work'[v].at = "next")
    <3>1. i # Idle => i.todo \subseteq Present /\ i.d \in Present
      BY DEF IngestInv, NothingBefore, Advance, MayWrite
    <3>2. \A v \in Worker \ {w} : work[v] # Idle =>
            work[v].todo \subseteq Present /\ (work[v].d \in Present \/ work[v].at = "next")
      BY DEF IngestInv, NothingBefore
    <3> QED
      BY <1>1, <3>1, <3>2
  <2>3. \A e \in Editor : edit'[e] # Idle => edit'[e].d \in Present
    BY <1>1 DEF IngestInv, NothingBefore
  <2> QED
    BY <1>1, <2>1, <2>2, <2>3 DEF NothingBefore, SplitJob
<1>3. \A x \in Doc : /\ Len(para[x]) \in Nat /\ Len(para'[x]) \in Nat /\ file[x].pieces \in Nat
                     /\ Len(para[x]) <= Len(para'[x]) /\ Len(para'[x]) <= file[x].pieces
  <2>1. \A x \in Doc : Len(para[x]) \in Nat /\ Len(para'[x]) \in Nat /\ file[x].pieces \in Nat
    BY <1>1 DEF IngestInv, IngestType
  <2> QED
    <3>1. Len(para[d]) <= Len(para'[d]) /\ Len(para'[d]) <= file[d].pieces
      BY <1>1 DEF MayWrite
    <3>2. \A x \in Doc \ {d} : Len(para[x]) = Len(para'[x]) /\ Len(para'[x]) <= file[x].pieces
      BY <1>1 DEF IngestInv, WholeInv
    <3>3. \A x \in Doc \ {d} : Len(para[x]) <= Len(para'[x]) /\ Len(para'[x]) <= file[x].pieces
      BY <2>1, <3>2
    <3> QED
      BY <2>1, <3>1, <3>3
<1>4. Whole \subseteq Whole'
  <2> SUFFICES ASSUME NEW x \in Whole PROVE x \in Whole'
    OBVIOUS
  <2>1. x \in Handled /\ Len(para[x]) = file[x].pieces /\ x \in Doc
    BY DEF Whole, Handled
  <2>2. Len(para'[x]) = file[x].pieces
    BY <1>3, <2>1
  <2> QED
    BY <1>1, <2>1, <2>2 DEF Whole
<1>5. d \in Handled /\ Len(p) = file[d].pieces => d \in Whole'
  BY <1>1 DEF Whole
<1>6. WholeInv'
  <2>1. ASSUME NEW x \in Doc
        PROVE  /\ Len(para'[x]) <= file'[x].pieces
               /\ Earned(doc'[x]) => x \in Whole' /\ doc'[x].count = file'[x].pieces
               /\ task'[x].split = "SUCCESS" => x \in Whole'
    <3>1. CASE x = d
      BY <1>1, <1>3, <1>5, <3>1 DEF MayWrite
    <3>2. CASE x # d
      BY <1>1, <1>3, <1>4, <3>2 DEF IngestInv, WholeInv
    <3> QED
      BY <3>1, <3>2
  <2>2. ASSUME NEW v \in Worker, work'[v] # Idle
        PROVE  /\ work'[v].at = "create" => work'[v].d \in Handled'
               /\ work'[v].at \in {"finish", "finish_task"} => work'[v].d \in Whole'
    <3>1. CASE v = w
      BY <1>1, <1>5, <2>2, <3>1 DEF MayWrite
    <3>2. CASE v # w
      BY <1>1, <1>4, <2>2, <3>2 DEF IngestInv, WholeInv
    <3> QED
      BY <3>1, <3>2
  <2>3. \A e \in Editor : edit'[e] # Idle /\ Earned(edit'[e].row) =>
          edit'[e].d \in Whole' /\ edit'[e].row.count = file'[edit'[e].d].pieces
    BY <1>1, <1>4 DEF IngestInv, WholeInv
  <2> QED
    BY <2>1, <2>2, <2>3 DEF WholeInv
<1>7. ToldInv'
  <2> SUFFICES ASSUME NEW x \in Doc, x # d, x \in Failing'
               PROVE  x \in Told'
    BY DEF ToldInv, Failing
  <2>1. x \in Failing
    BY <1>1 DEF Failing, MayWrite
  <2>2. x \in Told
    BY <2>1 DEF IngestInv, ToldInv
  <2> QED
    BY <1>1, <2>2 DEF Told, Advance, MayWrite
<1> QED
  BY <1>1, <1>2, <1>6, <1>7 DEF IngestInv

LEMMA StillTold ==
  ASSUME IngestInv, NEW w \in Worker, NEW d \in Doc, NEW i \in Item \cup {Idle},
         NEW row \in DocRow, NEW t \in TaskRow, NEW p \in Seq(Status),
         Advance(w, d, i, row, t, p),
         t.embed = task[d].embed, work[w].at \notin Starting, i # Idle => i.at # "fail_paragraphs",
         (\E k \in DOMAIN p : p[k] = "FAILURE") => \E k \in DOMAIN para[d] : para[d][k] = "FAILURE"
  PROVE  d \in Failing' => d \in Told'
<1>1. /\ work'[w] = i /\ \A v \in Worker \ {w} : work'[v] = work[v]
      /\ task'[d] = t /\ para'[d] = p
  BY DEF Advance, IngestInv, IngestType
<1> SUFFICES ASSUME d \in Failing' PROVE d \in Told'
  OBVIOUS
<1>2. d \in Failing
  BY <1>1 DEF Failing
<1>3. d \in Told
  BY <1>2 DEF IngestInv, ToldInv
<1> QED
  BY <1>1, <1>3 DEF Told, Advance

LEMMA GoesOn ==
  ASSUME IngestInv, NEW w \in Worker, work[w] # Idle, NEW at \in Phase
  PROVE  LET i == [work[w] EXCEPT !.at = at]
         IN  /\ i \in Item /\ i # Idle /\ i.at = at /\ i.d = work[w].d /\ i.todo = work[w].todo
             /\ [work EXCEPT ![w].at = at] = [work EXCEPT ![w] = i]
BY WorkedOn, ItemIsNotIdle DEF Item

LEMMA SameRows ==
  ASSUME IngestInv, NEW d \in Present
  PROVE  /\ d \in Doc /\ doc[d] \in DocRow /\ task[d] \in TaskRow /\ para[d] \in Seq(Status)
         /\ doc = [doc EXCEPT ![d] = doc[d]]
         /\ task = [task EXCEPT ![d] = task[d]]
         /\ para = [para EXCEPT ![d] = para[d]]
         /\ Len(para[d]) \in Nat /\ file[d].pieces \in Nat /\ Len(para[d]) <= file[d].pieces
         /\ Earned(doc[d]) =>
              d \in Handled /\ Len(para[d]) = file[d].pieces /\ doc[d].count = file[d].pieces
         /\ task[d].split = "SUCCESS" => d \in Handled /\ Len(para[d]) = file[d].pieces
<1>1. d \in Doc /\ doc[d] \in DocRow
  BY RowsExist DEF Present, IngestInv
<1>2. /\ task[d] \in TaskRow /\ para[d] \in Seq(Status)
      /\ doc = [doc EXCEPT ![d] = doc[d]]
      /\ task = [task EXCEPT ![d] = task[d]]
      /\ para = [para EXCEPT ![d] = para[d]]
      /\ Len(para[d]) \in Nat /\ file[d].pieces \in Nat
  BY <1>1 DEF IngestInv, IngestType
<1>3. d \in Whole => d \in Handled /\ Len(para[d]) = file[d].pieces
  BY DEF Whole
<1> QED
  BY <1>1, <1>2, <1>3 DEF IngestInv, WholeInv

LEMMA Reflexive == \A n \in Nat : n <= n
OBVIOUS

\* What was there may be written again.
LEMMA MayKeep ==
  ASSUME IngestInv, NEW w \in Worker, NEW d \in Present,
         NEW i \in Item \cup {Idle}, NEW row \in DocRow, NEW t \in TaskRow,
         i # Idle => /\ i.d = d /\ i.todo \subseteq work[w].todo
                     /\ i.at \notin {"create", "finish", "finish_task"},
         Earned(row) => row = doc[d],
         t.split = "SUCCESS" => task[d].split = "SUCCESS"
  PROVE  MayWrite(w, d, i, row, t, para[d])
<1>0. Len(para[d]) \in Nat /\ file[d].pieces \in Nat /\ Len(para[d]) <= file[d].pieces
  BY SameRows
<1>2. Earned(row) => d \in Handled /\ Len(para[d]) = file[d].pieces /\ row.count = file[d].pieces
  BY SameRows
<1>3. t.split = "SUCCESS" => d \in Handled /\ Len(para[d]) = file[d].pieces
  BY SameRows
<1> QED
  BY <1>0, <1>2, <1>3, Reflexive DEF MayWrite

-----------------------------------------------------------------------------
(* Splitting.                                                              *)

LEMMA SplitBeginKeeps ==
  ASSUME IngestInv, NEW w \in Worker, SplitBegin(w), UNCHANGED edit
  PROVE  IngestInv'
<1> DEFINE d == work[w].d
           at == IF CanTransit(doc[d].status, "STARTED") THEN "start_task" ELSE "fail"
           i == [work[w] EXCEPT !.at = at]
           row == IF CanTransit(doc[d].status, "STARTED")
                  THEN [doc[d] EXCEPT !.status = "STARTED"] ELSE doc[d]
           t == [task[d] EXCEPT !.split = "PENDING"]
<1>1. work[w] # Idle /\ work[w].at = "split" /\ d \in Present
  BY WorkedOn DEF SplitBegin, At
<1>2. at \in Phase
  BY DEF Phase
<1>3. /\ i \in Item /\ i # Idle /\ i.at = at /\ i.d = d /\ i.todo = work[w].todo
      /\ [work EXCEPT ![w].at = at] = [work EXCEPT ![w] = i]
  BY <1>1, <1>2, GoesOn
<1>4. row \in DocRow /\ t \in TaskRow /\ t.embed = task[d].embed /\ t.split = "PENDING"
  BY <1>1, SameRows DEF DocRow, TaskRow, Status
<1>r. /\ Earned(row) => row = doc[d]
      /\ para[d] \in Seq(Status) /\ d \in Doc
  BY <1>1, SameRows DEF DocRow, Earned
<1>5. Advance(w, d, i, row, t, para[d])
  BY <1>1, <1>3, SameRows DEF SplitBegin, Advance, GoTo, SetDoc, SetTask, Doing, IngestInv, IngestType
<1>s. at \notin {"create", "finish", "finish_task", "fail_paragraphs"}
  OBVIOUS
<1> HIDE DEF d, at, i, row, t
<1>6. MayWrite(w, d, i, row, t, para[d])
  BY <1>1, <1>3, <1>4, <1>r, <1>s, MayKeep
<1>7. d \in Failing' => d \in Told'
  BY <1>1, <1>3, <1>4, <1>5, <1>r, <1>s, StillTold DEF Starting
<1> QED
  BY <1>3, <1>4, <1>5, <1>6, <1>7, <1>r, AdvanceKeeps

LEMMA SplitStartTaskKeeps ==
  ASSUME IngestInv, NEW w \in Worker, SplitStartTask(w), UNCHANGED edit
  PROVE  IngestInv'
<1> DEFINE d == work[w].d
           at == IF Splits(d) THEN "create" ELSE "fail"
           i == [work[w] EXCEPT !.at = at]
           t == [task[d] EXCEPT !.split = "STARTED"]
<1>1. work[w] # Idle /\ work[w].at = "start_task" /\ d \in Present
  BY WorkedOn DEF SplitStartTask, At
<1>2. at \in Phase
  BY DEF Phase
<1>3. /\ i \in Item /\ i # Idle /\ i.at = at /\ i.d = d /\ i.todo = work[w].todo
      /\ [work EXCEPT ![w].at = at] = [work EXCEPT ![w] = i]
  BY <1>1, <1>2, GoesOn
<1>4. t \in TaskRow /\ t.embed = task[d].embed /\ t.split = "STARTED"
  BY <1>1, SameRows DEF TaskRow, Status
<1>5. Advance(w, d, i, doc[d], t, para[d])
  BY <1>1, <1>3, SameRows DEF SplitStartTask, Advance, GoTo, SetTask, Doing, IngestInv, IngestType
<1>6. d \in Doc /\ doc[d] \in DocRow /\ para[d] \in Seq(Status)
  BY <1>1, SameRows
<1>7. at \notin {"finish", "finish_task", "fail_paragraphs"} /\ (at = "create" => d \in Handled)
  BY <1>6 DEF Handled
<1> HIDE DEF d, at, i, t
<1>8. MayWrite(w, d, i, doc[d], t, para[d])
  BY <1>1, <1>3, <1>4, <1>6, <1>7, SameRows, Reflexive DEF MayWrite
<1>9. d \in Failing' => d \in Told'
  BY <1>1, <1>3, <1>4, <1>5, <1>6, <1>7, StillTold DEF Starting
<1> QED
  BY <1>3, <1>4, <1>5, <1>6, <1>8, <1>9, AdvanceKeeps

LEMMA CreateParagraphKeeps ==
  ASSUME IngestInv, NEW w \in Worker, CreateParagraph(w), UNCHANGED edit
  PROVE  IngestInv'
<1> DEFINE d == work[w].d
           more == Len(para[d]) < file[d].pieces
           at == IF more THEN "create" ELSE "finish"
           i == [work[w] EXCEPT !.at = at]
           p == IF more THEN Append(para[d], "PENDING") ELSE para[d]
<1>1. work[w] # Idle /\ work[w].at = "create" /\ d \in Present /\ d \in Handled
  BY WorkedOn DEF CreateParagraph, At, IngestInv, WholeInv
<1>2. at \in Phase
  BY DEF Phase
<1>3. /\ i \in Item /\ i # Idle /\ i.at = at /\ i.d = d /\ i.todo = work[w].todo
      /\ [work EXCEPT ![w].at = at] = [work EXCEPT ![w] = i]
  BY <1>1, <1>2, GoesOn
<1>4. /\ d \in Doc /\ doc[d] \in DocRow /\ task[d] \in TaskRow /\ para[d] \in Seq(Status)
      /\ Len(para[d]) \in Nat /\ file[d].pieces \in Nat /\ Len(para[d]) <= file[d].pieces
  BY <1>1, SameRows
<1>5. /\ p \in Seq(Status) /\ Len(para[d]) <= Len(p) /\ Len(p) <= file[d].pieces
      /\ at = "finish" => Len(p) = file[d].pieces
      /\ Len(para[d]) = file[d].pieces => Len(p) = file[d].pieces
      /\ \A k \in DOMAIN p : p[k] = "FAILURE" => k \in DOMAIN para[d] /\ para[d][k] = "FAILURE"
  <2>1. CASE more
    <3>1. "PENDING" \in Status
      BY DEF Status
    <3>2. p \in Seq(Status) /\ Len(p) = Len(para[d]) + 1 /\ at = "create"
      BY <1>4, <2>1, <3>1
    <3>3. \A k \in 1..Len(p) : p[k] = "FAILURE" => k \in 1..Len(para[d]) /\ para[d][k] = "FAILURE"
      BY <1>4, <2>1
    <3> QED
      BY <1>4, <2>1, <3>2, <3>3
  <2>2. CASE ~more
    BY <1>4, <2>2, Reflexive
  <2> QED
    BY <2>1, <2>2
<1>6. Advance(w, d, i, doc[d], task[d], p)
  BY <1>1, <1>3, SameRows DEF CreateParagraph, Advance, GoTo, Pieces, Doing, IngestInv, IngestType
<1>7. at \in {"create", "finish"}
  OBVIOUS
<1> HIDE DEF d, at, i, p, more
<1>8. MayWrite(w, d, i, doc[d], task[d], p)
  BY <1>1, <1>3, <1>4, <1>5, <1>7, SameRows DEF MayWrite
<1>9. d \in Failing' => d \in Told'
  BY <1>1, <1>3, <1>4, <1>5, <1>6, <1>7, StillTold DEF Starting
<1> QED
  BY <1>3, <1>4, <1>5, <1>6, <1>8, <1>9, AdvanceKeeps

LEMMA RefuseParagraphKeeps ==
  ASSUME IngestInv, NEW w \in Worker, RefuseParagraph(w), UNCHANGED edit
  PROVE  IngestInv'
<1> DEFINE d == work[w].d
           i == [work[w] EXCEPT !.at = "fail"]
<1>1. work[w] # Idle /\ work[w].at = "create" /\ d \in Present
  BY WorkedOn DEF RefuseParagraph, At
<1>2. "fail" \in Phase
  BY DEF Phase
<1>3. /\ i \in Item /\ i # Idle /\ i.at = "fail" /\ i.d = d /\ i.todo = work[w].todo
      /\ [work EXCEPT ![w].at = "fail"] = [work EXCEPT ![w] = i]
  BY <1>1, <1>2, GoesOn
<1>4. d \in Doc /\ doc[d] \in DocRow /\ task[d] \in TaskRow /\ para[d] \in Seq(Status)
  BY <1>1, SameRows
<1>5. Advance(w, d, i, doc[d], task[d], para[d])
  BY <1>1, <1>3, SameRows DEF RefuseParagraph, Advance, GoTo, rows, IngestInv, IngestType
<1> HIDE DEF d, i
<1>6. MayWrite(w, d, i, doc[d], task[d], para[d])
  BY <1>1, <1>3, <1>4, MayKeep
<1>7. d \in Failing' => d \in Told'
  BY <1>1, <1>3, <1>4, <1>5, StillTold DEF Starting
<1> QED
  BY <1>3, <1>4, <1>5, <1>6, <1>7, AdvanceKeeps

LEMMA SplitFinishKeeps ==
  ASSUME IngestInv, NEW w \in Worker, SplitFinish(w), UNCHANGED edit
  PROVE  IngestInv'
<1> DEFINE d == work[w].d
           i == [work[w] EXCEPT !.at = "finish_task"]
           row == [status |-> "SUCCESS", count |-> Len(para[d]), given |-> FALSE]
<1>1. work[w] # Idle /\ work[w].at = "finish" /\ d \in Present /\ d \in Whole
  BY WorkedOn DEF SplitFinish, At, IngestInv, WholeInv
<1>2. "finish_task" \in Phase
  BY DEF Phase
<1>3. /\ i \in Item /\ i # Idle /\ i.at = "finish_task" /\ i.d = d /\ i.todo = work[w].todo
      /\ [work EXCEPT ![w].at = "finish_task"] = [work EXCEPT ![w] = i]
  BY <1>1, <1>2, GoesOn
<1>4. /\ d \in Doc /\ doc[d] \in DocRow /\ task[d] \in TaskRow /\ para[d] \in Seq(Status)
      /\ Len(para[d]) \in Nat /\ d \in Handled /\ Len(para[d]) = file[d].pieces
  BY <1>1, SameRows DEF Whole
<1>5. row \in DocRow /\ row.status = "SUCCESS" /\ row.count = Len(para[d])
  BY <1>4 DEF DocRow, Status
<1>6. Advance(w, d, i, row, task[d], para[d])
  BY <1>1, <1>3, SameRows DEF SplitFinish, Advance, GoTo, Doing, IngestInv, IngestType
<1> HIDE DEF d, i, row
<1>7. MayWrite(w, d, i, row, task[d], para[d])
  BY <1>3, <1>4, <1>5, Reflexive DEF MayWrite
<1>8. d \in Failing' => d \in Told'
  BY <1>1, <1>3, <1>4, <1>5, <1>6, StillTold DEF Starting
<1> QED
  BY <1>3, <1>4, <1>5, <1>6, <1>7, <1>8, AdvanceKeeps

LEMMA SplitFinishTaskKeeps ==
  ASSUME IngestInv, NEW w \in Worker, SplitFinishTask(w), UNCHANGED edit
  PROVE  IngestInv'
<1> DEFINE d == work[w].d
           i == [work[w] EXCEPT !.at = "then_embed"]
           t == [task[d] EXCEPT !.split = "SUCCESS"]
<1>1. work[w] # Idle /\ work[w].at = "finish_task" /\ d \in Present /\ d \in Whole
  BY WorkedOn DEF SplitFinishTask, At, IngestInv, WholeInv
<1>2. "then_embed" \in Phase
  BY DEF Phase
<1>3. /\ i \in Item /\ i # Idle /\ i.at = "then_embed" /\ i.d = d /\ i.todo = work[w].todo
      /\ [work EXCEPT ![w].at = "then_embed"] = [work EXCEPT ![w] = i]
  BY <1>1, <1>2, GoesOn
<1>4. /\ d \in Doc /\ doc[d] \in DocRow /\ task[d] \in TaskRow /\ para[d] \in Seq(Status)
      /\ Len(para[d]) \in Nat /\ d \in Handled /\ Len(para[d]) = file[d].pieces
  BY <1>1, SameRows DEF Whole
<1>5. t \in TaskRow /\ t.embed = task[d].embed
  BY <1>4 DEF TaskRow, Status
<1>6. Advance(w, d, i, doc[d], t, para[d])
  BY <1>1, <1>3, SameRows DEF SplitFinishTask, Advance, GoTo, SetTask, Doing, IngestInv, IngestType
<1> HIDE DEF d, i, t
<1>7. MayWrite(w, d, i, doc[d], t, para[d])
  BY <1>1, <1>3, <1>4, SameRows, Reflexive DEF MayWrite
<1>8. d \in Failing' => d \in Told'
  BY <1>1, <1>3, <1>4, <1>5, <1>6, StillTold DEF Starting
<1> QED
  BY <1>3, <1>4, <1>5, <1>6, <1>7, <1>8, AdvanceKeeps

LEMMA SplitFailKeeps ==
  ASSUME IngestInv, NEW w \in Worker, SplitFail(w), UNCHANGED edit
  PROVE  IngestInv'
<1> DEFINE d == work[w].d
           i == [work[w] EXCEPT !.at = "fail_task"]
           row == [doc[d] EXCEPT !.status = "FAILURE"]
           t == [task[d] EXCEPT !.split = "FAILURE"]
<1>1. work[w] # Idle /\ work[w].at \in {"fail", "fail_task"} /\ d \in Present
  BY WorkedOn DEF SplitFail, At
<1>2. "fail_task" \in Phase
  BY DEF Phase
<1>3. /\ i \in Item /\ i # Idle /\ i.at = "fail_task" /\ i.d = d /\ i.todo = work[w].todo
      /\ [work EXCEPT ![w].at = "fail_task"] = [work EXCEPT ![w] = i]
  BY <1>1, <1>2, GoesOn
<1>4. d \in Doc /\ doc[d] \in DocRow /\ task[d] \in TaskRow /\ para[d] \in Seq(Status)
  BY <1>1, SameRows
<1>5. row \in DocRow /\ ~Earned(row) /\ t \in TaskRow /\ t.split = "FAILURE" /\ t.embed = task[d].embed
  BY <1>4 DEF DocRow, TaskRow, Status, Earned
<1>6. \/ Advance(w, d, i, row, task[d], para[d])
      \/ Advance(w, d, Idle, doc[d], t, para[d])
  BY <1>1, <1>3, SameRows
  DEF SplitFail, Advance, GoTo, Leave, SetDoc, SetTask, Doing, IngestInv, IngestType
<1> HIDE DEF d, i, row, t
<1>7. CASE Advance(w, d, i, row, task[d], para[d])
  <2>1. MayWrite(w, d, i, row, task[d], para[d])
    BY <1>1, <1>3, <1>4, <1>5, MayKeep
  <2>2. d \in Failing' => d \in Told'
    BY <1>1, <1>3, <1>4, <1>5, <1>7, StillTold DEF Starting
  <2> QED
    BY <1>3, <1>4, <1>5, <1>7, <2>1, <2>2, AdvanceKeeps
<1>8. CASE Advance(w, d, Idle, doc[d], t, para[d])
  <2>1. MayWrite(w, d, Idle, doc[d], t, para[d])
    BY <1>1, <1>4, <1>5, MayKeep
  <2>2. d \in Failing' => d \in Told'
    BY <1>1, <1>4, <1>5, <1>8, StillTold DEF Starting
  <2> QED
    BY <1>4, <1>5, <1>8, <2>1, <2>2, AdvanceKeeps
<1> QED
  BY <1>6, <1>7, <1>8

-----------------------------------------------------------------------------
(* A worker takes up, or leaves, what it does, and writes nothing.         *)

LEMMA WorkKeeps ==
  ASSUME IngestInv, NEW w \in Worker, NEW i \in Item \cup {Idle},
         work' = [work EXCEPT ![w] = i], UNCHANGED <<rows, edit>>,
         queue' \in [Job -> Nat], \A x \in Doc : queue[SplitJob(x)] = 0 => queue'[SplitJob(x)] = 0,
         losses' \in Nat, cut \subseteq cut',
         work[w] # Idle /\ work[w].at \in Starting => work[w].d \in cut',
         i # Idle => /\ i.todo \subseteq Present /\ (i.d \in Present \/ i.at = "next")
                     /\ i.at \notin {"create", "finish", "finish_task", "fail_paragraphs"}
  PROVE  IngestInv'
<1> USE DEF rows
<1>1. /\ work'[w] = i /\ \A v \in Worker \ {w} : work'[v] = work[v]
      /\ doc' = doc /\ task' = task /\ para' = para /\ file' = file /\ edit' = edit
  BY DEF IngestInv, IngestType
<1>2. Present' = Present /\ Handled' = Handled /\ Whole' = Whole
  BY <1>1 DEF Present, Exists, Handled, Whole, Splits
<1>3. IngestType'
  BY DEF IngestInv, IngestType
<1>4. NothingBefore'
  <2>1. \A v \in Worker : work'[v] # Idle =>
          work'[v].todo \subseteq Present /\ (work'[v].d \in Present \/ work'[v].at = "next")
    BY <1>1 DEF IngestInv, NothingBefore
  <2> QED
    BY <1>1, <1>2, <2>1 DEF IngestInv, NothingBefore, SplitJob
<1>5. WholeInv'
  <2>1. \A v \in Worker : work'[v] # Idle =>
          /\ work'[v].at = "create" => work'[v].d \in Handled
          /\ work'[v].at \in {"finish", "finish_task"} => work'[v].d \in Whole
    BY <1>1 DEF IngestInv, WholeInv
  <2> QED
    BY <1>1, <1>2, <2>1 DEF IngestInv, WholeInv
<1>6. ToldInv'
  <2>1. Failing' \subseteq Failing
    BY <1>1 DEF Failing
  <2>2. Told \subseteq Told'
    BY <1>1 DEF Told
  <2> QED
    BY <2>1, <2>2 DEF IngestInv, ToldInv
<1> QED
  BY <1>3, <1>4, <1>5, <1>6 DEF IngestInv

LEMMA EmbedJobIsNone ==
  /\ \A x \in Doc : SplitJob(x) \in Job /\ EmbedJob(x) \in Job
  /\ \A x, y \in Doc : EmbedJob(x) # SplitJob(y)
  /\ \A x \in Doc : RefreshJob # SplitJob(x)
  /\ RefreshJob \in Job
<1>1. /\ \A x \in Doc : SplitJob(x).name = "split_document" /\ EmbedJob(x).name = "embed_by_document"
      /\ RefreshJob.name = "embed_by_knowledge"
  BY DEF SplitJob, EmbedJob, RefreshJob
<1> QED
  BY <1>1 DEF Job

LEMMA ThenEmbedKeeps ==
  ASSUME IngestInv, NEW w \in Worker, ThenEmbed(w), UNCHANGED edit
  PROVE  IngestInv'
<1>1. work[w] # Idle /\ work[w].at = "then_embed" /\ work[w].d \in Doc
  BY WorkedOn DEF ThenEmbed, At
<1>2. /\ queue' \in [Job -> Nat]
      /\ \A x \in Doc : queue'[SplitJob(x)] = queue[SplitJob(x)]
  <2> DEFINE job == EmbedJob(work[w].d)
             n == IF job \in once THEN queue[job] ELSE queue[job] + 1
  <2>1. job \in Job /\ \A x \in Doc : SplitJob(x) \in Job /\ job # SplitJob(x)
    BY <1>1, EmbedJobIsNone
  <2>2. queue \in [Job -> Nat]
    BY DEF IngestInv, IngestType
  <2>3. n \in Nat
    <3>1. queue[job] \in Nat
      BY <2>1, <2>2
    <3> QED
      BY <3>1
  <2>4. queue' = [queue EXCEPT ![job] = n]
    BY DEF ThenEmbed, Doing
  <2> HIDE DEF job, n
  <2> QED
    BY <2>1, <2>2, <2>3, <2>4
<1>3. work' = [work EXCEPT ![w] = Idle] /\ UNCHANGED <<rows, edit, cut, losses>> /\ losses \in Nat
  BY DEF ThenEmbed, IngestInv, IngestType
<1> QED
  BY <1>1, <1>2, <1>3, WorkKeeps DEF Starting

LEMMA DieKeeps ==
  ASSUME IngestInv, NEW w \in Worker, Die(w)
  PROVE  IngestInv'
<1>1. work' = [work EXCEPT ![w] = Idle] /\ UNCHANGED <<rows, edit>> /\ queue' = queue
  BY DEF Die
<1>2. /\ losses' \in Nat /\ queue \in [Job -> Nat] /\ cut \subseteq cut'
      /\ work[w].at \in Starting => work[w].d \in cut'
  BY DEF Die, IngestInv, IngestType
<1> QED
  BY <1>1, <1>2, WorkKeeps

LEMMA NextDocumentKeeps ==
  ASSUME IngestInv, NEW w \in Worker, NextDocument(w), UNCHANGED edit
  PROVE  IngestInv'
<1>1. work[w] # Idle /\ work[w].at = "next" /\ work[w] \in Item /\ work[w].todo \subseteq Present
  BY WorkedOn DEF NextDocument, At, IngestInv, NothingBefore
<1>2. UNCHANGED <<rows, edit>> /\ queue' = queue /\ queue \in [Job -> Nat] /\ UNCHANGED <<cut, losses>> /\ losses \in Nat
  BY DEF NextDocument, Leave, IngestInv, IngestType
<1>3. CASE work[w].todo = {}
  <2>1. work' = [work EXCEPT ![w] = Idle]
    BY <1>3 DEF NextDocument, Leave
  <2> QED
    BY <1>1, <1>2, <2>1, WorkKeeps DEF Starting
<1>4. CASE work[w].todo # {}
  <2>1. PICK d \in work[w].todo :
          work' = [work EXCEPT ![w].at = "embed", ![w].d = d, ![w].todo = @ \ {d}]
    BY <1>4 DEF NextDocument
  <2> DEFINE i == [work[w] EXCEPT !.at = "embed", !.d = d, !.todo = @ \ {d}]
  <2>2. work' = [work EXCEPT ![w] = i]
    BY <2>1 DEF IngestInv, IngestType
  <2>3. d \in Doc /\ d \in Present /\ "embed" \in Phase
    BY <1>1, <2>1 DEF Item, Phase
  <2>4. i \in Item /\ i.at = "embed" /\ i.d = d /\ i.todo \subseteq Present
    BY <1>1, <2>3 DEF Item
  <2> HIDE DEF i
  <2> QED
    BY <1>1, <1>2, <2>2, <2>3, <2>4, WorkKeeps DEF Starting
<1> QED
  BY <1>3, <1>4

LEMMA TakeKeeps ==
  ASSUME IngestInv, Doc # {}, NEW w \in Worker, NEW job \in Job, Take(w, job)
  PROVE  IngestInv'
<1> DEFINE i == [job |-> job, at |-> IF job.name = "split_document" THEN "split" ELSE "next",
                 d |-> CHOOSE d \in job.of : TRUE, todo |-> {d \in job.of : Exists(d)}, ids |-> {}]
<1>1. job.of \subseteq Doc /\ job.of # {}
  BY DEF Job, SplitJob, EmbedJob, RefreshJob
<1>2. i.d \in job.of
  BY <1>1
<1>3. i.at \in {"split", "next"} /\ i.at \in Phase
  BY DEF Phase
<1>4. i.todo \subseteq Present
  BY <1>1 DEF Present
<1>5. i \in Item
  BY <1>1, <1>2, <1>3 DEF Item
<1>6. i.d \in Present \/ i.at = "next"
  <2> SUFFICES ASSUME job.name = "split_document"
               PROVE  i.d \in Present
    OBVIOUS
  <2>1. PICK d \in Doc : job = SplitJob(d)
    BY DEF Job, EmbedJob, RefreshJob
  <2>2. i.d = d
    BY <1>2, <2>1 DEF SplitJob
  <2>3. queue[SplitJob(d)] > 0
    BY <2>1 DEF Take, Queued
  <2>4. d \in Present
    BY <2>3 DEF IngestInv, NothingBefore
  <2> QED
    BY <2>2, <2>4
<1>7. /\ queue \in [Job -> Nat] /\ queue[job] > 0 /\ queue' = [queue EXCEPT ![job] = @ - 1]
      /\ UNCHANGED <<rows, edit>> /\ UNCHANGED <<cut, losses>> /\ losses \in Nat /\ work[w] = Idle
      /\ work' = [work EXCEPT ![w] = i]
  BY DEF Take, Queued, IngestInv, IngestType
<1> HIDE DEF i
<1>8. queue' \in [Job -> Nat] /\ \A x \in Doc : queue[SplitJob(x)] = 0 => queue'[SplitJob(x)] = 0
  <2>1. \A j \in Job : queue[j] \in Nat /\ queue'[j] = IF j = job THEN queue[j] - 1 ELSE queue[j]
    BY <1>7
  <2>2. \A j \in Job : queue'[j] \in Nat /\ (queue[j] = 0 => queue'[j] = 0)
    BY <1>7, <2>1
  <2>3. queue' \in [Job -> Nat]
    BY <1>7, <2>2
  <2> QED
    BY <2>2, <2>3, EmbedJobIsNone
<1> QED
  BY <1>3, <1>4, <1>5, <1>6, <1>7, <1>8, WorkKeeps DEF Starting

-----------------------------------------------------------------------------
(* Embedding.                                                              *)

LEMMA EmbedBeginKeeps ==
  ASSUME IngestInv, NEW w \in Worker, EmbedBegin(w), UNCHANGED edit
  PROVE  IngestInv'
<1> DEFINE d == work[w].d
           on == [work[w] EXCEPT !.at = "next"]
           i == [work[w] EXCEPT !.at = "reset_task", !.ids = Open(d)]
<1>1. /\ work[w] # Idle /\ work[w].at = "embed" /\ d \in Present /\ work[w] \in Item
      /\ work[w].todo \subseteq Present
  BY WorkedOn DEF EmbedBegin, At, IngestInv, NothingBefore
<1>2. "next" \in Phase /\ "reset_task" \in Phase
  BY DEF Phase
<1>3. /\ on \in Item /\ on # Idle /\ on.at = "next" /\ on.d = d /\ on.todo = work[w].todo
      /\ [work EXCEPT ![w].at = "next"] = [work EXCEPT ![w] = on]
  BY <1>1, <1>2, GoesOn
<1>4. para[d] \in Seq(Status)
  BY <1>1, SameRows
<1>5. Open(d) \subseteq Nat
  BY <1>4 DEF Open
<1>6. /\ i \in Item /\ i.at = "reset_task" /\ i.d = d /\ i.todo = work[w].todo
      /\ [work EXCEPT ![w].at = "reset_task", ![w].ids = Open(d)] = [work EXCEPT ![w] = i]
  <2>1. work \in [Worker -> Item \cup {Idle}]
    BY DEF IngestInv, IngestType
  <2> QED
    BY <1>1, <1>2, <1>5, <2>1 DEF Item
<1>7. /\ UNCHANGED <<rows, edit>> /\ queue' = queue /\ queue \in [Job -> Nat]
      /\ UNCHANGED <<cut, losses>> /\ losses \in Nat
      /\ \/ work' = [work EXCEPT ![w] = Idle]
         \/ work' = [work EXCEPT ![w] = on]
         \/ work' = [work EXCEPT ![w] = i]
  BY <1>3, <1>6 DEF EmbedBegin, GoTo, Leave, Doing, IngestInv, IngestType
<1> HIDE DEF d, on, i
<1>8. CASE work' = [work EXCEPT ![w] = Idle]
  BY <1>1, <1>7, <1>8, WorkKeeps DEF Starting
<1>9. CASE work' = [work EXCEPT ![w] = on]
  BY <1>1, <1>3, <1>7, <1>9, WorkKeeps DEF Starting
<1>10. CASE work' = [work EXCEPT ![w] = i]
  BY <1>1, <1>6, <1>7, <1>10, WorkKeeps DEF Starting
<1> QED
  BY <1>7, <1>8, <1>9, <1>10

LEMMA ResetTaskKeeps ==
  ASSUME IngestInv, NEW w \in Worker, ResetTask(w), UNCHANGED edit
  PROVE  IngestInv'
<1> DEFINE d == work[w].d
           i == [work[w] EXCEPT !.at = "start_embed"]
           t == [task[d] EXCEPT !.embed = "PENDING"]
<1>1. work[w] # Idle /\ work[w].at = "reset_task" /\ d \in Present
  BY WorkedOn DEF ResetTask, At
<1>2. "start_embed" \in Phase /\ "start_embed" \in Starting
  BY DEF Phase, Starting
<1>3. /\ i \in Item /\ i # Idle /\ i.at = "start_embed" /\ i.d = d /\ i.todo = work[w].todo
      /\ [work EXCEPT ![w].at = "start_embed"] = [work EXCEPT ![w] = i]
  BY <1>1, <1>2, GoesOn
<1>4. d \in Doc /\ doc[d] \in DocRow /\ task[d] \in TaskRow /\ para[d] \in Seq(Status)
  BY <1>1, SameRows
<1>5. t \in TaskRow /\ t.split = task[d].split
  BY <1>4 DEF TaskRow, Status
<1>6. Advance(w, d, i, doc[d], t, para[d])
  BY <1>1, <1>3, SameRows DEF ResetTask, Advance, GoTo, SetTask, Doing, IngestInv, IngestType
<1> HIDE DEF d, i, t
<1>7. MayWrite(w, d, i, doc[d], t, para[d])
  BY <1>1, <1>3, <1>4, <1>5, MayKeep
<1>8. d \in Told'
  <2>1. work'[w] = i
    BY <1>6 DEF Advance, IngestInv, IngestType
  <2> QED
    BY <1>2, <1>3, <1>4, <2>1 DEF Told
<1> QED
  BY <1>3, <1>4, <1>5, <1>6, <1>7, <1>8, AdvanceKeeps

LEMMA StartEmbedKeeps ==
  ASSUME IngestInv, NEW w \in Worker, StartEmbed(w), UNCHANGED edit
  PROVE  IngestInv'
<1> DEFINE d == work[w].d
           i == [work[w] EXCEPT !.at = "vectors"]
           t == [task[d] EXCEPT !.embed = "STARTED"]
<1>1. work[w] # Idle /\ work[w].at = "start_embed" /\ d \in Present
  BY WorkedOn DEF StartEmbed, At
<1>2. "vectors" \in Phase /\ "vectors" \in Starting
  BY DEF Phase, Starting
<1>3. /\ i \in Item /\ i # Idle /\ i.at = "vectors" /\ i.d = d /\ i.todo = work[w].todo
      /\ [work EXCEPT ![w].at = "vectors"] = [work EXCEPT ![w] = i]
  BY <1>1, <1>2, GoesOn
<1>4. d \in Doc /\ doc[d] \in DocRow /\ task[d] \in TaskRow /\ para[d] \in Seq(Status)
  BY <1>1, SameRows
<1>5. t \in TaskRow /\ t.split = task[d].split
  BY <1>4 DEF TaskRow, Status
<1>6. Advance(w, d, i, doc[d], t, para[d])
  BY <1>1, <1>3, SameRows DEF StartEmbed, Advance, GoTo, SetTask, Doing, IngestInv, IngestType
<1> HIDE DEF d, i, t
<1>7. MayWrite(w, d, i, doc[d], t, para[d])
  BY <1>1, <1>3, <1>4, <1>5, MayKeep
<1>8. d \in Told'
  <2>1. work'[w] = i
    BY <1>6 DEF Advance, IngestInv, IngestType
  <2> QED
    BY <1>2, <1>3, <1>4, <2>1 DEF Told
<1> QED
  BY <1>3, <1>4, <1>5, <1>6, <1>7, <1>8, AdvanceKeeps

LEMMA EmbedRaiseKeeps ==
  ASSUME IngestInv, NEW w \in Worker, EmbedRaise(w), UNCHANGED edit
  PROVE  IngestInv'
<1> DEFINE d == work[w].d
           i == [work[w] EXCEPT !.at = "fail_paragraphs"]
           t == [task[d] EXCEPT !.embed = "FAILURE"]
<1>1. work[w] # Idle /\ work[w].at = "vectors" /\ d \in Present
  BY WorkedOn DEF EmbedRaise, At
<1>2. "fail_paragraphs" \in Phase
  BY DEF Phase
<1>3. /\ i \in Item /\ i # Idle /\ i.at = "fail_paragraphs" /\ i.d = d /\ i.todo = work[w].todo
      /\ [work EXCEPT ![w].at = "fail_paragraphs"] = [work EXCEPT ![w] = i]
  BY <1>1, <1>2, GoesOn
<1>4. d \in Doc /\ doc[d] \in DocRow /\ task[d] \in TaskRow /\ para[d] \in Seq(Status)
  BY <1>1, SameRows
<1>5. t \in TaskRow /\ t.split = task[d].split /\ t.embed = "FAILURE"
  BY <1>4 DEF TaskRow, Status
<1>6. Advance(w, d, i, doc[d], t, para[d])
  BY <1>1, <1>3, SameRows DEF EmbedRaise, Advance, GoTo, SetTask, Doing, IngestInv, IngestType
<1> HIDE DEF d, i, t
<1>7. MayWrite(w, d, i, doc[d], t, para[d])
  BY <1>1, <1>3, <1>4, <1>5, MayKeep
<1>8. d \in Told'
  <2>1. task'[d] = t
    BY <1>4, <1>6 DEF Advance, IngestInv, IngestType
  <2> QED
    BY <1>4, <1>5, <2>1 DEF Told
<1> QED
  BY <1>3, <1>4, <1>5, <1>6, <1>7, <1>8, AdvanceKeeps

LEMMA EmbedFailKeeps ==
  ASSUME IngestInv, NEW w \in Worker, EmbedFail(w), UNCHANGED edit
  PROVE  IngestInv'
<1> DEFINE d == work[w].d
           p == [k \in DOMAIN para[d] |-> IF k \in work[w].ids THEN "FAILURE" ELSE para[d][k]]
<1>1. work[w] # Idle /\ work[w].at = "fail_paragraphs" /\ d \in Present
  BY WorkedOn DEF EmbedFail, At
<1>2. /\ d \in Doc /\ doc[d] \in DocRow /\ task[d] \in TaskRow /\ para[d] \in Seq(Status)
      /\ Len(para[d]) \in Nat /\ Len(para[d]) <= file[d].pieces
  BY <1>1, SameRows
<1>3. p \in Seq(Status) /\ Len(p) = Len(para[d])
  BY <1>2 DEF Status
<1>4. Advance(w, d, Idle, doc[d], task[d], p)
  BY <1>1, SameRows DEF EmbedFail, Advance, Leave, SetParagraphs, Doing, IngestInv, IngestType
<1> HIDE DEF d, p
<1>5. MayWrite(w, d, Idle, doc[d], task[d], p)
  BY <1>1, <1>2, <1>3, SameRows, Reflexive DEF MayWrite
<1>6. d \in Told'
  <2>1. d \in Told
    BY <1>1, <1>2 DEF Failing, IngestInv, ToldInv, d
  <2>2. work'[w] = Idle /\ (\A v \in Worker \ {w} : work'[v] = work[v]) /\ task' = task /\ cut' = cut
    BY <1>1, <1>4, SameRows DEF Advance, IngestInv, IngestType
  <2> QED
    BY <1>1, <2>1, <2>2 DEF Told, Starting
<1> QED
  BY <1>2, <1>3, <1>4, <1>5, <1>6, AdvanceKeeps

-----------------------------------------------------------------------------
(* Requests.                                                               *)

\* A lock or a queue for a task that splits nothing, or less of it.
LEMMA QueueKeeps ==
  ASSUME IngestInv, UNCHANGED <<rows, edit, work>>,
         queue' \in [Job -> Nat], \A x \in Doc : queue[SplitJob(x)] = 0 => queue'[SplitJob(x)] = 0,
         UNCHANGED <<cut, losses>>
  PROVE  IngestInv'
<1> USE DEF rows
<1>1. Present' = Present /\ Handled' = Handled /\ Whole' = Whole /\ Failing' = Failing /\ Told' = Told
  BY DEF Present, Exists, Handled, Whole, Splits, Failing, Told
<1>2. IngestType'
  BY DEF IngestInv, IngestType
<1>3. NothingBefore'
  BY <1>1 DEF IngestInv, NothingBefore, SplitJob
<1>4. WholeInv' /\ ToldInv'
  BY <1>1 DEF IngestInv, WholeInv, ToldInv
<1> QED
  BY <1>2, <1>3, <1>4 DEF IngestInv

LEMMA ExpireKeeps ==
  ASSUME IngestInv, NEW job \in Job, Expire(job)
  PROVE  IngestInv'
<1>1. UNCHANGED <<rows, edit, work, queue, cut, losses>> /\ queue \in [Job -> Nat]
  BY DEF Expire, IngestInv, IngestType
<1> QED
  BY <1>1, QueueKeeps

LEMMA DelayQueues ==
  ASSUME IngestInv, NEW job \in Job, Delay(job)
  PROVE  queue' \in [Job -> Nat] /\ \A j \in Job \ {job} : queue'[j] = queue[j]
<1>1. queue \in [Job -> Nat] /\ queue[job] \in Nat
  BY DEF IngestInv, IngestType
<1>2. queue' = queue \/ queue' = [queue EXCEPT ![job] = queue[job] + 1]
  BY DEF Delay
<1>3. queue[job] + 1 \in Nat
  BY <1>1
<1> QED
  BY <1>1, <1>2, <1>3

LEMMA RefreshKnowledgeKeeps ==
  ASSUME IngestInv, RefreshKnowledge
  PROVE  IngestInv'
<1>1. UNCHANGED <<rows, edit, work, cut, losses>> /\ Delay(RefreshJob)
  BY DEF RefreshKnowledge
<1>2. queue' \in [Job -> Nat] /\ \A x \in Doc : queue'[SplitJob(x)] = queue[SplitJob(x)]
  BY <1>1, DelayQueues, EmbedJobIsNone
<1> QED
  BY <1>1, <1>2, QueueKeeps

LEMMA RefreshDocumentKeeps ==
  ASSUME IngestInv, NEW d \in Doc, RefreshDocument(d)
  PROVE  IngestInv'
<1> DEFINE p == [k \in DOMAIN para[d] |-> IF k \in DOMAIN para[d] THEN "PENDING" ELSE para[d][k]]
<1>1. /\ para' = [para EXCEPT ![d] = p] /\ d \in Present
      /\ UNCHANGED <<doc, task, file, queue, work, cut, losses, edit>>
  BY DEF RefreshDocument, SetParagraphs, celery, Present
<1>2. /\ para \in [Doc -> Seq(Status)] /\ para[d] \in Seq(Status)
  BY DEF IngestInv, IngestType
<1>3. p \in Seq(Status) /\ Len(p) = Len(para[d]) /\ \A k \in DOMAIN p : p[k] # "FAILURE"
  BY <1>2 DEF Status
<1> HIDE DEF p
<1>4. para' \in [Doc -> Seq(Status)] /\ \A x \in Doc : Len(para'[x]) = Len(para[x])
  BY <1>1, <1>2, <1>3
<1>5. Present' = Present /\ Handled' = Handled
  BY <1>1 DEF Present, Exists, Handled, Splits
<1>6. Whole' = Whole
  BY <1>1, <1>4, <1>5 DEF Whole, Handled
<1>7. IngestType'
  BY <1>1, <1>4 DEF IngestInv, IngestType
<1>8. NothingBefore'
  BY <1>1, <1>2, <1>5 DEF IngestInv, NothingBefore, SplitJob
<1>9. WholeInv'
  BY <1>1, <1>4, <1>5, <1>6 DEF IngestInv, WholeInv
<1>10. ToldInv'
  <2>1. Failing' \subseteq Failing
    BY <1>1, <1>2, <1>3 DEF Failing
  <2>2. Told' = Told
    BY <1>1 DEF Told
  <2> QED
    BY <2>1, <2>2 DEF IngestInv, ToldInv
<1> QED
  BY <1>7, <1>8, <1>9, <1>10 DEF IngestInv

LEMMA ReadDocumentKeeps ==
  ASSUME IngestInv, NEW e \in Editor, NEW d \in Doc, ReadDocument(e, d)
  PROVE  IngestInv'
<1> DEFINE r == [at |-> "save", d |-> d, row |-> doc[d]]
<1>1. /\ edit' = [edit EXCEPT ![e] = r] /\ d \in Present
      /\ UNCHANGED <<doc, task, para, file, queue, work, cut, losses>>
  BY DEF ReadDocument, rows, celery, Present
<1>2. doc[d] \in DocRow
  BY <1>1, SameRows
<1>3. r \in [at : {"save"}, d : Doc, row : DocRow]
  BY <1>2
<1>4. edit'[e] = r /\ \A x \in Editor \ {e} : edit'[x] = edit[x]
  BY <1>1 DEF IngestInv, IngestType
<1>5. Present' = Present /\ Handled' = Handled /\ Whole' = Whole /\ Failing' = Failing /\ Told' = Told
  BY <1>1 DEF Present, Exists, Handled, Whole, Splits, Failing, Told
<1>6. IngestType'
  BY <1>1, <1>3 DEF IngestInv, IngestType
<1>7. NothingBefore'
  <2>1. \A x \in Editor : edit'[x] # Idle => edit'[x].d \in Present
    BY <1>1, <1>4 DEF IngestInv, NothingBefore
  <2> QED
    BY <1>1, <1>5, <2>1 DEF IngestInv, NothingBefore, SplitJob
<1>8. WholeInv'
  <2>1. \A x \in Editor : edit'[x] # Idle /\ Earned(edit'[x].row) =>
          edit'[x].d \in Whole /\ edit'[x].row.count = file[edit'[x].d].pieces
    <3>1. d \in Doc /\ (Earned(doc[d]) => d \in Whole /\ doc[d].count = file[d].pieces)
      BY DEF IngestInv, WholeInv
    <3>2. r.d = d /\ r.row = doc[d]
      OBVIOUS
    <3> HIDE DEF r
    <3> QED
      BY <1>4, <3>1, <3>2 DEF IngestInv, WholeInv
  <2> QED
    BY <1>1, <1>5, <2>1 DEF IngestInv, WholeInv
<1> QED
  BY <1>5, <1>6, <1>7, <1>8 DEF IngestInv, ToldInv

(* Whatever a request gives, its row is one, and says no more than was read. *)
LEMMA WrittenRows ==
  ASSUME NEW old \in DocRow, NEW row \in Written(old)
  PROVE  row \in DocRow /\ (Earned(row) => row = old)
<1>1. CASE row = old
  BY <1>1
<1>2. CASE row \in [status : Status, count : {old.count, 0}, given : {TRUE}]
  <2>1. old.count \in Nat
    BY DEF DocRow
  <2>2. {old.count, 0} \subseteq Nat /\ {TRUE} \subseteq BOOLEAN
    BY <2>1
  <2>3. row.given = TRUE
    BY <1>2
  <2>4. row \in DocRow
    BY <1>2, <2>2 DEF DocRow
  <2> QED
    BY <2>3, <2>4 DEF Earned
<1> QED
  BY <1>1, <1>2 DEF Written

LEMMA SaveDocumentKeeps ==
  ASSUME IngestInv, NEW e \in Editor, SaveDocument(e)
  PROVE  IngestInv'
<1> DEFINE d == edit[e].d
<1>0. PICK row \in Written(edit[e].row) : doc' = [doc EXCEPT ![d] = row]
  BY DEF SaveDocument
<1>1. /\ doc' = [doc EXCEPT ![d] = row] /\ edit' = [edit EXCEPT ![e] = Idle]
      /\ UNCHANGED <<task, para, file, queue, work, cut, losses>>
  BY <1>0 DEF SaveDocument, celery
<1>2. /\ d \in Doc /\ row \in DocRow /\ d \in Present
      /\ Earned(row) => d \in Whole /\ row.count = file[d].pieces
  <2>1. /\ d \in Doc /\ edit[e].row \in DocRow /\ d \in Present
        /\ Earned(edit[e].row) => d \in Whole /\ edit[e].row.count = file[d].pieces
    BY DEF SaveDocument, IngestInv, IngestType, NothingBefore, WholeInv
  <2> QED
    BY <2>1, WrittenRows
<1> HIDE DEF d
<1>3. doc'[d] = row /\ \A x \in Doc \ {d} : doc'[x] = doc[x]
  BY <1>1, <1>2 DEF IngestInv, IngestType
<1>4. \A x \in Editor : edit'[x] # Idle => edit'[x] = edit[x]
  BY <1>1 DEF IngestInv, IngestType
<1>5. row # NoRow
  BY <1>2 DEF DocRow, NoRow, Status
<1>6. Present' = Present /\ Handled' = Handled /\ Whole' = Whole /\ Failing' = Failing /\ Told' = Told
  BY <1>1, <1>2, <1>3, <1>5 DEF Present, Exists, Handled, Whole, Splits, Failing, Told
<1>7. IngestType'
  BY <1>1, <1>2 DEF IngestInv, IngestType
<1>8. NothingBefore'
  BY <1>1, <1>4, <1>6 DEF IngestInv, NothingBefore, SplitJob
<1>9. WholeInv'
  <2>1. \A x \in Doc : Earned(doc'[x]) => x \in Whole /\ doc'[x].count = file[x].pieces
    BY <1>2, <1>3 DEF IngestInv, WholeInv
  <2>2. \A x \in Editor : edit'[x] # Idle /\ Earned(edit'[x].row) =>
          edit'[x].d \in Whole /\ edit'[x].row.count = file[edit'[x].d].pieces
    BY <1>4 DEF IngestInv, WholeInv
  <2> QED
    BY <1>1, <1>6, <2>1, <2>2 DEF IngestInv, WholeInv
<1> QED
  BY <1>6, <1>7, <1>8, <1>9 DEF IngestInv, ToldInv

LEMMA UploadDocumentKeeps ==
  ASSUME IngestInv, NEW d \in Doc, NEW f \in Upload, UploadDocument(d, f)
  PROVE  IngestInv'
<1> DEFINE row == [status |-> "PENDING", count |-> 0, given |-> FALSE]
           t == [task[d] EXCEPT !.split = "PENDING"]
<1>1. /\ d \notin Present /\ file' = [file EXCEPT ![d] = f] /\ doc' = [doc EXCEPT ![d] = row]
      /\ task' = [task EXCEPT ![d] = t] /\ UNCHANGED <<para, work, cut, edit>>
  BY DEF UploadDocument, SetTask, Present, IngestInv, IngestType
<1>2. row \in DocRow /\ row # NoRow /\ ~Earned(row)
  BY DEF DocRow, NoRow, Status, Earned
<1>3. t \in TaskRow /\ t.split = "PENDING" /\ t.embed = task[d].embed /\ f.pieces \in Nat
  BY IngestAssumption DEF TaskRow, Status, IngestInv, IngestType
<1> HIDE DEF row, t
<1>4. /\ doc'[d] = row /\ task'[d] = t /\ file'[d] = f
      /\ \A x \in Doc \ {d} : doc'[x] = doc[x] /\ task'[x] = task[x] /\ file'[x] = file[x]
  BY <1>1 DEF IngestInv, IngestType
<1>5. para[d] = <<>>
  BY <1>1 DEF IngestInv, NothingBefore
<1>6. Present \subseteq Present' /\ Present' \ {d} \subseteq Present /\ d \in Present'
  BY <1>2, <1>4 DEF Present, Exists
<1>7. Handled \ {d} \subseteq Handled'
  BY <1>4 DEF Handled, Splits
<1>8. Whole \ {d} \subseteq Whole'
  BY <1>1, <1>4, <1>7 DEF Whole, Handled
<1>9. /\ queue' \in [Job -> Nat] /\ \A j \in Job \ {SplitJob(d)} : queue'[j] = queue[j]
      /\ losses' \in Nat
  <2>1. SplitJob(d) \in Job /\ queue \in [Job -> Nat] /\ losses \in Nat
    BY EmbedJobIsNone DEF IngestInv, IngestType
  <2>2. CASE Delay(SplitJob(d)) /\ UNCHANGED <<lost, losses>>
    BY <2>1, <2>2, DelayQueues
  <2>3. CASE losses' = losses + 1 /\ UNCHANGED <<once, queue>>
    BY <2>1, <2>3
  <2> QED
    BY <2>2, <2>3 DEF UploadDocument, EmitIngested
<1>10. IngestType'
  <2>1. doc' \in [Doc -> DocRow \cup {NoRow}] /\ task' \in [Doc -> TaskRow]
    BY <1>1, <1>2, <1>3 DEF IngestInv, IngestType
  <2>2. DOMAIN file' = Doc /\ \A x \in Doc : file'[x].pieces \in Nat
    BY <1>1, <1>3, <1>4 DEF IngestInv, IngestType
  <2> QED
    BY <1>1, <1>9, <2>1, <2>2 DEF IngestInv, IngestType
<1>11. NothingBefore'
  <2>1. ASSUME NEW x \in Doc \ Present'
        PROVE  para'[x] = <<>> /\ task'[x].split = "none" /\ queue'[SplitJob(x)] = 0
    <3>1. x # d /\ x \in Doc \ Present
      BY <1>6
    <3>2. SplitJob(x) # SplitJob(d) /\ SplitJob(x) \in Job
      BY <3>1, EmbedJobIsNone DEF SplitJob
    <3> QED
      BY <1>1, <1>4, <1>9, <3>1, <3>2 DEF IngestInv, NothingBefore
  <2>2. \A w \in Worker : work'[w] # Idle =>
          work'[w].todo \subseteq Present' /\ (work'[w].d \in Present' \/ work'[w].at = "next")
    BY <1>1, <1>6 DEF IngestInv, NothingBefore
  <2>3. \A e \in Editor : edit'[e] # Idle => edit'[e].d \in Present'
    BY <1>1, <1>6 DEF IngestInv, NothingBefore
  <2> QED
    BY <2>1, <2>2, <2>3 DEF NothingBefore, SplitJob
<1>12. WholeInv'
  <2>1. ASSUME NEW x \in Doc
        PROVE  /\ Len(para'[x]) <= file'[x].pieces
               /\ Earned(doc'[x]) => x \in Whole' /\ doc'[x].count = file'[x].pieces
               /\ task'[x].split = "SUCCESS" => x \in Whole'
    <3>1. CASE x = d
      <4>1. Len(para'[x]) <= file'[x].pieces
        BY <1>1, <1>3, <1>4, <1>5, <3>1
      <4> QED
        BY <1>2, <1>3, <1>4, <3>1, <4>1
    <3>2. CASE x # d
      BY <1>1, <1>4, <1>8, <3>2 DEF IngestInv, WholeInv
    <3> QED
      BY <3>1, <3>2
  <2>2. ASSUME NEW w \in Worker, work'[w] # Idle
        PROVE  /\ work'[w].at = "create" => work'[w].d \in Handled'
               /\ work'[w].at \in {"finish", "finish_task"} => work'[w].d \in Whole'
    <3>1. work[w] # Idle /\ work'[w] = work[w] /\ (work[w].at # "next" => work[w].d # d)
      BY <1>1, <2>2 DEF IngestInv, NothingBefore
    <3> QED
      BY <1>7, <1>8, <3>1 DEF IngestInv, WholeInv
  <2>3. ASSUME NEW e \in Editor, edit'[e] # Idle, Earned(edit'[e].row)
        PROVE  edit'[e].d \in Whole' /\ edit'[e].row.count = file'[edit'[e].d].pieces
    <3>1. edit[e] # Idle /\ edit'[e] = edit[e] /\ edit[e].d # d /\ edit[e].d \in Doc
      BY <1>1, <2>3 DEF IngestInv, IngestType, NothingBefore
    <3> QED
      BY <1>4, <1>8, <2>3, <3>1 DEF IngestInv, WholeInv
  <2> QED
    BY <2>1, <2>2, <2>3 DEF WholeInv
<1>13. ToldInv'
  <2>1. Failing' = Failing
    BY <1>1 DEF Failing
  <2>2. Told \subseteq Told'
    BY <1>1, <1>3, <1>4, <1>9 DEF Told
  <2> QED
    BY <2>1, <2>2 DEF IngestInv, ToldInv
<1> QED
  BY <1>10, <1>11, <1>12, <1>13 DEF IngestInv

-----------------------------------------------------------------------------
(* Every step, and what it says.                                           *)

LEMMA IngestStep ==
  ASSUME IngestInv, Doc # {}, [Next]_vars
  PROVE  IngestInv'
<1>1. CASE Request
  <2>1. CASE \E d \in Doc : PostDocument(d)
    BY <2>1, UploadDocumentKeeps DEF PostDocument
  <2>2. CASE \E d \in Doc : PostRefresh(d)
    BY <2>2, RefreshDocumentKeeps DEF PostRefresh
  <2>3. CASE RefreshKnowledge
    BY <2>3, RefreshKnowledgeKeeps
  <2>4. CASE \E e \in Editor : SaveDocument(e) \/ \E d \in Doc : ReadDocument(e, d)
    BY <2>4, SaveDocumentKeeps, ReadDocumentKeeps
  <2> QED
    BY <1>1, <2>1, <2>2, <2>3, <2>4 DEF Request
<1>2. ASSUME NEW w \in Worker, Split(w)
      PROVE  IngestInv'
  BY <1>2, SplitBeginKeeps, SplitStartTaskKeeps, CreateParagraphKeeps, RefuseParagraphKeeps,
     SplitFinishKeeps, SplitFinishTaskKeeps, SplitFailKeeps, ThenEmbedKeeps DEF Split
<1>3. ASSUME NEW w \in Worker, Embed(w)
      PROVE  IngestInv'
  BY <1>3, NextDocumentKeeps, EmbedBeginKeeps, ResetTaskKeeps, StartEmbedKeeps, EmbedRaiseKeeps,
     EmbedFailKeeps DEF Embed
<1>4. ASSUME NEW w \in Worker, Die(w) \/ \E job \in Job : Take(w, job)
      PROVE  IngestInv'
  BY <1>4, DieKeeps, TakeKeeps
<1>5. CASE \E job \in Job : Expire(job)
  BY <1>5, ExpireKeeps
<1>6. CASE UNCHANGED vars
  <2>1. UNCHANGED <<rows, edit, work, queue, cut, losses>> /\ queue \in [Job -> Nat]
    BY <1>6 DEF vars, celery, IngestInv, IngestType
  <2> QED
    BY <2>1, QueueKeeps
<1> QED
  BY <1>1, <1>2, <1>3, <1>4, <1>5, <1>6 DEF Next, Step

\* There is a document to speak of.
LEMMA IngestHolds ==
  ASSUME Doc # {} PROVE Spec => []IngestInv
<1>1. Init => IngestInv
  BY IngestInitial
<1>2. IngestInv /\ [Next]_vars => IngestInv'
  BY IngestStep
<1> QED
  BY <1>1, <1>2, PTL DEF Spec

(***************************************************************************)
(* A document whose splitting says SUCCESS has all the paragraphs of its   *)
(* file, and one that says so itself, unless a request gave it its status  *)
(* or count, has and counts them, for any number of documents, workers,    *)
(* edits and faults (services/ingest.py, split).                           *)
(***************************************************************************)
THEOREM StatusIsEarned ==
  Spec => []SuccessIsWhole
<1>1. CASE Doc = {}
  <2>1. SuccessIsWhole
    BY <1>1 DEF SuccessIsWhole
  <2> QED
    BY <2>1, PTL
<1>2. CASE Doc # {}
  <2>1. IngestInv => SuccessIsWhole
    BY DEF SuccessIsWhole, IngestInv, WholeInv, Whole, Handled, Pieces
  <2> QED
    BY <1>2, <2>1, IngestHolds, PTL
<1> QED
  BY <1>1, <1>2

(***************************************************************************)
(* A paragraph that says FAILURE is explained by the embedding task of its *)
(* document, by one that has begun again, or by the worker it has lost     *)
(* (services/ingest.py, embed_document).                                   *)
(***************************************************************************)
THEOREM FailuresAreTold ==
  Spec => []FailureIsTold
<1>1. CASE Doc = {}
  <2>1. FailureIsTold
    BY <1>1 DEF FailureIsTold
  <2> QED
    BY <2>1, PTL
<1>2. CASE Doc # {}
  <2>1. IngestInv => FailureIsTold
    BY DEF FailureIsTold, IngestInv, ToldInv, Failing, Told, Doing
  <2> QED
    BY <1>2, <2>1, IngestHolds, PTL
<1> QED
  BY <1>1, <1>2

-----------------------------------------------------------------------------
(* Uploads are not forgotten.                                              *)

Settled == {"SUCCESS", "FAILURE"}
SplitPhase == {"split", "start_task", "create", "finish", "finish_task", "fail", "fail_task"}

Splitting(w, d) == work[w] # Idle /\ work[w].d = d /\ work[w].at \in SplitPhase

\* Somebody has settled the document, has it, or will take it up.
AtWork(d) ==
  \/ d \in lost \/ task[d].split \in Settled
  \/ Queued(SplitJob(d)) \/ \E w \in Worker : Splitting(w, d)

NotForgotten == \A d \in Doc : Exists(d) => AtWork(d)

\* The lock of a splitting is free until the upload, and a worker that
\* splits does it for the task of the document.
JobInv ==
  /\ \A d \in Doc : ~Exists(d) => SplitJob(d) \notin once
  /\ \A w \in Worker : work[w] # Idle /\ work[w].at \in SplitPhase \cup {"then_embed"} =>
       work[w].job = SplitJob(work[w].d)

PlacesLeft(i) ==
  IF i = Idle THEN 0
  ELSE IF i.at = "split" THEN 6
  ELSE IF i.at = "start_task" THEN 5
  ELSE IF i.at = "create" THEN 4
  ELSE IF i.at = "finish" THEN 3
  ELSE IF i.at \in {"finish_task", "fail"} THEN 2
  ELSE 1

PiecesLeft(w) ==
  IF work[w] = Idle THEN 0 ELSE file[work[w].d].pieces - Len(para[work[w].d])

\* What a worker has left to do to split its document.
SplitLeft(w) == PlacesLeft(work[w]) + PiecesLeft(w)

Shortens ==
  \A w \in Worker :
    /\ Split(w) => SplitLeft(w)' < SplitLeft(w)
    /\ work[w] # Idle /\ work[w].at \in SplitPhase \cup {"then_embed"} =>
         SplitLeft(w)' <= SplitLeft(w)

LEMMA LeftIsNatural ==
  ASSUME IngestInv, NEW w \in Worker
  PROVE  /\ PlacesLeft(work[w]) \in Nat /\ PiecesLeft(w) \in Nat
         /\ SplitLeft(w) = PlacesLeft(work[w]) + PiecesLeft(w) /\ SplitLeft(w) \in Nat
<1>1. PlacesLeft(work[w]) \in Nat
  BY DEF PlacesLeft
<1>2. PiecesLeft(w) \in Nat
  <2>1. CASE work[w] = Idle
    BY <2>1 DEF PiecesLeft
  <2>2. CASE work[w] # Idle
    <3>1. work[w].d \in Doc
      BY <2>2, WorkedOn
    <3>2. Len(para[work[w].d]) \in Nat /\ file[work[w].d].pieces \in Nat
          /\ Len(para[work[w].d]) <= file[work[w].d].pieces
      BY <3>1 DEF IngestInv, IngestType, WholeInv
    <3> QED
      BY <2>2, <3>2 DEF PiecesLeft
  <2> QED
    BY <2>1, <2>2
<1> QED
  BY <1>1, <1>2 DEF SplitLeft

(* A worker goes on to another phase of its splitting. *)
LEMMA PhaseMoves ==
  ASSUME IngestInv, NEW w \in Worker, work[w] # Idle, NEW p \in Phase, GoTo(w, p)
  PROVE  /\ work'[w] = [work[w] EXCEPT !.at = p] /\ work'[w] # Idle
         /\ work'[w].at = p /\ work'[w].d = work[w].d /\ work'[w].job = work[w].job
         /\ \A v \in Worker \ {w} : work'[v] = work[v]
         /\ lost' = lost /\ queue' = queue /\ once' = once
<1>1. work[w] \in Item /\ work \in [Worker -> Item \cup {Idle}]
  BY WorkedOn DEF IngestInv, IngestType
<1>2. work'[w] = [work[w] EXCEPT !.at = p] /\ \A v \in Worker \ {w} : work'[v] = work[v]
  BY <1>1 DEF GoTo
<1>3. work'[w].at = p /\ work'[w].d = work[w].d /\ work'[w].job = work[w].job
  BY <1>1, <1>2 DEF Item
<1>4. work'[w] # Idle
  <2>1. Idle.at = "idle" /\ p # "idle"
    BY DEF Idle, Phase
  <2> QED
    BY <1>3, <2>1
<1> QED
  BY <1>2, <1>3, <1>4 DEF GoTo

LEMMA WorkerLeaves ==
  ASSUME IngestInv, NEW w \in Worker, Leave(w)
  PROVE  /\ work'[w] = Idle /\ \A v \in Worker \ {w} : work'[v] = work[v]
         /\ lost' = lost /\ queue' = queue /\ once' \subseteq once
BY DEF Leave, IngestInv, IngestType

(* Setting the status of a row that is there neither makes nor removes it. *)
LEMMA SetDocKeeps ==
  ASSUME IngestInv, NEW d \in Present, NEW s \in Status, SetDoc(d, s)
  PROVE  \A x \in Doc : Exists(x)' <=> Exists(x)
<1>1. doc[d] \in DocRow /\ doc' = [doc EXCEPT ![d] = [doc[d] EXCEPT !.status = s]] /\ d \in Doc
  BY SameRows DEF SetDoc, IngestInv, IngestType
<1>2. [doc[d] EXCEPT !.status = s] \in DocRow
  BY <1>1 DEF DocRow
<1>3. \A r \in DocRow : r # NoRow
  BY DEF DocRow, NoRow, Status
<1> QED
  BY <1>1, <1>2, <1>3 DEF Exists, IngestInv, IngestType, Present

LEMMA SetTaskIs ==
  ASSUME IngestInv, NEW d \in Doc, NEW s \in Status, SetTask(d, "split", s)
  PROVE  task'[d].split = s /\ \A x \in Doc \ {d} : task'[x] = task[x]
<1>1. task \in [Doc -> TaskRow]
  BY DEF IngestInv, IngestType
<1> QED
  BY <1>1 DEF SetTask, TaskRow

(* What a step of splitting does to its worker, its document and others. *)
LEMMA SplitMoves ==
  ASSUME IngestInv, IngestInv', JobInv, NEW w \in Worker, Split(w)
  PROVE  /\ work[w] # Idle /\ work[w].d \in Doc
         /\ work[w].at \in SplitPhase \cup {"then_embed"}
         /\ work'[w] # Idle => /\ work'[w].at \in SplitPhase \cup {"then_embed"}
                               /\ work'[w].d = work[w].d /\ work'[w].job = work[w].job
         /\ \A v \in Worker \ {w} : work'[v] = work[v]
         /\ lost' = lost /\ file' = file
         /\ \A x \in Doc : /\ queue'[SplitJob(x)] = queue[SplitJob(x)]
                           /\ SplitJob(x) \notin once => SplitJob(x) \notin once'
                           /\ Exists(x)' <=> Exists(x)
         /\ \A x \in Doc \ {work[w].d} : task'[x] = task[x]
         /\ \A x \in Doc : Len(para[x]) <= Len(para'[x])
         /\ IF work[w].at = "then_embed" THEN task' = task
            ELSE (work'[w] # Idle /\ work'[w].at \in SplitPhase) \/ task'[work[w].d].split \in Settled
         /\ SplitLeft(w)' < SplitLeft(w)
<1> DEFINE d == work[w].d
<1>0. /\ work[w] # Idle /\ work[w].at \in SplitPhase \cup {"then_embed"}
      /\ SplitPhase \cup {"then_embed"} \subseteq Phase /\ {"PENDING", "STARTED"} \cup Settled \subseteq Status
  BY DEF Split, SplitBegin, SplitStartTask, CreateParagraph, RefuseParagraph, SplitFinish,
     SplitFinishTask, SplitFail, ThenEmbed, At, SplitPhase, Phase, Settled, Status
<1>1. d \in Doc /\ d \in Present /\ work[w] \in Item /\ Doing(w) = d
  BY <1>0, WorkedOn DEF SplitPhase, Doing
<1>2. \A x \in Doc : /\ Len(para[x]) \in Nat /\ Len(para'[x]) \in Nat /\ file[x].pieces \in Nat
                     /\ Len(para[x]) <= Len(para[x])
  BY DEF IngestInv, IngestType
<1>3. SUFFICES
        /\ work'[w] # Idle => /\ work'[w].at \in SplitPhase \cup {"then_embed"}
                              /\ work'[w].d = d /\ work'[w].job = work[w].job
        /\ \A v \in Worker \ {w} : work'[v] = work[v]
        /\ lost' = lost /\ file' = file
        /\ \A x \in Doc : /\ queue'[SplitJob(x)] = queue[SplitJob(x)]
                          /\ SplitJob(x) \notin once => SplitJob(x) \notin once'
                          /\ Exists(x)' <=> Exists(x)
        /\ \A x \in Doc \ {d} : task'[x] = task[x]
        /\ \A x \in Doc : Len(para[x]) <= Len(para'[x])
        /\ IF work[w].at = "then_embed" THEN task' = task
           ELSE (work'[w] # Idle /\ work'[w].at \in SplitPhase) \/ task'[d].split \in Settled
        /\ \/ PlacesLeft(work'[w]) < PlacesLeft(work[w])
           \/ /\ work'[w] # Idle /\ PlacesLeft(work'[w]) <= PlacesLeft(work[w])
              /\ Len(para[d]) < Len(para'[d])
  <2>1. PlacesLeft(work[w]) \in Nat /\ PlacesLeft(work'[w]) \in Nat
    BY DEF PlacesLeft
  <2>2. PiecesLeft(w) = file[d].pieces - Len(para[d]) /\ Len(para[d]) <= file[d].pieces
    BY <1>0, <1>1 DEF PiecesLeft, IngestInv, WholeInv
  <2>3. CASE work'[w] = Idle
    <3>1. PiecesLeft(w)' = 0
      BY <2>3 DEF PiecesLeft
    <3> QED
      BY <1>0, <1>1, <1>2, <1>3, <2>1, <2>2, <2>3, <3>1 DEF SplitLeft
  <2>4. CASE work'[w] # Idle
    <3>1. PiecesLeft(w)' = file[d].pieces - Len(para'[d])
      BY <1>3, <2>4 DEF PiecesLeft
    <3>2. Len(para'[d]) <= file[d].pieces
      BY <1>1, <1>3 DEF IngestInv, WholeInv
    <3>3. \/ PlacesLeft(work'[w]) < PlacesLeft(work[w]) /\ Len(para[d]) <= Len(para'[d])
          \/ PlacesLeft(work'[w]) <= PlacesLeft(work[w]) /\ Len(para[d]) < Len(para'[d])
      BY <1>1, <1>3
    <3>4. /\ Len(para[d]) \in Nat /\ Len(para'[d]) \in Nat /\ file[d].pieces \in Nat
          /\ SplitLeft(w) = PlacesLeft(work[w]) + (file[d].pieces - Len(para[d]))
          /\ SplitLeft(w)' = PlacesLeft(work'[w]) + (file[d].pieces - Len(para'[d]))
      BY <1>1, <1>2, <2>2, <3>1 DEF SplitLeft
    <3>5. SplitLeft(w)' < SplitLeft(w)
      <4> DEFINE a == PlacesLeft(work'[w])
                 b == PlacesLeft(work[w])
                 m == Len(para[d])
                 n == Len(para'[d])
                 k == file[d].pieces
      <4>1. a \in Nat /\ b \in Nat /\ m \in Nat /\ n \in Nat /\ k \in Nat
        BY <2>1, <3>4
      <4>0. m <= k /\ n <= k
        BY <2>2, <3>2
      <4>3. (a < b /\ m <= n) \/ (a <= b /\ m < n)
        BY <3>3
      <4>2. a + (k - n) < b + (k - m)
        <5> HIDE DEF a, b, m, n, k
        <5> QED
          BY <4>0, <4>1, <4>3
      <4> QED
        BY <3>4, <4>2
    <3> QED
      BY <1>0, <1>1, <1>3, <3>5
  <2> QED
    BY <2>3, <2>4
<1>4. CASE SplitBegin(w)
  <2>1. work[w].at = "split" /\ SetTask(d, "split", "PENDING") /\ UNCHANGED <<para, file>>
    BY <1>1, <1>4 DEF SplitBegin, At
  <2>2. PICK at \in {"start_task", "fail"} : GoTo(w, at)
    BY <1>4 DEF SplitBegin
  <2>3. UNCHANGED doc \/ SetDoc(d, "STARTED")
    BY <1>1, <1>4 DEF SplitBegin
  <2>4. \A x \in Doc : Exists(x)' <=> Exists(x)
    BY <1>0, <1>1, <2>3, SetDocKeeps DEF Exists
  <2>5. \A x \in Doc \ {d} : task'[x] = task[x]
    BY <1>0, <1>1, <2>1, SetTaskIs
  <2>6. /\ work'[w] # Idle /\ work'[w].at = at /\ work'[w].d = d /\ work'[w].job = work[w].job
        /\ \A v \in Worker \ {w} : work'[v] = work[v]
        /\ lost' = lost /\ queue' = queue /\ once' = once
    BY <1>0, <2>2, PhaseMoves DEF SplitPhase
  <2>7. PlacesLeft(work'[w]) < PlacesLeft(work[w])
    BY <1>0, <2>1, <2>6 DEF PlacesLeft
  <2>8. work'[w] # Idle /\ work'[w].at \in SplitPhase
    BY <2>6 DEF SplitPhase
  <2> QED
    BY <1>2, <2>1, <2>4, <2>5, <2>6, <2>7, <2>8 DEF SplitPhase
<1>5. CASE SplitStartTask(w)
  <2>1. work[w].at = "start_task" /\ SetTask(d, "split", "STARTED") /\ UNCHANGED <<doc, para, file>>
    BY <1>1, <1>5 DEF SplitStartTask, At
  <2>2. PICK at \in {"create", "fail"} : GoTo(w, at)
    BY <1>5 DEF SplitStartTask
  <2>5. \A x \in Doc \ {d} : task'[x] = task[x]
    BY <1>0, <1>1, <2>1, SetTaskIs
  <2>6. /\ work'[w] # Idle /\ work'[w].at = at /\ work'[w].d = d /\ work'[w].job = work[w].job
        /\ \A v \in Worker \ {w} : work'[v] = work[v]
        /\ lost' = lost /\ queue' = queue /\ once' = once
    BY <1>0, <2>2, PhaseMoves DEF SplitPhase
  <2>7. PlacesLeft(work'[w]) < PlacesLeft(work[w])
    BY <1>0, <2>1, <2>6 DEF PlacesLeft
  <2>8. work'[w] # Idle /\ work'[w].at \in SplitPhase
    BY <2>6 DEF SplitPhase
  <2> QED
    BY <1>2, <2>1, <2>5, <2>6, <2>7, <2>8 DEF SplitPhase, Exists
<1>6. CASE CreateParagraph(w)
  <2>1. work[w].at = "create" /\ UNCHANGED <<doc, task, file>>
    BY <1>1, <1>6 DEF CreateParagraph, At
  <2>2. \/ GoTo(w, "create") /\ para' = [para EXCEPT ![d] = Append(para[d], "PENDING")]
        \/ GoTo(w, "finish") /\ para' = para
    BY <1>1, <1>6 DEF CreateParagraph
  <2>3. PICK at \in {"create", "finish"} : /\ GoTo(w, at)
                                           /\ at = "create" => para' = [para EXCEPT ![d] = Append(para[d], "PENDING")]
                                           /\ at = "finish" => para' = para
    BY <2>2
  <2>4. /\ \A x \in Doc : Len(para[x]) <= Len(para'[x])
        /\ at = "create" => Len(para[d]) < Len(para'[d])
    <3>1. para \in [Doc -> Seq(Status)]
      BY DEF IngestInv, IngestType
    <3>2. Len(Append(para[d], "PENDING")) = Len(para[d]) + 1
      BY <1>1, <3>1
    <3>3. \A x \in Doc \ {d} : Len(para'[x]) = Len(para[x])
      BY <2>3, <3>1
    <3>4. IF at = "create" THEN Len(para'[d]) = Len(para[d]) + 1 ELSE Len(para'[d]) = Len(para[d])
      BY <1>1, <2>3, <3>1, <3>2
    <3>5. Len(para[d]) <= Len(para'[d]) /\ (at = "create" => Len(para[d]) < Len(para'[d]))
      BY <1>1, <1>2, <3>4
    <3>6. \A x \in Doc \ {d} : Len(para[x]) <= Len(para'[x])
      BY <1>2, <3>3
    <3> QED
      BY <1>1, <3>5, <3>6
  <2>6. /\ work'[w] # Idle /\ work'[w].at = at /\ work'[w].d = d /\ work'[w].job = work[w].job
        /\ \A v \in Worker \ {w} : work'[v] = work[v]
        /\ lost' = lost /\ queue' = queue /\ once' = once
    BY <1>0, <2>3, PhaseMoves DEF SplitPhase
  <2>7. IF at = "create" THEN PlacesLeft(work'[w]) <= PlacesLeft(work[w])
        ELSE PlacesLeft(work'[w]) < PlacesLeft(work[w])
    BY <1>0, <2>1, <2>6 DEF PlacesLeft
  <2>8. work'[w] # Idle /\ work'[w].at \in SplitPhase
    BY <2>6 DEF SplitPhase
  <2> QED
    BY <1>2, <2>1, <2>4, <2>6, <2>7, <2>8 DEF SplitPhase, Exists
<1>7. CASE RefuseParagraph(w)
  <2>1. work[w].at = "create" /\ UNCHANGED <<doc, task, para, file>> /\ GoTo(w, "fail")
    BY <1>7 DEF RefuseParagraph, At, rows
  <2>6. /\ work'[w] # Idle /\ work'[w].at = "fail" /\ work'[w].d = d /\ work'[w].job = work[w].job
        /\ \A v \in Worker \ {w} : work'[v] = work[v]
        /\ lost' = lost /\ queue' = queue /\ once' = once
    BY <1>0, <2>1, PhaseMoves DEF SplitPhase
  <2>7. PlacesLeft(work'[w]) < PlacesLeft(work[w])
    BY <1>0, <2>1, <2>6 DEF PlacesLeft
  <2>8. work'[w] # Idle /\ work'[w].at \in SplitPhase
    BY <2>6 DEF SplitPhase
  <2> QED
    BY <1>2, <2>1, <2>6, <2>7, <2>8 DEF SplitPhase, Exists
<1>8. CASE SplitFinish(w)
  <2>1. /\ work[w].at = "finish" /\ UNCHANGED <<task, para, file>> /\ GoTo(w, "finish_task")
        /\ doc' = [doc EXCEPT ![d] = [status |-> "SUCCESS", count |-> Len(para[d]), given |-> FALSE]]
    BY <1>1, <1>8 DEF SplitFinish, At
  <2>4. \A x \in Doc : Exists(x)' <=> Exists(x)
    <3>1. [status |-> "SUCCESS", count |-> Len(para[d]), given |-> FALSE] # NoRow
      BY DEF NoRow
    <3> QED
      BY <1>1, <2>1, <3>1 DEF Exists, Present, IngestInv, IngestType
  <2>6. /\ work'[w] # Idle /\ work'[w].at = "finish_task" /\ work'[w].d = d /\ work'[w].job = work[w].job
        /\ \A v \in Worker \ {w} : work'[v] = work[v]
        /\ lost' = lost /\ queue' = queue /\ once' = once
    BY <1>0, <2>1, PhaseMoves DEF SplitPhase
  <2>7. PlacesLeft(work'[w]) < PlacesLeft(work[w])
    BY <1>0, <2>1, <2>6 DEF PlacesLeft
  <2>8. work'[w] # Idle /\ work'[w].at \in SplitPhase
    BY <2>6 DEF SplitPhase
  <2> QED
    BY <1>2, <2>1, <2>4, <2>6, <2>7, <2>8 DEF SplitPhase
<1>9. CASE SplitFinishTask(w)
  <2>1. /\ work[w].at = "finish_task" /\ UNCHANGED <<doc, para, file>> /\ GoTo(w, "then_embed")
        /\ SetTask(d, "split", "SUCCESS")
    BY <1>1, <1>9 DEF SplitFinishTask, At
  <2>5. task'[d].split \in Settled /\ \A x \in Doc \ {d} : task'[x] = task[x]
    BY <1>0, <1>1, <2>1, SetTaskIs DEF Settled
  <2>6. /\ work'[w] # Idle /\ work'[w].at = "then_embed" /\ work'[w].d = d /\ work'[w].job = work[w].job
        /\ \A v \in Worker \ {w} : work'[v] = work[v]
        /\ lost' = lost /\ queue' = queue /\ once' = once
    BY <1>0, <2>1, PhaseMoves
  <2>7. PlacesLeft(work'[w]) < PlacesLeft(work[w])
    BY <1>0, <2>1, <2>6 DEF PlacesLeft
  <2> QED
    BY <1>2, <2>1, <2>5, <2>6, <2>7 DEF Exists
<1>10. CASE SplitFail(w)
  <2>1. CASE At(w, "fail") /\ SetDoc(d, "FAILURE") /\ GoTo(w, "fail_task") /\ UNCHANGED <<task, para, file>>
    <3>1. work[w].at = "fail"
      BY <2>1 DEF At
    <3>4. \A x \in Doc : Exists(x)' <=> Exists(x)
      BY <1>0, <1>1, <2>1, SetDocKeeps DEF Settled
    <3>6. /\ work'[w] # Idle /\ work'[w].at = "fail_task" /\ work'[w].d = d /\ work'[w].job = work[w].job
          /\ \A v \in Worker \ {w} : work'[v] = work[v]
          /\ lost' = lost /\ queue' = queue /\ once' = once
      BY <1>0, <2>1, PhaseMoves DEF SplitPhase
    <3>7. PlacesLeft(work'[w]) < PlacesLeft(work[w])
      BY <1>0, <3>1, <3>6 DEF PlacesLeft
    <3>8. work'[w] # Idle /\ work'[w].at \in SplitPhase
      BY <3>6 DEF SplitPhase
    <3> QED
      BY <1>2, <2>1, <3>1, <3>4, <3>6, <3>7, <3>8 DEF SplitPhase
  <2>2. CASE At(w, "fail_task") /\ SetTask(d, "split", "FAILURE") /\ Leave(w) /\ UNCHANGED <<doc, para, file>>
    <3>1. work[w].at = "fail_task"
      BY <2>2 DEF At
    <3>5. task'[d].split \in Settled /\ \A x \in Doc \ {d} : task'[x] = task[x]
      BY <1>0, <1>1, <2>2, SetTaskIs DEF Settled
    <3>6. /\ work'[w] = Idle /\ \A v \in Worker \ {w} : work'[v] = work[v]
          /\ lost' = lost /\ queue' = queue /\ once' \subseteq once
      BY <2>2, WorkerLeaves
    <3>7. PlacesLeft(work'[w]) < PlacesLeft(work[w])
      BY <1>0, <3>1, <3>6 DEF PlacesLeft
    <3> QED
      BY <1>2, <2>2, <3>1, <3>5, <3>6, <3>7 DEF Exists
  <2> QED
    BY <1>1, <1>10, <2>1, <2>2 DEF SplitFail
<1>11. CASE ThenEmbed(w)
  <2>1. /\ work[w].at = "then_embed" /\ UNCHANGED <<doc, task, para, file, lost>>
        /\ work' = [work EXCEPT ![w] = Idle] /\ once' \subseteq once \cup {EmbedJob(d)}
        /\ queue' = [queue EXCEPT ![EmbedJob(d)] = IF EmbedJob(d) \in once THEN @ ELSE @ + 1]
    BY <1>1, <1>11 DEF ThenEmbed, At, rows
  <2>2. work'[w] = Idle /\ \A v \in Worker \ {w} : work'[v] = work[v]
    BY <2>1 DEF IngestInv, IngestType
  <2>3. \A x \in Doc : SplitJob(x) \in Job /\ SplitJob(x) # EmbedJob(d)
    BY <1>1, EmbedJobIsNone
  <2>4. \A x \in Doc : /\ queue'[SplitJob(x)] = queue[SplitJob(x)]
                       /\ SplitJob(x) \notin once => SplitJob(x) \notin once'
    BY <2>1, <2>3 DEF IngestInv, IngestType
  <2>7. PlacesLeft(work'[w]) < PlacesLeft(work[w])
    BY <1>0, <2>1, <2>2 DEF PlacesLeft
  <2> QED
    BY <1>2, <2>1, <2>2, <2>4, <2>7 DEF Exists
<1> QED
  BY <1>4, <1>5, <1>6, <1>7, <1>8, <1>9, <1>10, <1>11 DEF Split

(* What was at work stays so, unless the worker w has left it. *)
LEMMA StaysAtWork ==
  ASSUME NEW w \in Worker, NEW d \in Doc, AtWork(d),
         \A v \in Worker \ {w} : work'[v] = work[v],
         lost \subseteq lost', Queued(SplitJob(d)) => Queued(SplitJob(d))' \/ Splitting(w, d)',
         \/ Splitting(w, d)' \/ task'[d].split \in Settled
         \/ ~Splitting(w, d) /\ task'[d].split = task[d].split
         \/ Splitting(w, d) /\ d \in lost'
  PROVE  AtWork(d)'
<1>1. \A v \in Worker \ {w} : Splitting(v, d)' <=> Splitting(v, d)
  BY DEF Splitting
<1> QED
  BY <1>1 DEF AtWork

(* Nobody but workers and uploads matters to it. *)
LEMMA OthersAtWork ==
  ASSUME IngestInv, IngestInv', JobInv, NotForgotten, UNCHANGED <<work, task, lost>>,
         \A x \in Doc : /\ Exists(x)' <=> Exists(x)
                        /\ queue'[SplitJob(x)] = queue[SplitJob(x)]
                        /\ SplitJob(x) \notin once => SplitJob(x) \notin once'
  PROVE  (JobInv /\ NotForgotten)'
<1>1. \A x \in Doc, v \in Worker : Splitting(v, x)' <=> Splitting(v, x)
  BY DEF Splitting
<1>2. \A x \in Doc : AtWork(x)' <=> AtWork(x)
  BY <1>1 DEF AtWork, Queued, SplitJob
<1>3. NotForgotten'
  BY <1>2 DEF NotForgotten
<1>4. JobInv'
  BY DEF JobInv, SplitJob
<1> QED
  BY <1>3, <1>4

LEMMA SplitAtWork ==
  ASSUME IngestInv, IngestInv', JobInv, NotForgotten, NEW w \in Worker, Split(w)
  PROVE  (JobInv /\ NotForgotten)'
<1>1. /\ work[w] # Idle /\ work[w].d \in Doc
      /\ work[w].at \in SplitPhase \cup {"then_embed"}
      /\ work'[w] # Idle => /\ work'[w].at \in SplitPhase \cup {"then_embed"}
                            /\ work'[w].d = work[w].d /\ work'[w].job = work[w].job
      /\ \A v \in Worker \ {w} : work'[v] = work[v]
      /\ lost' = lost
      /\ \A x \in Doc : /\ queue'[SplitJob(x)] = queue[SplitJob(x)]
                        /\ SplitJob(x) \notin once => SplitJob(x) \notin once'
                        /\ Exists(x)' <=> Exists(x)
      /\ \A x \in Doc \ {work[w].d} : task'[x] = task[x]
      /\ IF work[w].at = "then_embed" THEN task' = task
         ELSE (work'[w] # Idle /\ work'[w].at \in SplitPhase) \/ task'[work[w].d].split \in Settled
  BY SplitMoves
<1>2. JobInv'
  <2>1. \A x \in Doc : ~Exists(x)' => SplitJob(x) \notin once'
    BY <1>1 DEF JobInv
  <2>2. \A v \in Worker : work'[v] # Idle /\ work'[v].at \in SplitPhase \cup {"then_embed"} =>
          work'[v].job = SplitJob(work'[v].d)
    BY <1>1 DEF JobInv
  <2> QED
    BY <2>1, <2>2 DEF JobInv, SplitJob
<1>3. ASSUME NEW x \in Doc, Exists(x)' PROVE AtWork(x)'
  <2>1. AtWork(x) /\ (Queued(SplitJob(x)) => Queued(SplitJob(x))')
    BY <1>1, <1>3 DEF NotForgotten, Queued, SplitJob
  <2>2. CASE x = work[w].d /\ work[w].at # "then_embed"
    <3>1. Splitting(w, x)' \/ task'[x].split \in Settled
      BY <1>1, <2>2 DEF Splitting
    <3> QED
      BY <1>1, <2>1, <3>1, StaysAtWork
  <2>3. CASE x # work[w].d \/ work[w].at = "then_embed"
    <3>1. ~Splitting(w, x) /\ task'[x] = task[x]
      BY <1>1, <2>3 DEF Splitting, SplitPhase
    <3> QED
      BY <1>1, <2>1, <3>1, StaysAtWork
  <2> QED
    BY <2>2, <2>3
<1> QED
  BY <1>2, <1>3 DEF NotForgotten

(* Paragraphs get another status, and none is added. *)
LEMMA ParagraphsStay ==
  ASSUME IngestInv, NEW d \in Doc, NEW ids, NEW status \in Status, SetParagraphs(d, ids, status)
  PROVE  \A x \in Doc : Len(para'[x]) = Len(para[x])
<1> TAKE x \in Doc
<1>1. para \in [Doc -> Seq(Status)]
  BY DEF IngestInv, IngestType
<1>2. para'[x] = para[x] \/ para'[x] = [k \in DOMAIN para[x] |-> IF k \in ids THEN status ELSE para[x][k]]
  BY <1>1 DEF SetParagraphs
<1>3. /\ para[x] \in Seq(Status) /\ DOMAIN para[x] = 1 .. Len(para[x]) /\ Len(para[x]) \in Nat
      /\ \A k \in DOMAIN para[x] : para[x][k] \in Status
  BY <1>1
<1>4. para'[x] \in Seq(Status) /\ DOMAIN para'[x] = DOMAIN para[x]
  BY <1>2, <1>3
<1> QED
  BY <1>3, <1>4, LenProperties

(* A worker that embeds a document splits none. *)
LEMMA EmbedMoves ==
  ASSUME IngestInv, NEW w \in Worker, Embed(w)
  PROVE  /\ work[w] # Idle /\ work[w].at \notin SplitPhase \cup {"then_embed"}
         /\ work'[w] # Idle => work'[w].at \notin SplitPhase \cup {"then_embed"}
         /\ \A v \in Worker \ {w} : work'[v] = work[v]
         /\ UNCHANGED <<doc, file, lost, queue>> /\ once' \subseteq once
         /\ \A x \in Doc : task'[x].split = task[x].split /\ Len(para[x]) <= Len(para'[x])
<1>0. /\ {"next", "embed", "reset_task", "start_embed", "vectors", "fail_paragraphs"} \subseteq Phase
      /\ {"next", "embed", "reset_task", "start_embed", "vectors", "fail_paragraphs"} \cap (SplitPhase \cup {"then_embed"}) = {}
  BY DEF SplitPhase, Phase
<1>1. /\ work \in [Worker -> Item \cup {Idle}] /\ task \in [Doc -> TaskRow] /\ para \in [Doc -> Seq(Status)]
      /\ \A x \in Doc : Len(para[x]) <= Len(para[x])
  BY DEF IngestInv, IngestType
<1>2. CASE NextDocument(w)
  <2>1. work[w] # Idle /\ work[w].at = "next" /\ work[w] \in Item /\ UNCHANGED rows
    BY <1>2, WorkedOn DEF NextDocument, At
  <2>2. CASE Leave(w)
    BY <1>0, <1>1, <2>1, <2>2, WorkerLeaves DEF rows
  <2>3. CASE \E d \in work[w].todo :
               /\ work' = [work EXCEPT ![w].at = "embed", ![w].d = d, ![w].todo = @ \ {d}]
               /\ UNCHANGED <<queue, once, lost, cut, losses, expired>>
    <3>1. work'[w].at = "embed" /\ \A v \in Worker \ {w} : work'[v] = work[v]
      BY <1>1, <2>1, <2>3 DEF Item
    <3> QED
      BY <1>0, <1>1, <2>1, <2>3, <3>1 DEF rows
  <2> QED
    BY <1>2, <2>2, <2>3 DEF NextDocument
<1>3. CASE EmbedBegin(w)
  <2>1. work[w] # Idle /\ work[w].at = "embed" /\ work[w] \in Item /\ UNCHANGED rows
    BY <1>3, WorkedOn DEF EmbedBegin, At
  <2>2. \/ Leave(w)
        \/ GoTo(w, "next")
        \/ /\ work' = [work EXCEPT ![w].at = "reset_task", ![w].ids = Open(Doing(w))]
           /\ UNCHANGED <<queue, once, lost, cut, losses, expired>>
    BY <1>3 DEF EmbedBegin
  <2>3. CASE Leave(w)
    BY <1>0, <1>1, <2>1, <2>3, WorkerLeaves DEF rows
  <2>4. CASE GoTo(w, "next")
    BY <1>0, <1>1, <2>1, <2>4, PhaseMoves DEF rows
  <2>5. CASE /\ work' = [work EXCEPT ![w].at = "reset_task", ![w].ids = Open(Doing(w))]
             /\ UNCHANGED <<queue, once, lost, cut, losses, expired>>
    <3>1. work'[w].at = "reset_task" /\ \A v \in Worker \ {w} : work'[v] = work[v]
      BY <1>1, <2>1, <2>5 DEF Item
    <3> QED
      BY <1>0, <1>1, <2>1, <2>5, <3>1 DEF rows
  <2> QED
    BY <2>2, <2>3, <2>4, <2>5
<1>6. CASE ResetTask(w) \/ StartEmbed(w)
  <2>1. PICK status \in Status, at \in {"start_embed", "vectors"} :
          SetTask(Doing(w), "embed", status) /\ GoTo(w, at)
    BY <1>6 DEF ResetTask, StartEmbed, Status
  <2>2. /\ work[w] # Idle /\ work[w].at \in {"reset_task", "start_embed"}
        /\ UNCHANGED <<doc, para, file>> /\ Doing(w) \in Doc
    BY <1>6, WorkedOn DEF ResetTask, StartEmbed, At, Doing
  <2>3. \A x \in Doc : task'[x].split = task[x].split
    BY <1>1, <2>1, <2>2 DEF SetTask, TaskRow
  <2> QED
    BY <1>0, <1>1, <2>1, <2>2, <2>3, PhaseMoves
<1>4. CASE EmbedRaise(w)
  <2>1. /\ work[w] # Idle /\ work[w].at = "vectors" /\ UNCHANGED <<doc, para, file>> /\ Doing(w) \in Doc
        /\ SetTask(Doing(w), "embed", "FAILURE") /\ GoTo(w, "fail_paragraphs")
    BY <1>4, WorkedOn DEF EmbedRaise, At, Doing
  <2>2. \A x \in Doc : task'[x].split = task[x].split
    BY <1>1, <2>1 DEF SetTask, TaskRow
  <2> QED
    BY <1>0, <1>1, <2>1, <2>2, PhaseMoves
<1>5. CASE EmbedFail(w)
  <2>1. /\ work[w] # Idle /\ work[w].at = "fail_paragraphs" /\ UNCHANGED <<doc, task, file>> /\ Leave(w)
        /\ SetParagraphs(Doing(w), work[w].ids, "FAILURE")
    BY <1>5 DEF EmbedFail, At
  <2>2. \A x \in Doc : Len(para'[x]) = Len(para[x])
    BY <2>1, WorkedOn, ParagraphsStay DEF Doing, Status
  <2> QED
    BY <1>0, <1>1, <2>1, <2>2, WorkerLeaves
<1> QED
  BY <1>2, <1>3, <1>4, <1>5, <1>6 DEF Embed

LEMMA EmbedAtWork ==
  ASSUME IngestInv, IngestInv', JobInv, NotForgotten, NEW w \in Worker, Embed(w)
  PROVE  (JobInv /\ NotForgotten)'
<1>1. /\ work[w] # Idle /\ work[w].at \notin SplitPhase \cup {"then_embed"}
      /\ work'[w] # Idle => work'[w].at \notin SplitPhase \cup {"then_embed"}
      /\ \A v \in Worker \ {w} : work'[v] = work[v]
      /\ UNCHANGED <<doc, lost, queue>> /\ once' \subseteq once
      /\ \A x \in Doc : task'[x].split = task[x].split
  BY EmbedMoves
<1>2. JobInv'
  BY <1>1 DEF JobInv, Exists, SplitJob
<1>3. ASSUME NEW x \in Doc, Exists(x)' PROVE AtWork(x)'
  <2>1. AtWork(x) /\ (Queued(SplitJob(x)) => Queued(SplitJob(x))')
    BY <1>1, <1>3 DEF NotForgotten, Queued, SplitJob, Exists
  <2>2. ~Splitting(w, x)
    BY <1>1 DEF Splitting
  <2> QED
    BY <1>1, <2>1, <2>2, StaysAtWork
<1> QED
  BY <1>2, <1>3 DEF NotForgotten

(* A worker that dies loses the document it was splitting. *)
LEMMA DieAtWork ==
  ASSUME IngestInv, IngestInv', JobInv, NotForgotten, NEW w \in Worker, Die(w)
  PROVE  (JobInv /\ NotForgotten)'
<1>1. /\ work'[w] = Idle /\ \A v \in Worker \ {w} : work'[v] = work[v]
      /\ UNCHANGED <<doc, task, queue, once>> /\ work[w] # Idle
      /\ lost' = IF work[w].job.name = "split_document" THEN lost \cup work[w].job.of ELSE lost
  BY DEF Die, rows, IngestInv, IngestType
<1>2. JobInv'
  BY <1>1 DEF JobInv, Exists, SplitJob
<1>3. ASSUME NEW x \in Doc, Exists(x)' PROVE AtWork(x)'
  <2>1. AtWork(x) /\ (Queued(SplitJob(x)) => Queued(SplitJob(x))')
    BY <1>1, <1>3 DEF NotForgotten, Queued, SplitJob, Exists
  <2>2. Splitting(w, x) => x \in lost'
    <3> SUFFICES ASSUME Splitting(w, x) PROVE x \in lost'
      OBVIOUS
    <3>1. work[w].job = SplitJob(x)
      BY DEF Splitting, JobInv
    <3>2. work[w].job.name = "split_document" /\ x \in work[w].job.of
      BY <3>1 DEF SplitJob
    <3> QED
      BY <1>1, <3>2
  <2> QED
    BY <1>1, <2>1, <2>2, StaysAtWork
<1> QED
  BY <1>2, <1>3 DEF NotForgotten

LEMMA TakeAtWork ==
  ASSUME IngestInv, IngestInv', JobInv, NotForgotten, NEW w \in Worker, NEW job \in Job, Take(w, job)
  PROVE  (JobInv /\ NotForgotten)'
<1> DEFINE i == [job |-> job, at |-> IF job.name = "split_document" THEN "split" ELSE "next",
                 d |-> CHOOSE d \in job.of : TRUE, todo |-> {d \in job.of : Exists(d)}, ids |-> {}]
<1>1. /\ work[w] = Idle /\ UNCHANGED <<doc, task, once, lost>>
      /\ work' = [work EXCEPT ![w] = i] /\ queue' = [queue EXCEPT ![job] = @ - 1]
  BY DEF Take, rows
<1>2. work'[w] = i /\ \A v \in Worker \ {w} : work'[v] = work[v]
  BY <1>1 DEF IngestInv, IngestType
<1>3. i.job = job /\ i.at = (IF job.name = "split_document" THEN "split" ELSE "next") /\ i # Idle
  <2>1. Idle.at = "idle" /\ i.at # "idle"
    BY DEF Idle
  <2> QED
    BY <2>1
<1>4. ASSUME i.at = "split" PROVE i.d \in Doc /\ job = SplitJob(i.d)
  <2>1. job.name = "split_document"
    BY <1>3, <1>4
  <2>2. PICK d \in Doc : job = SplitJob(d)
    BY <2>1 DEF Job, EmbedJob, RefreshJob
  <2>3. job.of = {d}
    BY <2>2 DEF SplitJob
  <2>4. i.d = d
    BY <2>3
  <2> QED
    BY <2>2, <2>4
<1> HIDE DEF i
<1>5. JobInv'
  <2>1. i.at \in SplitPhase \cup {"then_embed"} => i.at = "split"
    BY <1>3 DEF SplitPhase
  <2> QED
    BY <1>1, <1>2, <1>3, <1>4, <2>1 DEF JobInv, Exists, SplitJob
<1>6. ASSUME NEW x \in Doc, Exists(x)' PROVE AtWork(x)'
  <2>1. AtWork(x) /\ ~Splitting(w, x)
    BY <1>1, <1>6 DEF NotForgotten, Exists, Splitting
  <2>2. CASE job = SplitJob(x)
    <3>1. job.name = "split_document" /\ job.of = {x}
      BY <2>2 DEF SplitJob
    <3>2. i.at = "split" /\ SplitJob(i.d) = SplitJob(x) /\ i.d \in Doc
      BY <1>3, <1>4, <2>2, <3>1
    <3>3. i.d = x
      BY <3>2 DEF SplitJob
    <3>4. Splitting(w, x)'
      BY <1>2, <1>3, <3>2, <3>3 DEF Splitting, SplitPhase
    <3> QED
      BY <3>4 DEF AtWork
  <2>3. CASE job # SplitJob(x)
    <3>1. queue'[SplitJob(x)] = queue[SplitJob(x)]
      BY <1>1, <2>3, EmbedJobIsNone DEF IngestInv, IngestType
    <3>2. Queued(SplitJob(x)) => Queued(SplitJob(x))'
      BY <3>1 DEF Queued, SplitJob
    <3> QED
      BY <1>1, <1>2, <2>1, <3>2, StaysAtWork
  <2> QED
    BY <2>2, <2>3
<1> QED
  BY <1>5, <1>6 DEF NotForgotten

(* The task of an upload is queued, since its lock was never taken. *)
LEMMA UploadAtWork ==
  ASSUME IngestInv, IngestInv', JobInv, NotForgotten, NEW d \in Doc, NEW f \in Upload, UploadDocument(d, f)
  PROVE  (JobInv /\ NotForgotten)'
<1>1. /\ ~Exists(d) /\ work' = work /\ SplitJob(d) \notin once /\ SplitJob(d) \in Job
      /\ doc' = [doc EXCEPT ![d] = [status |-> "PENDING", count |-> 0, given |-> FALSE]]
      /\ SetTask(d, "split", "PENDING") /\ queue \in [Job -> Nat]
  BY EmbedJobIsNone DEF UploadDocument, JobInv, IngestInv, IngestType
<1>2. Exists(d)' /\ \A x \in Doc \ {d} : Exists(x)' <=> Exists(x)
  <2>1. [status |-> "PENDING", count |-> 0, given |-> FALSE] # NoRow
    BY DEF NoRow
  <2> QED
    BY <1>1, <2>1 DEF Exists, IngestInv, IngestType
<1>3. \A x \in Doc \ {d} : task'[x] = task[x]
  BY <1>1, SetTaskIs DEF Status
<1>4. \A x \in Doc \ {d} : SplitJob(x) # SplitJob(d) /\ SplitJob(x) \in Job
  <2>1. \A x \in Doc : SplitJob(x).of = {x} /\ SplitJob(x) \in Job
    BY EmbedJobIsNone DEF SplitJob
  <2> QED
    BY <2>1
<1>5. \/ /\ once' = once \cup {SplitJob(d)} /\ queue' = [queue EXCEPT ![SplitJob(d)] = @ + 1]
         /\ lost' = lost
      \/ lost' = lost \cup {d} /\ UNCHANGED <<once, queue>>
  BY <1>1 DEF UploadDocument, EmitIngested, Delay
<1>6. \A x \in Doc \ {d} : /\ queue'[SplitJob(x)] = queue[SplitJob(x)]
                           /\ SplitJob(x) \notin once => SplitJob(x) \notin once'
  BY <1>1, <1>4, <1>5
<1>7. JobInv'
  <2>1. \A x \in Doc : ~Exists(x)' => SplitJob(x) \notin once'
    BY <1>2, <1>6 DEF JobInv
  <2> QED
    BY <1>1, <2>1 DEF JobInv, SplitJob
<1>8. ASSUME NEW x \in Doc, Exists(x)' PROVE AtWork(x)'
  <2>1. CASE x = d
    <3>1. CASE lost' = lost \cup {d}
      BY <2>1, <3>1 DEF AtWork
    <3>2. CASE queue' = [queue EXCEPT ![SplitJob(d)] = @ + 1]
      <4>1. queue'[SplitJob(d)] > 0
        BY <1>1, <3>2
      <4> QED
        BY <2>1, <4>1 DEF AtWork, Queued, SplitJob
    <3> QED
      BY <1>5, <3>1, <3>2
  <2>2. CASE x # d
    <3>1. AtWork(x) /\ task'[x] = task[x]
      BY <1>2, <1>3, <1>8, <2>2 DEF NotForgotten
    <3>2. \A v \in Worker : Splitting(v, x)' <=> Splitting(v, x)
      BY <1>1 DEF Splitting
    <3>3. Queued(SplitJob(x)) => Queued(SplitJob(x))'
      BY <1>6, <2>2 DEF Queued, SplitJob
    <3> QED
      BY <1>5, <3>1, <3>2, <3>3 DEF AtWork
  <2> QED
    BY <2>1, <2>2
<1> QED
  BY <1>7, <1>8 DEF NotForgotten

LEMMA RequestAtWork ==
  ASSUME IngestInv, IngestInv', JobInv, NotForgotten, Request
  PROVE  (JobInv /\ NotForgotten)'
<1>1. ASSUME NEW d \in Doc, PostDocument(d) PROVE (JobInv /\ NotForgotten)'
  BY <1>1, UploadAtWork DEF PostDocument
<1>2. ASSUME NEW d \in Doc, PostRefresh(d) PROVE (JobInv /\ NotForgotten)'
  BY <1>2, OthersAtWork DEF PostRefresh, RefreshDocument, celery, Exists
<1>3. CASE RefreshKnowledge
  <2>1. /\ UNCHANGED <<doc, work, task, lost>>
        /\ once' \subseteq once \cup {RefreshJob}
        /\ queue' = queue \/ queue' = [queue EXCEPT ![RefreshJob] = @ + 1]
    BY <1>3 DEF RefreshKnowledge, Delay, rows
  <2>2. \A x \in Doc : SplitJob(x) \in Job /\ SplitJob(x) # RefreshJob
    BY EmbedJobIsNone
  <2>3. \A x \in Doc : /\ queue'[SplitJob(x)] = queue[SplitJob(x)]
                       /\ SplitJob(x) \notin once => SplitJob(x) \notin once'
    BY <2>1, <2>2 DEF IngestInv, IngestType
  <2> QED
    BY <2>1, <2>3, OthersAtWork DEF Exists
<1>4. ASSUME NEW e \in Editor, SaveDocument(e) PROVE (JobInv /\ NotForgotten)'
  <2>0. PICK row \in Written(edit[e].row) : doc' = [doc EXCEPT ![edit[e].d] = row]
    BY <1>4 DEF SaveDocument
  <2>1. /\ edit[e] # Idle /\ UNCHANGED <<task, work, lost, queue, once>>
        /\ doc' = [doc EXCEPT ![edit[e].d] = row]
    BY <1>4, <2>0 DEF SaveDocument, celery
  <2>2. edit[e].d \in Present /\ row \in DocRow /\ edit[e].d \in Doc
    BY <2>1, WrittenRows DEF IngestInv, IngestType, NothingBefore, Present
  <2>3. \A r \in DocRow : r # NoRow
    BY DEF DocRow, NoRow, Status
  <2>4. \A x \in Doc : Exists(x)' <=> Exists(x)
    BY <2>1, <2>2, <2>3 DEF Exists, Present, IngestInv, IngestType
  <2> QED
    BY <2>1, <2>4, OthersAtWork
<1>5. ASSUME NEW e \in Editor, NEW d \in Doc, ReadDocument(e, d) PROVE (JobInv /\ NotForgotten)'
  BY <1>5, OthersAtWork DEF ReadDocument, rows, celery, Exists
<1> QED
  BY <1>1, <1>2, <1>3, <1>4, <1>5 DEF Request

LEMMA AtWorkStep ==
  ASSUME IngestInv, IngestInv', JobInv, NotForgotten, [Next]_vars
  PROVE  (JobInv /\ NotForgotten)'
<1>1. ASSUME NEW job \in Job, Expire(job) PROVE (JobInv /\ NotForgotten)'
  <2>1. UNCHANGED <<doc, work, task, lost, queue>> /\ once' \subseteq once
    BY <1>1 DEF Expire, rows
  <2> QED
    BY <2>1, OthersAtWork DEF Exists
<1>2. CASE UNCHANGED vars
  BY <1>2, OthersAtWork DEF vars, rows, celery, Exists
<1> QED
  BY <1>1, <1>2, RequestAtWork, SplitAtWork, EmbedAtWork, DieAtWork, TakeAtWork DEF Next, Step

(* What is left to split does not grow when nobody works on it. *)
LEMMA RestIsSame ==
  ASSUME IngestInv, IngestInv', NEW w \in Worker, work[w] # Idle, work'[w] = work[w],
         file'[work[w].d] = file[work[w].d], Len(para[work[w].d]) <= Len(para'[work[w].d])
  PROVE  SplitLeft(w)' <= SplitLeft(w)
<1> DEFINE a == PlacesLeft(work[w])
           m == Len(para[work[w].d])
           n == Len(para'[work[w].d])
           k == file[work[w].d].pieces
<1>1. work[w].d \in Doc
  BY WorkedOn
<1>2. a \in Nat
  BY DEF PlacesLeft
<1>3. m \in Nat /\ n \in Nat /\ k \in Nat /\ m <= k /\ n <= k /\ m <= n
  BY <1>1 DEF IngestInv, IngestType, WholeInv
<1>4. SplitLeft(w) = a + (k - m)
  BY DEF SplitLeft, PiecesLeft
<1>5. SplitLeft(w)' = a + (k - n)
  BY DEF SplitLeft, PiecesLeft
<1> HIDE DEF a, m, n, k
<1>6. a + (k - n) <= a + (k - m)
  BY <1>2, <1>3
<1> QED
  BY <1>4, <1>5, <1>6

(* Rows of documents that are there are not shortened by others. *)
LEMMA RequestLeaves ==
  ASSUME IngestInv, Request \/ (\E job \in Job : Expire(job)) \/ UNCHANGED vars
  PROVE  /\ work' = work
         /\ \A x \in Present : file'[x] = file[x] /\ Len(para[x]) <= Len(para'[x])
<1>0. /\ Present \subseteq Doc /\ DOMAIN file = Doc
      /\ \A x \in Doc : Len(para[x]) <= Len(para[x])
  BY DEF Present, IngestInv, IngestType
<1>1. ASSUME NEW d \in Doc, NEW f \in Upload, UploadDocument(d, f)
      PROVE  work' = work /\ para' = para /\ \A x \in Present : file'[x] = file[x]
  <2>1. d \notin Present
    BY <1>1 DEF UploadDocument, Present
  <2> QED
    BY <1>0, <1>1, <2>1 DEF UploadDocument
<1>2. ASSUME NEW d \in Doc, RefreshDocument(d)
      PROVE  work' = work /\ file' = file /\ \A x \in Doc : Len(para'[x]) = Len(para[x])
  BY <1>2, ParagraphsStay DEF RefreshDocument, celery, Status
<1>3. ASSUME \/ RefreshKnowledge
             \/ \E e \in Editor : SaveDocument(e) \/ \E d \in Doc : ReadDocument(e, d)
             \/ \E job \in Job : Expire(job)
             \/ UNCHANGED vars
      PROVE  work' = work /\ file' = file /\ para' = para
  BY <1>3 DEF RefreshKnowledge, SaveDocument, ReadDocument, Expire, vars, rows, celery
<1> QED
  BY <1>0, <1>1, <1>2, <1>3 DEF Request, PostDocument, PostRefresh

LEMMA StepShortens ==
  ASSUME IngestInv, IngestInv', JobInv, [Next]_vars
  PROVE  Shortens
<1>1. ASSUME NEW w \in Worker, Split(w) PROVE SplitLeft(w)' < SplitLeft(w)
  BY <1>1, SplitMoves
<1>2. ASSUME NEW w \in Worker, work[w] # Idle, work[w].at \in SplitPhase \cup {"then_embed"}
      PROVE  SplitLeft(w)' <= SplitLeft(w)
  <2>1. work[w].d \in Doc /\ work[w].d \in Present /\ SplitLeft(w) \in Nat
    BY <1>2, WorkedOn, LeftIsNatural DEF SplitPhase
  <2>2. CASE work'[w] = Idle
    <3>1. SplitLeft(w)' = 0
      BY <2>2 DEF SplitLeft, PlacesLeft, PiecesLeft
    <3> QED
      BY <2>1, <3>1
  <2>3. CASE Split(w)
    <3>1. SplitLeft(w)' < SplitLeft(w)
      BY <1>1, <2>3
    <3>2. CASE work'[w] # Idle
      <4>1. PlacesLeft(work'[w]) \in Nat
        BY DEF PlacesLeft
      <4>2. work'[w].d \in Doc
        BY <3>2 DEF IngestInv, IngestType, Item
      <4>3. /\ Len(para'[work'[w].d]) \in Nat /\ file'[work'[w].d].pieces \in Nat
            /\ Len(para'[work'[w].d]) <= file'[work'[w].d].pieces
        BY <4>2 DEF IngestInv, IngestType, WholeInv
      <4>4. PiecesLeft(w)' \in Nat
        BY <3>2, <4>3 DEF PiecesLeft
      <4>5. SplitLeft(w)' \in Nat
        BY <4>1, <4>4 DEF SplitLeft
      <4> QED
        BY <2>1, <3>1, <4>5
    <3> QED
      BY <2>2, <3>2
  <2>4. ASSUME NEW v \in Worker, Step(v) \/ Die(v) \/ \E job \in Job : Take(v, job),
               v # w \/ ~Split(w), work'[w] # Idle
        PROVE  /\ work'[w] = work[w]
               /\ file'[work[w].d] = file[work[w].d]
               /\ Len(para[work[w].d]) <= Len(para'[work[w].d])
    <3>0. work \in [Worker -> Item \cup {Idle}] /\ Len(para[work[w].d]) <= Len(para[work[w].d])
      BY <2>1 DEF IngestInv, IngestType
    <3>1. CASE Split(v)
      BY <2>1, <2>4, <3>1, SplitMoves
    <3>2. CASE Embed(v)
      <4>1. v # w
        BY <1>2, <3>2, EmbedMoves
      <4> QED
        BY <2>1, <3>2, <4>1, EmbedMoves
    <3>3. CASE Die(v)
      BY <2>4, <3>0, <3>3 DEF Die, rows
    <3>4. CASE \E job \in Job : Take(v, job)
      BY <1>2, <3>0, <3>4 DEF Take, rows
    <3> QED
      BY <2>4, <3>1, <3>2, <3>3, <3>4 DEF Step
  <2>5. CASE Request \/ (\E job \in Job : Expire(job)) \/ UNCHANGED vars
    <3>1. /\ work'[w] = work[w]
          /\ file'[work[w].d] = file[work[w].d]
          /\ Len(para[work[w].d]) <= Len(para'[work[w].d])
      BY <2>1, <2>5, RequestLeaves
    <3> QED
      BY <1>2, <3>1, RestIsSame
  <2> QED
    BY <1>2, <2>2, <2>3, <2>4, <2>5, RestIsSame DEF Next
<1> QED
  BY <1>1, <1>2 DEF Shortens

(***************************************************************************)
(* No upload is forgotten: until its splitting is settled, or lost with a  *)
(* worker or before it was queued, its task waits for a worker or some     *)
(* worker is splitting it, and every step of that one leaves less to do,   *)
(* which nobody else adds to (services/ingest.py, split).                  *)
(***************************************************************************)
THEOREM UploadsAreNotForgotten ==
  ASSUME Doc # {}
  PROVE  Spec => []NotForgotten /\ [][Shortens]_vars
<1>1. Init => JobInv /\ NotForgotten
  BY DEF Init, JobInv, NotForgotten, Exists
<1>2. IngestInv /\ IngestInv' /\ JobInv /\ NotForgotten /\ [Next]_vars => (JobInv /\ NotForgotten)'
  BY AtWorkStep
<1>3. IngestInv /\ IngestInv' /\ JobInv /\ [Next]_vars => [Shortens]_vars
  BY StepShortens
<1> QED
  BY <1>1, <1>2, <1>3, IngestHolds, PTL DEF Spec

-----------------------------------------------------------------------------
(***************************************************************************)
(* Splitting: where a content is cut.                                      *)
(***************************************************************************)

(* A piece that ends at a break at least as good as any in it. *)
Good(piece) ==
  /\ \A i \in DOMAIN piece : Rank(Last(piece)) <= Rank(piece[i])
  /\ Rank(Last(piece)) = 5 => Len(piece) = limit

IsSeq(s) == s \in Seq(Range(s))

SplitType ==
  /\ text \in Text /\ limit \in Nat /\ line \in Nat
  /\ IsSeq(tree) /\ \A s \in DOMAIN tree : IsSeq(tree[s].content)
  /\ IsSeq(buf) /\ IsSeq(rest) /\ IsSeq(raws)
  /\ visited \in Nat

(***************************************************************************)
(* What is made of a section while some of it is left to cut could still   *)
(* be followed by a piece, so it ends well; sections not visited yet have  *)
(* no pieces.                                                              *)
(***************************************************************************)
PiecesEndWell ==
  \A k \in DOMAIN raws :
    /\ Len(raws[k].content) \in 1 .. limit
    /\ raws[k].section \in 0 .. visited
    /\ rest # <<>> /\ raws[k].section = visited => Good(raws[k].content)
    /\ (\E m \in DOMAIN raws : m > k /\ raws[m].section = raws[k].section)
         => Good(raws[k].content)

SplitInv == SplitType /\ PiecesEndWell

(* Every non-empty set of natural numbers has a least element. *)
LEMMA LeastNumber ==
  ASSUME NEW T, T \subseteq Nat, T # {}
  PROVE  \E x \in T : \A y \in T : ~(y < x)
<1>1. \E x \in T : \A y \in T : ~(<<y, x>> \in OpToRel(<, Nat))
  BY NatLessThanWellFounded, WFMin
<1> QED BY <1>1 DEF OpToRel

LEMMA MinMaxFacts ==
  ASSUME NEW n \in Nat, NEW S \in SUBSET (1 .. n), S # {}
  PROVE  /\ Min(S) \in S /\ \A y \in S : Min(S) <= y
         /\ Max(S) \in S /\ \A y \in S : Max(S) >= y
<1>1. \E x \in S : \A y \in S : x <= y
  <2>1. S \subseteq Nat
    OBVIOUS
  <2>2. PICK x \in S : \A y \in S : ~(y < x)
    BY <2>1, LeastNumber
  <2> QED BY <2>1, <2>2
<1>2. \E x \in S : \A y \in S : x >= y
  <2> DEFINE T == {n - x : x \in S}
  <2>1. T \subseteq Nat /\ T # {}
    <3>1. \A x \in S : n - x \in Nat
      OBVIOUS
    <3> QED BY <3>1
  <2>2. PICK t \in T : \A y \in T : ~(y < t)
    BY <2>1, LeastNumber
  <2>3. PICK x \in S : t = n - x
    BY <2>2
  <2>4. \A y \in S : ~(n - y < n - x)
    BY <2>2, <2>3
  <2> QED BY <2>4
<1> QED BY <1>1, <1>2 DEF Min, Max

LEMMA SeqOfItsRange ==
  ASSUME NEW S, NEW s \in Seq(S)
  PROVE  IsSeq(s)
BY DEF IsSeq, Range

LEMMA SeqFacts ==
  ASSUME NEW s, IsSeq(s)
  PROVE  /\ Len(s) \in Nat /\ DOMAIN s = 1 .. Len(s)
         /\ s = <<>> <=> Len(s) = 0
         /\ \A c : /\ IsSeq(Append(s, c)) /\ Append(s, c)[Len(s) + 1] = c
                  /\ DOMAIN Append(s, c) = 1 .. Len(s) + 1
                  /\ \A i \in 1 .. Len(s) : Append(s, c)[i] = s[i]
         /\ \A t : IsSeq(t) => IsSeq(s \o t)
<1>1. PICK S : S = Range(s) /\ s \in Seq(S)
  BY DEF IsSeq
<1>2. /\ Len(s) \in Nat /\ DOMAIN s = 1 .. Len(s)
      /\ s = <<>> <=> Len(s) = 0
  BY <1>1
<1>3. ASSUME NEW c
      PROVE  /\ IsSeq(Append(s, c)) /\ Append(s, c)[Len(s) + 1] = c
             /\ DOMAIN Append(s, c) = 1 .. Len(s) + 1
             /\ \A i \in 1 .. Len(s) : Append(s, c)[i] = s[i]
  <2>1. PICK T : T = S \cup {c}
    OBVIOUS
  <2>2. s \in Seq(T) /\ c \in T
    BY <1>1, <2>1
  <2>3. /\ Append(s, c) \in Seq(T) /\ Append(s, c)[Len(s) + 1] = c
        /\ Len(Append(s, c)) = Len(s) + 1
        /\ \A i \in 1 .. Len(s) : Append(s, c)[i] = s[i]
    BY <2>2
  <2>4. DOMAIN Append(s, c) = 1 .. Len(s) + 1
    BY <2>3
  <2> QED BY <2>3, <2>4, SeqOfItsRange
<1>4. ASSUME NEW t, IsSeq(t)
      PROVE  IsSeq(s \o t)
  <2>1. PICK T : T = S \cup Range(t)
    OBVIOUS
  <2>2. s \in Seq(T) /\ t \in Seq(T)
    BY <1>1, <1>4, <2>1 DEF IsSeq
  <2>3. s \o t \in Seq(T)
    BY <2>2
  <2> QED BY <2>3, SeqOfItsRange
<1> QED BY <1>2, <1>3, <1>4

LEMMA StripType ==
  ASSUME NEW s, IsSeq(s)
  PROVE  IsSeq(Strip(s))
<1>0. PICK S : s \in Seq(S)
  BY DEF IsSeq
<1> DEFINE inked == {i \in DOMAIN s : s[i] # "newline"}
<1>1. CASE inked = {}
  <2>1. Strip(s) = <<>>
    BY <1>1 DEF Strip
  <2>2. IsSeq(<<>>)
    BY DEF IsSeq
  <2> QED BY <2>1, <2>2
<1>2. CASE inked # {}
  <2>1. PICK n \in Nat : n = Len(s) /\ DOMAIN s = 1 .. n
    BY <1>0
  <2>2. Min(inked) \in 1 .. n /\ Max(inked) \in 1 .. n
    BY <1>2, <2>1, MinMaxFacts
  <2>3. PICK a \in 1 .. n, b \in 1 .. n : a = Min(inked) /\ b = Max(inked)
    BY <2>2
  <2>4. SubSeq(s, a, b) \in Seq(S)
    BY <1>0, <2>1
  <2>5. Strip(s) = SubSeq(s, a, b)
    BY <1>2, <2>3 DEF Strip
  <2> QED BY <2>4, <2>5, SeqOfItsRange
<1> QED BY <1>1, <1>2

LEMMA EmptyIsNoise == IsNoise(<<>>)
<1>1. Strip(<<>>) = <<>>
  BY DEF Strip
<1> QED BY <1>1 DEF IsNoise

LEMMA RankFacts ==
  ASSUME NEW c
  PROVE  /\ Rank(c) \in 1 .. 5
         /\ Rank(c) # 5 => c = Breaks[Rank(c)]
         /\ \A k \in 1 .. 4 : c = Breaks[k] => Rank(c) = k
<1>1. Len(Breaks) = 4 /\ Breaks[1] = "stop" /\ Breaks[2] = "bang"
      /\ Breaks[3] = "ask" /\ Breaks[4] = "newline"
  BY DEF Breaks
<1>2. CASE Contains(Breaks, c)
  <2> DEFINE I == {i \in 1 .. 4 : Breaks[i] = c}
  <2>1. I # {}
    BY <1>1, <1>2 DEF Contains
  <2>2. Rank(c) = Min(I)
    BY <1>1, <1>2, <2>1 DEF Rank, SelectInSeq
  <2>3. Min(I) \in I
    BY <2>1, MinMaxFacts
  <2> QED BY <1>1, <2>2, <2>3
<1>3. CASE ~Contains(Breaks, c)
  <2>1. Rank(c) = 5
    BY <1>3 DEF Rank
  <2>2. \A k \in 1 .. 4 : c # Breaks[k]
    BY <1>1, <1>3 DEF Contains
  <2> QED BY <2>1, <2>2
<1> QED BY <1>2, <1>3

LEMMA PrefixFacts ==
  ASSUME NEW s, IsSeq(s), NEW k \in 0 .. Len(s)
  PROVE  /\ IsSeq(SubSeq(s, 1, k)) /\ Len(SubSeq(s, 1, k)) = k
         /\ \A i \in 1 .. k : SubSeq(s, 1, k)[i] = s[i]
         /\ IsSeq(SubSeq(s, k + 1, Len(s)))
         /\ SubSeq(s, k + 1, Len(s)) = <<>> <=> k = Len(s)
<1>0. PICK S : s \in Seq(S)
  BY DEF IsSeq
<1>1. PICK n \in Nat : n = Len(s) /\ DOMAIN s = 1 .. n
  BY <1>0
<1>2. \A i \in 1 .. n : s[i] \in S
  BY <1>0, <1>1
<1>3. k \in Nat /\ k <= n
  BY <1>1
<1>4. SubSeq(s, 1, k) \in Seq(S) /\ Len(SubSeq(s, 1, k)) = k
  BY <1>0, <1>1, <1>2, <1>3
<1>5. SubSeq(s, k + 1, n) \in Seq(S) /\ Len(SubSeq(s, k + 1, n)) = n - k
  BY <1>0, <1>1, <1>2, <1>3
<1>6. \A i \in 1 .. k : SubSeq(s, 1, k)[i] = s[i]
  BY <1>0, <1>1, <1>3
<1>7. SubSeq(s, k + 1, n) = <<>> <=> k = n
  <2>1. PICK t \in Seq(S) : t = SubSeq(s, k + 1, n) /\ Len(t) = n - k
    BY <1>5
  <2>2. t = <<>> <=> Len(t) = 0
    OBVIOUS
  <2> QED BY <1>1, <1>3, <2>1, <2>2
<1> QED BY SeqOfItsRange, <1>1, <1>4, <1>5, <1>6, <1>7

(* Where the first piece of a content ends. *)
LEMMA CutFacts ==
  ASSUME NEW content, IsSeq(content), limit \in Nat
  PROVE  /\ CutAt(content) \in 0 .. Len(content)
         /\ Len(content) <= limit => CutAt(content) = Len(content)
         /\ Len(content) > limit =>
              /\ CutAt(content) <= limit
              /\ CutAt(content) # 0 => Good(SubSeq(content, 1, CutAt(content)))
<1>0. PICK n \in Nat : n = Len(content) /\ DOMAIN content = 1 .. n
  BY SeqFacts
<1>1. CASE n <= limit
  BY <1>0, <1>1 DEF CutAt
<1>2. CASE n > limit
  <2>1. PICK window : IsSeq(window) /\ window = SubSeq(content, 1, limit)
    <3>1. limit \in 0 .. Len(content)
      BY <1>0, <1>2
    <3> QED BY <3>1, PrefixFacts
  <2>2. /\ Len(window) = limit /\ DOMAIN window = 1 .. limit
        /\ \A i \in 1 .. limit : window[i] = content[i]
    BY <1>0, <1>2, <2>1, PrefixFacts, SeqFacts
  <2> DEFINE F == {b \in 1 .. 4 : Contains(window, Breaks[b])}
             found == SelectInSeq(Breaks, LAMBDA b : Contains(window, b))
  <2>3. Len(Breaks) = 4
    BY DEF Breaks
  <2>4. found = IF F # {} THEN Min(F) ELSE 0
    BY <2>3 DEF SelectInSeq
  <2>5. CutAt(content) = IF found = 0 THEN limit
                         ELSE SelectLastInSeq(window, LAMBDA c : c = Breaks[found])
    BY <1>0, <1>2, <2>1 DEF CutAt
  <2>6. \A i \in 1 .. limit : Rank(window[i]) \in 1 .. 4 => Rank(window[i]) \in F
    <3> TAKE i \in 1 .. limit
    <3> HAVE Rank(window[i]) \in 1 .. 4
    <3>1. window[i] = Breaks[Rank(window[i])]
      BY RankFacts
    <3> QED BY <2>2, <3>1 DEF Contains
  <2>7. CASE F = {}
    <3>1. CutAt(content) = limit
      BY <2>4, <2>5, <2>7
    <3>2. \A i \in 1 .. limit : Rank(window[i]) = 5
      BY <2>6, <2>7, RankFacts
    <3>3. limit # 0 => Rank(Last(window)) = 5
      BY <2>2, <3>2 DEF Last
    <3>4. limit # 0 => Good(window)
      BY <2>2, <3>2, <3>3 DEF Good
    <3> QED BY <1>0, <1>2, <2>1, <3>1, <3>4
  <2>8. CASE F # {}
    <3>1. PICK f \in F : f = found /\ \A b \in F : f <= b
      BY <2>4, <2>8, MinMaxFacts
    <3> DEFINE I == {i \in 1 .. limit : window[i] = Breaks[f]}
    <3>2. I # {}
      BY <2>2, <3>1 DEF Contains
    <3>3. CutAt(content) = Max(I)
      <4>1. CutAt(content) = SelectLastInSeq(window, LAMBDA c : c = Breaks[f])
        BY <2>5, <3>1
      <4> QED BY <2>2, <3>2, <4>1 DEF SelectLastInSeq
    <3>4. PICK i \in I : i = CutAt(content)
      BY <3>2, <3>3, MinMaxFacts
    <3>5. PICK piece : IsSeq(piece) /\ piece = SubSeq(content, 1, i)
      <4>1. i \in 0 .. Len(content)
        BY <1>0, <1>2
      <4> QED BY <4>1, PrefixFacts
    <3>6. /\ Len(piece) = i /\ DOMAIN piece = 1 .. i
          /\ \A j \in 1 .. i : piece[j] = window[j] /\ j \in 1 .. limit
      <4>1. i \in 0 .. Len(content) /\ i <= limit
        BY <1>0, <1>2
      <4>2. Len(piece) = i /\ \A j \in 1 .. i : piece[j] = content[j]
        BY <3>5, <4>1, PrefixFacts
      <4>3. DOMAIN piece = 1 .. i
        BY <3>5, <4>2, SeqFacts
      <4>4. \A j \in 1 .. i : j \in 1 .. limit
        BY <4>1
      <4> QED BY <2>2, <4>2, <4>3, <4>4
    <3>7. Last(piece) = Breaks[f] /\ f \in 1 .. 4
      BY <3>6 DEF Last
    <3>8. Rank(Last(piece)) = f
      BY <3>7, RankFacts
    <3>9. \A j \in 1 .. i : f <= Rank(piece[j])
      <4> TAKE j \in 1 .. i
      <4>1. Rank(piece[j]) \in 1 .. 5 /\ piece[j] = window[j] /\ j \in 1 .. limit
        BY <3>6, RankFacts
      <4>2. Rank(piece[j]) # 5 => Rank(piece[j]) \in F
        BY <2>6, <4>1
      <4>3. \A b \in F : f <= b
        BY <3>1
      <4>4. CASE Rank(piece[j]) = 5
        BY <3>7, <4>4
      <4>5. CASE Rank(piece[j]) # 5
        BY <4>2, <4>3, <4>5
      <4> QED BY <4>4, <4>5
    <3>10. Good(piece)
      BY <3>6, <3>7, <3>8, <3>9 DEF Good
    <3> QED BY <1>0, <1>2, <3>4, <3>5, <3>10
  <2> QED BY <2>7, <2>8
<1> QED BY <1>0, <1>1, <1>2

-----------------------------------------------------------------------------
(* Reading the text.                                                       *)

LEMMA FlushedType ==
  ASSUME SplitType
  PROVE  IsSeq(Flushed) /\ \A s \in DOMAIN Flushed : IsSeq(Flushed[s].content)
<1>1. IsSeq(Strip(buf))
  BY StripType DEF SplitType
<1>2. PICK n \in Nat : n = Len(tree) /\ DOMAIN tree = 1 .. n
  BY SeqFacts DEF SplitType
<1>3. PICK f : f = Flushed
  OBVIOUS
<1>4. DOMAIN f = 1 .. n
  BY <1>2, <1>3 DEF Flushed
<1>5. f = [i \in 1 .. n |-> f[i]]
  BY <1>2, <1>3 DEF Flushed
<1>6. IsSeq(f)
  <2>1. PICK S : S = Range(f)
    OBVIOUS
  <2>2. \A i \in 1 .. n : f[i] \in S
    BY <1>4, <2>1 DEF Range
  <2>3. f \in Seq(S)
    BY <1>5, <2>2
  <2> QED BY <2>3, SeqOfItsRange
<1>7. ASSUME NEW s \in 1 .. n
      PROVE  IsSeq(f[s].content)
  <2>1. IsSeq(tree[s].content)
    BY <1>2 DEF SplitType
  <2>2. CASE s = Last(stack)
    <3>1. f[s] = [tree[s] EXCEPT !.content = @ \o Strip(buf)]
      BY <1>2, <1>3, <2>2 DEF Flushed
    <3>2. f[s].content = tree[s].content \o Strip(buf)
      BY <3>1
    <3> QED BY <1>1, <2>1, <3>2, SeqFacts
  <2>3. CASE s # Last(stack)
    BY <1>2, <1>3, <2>1, <2>3 DEF Flushed
  <2> QED BY <2>2, <2>3
<1> QED BY <1>3, <1>4, <1>6, <1>7

LEMMA LineFacts ==
  ASSUME SplitType, line < Len(text), ~text[line + 1].heading
  PROVE  IsSeq(text[line + 1].body)
<1> DEFINE H == [heading : {TRUE}, level : 1 .. 6, title : STRING]
           B == [heading : {FALSE}, body : Seq(STRING)]
<1>1. text \in Seq(H \cup B)
  BY SplitAssumption DEF SplitType
<1> HIDE DEF H, B
<1>2. line + 1 \in DOMAIN text
  <2>1. PICK n \in Nat : n = Len(text) /\ DOMAIN text = 1 .. n
    BY <1>1
  <2>2. line \in Nat
    BY DEF SplitType
  <2> QED BY <2>1, <2>2
<1>3. PICK x \in H \cup B : x = text[line + 1]
  BY <1>1, <1>2
<1>4. x \notin H
  BY <1>3 DEF H
<1>5. x \in B
  BY <1>4
<1>6. x.body \in Seq(STRING)
  BY <1>5 DEF B
<1> QED BY <1>3, <1>6, SeqOfItsRange

-----------------------------------------------------------------------------
(* Cutting.                                                                *)

LEMMA CutKeepsPieces ==
  ASSUME SplitInv, Cut
  PROVE  SplitInv'
<1>1. /\ IsSeq(rest) /\ rest # <<>> /\ limit \in Nat /\ visited \in Nat
      /\ IsSeq(raws)
      /\ UNCHANGED <<text, limit, line, tree, stack, buf, visited>>
  BY DEF SplitInv, SplitType, Cut
<1>2. PICK k \in 0 .. Len(rest) : k = CutAt(rest)
  BY <1>1, CutFacts
<1>3. PICK n \in Nat : n = Len(rest) /\ n > 0
  BY <1>1, SeqFacts
<1>4. PICK piece : IsSeq(piece) /\ piece = SubSeq(rest, 1, k) /\ Len(piece) = k
  <2>1. IsSeq(SubSeq(rest, 1, k)) /\ Len(SubSeq(rest, 1, k)) = k
    BY <1>1, PrefixFacts
  <2> QED BY <2>1
<1>5. /\ IsSeq(rest')
      /\ rest' = <<>> <=> k = n
  <2>1. rest' = SubSeq(rest, k + 1, Len(rest))
    BY <1>2 DEF Cut
  <2> QED BY <1>1, <1>2, <1>3, <2>1, PrefixFacts
<1>6. /\ n <= limit => k = n
      /\ n > limit => k <= limit /\ (k # 0 => Good(piece))
  BY <1>1, <1>2, <1>3, <1>4, CutFacts
<1>7. \A p : Good(p)' <=> Good(p)
  BY <1>1 DEF Good
<1>8. CASE IsNoise(piece)
  <2>1. raws' = raws
    BY <1>2, <1>4, <1>8 DEF Cut
  <2>2. SplitType'
    BY <1>1, <1>5, <2>1 DEF SplitInv, SplitType
  <2>3. PiecesEndWell'
    BY <1>1, <1>7, <2>1 DEF SplitInv, PiecesEndWell
  <2> QED BY <2>2, <2>3 DEF SplitInv
<1>9. CASE ~IsNoise(piece)
  <2>1. PICK r : /\ r = [title |-> CurTitle[visited], section |-> visited, content |-> piece]
                 /\ raws' = Append(raws, r)
    BY <1>1, <1>2, <1>4, <1>9 DEF Cut
  <2>2. r.section = visited /\ r.content = piece
    BY <2>1
  <2>3. k # 0
    <3>1. piece # <<>>
      BY <1>9, EmptyIsNoise
    <3> QED BY <1>4, <3>1, SeqFacts
  <2>4. Len(piece) \in 1 .. limit
    BY <1>1, <1>3, <1>4, <1>6, <2>3
  <2>5. rest' # <<>> => Good(piece)
    BY <1>1, <1>3, <1>5, <1>6, <2>3
  <2>6. PICK N \in Nat : N = Len(raws) /\ DOMAIN raws = 1 .. N
    BY <1>1, SeqFacts
  <2>7. /\ IsSeq(raws') /\ DOMAIN raws' = 1 .. N + 1 /\ raws'[N + 1] = r
        /\ \A m \in 1 .. N : raws'[m] = raws[m]
    BY <1>1, <2>1, <2>6, SeqFacts
  <2>8. SplitType'
    BY <1>1, <1>5, <2>7 DEF SplitInv, SplitType
  <2>9. visited \in 0 .. visited
    BY <1>1
  <2>10. PiecesEndWell'
    <3> SUFFICES ASSUME NEW m \in DOMAIN raws'
                 PROVE  /\ Len(raws'[m].content) \in 1 .. limit
                        /\ raws'[m].section \in 0 .. visited
                        /\ rest' # <<>> /\ raws'[m].section = visited
                             => Good(raws'[m].content)
                        /\ (\E l \in DOMAIN raws' :
                              l > m /\ raws'[l].section = raws'[m].section)
                             => Good(raws'[m].content)
      BY <1>1, <1>7 DEF PiecesEndWell
    <3>1. CASE m = N + 1
      BY <2>2, <2>4, <2>5, <2>6, <2>7, <2>9, <3>1
    <3>2. CASE m \in 1 .. N
      <4>1. raws'[m] = raws[m]
        BY <2>7, <3>2
      <4>2. /\ Len(raws[m].content) \in 1 .. limit
            /\ raws[m].section \in 0 .. visited
            /\ raws[m].section = visited => Good(raws[m].content)
            /\ (\E l \in DOMAIN raws : l > m /\ raws[l].section = raws[m].section)
                 => Good(raws[m].content)
        BY <1>1, <2>6, <3>2 DEF SplitInv, PiecesEndWell
      <4>3. ASSUME NEW l \in DOMAIN raws', l > m, raws'[l].section = raws'[m].section
            PROVE  Good(raws[m].content)
        <5>1. CASE l = N + 1
          BY <2>2, <2>7, <4>1, <4>2, <4>3, <5>1
        <5>2. CASE l \in 1 .. N
          BY <2>6, <2>7, <4>1, <4>2, <4>3, <5>2
        <5> QED BY <2>6, <2>7, <5>1, <5>2
      <4> QED BY <4>1, <4>2, <4>3
    <3> QED BY <2>6, <2>7, <3>1, <3>2
  <2> QED BY <2>8, <2>10 DEF SplitInv
<1> QED BY <1>8, <1>9

(* Steps that make no piece and leave nothing to cut keep what was made. *)
LEMMA PiecesStay ==
  ASSUME SplitInv, raws' = raws, limit' = limit, visited' = visited \/ visited' = visited + 1,
         rest' = rest \/ visited' = visited + 1,
         rest' # rest => rest = <<>>, visited' # visited => rest = <<>>
  PROVE  PiecesEndWell'
<1>1. visited \in Nat
  BY DEF SplitInv, SplitType
<1>2. \A p : Good(p)' <=> Good(p)
  BY DEF Good
<1>3. ASSUME NEW k \in DOMAIN raws
      PROVE  /\ Len(raws[k].content) \in 1 .. limit
             /\ raws[k].section \in 0 .. visited
             /\ rest # <<>> /\ raws[k].section = visited => Good(raws[k].content)
             /\ (\E m \in DOMAIN raws : m > k /\ raws[m].section = raws[k].section)
                  => Good(raws[k].content)
  BY DEF SplitInv, PiecesEndWell
<1>4. ASSUME NEW k \in DOMAIN raws
      PROVE  /\ raws[k].section \in 0 .. visited'
             /\ rest' # <<>> /\ raws[k].section = visited' => Good(raws[k].content)
  <2>1. CASE visited' = visited
    BY <1>1, <1>3, <2>1
  <2>2. CASE visited' = visited + 1
    BY <1>1, <1>3, <2>2
  <2> QED BY <2>1, <2>2
<1> QED BY <1>2, <1>3, <1>4 DEF PiecesEndWell

LEMMA SplitSafe == SplitSpec => []SplitInv
<1>1. SplitInit => SplitInv
  <2> SUFFICES ASSUME SplitInit
               PROVE  SplitInv
    OBVIOUS
  <2>1. text \in Text /\ limit \in Nat /\ line \in Nat /\ visited \in Nat /\ raws = <<>>
    BY SplitAssumption DEF SplitInit
  <2>2. IsSeq(<<>>)
    BY DEF IsSeq
  <2>3. IsSeq(tree) /\ \A s \in DOMAIN tree : IsSeq(tree[s].content)
    <3>1. PICK root : root = Section(NoTitle, 0, 0)
      OBVIOUS
    <3>2. tree = <<root>> /\ root.content = <<>>
      BY <3>1 DEF SplitInit, Section
    <3>3. <<root>> \in Seq({root}) /\ DOMAIN <<root>> = {1} /\ <<root>>[1] = root
      OBVIOUS
    <3> QED BY <2>2, <3>2, <3>3, SeqOfItsRange
  <2>4. IsSeq(buf) /\ IsSeq(rest) /\ IsSeq(raws)
    BY <2>2 DEF SplitInit
  <2>5. PiecesEndWell
    BY <2>1 DEF PiecesEndWell
  <2> QED BY <2>1, <2>2, <2>3, <2>4, <2>5 DEF SplitInv, SplitType
<1>2. SplitInv /\ [SplitNext]_splitVars => SplitInv'
  <2> SUFFICES ASSUME SplitInv, [SplitNext]_splitVars
               PROVE  SplitInv'
    OBVIOUS
  <2>0. SplitType
    BY DEF SplitInv
  <2>1. ASSUME UNCHANGED splitVars
        PROVE  SplitInv'
    <3>1. SplitType'
      BY <2>0, <2>1 DEF SplitType, splitVars
    <3>2. PiecesEndWell'
      BY <2>1, PiecesStay DEF splitVars
    <3> QED BY <3>1, <3>2 DEF SplitInv
  <2>2. CASE ReadHeading
    <3>1. PICK sec : tree' = Append(Flushed, sec) /\ sec.content = <<>>
      <4>1. PICK head, open : tree' = Append(Flushed, Section(head.title, head.level, Last(open)))
        BY <2>2 DEF ReadHeading
      <4> QED BY <4>1 DEF Section
    <3>2. PICK f : f = Flushed /\ IsSeq(f) /\ \A s \in DOMAIN f : IsSeq(f[s].content)
      BY <2>0, FlushedType
    <3>3. IsSeq(<<>>)
      BY DEF IsSeq
    <3>4. IsSeq(tree') /\ \A s \in DOMAIN tree' : IsSeq(tree'[s].content)
      <4>1. PICK n \in Nat : n = Len(f) /\ DOMAIN f = 1 .. n
        BY <3>2, SeqFacts
      <4>2. /\ IsSeq(tree') /\ DOMAIN tree' = 1 .. n + 1 /\ tree'[n + 1] = sec
            /\ \A i \in 1 .. n : tree'[i] = f[i]
        BY <3>1, <3>2, <4>1, SeqFacts
      <4> QED BY <3>1, <3>2, <3>3, <4>1, <4>2
    <3>5. /\ buf' = <<>> /\ line' = line + 1
          /\ UNCHANGED <<text, limit, visited, rest, raws>>
      BY <2>2 DEF ReadHeading
    <3>6. SplitType'
      BY <2>0, <3>3, <3>4, <3>5 DEF SplitType
    <3>7. PiecesEndWell'
      BY <3>5, PiecesStay
    <3> QED BY <3>6, <3>7 DEF SplitInv
  <2>3. CASE ReadBody
    <3>1. IsSeq(text[line + 1].body) /\ IsSeq(buf)
      BY <2>0, <2>3, LineFacts DEF ReadBody, SplitType
    <3>2. IsSeq(Append(text[line + 1].body, "newline"))
      BY <3>1, SeqFacts
    <3>3. buf' = buf \o Append(text[line + 1].body, "newline")
      BY <2>3 DEF ReadBody
    <3>4. IsSeq(buf')
      BY <3>1, <3>2, <3>3, SeqFacts
    <3>5. line' = line + 1 /\ UNCHANGED <<text, limit, tree, stack, visited, rest, raws>>
      BY <2>3 DEF ReadBody
    <3>6. SplitType'
      BY <2>0, <3>4, <3>5 DEF SplitType
    <3>7. PiecesEndWell'
      BY <3>5, PiecesStay
    <3> QED BY <3>6, <3>7 DEF SplitInv
  <2>4. CASE EndOfText
    <3>1. IsSeq(tree') /\ \A s \in DOMAIN tree' : IsSeq(tree'[s].content)
      BY <2>0, <2>4, FlushedType DEF EndOfText
    <3>2. UNCHANGED <<text, limit, line, stack, buf, visited, rest, raws>>
      BY <2>4 DEF EndOfText
    <3>3. SplitType'
      BY <2>0, <3>1, <3>2 DEF SplitType
    <3>4. PiecesEndWell'
      BY <3>2, PiecesStay
    <3> QED BY <3>3, <3>4 DEF SplitInv
  <2>5. CASE Visit
    <3>1. /\ rest = <<>> /\ visited' = visited + 1
          /\ UNCHANGED <<text, limit, line, tree, stack, buf, raws>>
      BY <2>5 DEF Visit
    <3>2. IsSeq(rest')
      <4>1. IsSeq(tree) /\ visited \in Nat /\ visited < Len(tree)
        BY <2>0, <2>5 DEF SplitType, Visit
      <4>2. visited + 1 \in DOMAIN tree
        BY <4>1, SeqFacts
      <4>3. IsSeq(tree[visited + 1].content)
        BY <2>0, <4>2 DEF SplitType
      <4> QED BY <2>5, <4>3, StripType DEF Visit
    <3>3. SplitType'
      BY <2>0, <3>1, <3>2 DEF SplitType
    <3>4. PiecesEndWell'
      BY <3>1, PiecesStay
    <3> QED BY <3>3, <3>4 DEF SplitInv
  <2>6. CASE Cut
    BY <2>6, CutKeepsPieces
  <2>7. ASSUME UNCHANGED <<text, limit, line, tree, stack, buf, visited, rest, raws>>
        PROVE  SplitInv'
    <3>1. SplitType'
      BY <2>0, <2>7 DEF SplitType
    <3>2. PiecesEndWell'
      BY <2>7, PiecesStay
    <3> QED BY <3>1, <3>2 DEF SplitInv
  <2>8. CASE TooDeep
    BY <2>7, <2>8 DEF TooDeep
  <2>9. CASE Return
    BY <2>7, <2>9 DEF Return
  <2>10. CASE SplitEnded
    BY <2>1, <2>10 DEF SplitEnded
  <2> QED BY <2>1, <2>2, <2>3, <2>4, <2>5, <2>6, <2>8, <2>9, <2>10 DEF SplitNext
<1> QED BY <1>1, <1>2, PTL DEF SplitSpec

(***************************************************************************)
(* No piece is longer than the limit, and one that others of its section   *)
(* follow ends at the best break in it: smart_split_paragraph, for every   *)
(* text and every limit.                                                   *)
(***************************************************************************)
THEOREM CutsAreBest == SplitSpec => []CutsAtBestBreak
<1>1. SplitInv => CutsAtBestBreak
  BY DEF SplitInv, PiecesEndWell, CutsAtBestBreak, Good
<1> QED BY <1>1, SplitSafe, PTL

-----------------------------------------------------------------------------
(* Titles.                                                                 *)

LineType == [heading : {TRUE}, level : 1 .. 6, title : STRING]
            \cup [heading : {FALSE}, body : Seq(STRING)]

\* The line of section s.
LineOf(s) == Heads[s - 1]

\* Sections are made by headings, each inside the nearest of higher rank.
TreeInv ==
  /\ text \in Text /\ line \in Nat
  /\ IsSeq(tree) /\ Len(tree) = Cardinality(HeadsTo(line)) + 1
  /\ tree[1].title = NoTitle /\ tree[1].level = 0
  /\ \A s \in 2 .. Len(tree) :
       /\ LineOf(s) \in HeadsTo(line) /\ Cardinality(HeadsTo(LineOf(s))) = s - 1
       /\ tree[s].title = text[LineOf(s)].title
       /\ tree[s].level = text[LineOf(s)].level /\ tree[s].level \in 1 .. 6
       /\ tree[s].parent \in 1 .. s - 1
       /\ tree[tree[s].parent].level < tree[s].level
       /\ \A r \in tree[s].parent + 1 .. s - 1 : tree[r].level >= tree[s].level

\* The open sections are those with only sections of lower rank behind them.
StackInv ==
  /\ IsSeq(stack) /\ Len(stack) > 0
  /\ stack[1] = 1 /\ stack[Len(stack)] = Len(tree)
  /\ \A k, m \in DOMAIN stack : k < m => stack[k] < stack[m]
  /\ \A k \in DOMAIN stack : stack[k] \in DOMAIN tree
  /\ \A r \in DOMAIN tree :
       (\E k \in DOMAIN stack : stack[k] = r)
         <=> \A q \in r + 1 .. Len(tree) : tree[q].level > tree[r].level

(***************************************************************************)
(* The title a section takes is defined by recursion over the sections,    *)
(* which are made after their parents.                                     *)
(***************************************************************************)
TitleBy(f, s) ==
  IF tree[s].title # NoTitle THEN tree[s].title ELSE IF s = 1 THEN FileTitle ELSE f[tree[s].parent]

LEMMA TitlesExist ==
  ASSUME NEW N \in Nat, \A s \in 2 .. N : tree[s].parent \in 1 .. s - 1
  PROVE  \E f : f = [s \in 1 .. N |-> TitleBy(f, s)]
<1> DEFINE Has(n) == \E f : f = [s \in 1 .. n |-> TitleBy(f, s)]
           Missing == {n \in 0 .. N : ~Has(n)}
<1>1. Has(0)
  <2>1. PICK f : f = [s \in 1 .. 0 |-> 0]
    OBVIOUS
  <2>2. f = [s \in 1 .. 0 |-> TitleBy(f, s)]
    BY <2>1
  <2> QED BY <2>2
<1>2. ASSUME NEW n \in 1 .. N, Has(n - 1)
      PROVE  Has(n)
  <2>1. PICK f : f = [s \in 1 .. n - 1 |-> TitleBy(f, s)]
    BY <1>2
  <2>2. PICK g : g = [s \in 1 .. n |-> TitleBy(f, s)]
    OBVIOUS
  <2>3. \A s \in 1 .. n - 1 : g[s] = f[s]
    BY <2>1, <2>2
  <2>4. \A s \in 1 .. n : TitleBy(g, s) = TitleBy(f, s)
    <3>1. \A s \in 1 .. n : s # 1 => tree[s].parent \in 1 .. n - 1
      OBVIOUS
    <3> QED BY <2>3, <3>1 DEF TitleBy
  <2>5. g = [s \in 1 .. n |-> TitleBy(g, s)]
    BY <2>2, <2>4
  <2> QED BY <2>5
<1> HIDE DEF Has
<1>3. Missing = {}
  <2> SUFFICES ASSUME Missing # {}
               PROVE  FALSE
    OBVIOUS
  <2>1. PICK n \in Missing : \A m \in Missing : ~(m < n)
    <3>1. Missing \subseteq Nat
      OBVIOUS
    <3> HIDE DEF Missing
    <3> QED BY <3>1, LeastNumber
  <2>2. n \in 1 .. N /\ n - 1 \notin Missing /\ ~Has(n)
    BY <1>1, <2>1
  <2>3. Has(n - 1)
    BY <2>2
  <2> QED BY <1>2, <2>2, <2>3
<1>4. Has(N)
  BY <1>3
<1> QED BY <1>4 DEF Has

LEMMA TitleTaken ==
  ASSUME TreeInv, NEW s \in DOMAIN tree
  PROVE  CurTitle[s] = TitleBy(CurTitle, s)
<1>1. PICK N \in Nat : N = Len(tree) /\ DOMAIN tree = 1 .. N
  BY SeqFacts DEF TreeInv
<1>2. \E f : f = [r \in DOMAIN tree |-> TitleBy(f, r)]
  BY <1>1, TitlesExist DEF TreeInv
<1>3. CurTitle = CHOOSE f : f = [r \in DOMAIN tree |-> TitleBy(f, r)]
  BY DEF CurTitle, TitleBy
<1>4. PICK c : c = CurTitle
  OBVIOUS
<1>5. c = [r \in DOMAIN tree |-> TitleBy(c, r)]
  BY <1>2, <1>3, <1>4
<1>6. c[s] = TitleBy(c, s)
  BY <1>5
<1> QED BY <1>4, <1>6

(* Headings are counted in the order of their lines. *)
LEMMA HeadFacts ==
  ASSUME text \in Text
  PROVE  /\ Len(text) \in Nat /\ DOMAIN text = 1 .. Len(text)
         /\ HeadLines \subseteq 1 .. Len(text)
         /\ \A i : IsFiniteSet(HeadsTo(i)) /\ Cardinality(HeadsTo(i)) \in Nat
         /\ \A i : Cardinality(HeadsTo(i)) <= Cardinality(HeadLines)
         /\ Cardinality(HeadLines) \in Nat
         /\ \A i, j \in HeadLines : i < j => Cardinality(HeadsTo(i)) < Cardinality(HeadsTo(j))
<1>1. text \in Seq(LineType)
  BY SplitAssumption DEF LineType
<1>2. Len(text) \in Nat /\ DOMAIN text = 1 .. Len(text)
  BY <1>1
<1>3. HeadLines \subseteq 1 .. Len(text) /\ \A i : HeadsTo(i) \subseteq HeadLines
  BY <1>2 DEF HeadLines, HeadsTo
<1>4. IsFiniteSet(HeadLines)
  <2>1. IsFiniteSet(1 .. Len(text))
    BY <1>2, FS_Interval
  <2> QED BY <1>3, <2>1, FS_Subset
<1>5. \A i : /\ IsFiniteSet(HeadsTo(i)) /\ Cardinality(HeadsTo(i)) \in Nat
             /\ Cardinality(HeadsTo(i)) <= Cardinality(HeadLines)
  BY <1>3, <1>4, FS_Subset, FS_CardinalityType
<1>6. ASSUME NEW i \in HeadLines, NEW j \in HeadLines, i < j
      PROVE  Cardinality(HeadsTo(i)) < Cardinality(HeadsTo(j))
  <2>1. i \in Nat /\ j \in Nat /\ HeadLines \subseteq Nat
    BY <1>2, <1>3
  <2>2. j \notin HeadsTo(i) /\ HeadsTo(i) \cup {j} \subseteq HeadsTo(j)
    <3>1. \A h : h \in HeadsTo(i) <=> h \in HeadLines /\ h <= i
      BY DEF HeadsTo
    <3>2. \A h : h \in HeadsTo(j) <=> h \in HeadLines /\ h <= j
      BY DEF HeadsTo
    <3>3. \A h \in HeadLines : h <= i => h <= j
      BY <1>6, <2>1
    <3>4. ~(j <= i) /\ j <= j
      BY <1>6, <2>1
    <3> QED BY <3>1, <3>2, <3>3, <3>4
  <2>3. Cardinality(HeadsTo(i) \cup {j}) = Cardinality(HeadsTo(i)) + 1
    BY <1>5, <2>2, FS_AddElement
  <2>4. Cardinality(HeadsTo(i) \cup {j}) <= Cardinality(HeadsTo(j))
    BY <1>5, <2>2, FS_Subset
  <2> QED BY <1>5, <2>3, <2>4
<1>7. Cardinality(HeadLines) \in Nat
  BY <1>4, FS_CardinalityType
<1> QED BY <1>2, <1>3, <1>5, <1>6, <1>7

LEMMA HeadOfNumber ==
  ASSUME text \in Text, NEW i \in HeadLines, NEW s, s = Cardinality(HeadsTo(i)) + 1
  PROVE  LineOf(s) = i
<1>0. PICK n : n = Cardinality(HeadsTo(i))
  OBVIOUS
<1>1. n \in Nat /\ n <= Cardinality(HeadLines) /\ Cardinality(HeadLines) \in Nat
      /\ IsFiniteSet(HeadsTo(i)) /\ HeadLines \subseteq Nat
  BY <1>0, HeadFacts
<1>2. i \in HeadsTo(i)
  BY <1>1 DEF HeadsTo
<1>3. n # 0
  BY <1>0, <1>1, <1>2, FS_EmptySet
<1>4. n \in 1 .. Cardinality(HeadLines)
  BY <1>1, <1>3
<1>5. Heads[n] = CHOOSE h \in HeadLines : Cardinality(HeadsTo(h)) = n
  BY <1>4 DEF Heads
<1>6. Heads[n] \in HeadLines /\ Cardinality(HeadsTo(Heads[n])) = n
  BY <1>0, <1>5
<1>7. Heads[n] = i
  <2>1. PICK h \in HeadLines : h = Heads[n] /\ Cardinality(HeadsTo(h)) = n
    BY <1>6
  <2>2. ~(h < i) /\ ~(i < h)
    BY <1>0, <1>1, <2>1, HeadFacts
  <2> QED BY <1>1, <2>1, <2>2
<1>8. s - 1 = n
  BY <1>0, <1>1
<1> QED BY <1>7, <1>8 DEF LineOf

\* Section s and the sections around it, and which of them have a title.
AroundSection(s) == {r \in 1 .. s : \A q \in r + 1 .. s : tree[q].level > tree[r].level}
Titled(s) == {r \in AroundSection(s) : tree[r].title # NoTitle}
NearestTitle(s) == IF Titled(s) = {} THEN FileTitle ELSE tree[Max(Titled(s))].title

LEMMA TreeFacts ==
  ASSUME TreeInv
  PROVE  /\ Len(tree) \in Nat /\ Len(tree) > 0 /\ DOMAIN tree = 1 .. Len(tree)
         /\ \A s \in DOMAIN tree : tree[s].level \in Nat /\ (s # 1 => tree[s].level > 0)
         /\ HeadLines \subseteq Nat
<1>1. Len(tree) \in Nat /\ DOMAIN tree = 1 .. Len(tree)
  BY SeqFacts DEF TreeInv
<1>2. HeadLines \subseteq 1 .. Len(text) /\ Len(text) \in Nat /\ Cardinality(HeadsTo(line)) \in Nat
  <2>1. text \in Text
    BY DEF TreeInv
  <2> QED BY <2>1, HeadFacts
<1>3. Len(tree) > 0
  BY <1>1, <1>2 DEF TreeInv
<1>4. HeadLines \subseteq Nat
  BY <1>2
<1>5. ASSUME NEW s \in DOMAIN tree
      PROVE  tree[s].level \in Nat /\ (s # 1 => tree[s].level > 0)
  <2>1. CASE s = 1
    BY <2>1 DEF TreeInv
  <2>2. CASE s # 1
    <3>1. s \in 2 .. Len(tree)
      BY <1>1, <1>5, <2>2
    <3>2. tree[s].level \in 1 .. 6
      BY <3>1 DEF TreeInv
    <3> QED BY <3>2
  <2> QED BY <2>1, <2>2
<1> QED BY <1>1, <1>3, <1>4, <1>5

LEMMA AroundParent ==
  ASSUME TreeInv, NEW s \in 2 .. Len(tree)
  PROVE  AroundSection(s) \ {s} = AroundSection(tree[s].parent)
<1>1. PICK p : p = tree[s].parent
  OBVIOUS
<1>2. /\ p \in 1 .. s - 1 /\ tree[p].level < tree[s].level
      /\ \A r \in p + 1 .. s - 1 : tree[r].level >= tree[s].level
  BY <1>1 DEF TreeInv
<1>3. /\ s \in Nat /\ Len(tree) \in Nat /\ 1 .. s \subseteq DOMAIN tree
      /\ \A r \in 1 .. s : tree[r].level \in Nat
  BY TreeFacts
<1>4. ASSUME NEW r \in AroundSection(s), r # s
      PROVE  r \in AroundSection(p)
  <2>1. r \in 1 .. s - 1 /\ \A q \in r + 1 .. s : tree[q].level > tree[r].level
    BY <1>3, <1>4 DEF AroundSection
  <2>2. tree[s].level > tree[r].level
    BY <1>3, <2>1
  <2>3. ~(r > p)
    BY <1>2, <1>3, <2>1, <2>2
  <2> QED BY <1>2, <1>3, <2>1, <2>3 DEF AroundSection
<1>5. ASSUME NEW r \in AroundSection(p)
      PROVE  r \in AroundSection(s) /\ r # s
  <2>1. r \in 1 .. p /\ \A q \in r + 1 .. p : tree[q].level > tree[r].level
    BY DEF AroundSection
  <2>2. tree[r].level <= tree[p].level
    BY <1>2, <1>3, <2>1
  <2>3. ASSUME NEW q \in r + 1 .. s PROVE tree[q].level > tree[r].level
    <3>1. CASE q <= p
      BY <1>2, <2>1, <3>1
    <3>2. CASE q > p /\ q < s
      <4>1. q \in p + 1 .. s - 1 /\ q \in 1 .. s /\ p \in 1 .. s /\ r \in 1 .. s
        BY <1>2, <1>3, <2>1, <3>2
      <4>2. tree[q].level >= tree[s].level /\ tree[s].level > tree[p].level
        BY <1>2, <4>1
      <4>3. /\ tree[q].level \in Nat /\ tree[p].level \in Nat /\ tree[r].level \in Nat
            /\ tree[s].level \in Nat
        BY <1>3, <4>1
      <4> QED BY <2>2, <4>2, <4>3
    <3>3. CASE q = s
      BY <1>2, <1>3, <2>1, <2>2, <3>3
    <3> QED BY <1>2, <1>3, <2>1, <3>1, <3>2, <3>3
  <2> QED BY <1>2, <1>3, <2>1, <2>3 DEF AroundSection
<1> QED BY <1>1, <1>4, <1>5

LEMMA TitleIsOfNearest ==
  ASSUME TreeInv, NEW s \in DOMAIN tree
  PROVE  CurTitle[s] = NearestTitle(s)
<1> DEFINE Bad == {r \in DOMAIN tree : CurTitle[r] # NearestTitle(r)}
<1> SUFFICES ASSUME Bad # {}
             PROVE  FALSE
  OBVIOUS
<1>1. DOMAIN tree = 1 .. Len(tree) /\ Len(tree) \in Nat
  BY TreeFacts
<1>2. PICK n \in Bad : \A m \in Bad : ~(m < n)
  <2>1. Bad \subseteq Nat
    BY <1>1
  <2> HIDE DEF Bad
  <2> QED BY <2>1, LeastNumber
<1>3. n \in 1 .. Len(tree) /\ CurTitle[n] # NearestTitle(n)
  BY <1>1, <1>2
<1> HIDE DEF Bad
<1>4. CurTitle[n] = TitleBy(CurTitle, n)
  BY <1>1, <1>3, TitleTaken
<1>5. CASE tree[n].title # NoTitle
  <2>1. n \in Titled(n) /\ Titled(n) \in SUBSET (1 .. n) /\ n \in Nat
    BY <1>1, <1>3, <1>5 DEF Titled, AroundSection
  <2>2. Max(Titled(n)) \in 1 .. n /\ Max(Titled(n)) >= n
    BY <2>1, MinMaxFacts
  <2>3. Max(Titled(n)) = n
    BY <2>1, <2>2
  <2>4. NearestTitle(n) = tree[n].title
    BY <2>1, <2>3 DEF NearestTitle
  <2> QED BY <1>3, <1>4, <1>5, <2>4 DEF TitleBy
<1>6. CASE tree[n].title = NoTitle /\ n = 1
  <2>1. Titled(1) = {}
    BY <1>6 DEF Titled, AroundSection
  <2> QED BY <1>3, <1>4, <1>6, <2>1 DEF TitleBy, NearestTitle
<1>7. CASE tree[n].title = NoTitle /\ n # 1
  <2>1. n \in 2 .. Len(tree)
    BY <1>1, <1>3, <1>7
  <2>2. PICK p : p = tree[n].parent /\ p \in 1 .. n - 1
    BY <2>1 DEF TreeInv
  <2>3. Titled(n) = Titled(p)
    BY <1>7, <2>1, <2>2, AroundParent DEF Titled
  <2>4. p \in DOMAIN tree /\ p < n
    BY <1>1, <1>3, <2>2
  <2>5. CurTitle[p] = NearestTitle(p)
    BY <1>2, <2>4 DEF Bad
  <2>6. NearestTitle(n) = NearestTitle(p)
    BY <2>3 DEF NearestTitle
  <2>7. CurTitle[n] = CurTitle[p]
    BY <1>4, <1>7, <2>2 DEF TitleBy
  <2> QED BY <1>3, <2>5, <2>6, <2>7
<1> QED BY <1>5, <1>6, <1>7

(* Sections are made in the order of their lines. *)
LEMMA SectionOrder ==
  ASSUME TreeInv, NEW r \in 2 .. Len(tree), NEW s \in 2 .. Len(tree)
  PROVE  /\ LineOf(r) \in HeadLines /\ LineOf(r) \in Nat
         /\ r < s <=> LineOf(r) < LineOf(s)
<1>1. PICK i, j : i = LineOf(r) /\ j = LineOf(s)
  OBVIOUS
<1>2. /\ i \in HeadLines /\ Cardinality(HeadsTo(i)) = r - 1
      /\ j \in HeadLines /\ Cardinality(HeadsTo(j)) = s - 1
  BY <1>1 DEF TreeInv, HeadsTo
<1>3. i \in Nat /\ j \in Nat
  BY <1>2, TreeFacts
<1>4. i < j => r - 1 < s - 1
  BY <1>2, HeadFacts DEF TreeInv
<1>5. j < i => s - 1 < r - 1
  BY <1>2, HeadFacts DEF TreeInv
<1>6. i = j => r - 1 = s - 1
  BY <1>2
<1> QED BY <1>1, <1>2, <1>3, <1>4, <1>5, <1>6

LEMMA SectionOfLine ==
  ASSUME TreeInv, NEW s \in 2 .. Len(tree), NEW j \in HeadsTo(LineOf(s))
  PROVE  \E r \in 2 .. s : LineOf(r) = j
<1>1. PICK i : i = LineOf(s)
  OBVIOUS
<1>2. /\ i \in HeadLines /\ Cardinality(HeadsTo(i)) = s - 1
      /\ j \in HeadLines /\ j <= i
  BY <1>1 DEF TreeInv, HeadsTo
<1>3. i \in Nat /\ j \in Nat
  BY <1>2, TreeFacts
<1>4. PICK n : n = Cardinality(HeadsTo(j))
  OBVIOUS
<1>5. n \in Nat /\ IsFiniteSet(HeadsTo(j))
  BY <1>4, HeadFacts DEF TreeInv
<1>6. n <= s - 1
  <2>1. CASE j = i
    BY <1>2, <1>4, <2>1
  <2>2. CASE j < i
    <3>1. n < s - 1
      BY <1>2, <1>4, <2>2, HeadFacts DEF TreeInv
    <3> QED BY <1>5, <3>1
  <2> QED BY <1>2, <1>3, <2>1, <2>2
<1>7. n # 0
  <2>1. j \in HeadsTo(j)
    BY <1>2, <1>3 DEF HeadsTo
  <2> QED BY <1>4, <1>5, <2>1, FS_EmptySet
<1>8. PICK r \in 2 .. s : r = n + 1
  BY <1>5, <1>6, <1>7
<1>9. LineOf(r) = j
  BY <1>2, <1>4, <1>8, HeadOfNumber DEF TreeInv
<1> QED BY <1>9

(***************************************************************************)
(* The headings a reader sees around a line are those of the sections      *)
(* around the one it makes.                                                *)
(***************************************************************************)
LEMMA LinesAround ==
  ASSUME TreeInv, NEW s \in 2 .. Len(tree)
  PROVE  TitleOfLine(LineOf(s)) = NearestTitle(s)
<1> DEFINE titled == {j \in Around(LineOf(s)) : text[j].title # NoTitle}
<1>1. Len(tree) \in Nat /\ s \in Nat /\ HeadLines \subseteq Nat
  BY TreeFacts
<1>2. ASSUME NEW r \in 2 .. s
      PROVE  /\ LineOf(r) \in HeadLines /\ r \in 2 .. Len(tree)
             /\ tree[r].title = text[LineOf(r)].title
             /\ tree[r].level = text[LineOf(r)].level
  <2>1. r \in 2 .. Len(tree)
    BY <1>1
  <2>2. LineOf(r) \in HeadsTo(line)
    BY <2>1 DEF TreeInv
  <2> QED BY <2>1, <2>2 DEF TreeInv, HeadsTo
<1>3. \A q, r \in 2 .. s : q < r <=> LineOf(q) < LineOf(r)
  BY <1>2, SectionOrder
<1>4. \A r \in 2 .. s : LineOf(r) \in HeadsTo(LineOf(s))
  <2> SUFFICES ASSUME NEW r \in 2 .. s PROVE LineOf(r) \in HeadsTo(LineOf(s))
    OBVIOUS
  <2>1. LineOf(r) <= LineOf(s)
    <3>1. LineOf(r) \in Nat /\ LineOf(s) \in Nat
      <4>1. s \in 2 .. s
        BY <1>1
      <4> QED BY <1>1, <1>2, <4>1
    <3>2. ~(LineOf(s) < LineOf(r))
      BY <1>1, <1>3
    <3> QED BY <3>1, <3>2
  <2> QED BY <1>2, <2>1 DEF HeadsTo
<1>5. \A r \in 2 .. s : r \in AroundSection(s) <=> LineOf(r) \in Around(LineOf(s))
  <2> SUFFICES ASSUME NEW r \in 2 .. s
               PROVE  r \in AroundSection(s) <=> LineOf(r) \in Around(LineOf(s))
    OBVIOUS
  <2>1. ASSUME r \in AroundSection(s), NEW h \in HeadsTo(LineOf(s)), h > LineOf(r)
        PROVE  text[h].level > text[LineOf(r)].level
    <3>1. PICK q \in 2 .. s : LineOf(q) = h
      BY SectionOfLine
    <3>2. q > r
      BY <1>1, <1>2, <1>3, <2>1, <3>1
    <3>3. q \in r + 1 .. s
      BY <1>1, <3>2
    <3>4. tree[q].level > tree[r].level
      BY <2>1, <3>3 DEF AroundSection
    <3> QED BY <1>2, <3>1, <3>4
  <2>2. ASSUME LineOf(r) \in Around(LineOf(s)), NEW q \in r + 1 .. s
        PROVE  tree[q].level > tree[r].level
    <3>1. q \in 2 .. s /\ r < q
      BY <1>1
    <3>2. LineOf(q) > LineOf(r) /\ LineOf(q) \in HeadsTo(LineOf(s))
      BY <1>1, <1>2, <1>3, <1>4, <3>1
    <3>3. text[LineOf(q)].level > text[LineOf(r)].level
      BY <2>2, <3>2 DEF Around
    <3> QED BY <1>2, <3>1, <3>3
  <2> QED BY <1>1, <1>4, <2>1, <2>2 DEF Around, AroundSection
<1>6. 1 \notin Titled(s) /\ Titled(s) \subseteq 2 .. s
  BY <1>1 DEF Titled, AroundSection, TreeInv
<1>7. \A r \in 2 .. s : r \in Titled(s) <=> LineOf(r) \in titled
  BY <1>2, <1>5 DEF Titled
<1>8. \A j \in titled : \E r \in Titled(s) : LineOf(r) = j
  <2> SUFFICES ASSUME NEW j \in titled PROVE \E r \in Titled(s) : LineOf(r) = j
    OBVIOUS
  <2>1. j \in HeadsTo(LineOf(s))
    BY DEF Around
  <2>2. PICK r \in 2 .. s : LineOf(r) = j
    BY <2>1, SectionOfLine
  <2> QED BY <1>7, <2>2
<1>9. CASE Titled(s) = {}
  <2>1. titled = {}
    BY <1>8, <1>9
  <2> QED BY <1>9, <2>1 DEF TitleOfLine, NearestTitle
<1>10. CASE Titled(s) # {}
  <2>1. Titled(s) \in SUBSET (1 .. s)
    BY <1>6
  <2>2. PICK m : m = Max(Titled(s)) /\ m \in Titled(s) /\ \A r \in Titled(s) : m >= r
    BY <1>1, <1>10, <2>1, MinMaxFacts
  <2>3. m \in 2 .. s /\ LineOf(m) \in titled
    BY <1>6, <1>7, <2>2
  <2>4. PICK n \in Nat : HeadLines \subseteq 1 .. n
    BY HeadFacts DEF TreeInv
  <2>5. titled \in SUBSET (1 .. n)
    BY <2>4 DEF Around, HeadsTo
  <2>6. PICK x : x = Max(titled) /\ x \in titled /\ \A j \in titled : x >= j
    BY <2>3, <2>4, <2>5, MinMaxFacts
  <2>7. PICK r \in Titled(s) : LineOf(r) = x
    BY <1>8, <2>6
  <2>8. r \in 2 .. s /\ m >= r /\ LineOf(r) >= LineOf(m)
    BY <1>6, <2>2, <2>3, <2>6, <2>7
  <2>9. r = m
    <3>1. ~(r < m)
      <4>1. r < m => LineOf(r) < LineOf(m)
        BY <1>3, <2>3, <2>8
      <4>2. LineOf(r) \in Nat /\ LineOf(m) \in Nat
        BY <1>1, <1>2, <2>3, <2>8
      <4> QED BY <2>8, <4>1, <4>2
    <3> QED BY <1>1, <2>3, <2>8, <3>1
  <2>10. TitleOfLine(LineOf(s)) = text[x].title
    BY <2>3, <2>6 DEF TitleOfLine
  <2>11. NearestTitle(s) = tree[m].title
    BY <1>10, <2>2 DEF NearestTitle
  <2> QED BY <1>2, <2>3, <2>7, <2>9, <2>10, <2>11
<1> QED BY <1>9, <1>10

-----------------------------------------------------------------------------
(* Reading a heading.                                                      *)

LEMMA FlushedFacts ==
  ASSUME SplitType
  PROVE  /\ IsSeq(Flushed) /\ Len(Flushed) = Len(tree)
         /\ \A s \in DOMAIN tree : /\ Flushed[s].title = tree[s].title
                                   /\ Flushed[s].level = tree[s].level
                                   /\ Flushed[s].parent = tree[s].parent
<1>1. PICK n \in Nat : n = Len(tree) /\ DOMAIN tree = 1 .. n
  BY SeqFacts DEF SplitType
<1>2. PICK f : f = Flushed
  OBVIOUS
<1>3. IsSeq(f)
  BY <1>2, FlushedType
<1>4. DOMAIN f = 1 .. n
  BY <1>1, <1>2 DEF Flushed
<1>5. Len(f) = n
  <2>1. PICK m \in Nat : m = Len(f) /\ DOMAIN f = 1 .. m
    BY <1>3, SeqFacts
  <2>2. m = n
    BY <1>4, <2>1
  <2> QED BY <2>1, <2>2
<1>6. ASSUME NEW s \in 1 .. n
      PROVE  f[s].title = tree[s].title /\ f[s].level = tree[s].level /\ f[s].parent = tree[s].parent
  <2>1. CASE s = Last(stack)
    <3>1. f[s] = [tree[s] EXCEPT !.content = @ \o Strip(buf)]
      BY <1>1, <1>2, <2>1 DEF Flushed
    <3>2. PICK c : f[s] = [tree[s] EXCEPT !.content = c]
      BY <3>1
    <3> QED BY <3>2
  <2>2. CASE s # Last(stack)
    BY <1>1, <1>2, <2>2 DEF Flushed
  <2> QED BY <2>1, <2>2
<1> QED BY <1>1, <1>2, <1>3, <1>5, <1>6

\* A heading closes the sections that are not above it.
LEMMA OpenFacts ==
  ASSUME TreeInv, StackInv, NEW lv \in 1 .. 6
  PROVE  \E K \in 1 .. Len(stack) :
           /\ OpenAbove(lv) = SubSeq(stack, 1, K)
           /\ \A k \in DOMAIN stack : k <= K <=> tree[stack[k]].level < lv
           /\ tree[stack[K]].level < lv
           /\ \A r \in stack[K] + 1 .. Len(tree) : tree[r].level >= lv
<1>1. /\ Len(stack) \in Nat /\ Len(stack) > 0 /\ DOMAIN stack = 1 .. Len(stack)
      /\ Len(tree) \in Nat /\ Len(tree) > 0 /\ DOMAIN tree = 1 .. Len(tree)
      /\ \A s \in DOMAIN tree : tree[s].level \in Nat
      /\ \A k \in DOMAIN stack : stack[k] \in DOMAIN tree
  BY SeqFacts, TreeFacts DEF StackInv
<1> DEFINE above == {k \in DOMAIN stack : tree[stack[k]].level < lv}
<1>2. 1 \in above
  <2>1. stack[1] = 1 /\ tree[1].level = 0
    BY DEF StackInv, TreeInv
  <2> QED BY <1>1, <2>1
<1>3. {1} \cup above = above /\ above \in SUBSET (1 .. Len(stack)) /\ above # {}
  BY <1>1, <1>2
<1>4. PICK K : K = Max(above) /\ K \in above /\ \A k \in above : K >= k
  <2> HIDE DEF above
  <2> QED BY <1>1, <1>3, MinMaxFacts
<1>5. K \in 1 .. Len(stack)
  BY <1>1, <1>4
<1>6. OpenAbove(lv) = SubSeq(stack, 1, K)
  BY <1>3, <1>4 DEF OpenAbove
<1>7. \A k, m \in DOMAIN stack : k < m => stack[k] < stack[m] /\ tree[stack[m]].level > tree[stack[k]].level
  <2> SUFFICES ASSUME NEW k \in DOMAIN stack, NEW m \in DOMAIN stack, k < m
               PROVE  stack[k] < stack[m] /\ tree[stack[m]].level > tree[stack[k]].level
    OBVIOUS
  <2>1. stack[k] < stack[m]
    BY DEF StackInv
  <2>2. \A q \in stack[k] + 1 .. Len(tree) : tree[q].level > tree[stack[k]].level
    BY <1>1 DEF StackInv
  <2>3. stack[k] \in 1 .. Len(tree) /\ stack[m] \in 1 .. Len(tree)
    BY <1>1
  <2>4. stack[m] \in stack[k] + 1 .. Len(tree)
    BY <1>1, <2>1, <2>3
  <2> QED BY <2>1, <2>2, <2>4
<1>8. ASSUME NEW k \in DOMAIN stack
      PROVE  k <= K <=> tree[stack[k]].level < lv
  <2>1. tree[stack[k]].level < lv => k <= K
    BY <1>1, <1>4, <1>5
  <2>2. ASSUME k <= K
        PROVE  tree[stack[k]].level < lv
    <3>1. CASE k = K
      BY <1>4, <3>1
    <3>2. CASE k < K
      <4>1. tree[stack[K]].level > tree[stack[k]].level /\ tree[stack[K]].level < lv
        BY <1>1, <1>4, <1>5, <1>7, <3>2
      <4>2. tree[stack[K]].level \in Nat /\ tree[stack[k]].level \in Nat
        BY <1>1, <1>5
      <4> QED BY <4>1, <4>2
    <3> QED BY <1>1, <1>5, <2>2, <3>1, <3>2
  <2> QED BY <2>1, <2>2
<1>9. \A r \in stack[K] + 1 .. Len(tree) : tree[r].level >= lv
  <2> DEFINE low == {r \in stack[K] + 1 .. Len(tree) : tree[r].level < lv}
  <2>1. stack[K] \in 1 .. Len(tree) /\ K \in DOMAIN stack
    BY <1>1, <1>5
  <2>2. ASSUME low # {}
        PROVE  FALSE
    <3>1. low \in SUBSET (1 .. Len(tree))
      BY <1>1, <2>1
    <3>2. PICK r : r \in low /\ \A q \in low : r >= q
      <4> HIDE DEF low
      <4> QED BY <1>1, <2>2, <3>1, MinMaxFacts
    <3>3. r \in DOMAIN tree /\ r > stack[K] /\ tree[r].level < lv
      BY <1>1, <2>1, <3>2
    <3>4. \A q \in r + 1 .. Len(tree) : tree[q].level > tree[r].level
      <4> SUFFICES ASSUME NEW q \in r + 1 .. Len(tree) PROVE tree[q].level > tree[r].level
        OBVIOUS
      <4>1. q \in stack[K] + 1 .. Len(tree) /\ ~(r >= q) /\ q \in DOMAIN tree
        BY <1>1, <2>1, <3>3
      <4>2. ~(tree[q].level < lv)
        BY <3>2, <4>1
      <4>3. tree[q].level \in Nat /\ tree[r].level \in Nat
        BY <1>1, <3>3, <4>1
      <4> QED BY <3>3, <4>2, <4>3
    <3>5. PICK k \in DOMAIN stack : stack[k] = r
      BY <3>3, <3>4 DEF StackInv
    <3>6. k <= K
      BY <1>8, <3>3, <3>5
    <3>7. stack[k] <= stack[K]
      <4>1. CASE k = K
        BY <1>1, <2>1, <4>1
      <4>2. CASE k < K
        BY <1>1, <1>7, <2>1, <4>2
      <4> QED BY <1>1, <1>5, <3>6, <4>1, <4>2
    <3> QED BY <1>1, <2>1, <3>3, <3>5, <3>7
  <2>3. ASSUME NEW r \in stack[K] + 1 .. Len(tree)
        PROVE  tree[r].level >= lv
    <3>1. tree[r].level \in Nat
      BY <1>1, <2>1
    <3>2. ~(tree[r].level < lv)
      BY <2>2
    <3> QED BY <3>1, <3>2
  <2> QED BY <2>3
<1>10. tree[stack[K]].level < lv
  BY <1>4
<1> QED BY <1>5, <1>6, <1>8, <1>9, <1>10

LEMMA HeadingFacts ==
  ASSUME SplitType, line < Len(text), text[line + 1].heading
  PROVE  line + 1 \in HeadLines /\ text[line + 1].level \in 1 .. 6
<1> DEFINE H == [heading : {TRUE}, level : 1 .. 6, title : STRING]
           B == [heading : {FALSE}, body : Seq(STRING)]
<1>1. text \in Seq(H \cup B)
  BY SplitAssumption DEF SplitType
<1> HIDE DEF H, B
<1>2. line + 1 \in DOMAIN text
  <2>1. PICK n \in Nat : n = Len(text) /\ DOMAIN text = 1 .. n
    BY <1>1
  <2>2. line \in Nat
    BY DEF SplitType
  <2> QED BY <2>1, <2>2
<1>3. PICK x \in H \cup B : x = text[line + 1]
  BY <1>1, <1>2
<1>4. x \notin B
  BY <1>3 DEF B
<1>5. x.level \in 1 .. 6
  BY <1>4 DEF H
<1> QED BY <1>2, <1>3, <1>5 DEF HeadLines

\* One more line, and a heading if it is one.
LEMMA HeadsGrow ==
  ASSUME SplitType
  PROVE  /\ line + 1 \in HeadLines =>
              /\ HeadsTo(line + 1) = HeadsTo(line) \cup {line + 1}
              /\ Cardinality(HeadsTo(line + 1)) = Cardinality(HeadsTo(line)) + 1
         /\ line + 1 \notin HeadLines => HeadsTo(line + 1) = HeadsTo(line)
<1>1. line \in Nat /\ HeadLines \subseteq Nat /\ IsFiniteSet(HeadsTo(line))
  BY HeadFacts DEF SplitType
<1>2. \A j \in HeadLines : j <= line + 1 <=> j <= line \/ j = line + 1
  BY <1>1
<1>3. line + 1 \notin HeadsTo(line)
  BY <1>1 DEF HeadsTo
<1>4. line + 1 \in HeadLines => HeadsTo(line + 1) = HeadsTo(line) \cup {line + 1}
  BY <1>2 DEF HeadsTo
<1>5. line + 1 \notin HeadLines => HeadsTo(line + 1) = HeadsTo(line)
  BY <1>2 DEF HeadsTo
<1> QED BY <1>1, <1>3, <1>4, <1>5, FS_AddElement

LEMMA TreeGrows ==
  ASSUME SplitType, TreeInv, StackInv, ReadHeading
  PROVE  TreeInv' /\ StackInv'
<1> DEFINE n == Len(tree)
           head == text[line + 1]
<1>1. /\ n \in Nat /\ n > 0 /\ DOMAIN tree = 1 .. n /\ line \in Nat
      /\ \A s \in 1 .. n : tree[s].level \in Nat
  BY TreeFacts DEF TreeInv
<1>2. line + 1 \in HeadLines /\ head.level \in 1 .. 6
  BY HeadingFacts DEF ReadHeading
<1>3. PICK K \in 1 .. Len(stack) :
           /\ OpenAbove(head.level) = SubSeq(stack, 1, K)
           /\ \A k \in DOMAIN stack : k <= K <=> tree[stack[k]].level < head.level
           /\ tree[stack[K]].level < head.level
           /\ \A r \in stack[K] + 1 .. Len(tree) : tree[r].level >= head.level
  BY <1>2, OpenFacts
<1>4. PICK open : open = OpenAbove(head.level)
  OBVIOUS
<1>5. /\ Len(stack) \in Nat /\ DOMAIN stack = 1 .. Len(stack)
      /\ \A k \in DOMAIN stack : stack[k] \in 1 .. n
  BY <1>1, SeqFacts DEF StackInv
<1>6. /\ IsSeq(open) /\ Len(open) = K /\ \A k \in 1 .. K : open[k] = stack[k]
      /\ Last(open) = stack[K]
  <2>1. PICK S : stack \in Seq(S)
    BY DEF StackInv, IsSeq
  <2>2. open = SubSeq(stack, 1, K) /\ K \in 1 .. Len(stack) /\ K \in Nat
    BY <1>3, <1>4, <1>5
  <2>3. open \in Seq(S) /\ Len(open) = K /\ \A k \in 1 .. K : open[k] = stack[k]
    BY <1>5, <2>1, <2>2
  <2>4. Last(open) = stack[K]
    BY <2>2, <2>3 DEF Last
  <2> QED BY <2>3, <2>4, SeqOfItsRange
<1>7. PICK p : p = stack[K] /\ p \in 1 .. n
  BY <1>5
<1>8. PICK f : f = Flushed
  OBVIOUS
<1>9. /\ IsSeq(f) /\ Len(f) = n
      /\ \A s \in 1 .. n : /\ f[s].title = tree[s].title /\ f[s].level = tree[s].level
                          /\ f[s].parent = tree[s].parent
  BY <1>1, <1>8, FlushedFacts
<1>10. PICK sec : sec = Section(head.title, head.level, p)
  OBVIOUS
<1>11. sec.title = head.title /\ sec.level = head.level /\ sec.parent = p
  BY <1>10 DEF Section
<1>12. /\ tree' = Append(f, sec) /\ stack' = Append(open, n + 1)
       /\ line' = line + 1 /\ text' = text
  BY <1>4, <1>6, <1>7, <1>8, <1>10 DEF ReadHeading
<1>13. /\ IsSeq(tree') /\ DOMAIN tree' = 1 .. n + 1 /\ Len(tree') = n + 1
       /\ tree'[n + 1] = sec /\ \A s \in 1 .. n : tree'[s] = f[s]
  <2>1. /\ IsSeq(tree') /\ DOMAIN tree' = 1 .. n + 1
        /\ tree'[n + 1] = sec /\ \A s \in 1 .. n : tree'[s] = f[s]
    BY <1>9, <1>12, SeqFacts
  <2>2. PICK m \in Nat : m = Len(tree') /\ DOMAIN tree' = 1 .. m
    BY <2>1, SeqFacts
  <2>3. m = n + 1
    BY <1>1, <2>1, <2>2
  <2> QED BY <2>1, <2>2, <2>3
<1>14. \A s \in 1 .. n : /\ tree'[s].title = tree[s].title /\ tree'[s].level = tree[s].level
                          /\ tree'[s].parent = tree[s].parent
  BY <1>9, <1>13
<1>15. /\ IsSeq(stack') /\ DOMAIN stack' = 1 .. K + 1 /\ Len(stack') = K + 1
       /\ stack'[K + 1] = n + 1 /\ \A k \in 1 .. K : stack'[k] = stack[k]
  <2>1. /\ IsSeq(stack') /\ DOMAIN stack' = 1 .. K + 1
        /\ stack'[K + 1] = n + 1 /\ \A k \in 1 .. K : stack'[k] = stack[k]
    BY <1>6, <1>12, SeqFacts
  <2>2. PICK m \in Nat : m = Len(stack') /\ DOMAIN stack' = 1 .. m
    BY <2>1, SeqFacts
  <2>3. m = K + 1
    BY <1>5, <2>1, <2>2
  <2> QED BY <2>1, <2>2, <2>3
<1> HIDE DEF n, head
<1>16. HeadLines' = HeadLines /\ Heads' = Heads /\ \A i : HeadsTo(i)' = HeadsTo(i)
  BY <1>12 DEF HeadLines, Heads, HeadsTo
<1>17. /\ HeadsTo(line + 1) = HeadsTo(line) \cup {line + 1}
       /\ Cardinality(HeadsTo(line + 1)) = n /\ Cardinality(HeadsTo(line)) + 1 = n
  <2>1. Cardinality(HeadsTo(line)) + 1 = n
    BY DEF TreeInv, n
  <2> QED BY <1>2, <2>1, HeadsGrow
<1>18. LineOf(n + 1) = line + 1
  BY <1>2, <1>17, HeadOfNumber DEF TreeInv
<1>19. \A s : LineOf(s)' = LineOf(s)
  BY <1>16 DEF LineOf
<1>20. HeadsTo(line)' = HeadsTo(line) \cup {line + 1}
  BY <1>12, <1>16, <1>17 DEF HeadsTo
<1>21. TreeInv'
  <2>1. text' \in Text /\ line' \in Nat /\ IsSeq(tree')
    BY <1>1, <1>12, <1>13 DEF TreeInv
  <2>2. Len(tree') = Cardinality(HeadsTo(line)') + 1
    BY <1>13, <1>17, <1>20
  <2>3. tree'[1].title = NoTitle /\ tree'[1].level = 0
    BY <1>1, <1>14 DEF TreeInv
  <2>4. ASSUME NEW s \in 2 .. Len(tree')
        PROVE  /\ LineOf(s) \in HeadsTo(line)' /\ Cardinality(HeadsTo(LineOf(s))) = s - 1
               /\ tree'[s].title = text[LineOf(s)].title
               /\ tree'[s].level = text[LineOf(s)].level /\ tree'[s].level \in 1 .. 6
               /\ tree'[s].parent \in 1 .. s - 1
               /\ tree'[tree'[s].parent].level < tree'[s].level
               /\ \A r \in tree'[s].parent + 1 .. s - 1 : tree'[r].level >= tree'[s].level
    <3>1. CASE s = n + 1
      <4>1. tree'[s].title = head.title /\ tree'[s].level = head.level /\ tree'[s].parent = p
        BY <1>11, <1>13, <3>1
      <4>2. head = text[LineOf(s)]
        BY <1>18, <3>1 DEF head
      <4>3. LineOf(s) \in HeadsTo(line)' /\ Cardinality(HeadsTo(LineOf(s))) = s - 1
        BY <1>1, <1>17, <1>18, <1>20, <3>1
      <4>4. p \in 1 .. s - 1 /\ tree'[p].level < head.level
        BY <1>1, <1>3, <1>7, <1>14, <3>1
      <4>5. ASSUME NEW r \in p + 1 .. s - 1
            PROVE  tree'[r].level >= head.level
        <5>1. r \in p + 1 .. n /\ r \in 1 .. n
          BY <1>1, <1>7, <3>1
        <5> QED BY <1>3, <1>7, <1>14, <5>1 DEF n
      <4> QED BY <1>2, <4>1, <4>2, <4>3, <4>4, <4>5
    <3>2. CASE s # n + 1
      <4>1. s \in 2 .. n /\ s \in 1 .. n /\ n \in Nat
        BY <1>1, <1>13, <3>2
      <4>2. /\ LineOf(s) \in HeadsTo(line) /\ Cardinality(HeadsTo(LineOf(s))) = s - 1
            /\ tree[s].title = text[LineOf(s)].title
            /\ tree[s].level = text[LineOf(s)].level /\ tree[s].level \in 1 .. 6
            /\ tree[s].parent \in 1 .. s - 1
            /\ tree[tree[s].parent].level < tree[s].level
            /\ \A r \in tree[s].parent + 1 .. s - 1 : tree[r].level >= tree[s].level
        BY <4>1 DEF TreeInv, n
      <4>3. tree[s].parent \in 1 .. n /\ \A r \in tree[s].parent + 1 .. s - 1 : r \in 1 .. n
        BY <4>1, <4>2
      <4>4. /\ tree'[s].title = tree[s].title /\ tree'[s].level = tree[s].level
            /\ tree'[s].parent = tree[s].parent
            /\ tree'[tree[s].parent].level = tree[tree[s].parent].level
            /\ \A r \in tree[s].parent + 1 .. s - 1 : tree'[r].level = tree[r].level
        BY <1>14, <4>1, <4>3
      <4>5. LineOf(s) \in HeadsTo(line)'
        BY <1>20, <4>2
      <4> QED BY <4>2, <4>4, <4>5
    <3> QED BY <3>1, <3>2
  <2>5. \A s : LineOf(s)' = LineOf(s) /\ HeadsTo(LineOf(s))' = HeadsTo(LineOf(s))
    BY <1>12, <1>16, <1>19 DEF HeadsTo
  <2> QED BY <1>12, <2>1, <2>2, <2>3, <2>4, <2>5 DEF TreeInv
<1>22. StackInv'
  <2>1. stack'[1] = 1 /\ stack'[Len(stack')] = Len(tree') /\ Len(stack') > 0 /\ K \in Nat
    BY <1>5, <1>13, <1>15 DEF StackInv
  <2>2. \A k, m \in DOMAIN stack' : k < m => stack'[k] < stack'[m]
    <3> SUFFICES ASSUME NEW k \in DOMAIN stack', NEW m \in DOMAIN stack', k < m
                 PROVE  stack'[k] < stack'[m]
      OBVIOUS
    <3>1. k \in 1 .. K /\ k \in DOMAIN stack /\ stack'[k] = stack[k] /\ stack[k] \in 1 .. n
      BY <1>5, <1>15
    <3>2. CASE m = K + 1
      BY <1>1, <1>15, <3>1, <3>2
    <3>3. CASE m # K + 1
      <4>1. m \in 1 .. K /\ m \in DOMAIN stack /\ stack'[m] = stack[m]
        BY <1>5, <1>15, <3>3
      <4> QED BY <3>1, <4>1 DEF StackInv
    <3> QED BY <3>2, <3>3
  <2>3. \A k \in DOMAIN stack' : stack'[k] \in DOMAIN tree'
    <3> SUFFICES ASSUME NEW k \in DOMAIN stack' PROVE stack'[k] \in DOMAIN tree'
      OBVIOUS
    <3>1. CASE k = K + 1
      BY <1>1, <1>13, <1>15, <3>1
    <3>2. CASE k # K + 1
      <4>1. k \in 1 .. K /\ stack[k] \in 1 .. n
        BY <1>5, <1>15, <3>2
      <4> QED BY <1>1, <1>13, <1>15, <4>1
    <3> QED BY <3>1, <3>2
  <2>4. ASSUME NEW r \in DOMAIN tree'
        PROVE  (\E k \in DOMAIN stack' : stack'[k] = r)
                 <=> \A q \in r + 1 .. Len(tree') : tree'[q].level > tree'[r].level
    <3>1. CASE r = n + 1
      <4>1. K + 1 \in DOMAIN stack' /\ stack'[K + 1] = r
        BY <1>5, <1>15, <3>1
      <4>2. r + 1 .. Len(tree') = {}
        BY <1>1, <1>13, <3>1
      <4> QED BY <4>1, <4>2
    <3>2. CASE r # n + 1
      <4>1. r \in 1 .. n /\ r \in DOMAIN tree /\ tree'[r].level = tree[r].level /\ tree[r].level \in Nat
        BY <1>1, <1>13, <1>14, <3>2
      <4>2. (\E k \in DOMAIN stack' : stack'[k] = r) <=> \E k \in 1 .. K : stack[k] = r
        <5>1. \A k \in 1 .. K : k \in DOMAIN stack' /\ stack'[k] = stack[k]
          BY <1>5, <1>15
        <5>2. \A k \in DOMAIN stack' : stack'[k] = r => k \in 1 .. K
          BY <1>1, <1>15, <2>1, <3>2
        <5> QED BY <5>1, <5>2
      <4>3. (\A q \in r + 1 .. Len(tree') : tree'[q].level > tree'[r].level)
            <=> /\ \A q \in r + 1 .. n : tree[q].level > tree[r].level
                /\ head.level > tree[r].level
        <5>1. tree'[n + 1].level = head.level /\ n + 1 \in r + 1 .. n + 1
          BY <1>1, <1>11, <1>13, <4>1
        <5>2. \A q \in r + 1 .. n : q \in r + 1 .. n + 1 /\ tree'[q].level = tree[q].level
          BY <1>1, <1>14, <4>1
        <5>3. \A q \in r + 1 .. n + 1 : q = n + 1 \/ q \in r + 1 .. n
          BY <1>1, <4>1
        <5> QED BY <1>13, <4>1, <5>1, <5>2, <5>3
      <4>4. (\E k \in DOMAIN stack : stack[k] = r) <=> \A q \in r + 1 .. n : tree[q].level > tree[r].level
        BY <4>1 DEF StackInv, n
      <4>5. ASSUME NEW k \in DOMAIN stack, stack[k] = r
            PROVE  k \in 1 .. K <=> head.level > tree[r].level
        <5>1. k <= K <=> tree[r].level < head.level
          BY <1>3, <4>5
        <5> QED BY <1>2, <1>5, <4>1, <5>1
      <4>6. 1 .. K \subseteq DOMAIN stack
        BY <1>5
      <4> QED BY <4>2, <4>3, <4>4, <4>5, <4>6
    <3> QED BY <3>1, <3>2
  <2> QED BY <1>15, <2>1, <2>2, <2>3, <2>4 DEF StackInv
<1> QED BY <1>21, <1>22

-----------------------------------------------------------------------------
(***************************************************************************)
(* While the text is read there are no paragraphs; from then on the tree   *)
(* stays, and a paragraph has the title its section takes.                 *)
(***************************************************************************)
TitleInv ==
  /\ phase = "parse" => StackInv /\ raws = <<>> /\ rest = <<>> /\ visited = 0
  /\ rest # <<>> => visited # 0
  /\ visited \in 0 .. Len(tree)
  /\ \A k \in DOMAIN raws : /\ raws[k].section \in DOMAIN tree
                            /\ raws[k].title = CurTitle[raws[k].section]

LEMMA TreeStays ==
  ASSUME SplitType, TreeInv, text' = text, IsSeq(tree'), Len(tree') = Len(tree),
         \A s \in DOMAIN tree : /\ tree'[s].title = tree[s].title
                                /\ tree'[s].level = tree[s].level
                                /\ tree'[s].parent = tree[s].parent,
         line' \in Nat, HeadsTo(line)' = HeadsTo(line)
  PROVE  TreeInv'
<1>1. HeadLines' = HeadLines /\ Heads' = Heads /\ \A i : HeadsTo(i)' = HeadsTo(i)
  BY DEF HeadLines, Heads, HeadsTo
<1>2. \A s : LineOf(s)' = LineOf(s)
  BY <1>1 DEF LineOf
<1>3. \A s : HeadsTo(LineOf(s))' = HeadsTo(LineOf(s))
  BY <1>1, <1>2 DEF HeadsTo
<1>4. PICK n \in Nat : n = Len(tree) /\ n > 0 /\ DOMAIN tree = 1 .. n
  BY TreeFacts
<1>5. tree'[1].title = NoTitle /\ tree'[1].level = 0
  BY <1>4 DEF TreeInv
<1>6. ASSUME NEW s \in 2 .. n
      PROVE  /\ LineOf(s) \in HeadsTo(line)' /\ Cardinality(HeadsTo(LineOf(s))) = s - 1
             /\ tree'[s].title = text[LineOf(s)].title
             /\ tree'[s].level = text[LineOf(s)].level /\ tree'[s].level \in 1 .. 6
             /\ tree'[s].parent \in 1 .. s - 1
             /\ tree'[tree'[s].parent].level < tree'[s].level
             /\ \A r \in tree'[s].parent + 1 .. s - 1 : tree'[r].level >= tree'[s].level
  <2>1. /\ LineOf(s) \in HeadsTo(line) /\ Cardinality(HeadsTo(LineOf(s))) = s - 1
        /\ tree[s].title = text[LineOf(s)].title
        /\ tree[s].level = text[LineOf(s)].level /\ tree[s].level \in 1 .. 6
        /\ tree[s].parent \in 1 .. s - 1
        /\ tree[tree[s].parent].level < tree[s].level
        /\ \A r \in tree[s].parent + 1 .. s - 1 : tree[r].level >= tree[s].level
    BY <1>4 DEF TreeInv
  <2>2. tree[s].parent \in 1 .. n /\ \A r \in tree[s].parent + 1 .. s - 1 : r \in 1 .. n
    BY <1>4, <2>1
  <2>3. /\ tree'[s].title = tree[s].title /\ tree'[s].level = tree[s].level
        /\ tree'[s].parent = tree[s].parent
        /\ tree'[tree[s].parent].level = tree[tree[s].parent].level
        /\ \A r \in tree[s].parent + 1 .. s - 1 : tree'[r].level = tree[r].level
    BY <1>4, <2>2
  <2> QED BY <2>1, <2>3
<1> QED BY <1>2, <1>3, <1>4, <1>5, <1>6 DEF TreeInv

\* Walking leaves the tree and the titles.
LEMMA TreeSame ==
  ASSUME TreeInv, UNCHANGED <<text, line, tree>>
  PROVE  TreeInv' /\ CurTitle' = CurTitle
<1>1. HeadLines' = HeadLines /\ Heads' = Heads /\ \A i : HeadsTo(i)' = HeadsTo(i)
  BY DEF HeadLines, Heads, HeadsTo
<1>2. \A s : LineOf(s)' = LineOf(s)
  BY <1>1 DEF LineOf
<1>3. /\ \A s : HeadsTo(LineOf(s))' = HeadsTo(LineOf(s))
      /\ HeadsTo(line)' = HeadsTo(line)
  BY <1>1, <1>2 DEF HeadsTo
<1> QED BY <1>2, <1>3 DEF TreeInv, CurTitle

LEMMA TitlesKept == SplitSpec => [](TreeInv /\ TitleInv)
<1>1. SplitInit => TreeInv /\ TitleInv
  <2> SUFFICES ASSUME SplitInit
               PROVE  TreeInv /\ TitleInv
    OBVIOUS
  <2>1. PICK root : root = Section(NoTitle, 0, 0)
    OBVIOUS
  <2>2. /\ text \in Text /\ line = 0 /\ tree = <<root>> /\ stack = <<1>>
        /\ visited = 0 /\ rest = <<>> /\ raws = <<>>
        /\ root.title = NoTitle /\ root.level = 0
    BY <2>1 DEF SplitInit, Section
  <2>3. /\ IsSeq(tree) /\ Len(tree) = 1 /\ DOMAIN tree = {1} /\ tree[1] = root
        /\ IsSeq(stack) /\ Len(stack) = 1 /\ DOMAIN stack = {1} /\ stack[1] = 1
    <3>1. <<root>> \in Seq({root}) /\ <<1>> \in Seq({1})
      OBVIOUS
    <3>2. IsSeq(tree) /\ IsSeq(stack)
      BY <2>2, <3>1, SeqOfItsRange
    <3> QED BY <2>2, <3>2
  <2>4. HeadsTo(line) = {} /\ Cardinality(HeadsTo(line)) = 0
    <3>1. \A j \in HeadLines : ~(j <= 0)
      BY <2>2, HeadFacts
    <3>2. HeadsTo(line) = {}
      BY <2>2, <3>1 DEF HeadsTo
    <3> QED BY <3>2, FS_EmptySet
  <2>5. TreeInv
    BY <2>2, <2>3, <2>4 DEF TreeInv
  <2>6. StackInv
    BY <2>2, <2>3 DEF StackInv
  <2> QED BY <2>2, <2>3, <2>5, <2>6 DEF TitleInv
<1>2. SplitInv /\ TreeInv /\ TitleInv /\ [SplitNext]_splitVars => TreeInv' /\ TitleInv'
  <2> SUFFICES ASSUME SplitInv, TreeInv, TitleInv, [SplitNext]_splitVars
               PROVE  TreeInv' /\ TitleInv'
    OBVIOUS
  <2>0. /\ SplitType /\ DOMAIN tree = 1 .. Len(tree) /\ Len(tree) \in Nat /\ IsSeq(raws)
    BY TreeFacts DEF SplitInv, SplitType
  <2>1. ASSUME UNCHANGED <<text, line, tree, stack, visited, rest, raws>>,
               phase' = phase \/ phase' # "parse"
        PROVE  TreeInv' /\ TitleInv'
    <3>1. TreeInv' /\ CurTitle' = CurTitle
      BY <2>1, TreeSame
    <3>2. StackInv => StackInv'
      BY <2>1 DEF StackInv
    <3> QED BY <2>1, <3>1, <3>2 DEF TitleInv
  <2>2. CASE ReadHeading
    <3>1. /\ phase = "parse" /\ raws = <<>> /\ rest = <<>> /\ visited = 0 /\ StackInv
          /\ UNCHANGED <<visited, rest, raws>>
      BY <2>2 DEF ReadHeading, TitleInv
    <3>2. TreeInv' /\ StackInv'
      BY <2>0, <2>2, <3>1, TreeGrows
    <3>3. Len(tree') \in Nat
      BY <3>2, SeqFacts DEF TreeInv
    <3> QED BY <3>1, <3>2, <3>3 DEF TitleInv
  <2>3. CASE ReadBody
    <3>1. UNCHANGED <<text, phase, tree, stack, visited, rest, raws>> /\ line' = line + 1
      BY <2>3 DEF ReadBody
    <3>2. HeadsTo(line)' = HeadsTo(line)
      <4>1. line + 1 \notin HeadLines
        BY <2>3 DEF ReadBody, HeadLines
      <4>2. HeadsTo(line + 1) = HeadsTo(line)
        BY <2>0, <4>1, HeadsGrow
      <4> QED BY <3>1, <4>2 DEF HeadsTo, HeadLines
    <3>3. line' \in Nat
      BY <3>1 DEF TreeInv
    <3>4. TreeInv'
      BY <2>0, <3>1, <3>2, <3>3, TreeStays DEF TreeInv
    <3>5. StackInv => StackInv'
      BY <3>1 DEF StackInv
    <3>6. CurTitle' = CurTitle
      BY <3>1 DEF CurTitle
    <3> QED BY <3>1, <3>4, <3>5, <3>6 DEF TitleInv
  <2>4. CASE EndOfText
    <3>1. /\ phase = "parse" /\ phase' = "walk" /\ raws = <<>> /\ rest = <<>> /\ visited = 0
          /\ UNCHANGED <<text, line, visited, rest, raws>> /\ tree' = Flushed
      BY <2>4 DEF EndOfText, TitleInv
    <3>2. HeadsTo(line)' = HeadsTo(line) /\ line' \in Nat
      BY <3>1 DEF HeadsTo, HeadLines, TreeInv
    <3>3. TreeInv'
      BY <2>0, <3>1, <3>2, TreeStays, FlushedFacts
    <3>4. Len(tree') \in Nat
      BY <3>3, SeqFacts DEF TreeInv
    <3> QED BY <3>1, <3>3, <3>4 DEF TitleInv
  <2>5. CASE Visit
    <3>1. /\ phase = "walk" /\ phase' = "walk" /\ visited < Len(tree) /\ visited' = visited + 1
          /\ UNCHANGED <<text, line, tree, raws>>
      BY <2>5 DEF Visit
    <3>2. TreeInv' /\ CurTitle' = CurTitle
      BY <3>1, TreeSame
    <3>3. visited' # 0 /\ visited' \in 0 .. Len(tree)
      BY <2>0, <3>1 DEF TitleInv
    <3> QED BY <3>1, <3>2, <3>3 DEF TitleInv
  <2>6. CASE Cut
    <3>1. /\ phase = "walk" /\ phase' = "walk" /\ rest # <<>>
          /\ UNCHANGED <<text, line, tree, stack, visited>>
      BY <2>6 DEF Cut
    <3>2. TreeInv' /\ CurTitle' = CurTitle
      BY <3>1, TreeSame
    <3>3. visited # 0 /\ visited \in DOMAIN tree
      BY <2>0, <3>1 DEF TitleInv
    <3>4. PICK raw : /\ raw.section = visited /\ raw.title = CurTitle[visited]
                     /\ raws' = raws \/ raws' = Append(raws, raw)
      <4>1. PICK piece : raws' = IF IsNoise(piece) THEN raws
                    ELSE Append(raws, [title |-> CurTitle[visited], section |-> visited,
                                       content |-> piece])
        BY <2>6 DEF Cut
      <4>2. PICK raw : raw = [title |-> CurTitle[visited], section |-> visited, content |-> piece]
        OBVIOUS
      <4> QED BY <4>1, <4>2
    <3>5. \A k \in DOMAIN raws' : /\ raws'[k].section \in DOMAIN tree
                                  /\ raws'[k].title = CurTitle[raws'[k].section]
      <4>1. CASE raws' = raws
        BY <4>1 DEF TitleInv
      <4>2. CASE raws' = Append(raws, raw)
        <5>1. /\ DOMAIN raws' = 1 .. Len(raws) + 1 /\ raws'[Len(raws) + 1] = raw
              /\ \A k \in 1 .. Len(raws) : raws'[k] = raws[k]
              /\ DOMAIN raws = 1 .. Len(raws) /\ Len(raws) \in Nat
          BY <2>0, <4>2, SeqFacts
        <5>2. \A k \in DOMAIN raws' : k = Len(raws) + 1 \/ k \in 1 .. Len(raws)
          BY <5>1
        <5> QED BY <3>3, <3>4, <5>1, <5>2 DEF TitleInv
      <4> QED BY <3>4, <4>1, <4>2
    <3> QED BY <3>1, <3>2, <3>3, <3>5 DEF TitleInv
  <2>7. CASE TooDeep
    BY <2>1, <2>7 DEF TooDeep
  <2>8. CASE Return
    BY <2>1, <2>8 DEF Return
  <2>9. CASE SplitEnded
    BY <2>1, <2>9 DEF SplitEnded, splitVars
  <2>10. CASE UNCHANGED splitVars
    BY <2>1, <2>10 DEF splitVars
  <2> QED BY <2>2, <2>3, <2>4, <2>5, <2>6, <2>7, <2>8, <2>9, <2>10 DEF SplitNext
<1> QED BY <1>1, <1>2, SplitSafe, PTL DEF SplitSpec

(***************************************************************************)
(* A paragraph has the title of the nearest enclosing heading that is not  *)
(* blank: parse_to_tree with its stack of open sections, and               *)
(* parse_to_paragraphs, for every text.                                    *)
(***************************************************************************)
THEOREM TitlesAreNearest == SplitSpec => []TitleIsNearest
<1>1. TreeInv /\ TitleInv => TitleIsNearest
  <2> SUFFICES ASSUME TreeInv, TitleInv, NEW k \in DOMAIN raws
               PROVE  raws[k].title = IF raws[k].section = 1 THEN FileTitle
                                      ELSE TitleOfLine(Heads[raws[k].section - 1])
    BY DEF TitleIsNearest
  <2>1. PICK s \in DOMAIN tree : s = raws[k].section /\ raws[k].title = CurTitle[s]
    BY DEF TitleInv
  <2>2. CurTitle[s] = NearestTitle(s)
    BY TitleIsOfNearest
  <2>3. CASE s = 1
    <3>1. Titled(1) = {}
      BY DEF Titled, AroundSection, TreeInv
    <3> QED BY <2>1, <2>2, <2>3, <3>1 DEF NearestTitle
  <2>4. CASE s # 1
    <3>1. s \in 2 .. Len(tree)
      BY <2>4, TreeFacts
    <3> QED BY <2>1, <2>2, <2>4, <3>1, LinesAround DEF LineOf
  <2> QED BY <2>3, <2>4
<1> QED BY <1>1, TitlesKept, PTL

-----------------------------------------------------------------------------
(* Joining sequences.                                                      *)

\* f joins more and more of the parts.
Joins(f, parts, S) ==
  /\ f \in [0 .. Len(parts) -> Seq(S)]
  /\ f[0] = <<>>
  /\ \A i \in 1 .. Len(parts) : f[i] = f[i - 1] \o parts[i]

JoinBy(f, parts, i) == IF i = 1 THEN parts[i] ELSE f[i - 1] \o parts[i]

LEMMA JoinsExist ==
  ASSUME NEW parts, NEW N \in Nat
  PROVE  \E f : f = [i \in 1 .. N |-> JoinBy(f, parts, i)]
<1> DEFINE Has(n) == \E f : f = [i \in 1 .. n |-> JoinBy(f, parts, i)]
           Missing == {n \in 0 .. N : ~Has(n)}
<1>1. Has(0)
  <2>1. PICK f : f = [i \in 1 .. 0 |-> 0]
    OBVIOUS
  <2>2. f = [i \in 1 .. 0 |-> JoinBy(f, parts, i)]
    BY <2>1
  <2> QED BY <2>2
<1>2. ASSUME NEW n \in 1 .. N, Has(n - 1)
      PROVE  Has(n)
  <2>1. PICK f : f = [i \in 1 .. n - 1 |-> JoinBy(f, parts, i)]
    BY <1>2
  <2>2. PICK g : g = [i \in 1 .. n |-> JoinBy(f, parts, i)]
    OBVIOUS
  <2>3. \A i \in 1 .. n - 1 : g[i] = f[i]
    BY <2>1, <2>2
  <2>4. \A i \in 1 .. n : JoinBy(g, parts, i) = JoinBy(f, parts, i)
    <3>1. \A i \in 1 .. n : i # 1 => i - 1 \in 1 .. n - 1
      OBVIOUS
    <3> QED BY <2>3, <3>1 DEF JoinBy
  <2>5. g = [i \in 1 .. n |-> JoinBy(g, parts, i)]
    BY <2>2, <2>4
  <2> QED BY <2>5
<1> HIDE DEF Has
<1>3. Missing = {}
  <2> SUFFICES ASSUME Missing # {}
               PROVE  FALSE
    OBVIOUS
  <2>1. PICK n \in Missing : \A m \in Missing : ~(m < n)
    <3>1. Missing \subseteq Nat
      OBVIOUS
    <3> HIDE DEF Missing
    <3> QED BY <3>1, LeastNumber
  <2>2. n \in 1 .. N /\ n - 1 \notin Missing /\ ~Has(n)
    BY <1>1, <2>1
  <2>3. Has(n - 1)
    BY <2>2
  <2> QED BY <1>2, <2>2, <2>3
<1>4. Has(N)
  BY <1>3
<1> QED BY <1>4 DEF Has

\* FlattenSeq joins all of them.
LEMMA FlattenJoins ==
  ASSUME NEW S, NEW parts \in Seq(Seq(S))
  PROVE  \E f : Joins(f, parts, S) /\ FlattenSeq(parts) = f[Len(parts)]
<1>1. PICK N \in Nat : N = Len(parts) /\ \A i \in 1 .. N : parts[i] \in Seq(S)
  OBVIOUS
<1>2. CASE N = 0
  <2>1. PICK f : f = [i \in 0 .. 0 |-> <<>>]
    OBVIOUS
  <2>2. f \in [0 .. Len(parts) -> Seq(S)] /\ f[0] = <<>> /\ Len(parts) = 0
    <3>1. <<>> \in Seq(S)
      OBVIOUS
    <3> QED BY <1>1, <1>2, <2>1, <3>1
  <2>3. FlattenSeq(parts) = <<>>
    <3>1. parts = <<>>
      BY <1>1, <1>2, EmptySeq
    <3> QED BY <1>1, <1>2, <3>1 DEF FlattenSeq
  <2>4. Joins(f, parts, S)
    BY <2>2 DEF Joins
  <2> QED BY <2>2, <2>3, <2>4
<1>3. CASE N # 0
  <2>1. \E g : g = [i \in 1 .. N |-> JoinBy(g, parts, i)]
    BY JoinsExist
  <2>2. PICK g : g = CHOOSE h : h = [i \in 1 .. N |-> JoinBy(h, parts, i)]
    OBVIOUS
  <2>3. g = [i \in 1 .. N |-> JoinBy(g, parts, i)]
    BY <2>1, <2>2
  <2>4. FlattenSeq(parts) = g[N]
    BY <1>1, <1>3, <2>2 DEF FlattenSeq, JoinBy
  <2>5. PICK f : f = [i \in 0 .. N |-> IF i = 0 THEN <<>> ELSE g[i]]
    OBVIOUS
  <2>6. f[0] = <<>> /\ f[N] = g[N] /\ \A i \in 1 .. N : f[i] = JoinBy(g, parts, i)
    BY <1>3, <2>3, <2>5
  <2>7. \A i \in 0 .. N : f[i] \in Seq(S)
    <3> DEFINE Fits(i) == f[i] \in Seq(S)
               Bad == {i \in 0 .. N : ~Fits(i)}
    <3> SUFFICES ASSUME Bad # {} PROVE FALSE
      OBVIOUS
    <3>0. Fits(0)
      <4>1. <<>> \in Seq(S)
        OBVIOUS
      <4> QED BY <2>6, <4>1
    <3> HIDE DEF Fits
    <3>1. PICK i \in Bad : \A j \in Bad : ~(j < i)
      <4>1. Bad \subseteq Nat
        OBVIOUS
      <4> HIDE DEF Bad
      <4> QED BY <4>1, LeastNumber
    <3>2. i \in 1 .. N /\ ~Fits(i)
      BY <3>0, <3>1
    <3> USE DEF Fits
    <3>3. i \in 1 .. N /\ f[i] \notin Seq(S)
      BY <3>2
    <3>4. CASE i = 1
      BY <1>1, <2>6, <3>3, <3>4 DEF JoinBy
    <3>5. CASE i # 1
      <4>1. i - 1 \in 1 .. N /\ i - 1 < i
        BY <3>3, <3>5
      <4>2. f[i - 1] \in Seq(S)
        BY <3>1, <4>1
      <4>3. f[i] = f[i - 1] \o parts[i] /\ parts[i] \in Seq(S)
        <5>1. f[i] = g[i - 1] \o parts[i]
          BY <2>6, <3>3, <3>5 DEF JoinBy
        <5>2. f[i - 1] = g[i - 1]
          BY <2>3, <2>5, <4>1
        <5> QED BY <1>1, <3>3, <5>1, <5>2
      <4>4. f[i - 1] \o parts[i] \in Seq(S)
        BY <4>2, <4>3, ConcatProperties
      <4> QED BY <3>3, <4>3, <4>4
    <3> QED BY <3>4, <3>5
  <2>8. \A i \in 1 .. N : f[i] = f[i - 1] \o parts[i]
    <3> SUFFICES ASSUME NEW i \in 1 .. N PROVE f[i] = f[i - 1] \o parts[i]
      OBVIOUS
    <3>1. CASE i = 1
      <4>1. f[i] = parts[1] /\ f[i - 1] = <<>> /\ parts[1] \in Seq(S)
        BY <1>1, <2>6, <3>1 DEF JoinBy
      <4>2. <<>> \o parts[1] = parts[1]
        BY <4>1, ConcatEmptySeq
      <4> QED BY <3>1, <4>1, <4>2
    <3>2. CASE i # 1
      <4>1. f[i] = g[i - 1] \o parts[i]
        BY <2>6, <3>2 DEF JoinBy
      <4>2. f[i - 1] = g[i - 1]
        <5>1. i - 1 \in 1 .. N
          BY <3>2
        <5> QED BY <2>5, <5>1
      <4> QED BY <4>1, <4>2
    <3> QED BY <3>1, <3>2
  <2>9. Joins(f, parts, S)
    <3>1. f \in [0 .. N -> Seq(S)]
      BY <2>5, <2>7
    <3> QED BY <1>1, <2>6, <2>8, <3>1 DEF Joins
  <2> QED BY <1>1, <2>4, <2>6, <2>9
<1> QED BY <1>2, <1>3

LEMMA FlattenType ==
  ASSUME NEW S, NEW parts \in Seq(Seq(S))
  PROVE  FlattenSeq(parts) \in Seq(S)
<1>1. PICK f : Joins(f, parts, S) /\ FlattenSeq(parts) = f[Len(parts)]
  BY FlattenJoins
<1>2. Len(parts) \in 0 .. Len(parts)
  <2>1. Len(parts) \in Nat
    OBVIOUS
  <2> QED BY <2>1
<1> QED BY <1>1, <1>2 DEF Joins

LEMMA FlattenConcat ==
  ASSUME NEW S, NEW a \in Seq(Seq(S)), NEW b \in Seq(Seq(S))
  PROVE  FlattenSeq(a \o b) = FlattenSeq(a) \o FlattenSeq(b)
<1>1. PICK n \in Nat, m \in Nat : n = Len(a) /\ m = Len(b)
  OBVIOUS
<1>2. /\ a \o b \in Seq(Seq(S)) /\ Len(a \o b) = n + m
      /\ \A i \in 1 .. n : (a \o b)[i] = a[i]
      /\ \A j \in 1 .. m : (a \o b)[n + j] = b[j] /\ b[j] \in Seq(S)
  BY <1>1
<1>3. PICK c \in Seq(Seq(S)) : c = a \o b
  BY <1>2
<1>4. PICK f : Joins(f, c, S) /\ FlattenSeq(c) = f[n + m]
  BY <1>2, <1>3, FlattenJoins
<1>5. PICK g : Joins(g, a, S) /\ FlattenSeq(a) = g[n]
  BY <1>1, FlattenJoins
<1>6. PICK h : Joins(h, b, S) /\ FlattenSeq(b) = h[m]
  BY <1>1, FlattenJoins
<1>7. /\ f[0] = <<>> /\ \A i \in 1 .. n + m : f[i] = f[i - 1] \o c[i]
      /\ g[0] = <<>> /\ \A i \in 1 .. n : g[i] = g[i - 1] \o a[i]
      /\ h[0] = <<>> /\ \A j \in 1 .. m : h[j] = h[j - 1] \o b[j]
      /\ \A i \in 0 .. n : g[i] \in Seq(S) /\ \A j \in 0 .. m : h[j] \in Seq(S)
  BY <1>1, <1>2, <1>3, <1>4, <1>5, <1>6 DEF Joins
<1>8. f[n] = g[n]
  <2> DEFINE Bad == {i \in 0 .. n : f[i] # g[i]}
  <2>1. ASSUME Bad # {} PROVE FALSE
    <3>1. PICK i \in Bad : \A j \in Bad : ~(j < i)
      <4>1. Bad \subseteq Nat
        OBVIOUS
      <4> HIDE DEF Bad
      <4> QED BY <2>1, <4>1, LeastNumber
    <3>2. i \in 1 .. n /\ f[i] # g[i]
      BY <1>7, <3>1
    <3>3. f[i - 1] = g[i - 1]
      <4>1. i - 1 \in 0 .. n /\ i - 1 < i
        BY <3>2
      <4> QED BY <3>1, <4>1
    <3>4. c[i] = a[i] /\ i \in 1 .. n + m
      BY <1>2, <1>3, <3>2
    <3> QED BY <1>7, <3>2, <3>3, <3>4
  <2> QED BY <2>1
<1>9. f[n + m] = g[n] \o h[m]
  <2> DEFINE Fits(j) == f[n + j] = g[n] \o h[j]
             Bad == {j \in 0 .. m : ~Fits(j)}
  <2>0. g[n] \in Seq(S)
    BY <1>7
  <2> HIDE DEF Fits
  <2>1. ASSUME Bad # {} PROVE FALSE
    <3>1. PICK j \in Bad : \A k \in Bad : ~(k < j)
      <4>1. Bad \subseteq Nat
        OBVIOUS
      <4> HIDE DEF Bad
      <4> QED BY <2>1, <4>1, LeastNumber
    <3>2. j \in 0 .. m /\ f[n + j] # g[n] \o h[j]
      BY <3>1 DEF Fits
    <3>3. j # 0
      <4>1. g[n] \o <<>> = g[n]
        BY <2>0, ConcatEmptySeq
      <4>2. n + 0 = n
        OBVIOUS
      <4> QED BY <1>7, <1>8, <3>2, <4>1, <4>2
    <3>4. j \in 1 .. m /\ j - 1 \in 0 .. m /\ j - 1 < j
      BY <3>2, <3>3
    <3>5. f[n + (j - 1)] = g[n] \o h[j - 1]
      <4>1. Fits(j - 1)
        BY <3>1, <3>4
      <4> QED BY <4>1 DEF Fits
    <3>6. f[n + j] = f[n + (j - 1)] \o b[j]
      <4>1. n + j \in 1 .. n + m /\ (n + j) - 1 = n + (j - 1)
        BY <3>4
      <4>2. c[n + j] = b[j]
        BY <1>2, <1>3, <3>4
      <4> QED BY <1>7, <4>1, <4>2
    <3>7. (g[n] \o h[j - 1]) \o b[j] = g[n] \o (h[j - 1] \o b[j])
      <4>1. PICK u, v, w : u = g[n] /\ v = h[j - 1] /\ w = b[j]
        OBVIOUS
      <4>2. u \in Seq(S) /\ v \in Seq(S) /\ w \in Seq(S)
        BY <1>2, <1>7, <2>0, <3>4, <4>1
      <4>3. (u \o v) \o w = u \o (v \o w)
        BY <4>2
      <4> QED BY <4>1, <4>3
    <3>8. h[j] = h[j - 1] \o b[j]
      BY <1>7, <3>4
    <3> QED BY <3>2, <3>5, <3>6, <3>7, <3>8
  <2>2. Fits(m)
    BY <1>1, <2>1
  <2> QED BY <2>2 DEF Fits
<1> QED BY <1>3, <1>4, <1>5, <1>6, <1>8, <1>9

LEMMA FlattenOne ==
  ASSUME NEW S, NEW x \in Seq(S)
  PROVE  FlattenSeq(<<x>>) = x
<1>1. <<x>> \in Seq(Seq(S)) /\ Len(<<x>>) = 1 /\ <<x>>[1] = x
  OBVIOUS
<1>2. PICK one \in Seq(Seq(S)) : one = <<x>> /\ Len(one) = 1 /\ one[1] = x
  BY <1>1
<1>3. PICK f : Joins(f, one, S) /\ FlattenSeq(one) = f[1]
  BY <1>2, FlattenJoins
<1>4. f[0] = <<>> /\ f[1] = f[0] \o x
  <2>1. 1 \in 1 .. Len(one) /\ 1 - 1 = 0
    BY <1>2
  <2> QED BY <1>2, <1>3, <2>1 DEF Joins
<1>5. <<>> \o x = x
  BY ConcatEmptySeq
<1> QED BY <1>2, <1>3, <1>4, <1>5

LEMMA LastPart ==
  ASSUME NEW T, NEW p \in Seq(T), NEW q \in Seq(T), NEW x \in T, NEW n \in Nat,
         Len(p) = n, Len(q) = n + 1, q[n + 1] = x, \A k \in 1 .. n : q[k] = p[k]
  PROVE  q = p \o <<x>>
<1>1. PICK w : w = p \o <<x>>
  OBVIOUS
<1>2. w \in Seq(T) /\ Len(w) = n + 1
  BY <1>1
<1>3. \A i \in 1 .. n : w[i] = p[i]
  BY <1>1
<1>4. w[n + 1] = x
  BY <1>1
<1>5. \A i \in 1 .. n + 1 : q[i] = w[i]
  <2> TAKE i \in 1 .. n + 1
  <2>1. i # n + 1 => i \in 1 .. n
    OBVIOUS
  <2> QED BY <1>3, <1>4, <2>1
<1> QED BY <1>1, <1>2, <1>5, SeqEqual

LEMMA FlattenLast ==
  ASSUME NEW S, NEW p \in Seq(Seq(S)), NEW q \in Seq(Seq(S)), NEW x \in Seq(S), NEW n \in Nat,
         Len(p) = n, Len(q) = n + 1, q[n + 1] = x, \A k \in 1 .. n : q[k] = p[k]
  PROVE  FlattenSeq(q) = FlattenSeq(p) \o x
<1>1. PICK one : one = <<x>>
  OBVIOUS
<1>2. one \in Seq(Seq(S)) /\ q = p \o one
  <2>1. PICK T : T = Seq(S)
    OBVIOUS
  <2>2. p \in Seq(T) /\ q \in Seq(T) /\ x \in T
    BY <2>1
  <2>3. one \in Seq(T)
    BY <1>1, <2>2
  <2>4. q = p \o <<x>>
    BY <2>2, LastPart
  <2> QED BY <1>1, <2>1, <2>3, <2>4
<1>3. FlattenSeq(p \o one) = FlattenSeq(p) \o FlattenSeq(one)
  BY <1>2, FlattenConcat
<1>4. FlattenSeq(one) = x
  BY <1>1, FlattenOne
<1> QED BY <1>2, <1>3, <1>4

LEMMA FlattenNone ==
  ASSUME NEW S, NEW parts \in Seq(Seq(S)), \A i \in 1 .. Len(parts) : parts[i] = <<>>
  PROVE  FlattenSeq(parts) = <<>>
<1>1. PICK n \in Nat : n = Len(parts)
  OBVIOUS
<1>2. PICK f : Joins(f, parts, S) /\ FlattenSeq(parts) = f[n]
  BY <1>1, FlattenJoins
<1>3. f[0] = <<>> /\ \A i \in 1 .. n : f[i] = f[i - 1] \o <<>>
  BY <1>1, <1>2 DEF Joins
<1> DEFINE Bad == {i \in 0 .. n : f[i] # <<>>}
<1>4. ASSUME Bad # {} PROVE FALSE
  <2>1. PICK i \in Bad : \A j \in Bad : ~(j < i)
    <3>1. Bad \subseteq Nat
      OBVIOUS
    <3> HIDE DEF Bad
    <3> QED BY <1>4, <3>1, LeastNumber
  <2>2. i \in 1 .. n /\ f[i] # <<>>
    BY <1>3, <2>1
  <2>3. i - 1 \in 0 .. n /\ i - 1 < i
    BY <2>2
  <2>4. f[i - 1] = <<>>
    BY <2>1, <2>3
  <2>5. <<>> \o <<>> = <<>>
    <3>1. <<>> \in Seq(S)
      OBVIOUS
    <3> QED BY <3>1, ConcatEmptySeq
  <2> QED BY <1>3, <2>2, <2>4, <2>5
<1>5. n \notin Bad
  BY <1>4
<1> QED BY <1>2, <1>5

(* What is left of a content when breaks and dashes are dropped. *)
Ink(c) == IF c \in {"newline", "dash"} THEN <<>> ELSE <<c>>
Inks(s) == [i \in DOMAIN s |-> Ink(s[i])]

LEMMA InksType ==
  ASSUME NEW S, NEW s \in Seq(S)
  PROVE  /\ Inks(s) \in Seq(Seq(S)) /\ Len(Inks(s)) = Len(s)
         /\ \A i \in 1 .. Len(s) : Inks(s)[i] = Ink(s[i])
         /\ Letters(s) = FlattenSeq(Inks(s))
<1>1. PICK n \in Nat : n = Len(s) /\ DOMAIN s = 1 .. n /\ \A i \in 1 .. n : s[i] \in S
  OBVIOUS
<1>2. Inks(s) = [i \in 1 .. n |-> Ink(s[i])]
  BY <1>1 DEF Inks
<1>3. \A i \in 1 .. n : Ink(s[i]) \in Seq(S)
  BY <1>1 DEF Ink
<1>4. Inks(s) \in Seq(Seq(S))
  BY <1>2, <1>3
<1>5. Len(Inks(s)) = n
  BY <1>2, <1>4
<1>6. Letters(s) = FlattenSeq(Inks(s))
  BY DEF Letters, Inks, Ink
<1> QED BY <1>1, <1>2, <1>4, <1>5, <1>6

LEMMA LettersType ==
  ASSUME NEW S, NEW s \in Seq(S)
  PROVE  Letters(s) \in Seq(S)
BY InksType, FlattenType

LEMMA ConcatFacts ==
  ASSUME NEW S, NEW a \in Seq(S), NEW b \in Seq(S)
  PROVE  /\ a \o b \in Seq(S) /\ Len(a \o b) = Len(a) + Len(b)
         /\ Len(a) \in Nat /\ Len(b) \in Nat
         /\ \A i \in 1 .. Len(a) : (a \o b)[i] = a[i]
         /\ \A i \in 1 .. Len(b) : (a \o b)[Len(a) + i] = b[i]
OBVIOUS

LEMMA LettersConcat ==
  ASSUME NEW S, NEW a \in Seq(S), NEW b \in Seq(S)
  PROVE  Letters(a \o b) = Letters(a) \o Letters(b)
<1>1. PICK c : c = a \o b
  OBVIOUS
<1>2. PICK n \in Nat, m \in Nat : n = Len(a) /\ m = Len(b)
  OBVIOUS
<1>3. /\ c \in Seq(S) /\ Len(c) = n + m /\ \A i \in 1 .. n : c[i] = a[i]
      /\ \A i \in 1 .. m : c[n + i] = b[i]
  BY <1>1, <1>2, ConcatFacts
<1>4. PICK x, y, z : x = Inks(a) /\ y = Inks(b) /\ z = Inks(c)
  OBVIOUS
<1>5. /\ x \in Seq(Seq(S)) /\ Len(x) = n /\ \A i \in 1 .. n : x[i] = Ink(a[i])
      /\ y \in Seq(Seq(S)) /\ Len(y) = m /\ \A i \in 1 .. m : y[i] = Ink(b[i])
      /\ z \in Seq(Seq(S)) /\ Len(z) = n + m /\ \A i \in 1 .. n + m : z[i] = Ink(c[i])
  BY <1>2, <1>3, <1>4, InksType
<1>6. \A i \in 1 .. n : z[i] = x[i]
  <2>1. \A i \in 1 .. n : i \in 1 .. n + m
    OBVIOUS
  <2> QED BY <1>3, <1>5, <2>1
<1>7. \A i \in 1 .. m : z[n + i] = y[i]
  <2>1. \A i \in 1 .. m : n + i \in 1 .. n + m
    OBVIOUS
  <2> QED BY <1>3, <1>5, <2>1
<1>8. z = x \o y
  <2>1. PICK T : T = Seq(S)
    OBVIOUS
  <2>2. /\ x \in Seq(T) /\ y \in Seq(T) /\ z \in Seq(T)
        /\ Len(x) = n /\ Len(y) = m /\ Len(z) = n + m
    BY <1>5, <2>1
  <2>3. PICK w : w = x \o y
    OBVIOUS
  <2>4. /\ w \in Seq(T) /\ Len(w) = n + m
        /\ \A i \in 1 .. n : w[i] = x[i]
        /\ \A i \in 1 .. m : w[n + i] = y[i]
    BY <2>2, <2>3
  <2>5. \A i \in 1 .. n + m : z[i] = w[i]
    <3> TAKE i \in 1 .. n + m
    <3>1. CASE i <= n
      BY <1>6, <2>4, <3>1
    <3>2. CASE i > n
      <4>1. i - n \in 1 .. m /\ n + (i - n) = i
        BY <3>2
      <4>2. z[n + (i - n)] = w[n + (i - n)]
        BY <1>7, <2>4, <4>1
      <4> QED BY <4>1, <4>2
    <3> QED BY <3>1, <3>2
  <2> QED BY <2>2, <2>3, <2>4, <2>5, SeqEqual
<1>9. FlattenSeq(x \o y) = FlattenSeq(x) \o FlattenSeq(y)
  BY <1>5, FlattenConcat
<1>10. Letters(a) = FlattenSeq(x) /\ Letters(b) = FlattenSeq(y) /\ Letters(c) = FlattenSeq(z)
  BY <1>3, <1>4, InksType
<1> QED BY <1>1, <1>8, <1>9, <1>10

LEMMA NoLetters ==
  ASSUME NEW S, NEW s \in Seq(S), \A i \in 1 .. Len(s) : s[i] \in {"newline", "dash"}
  PROVE  Letters(s) = <<>>
<1>1. PICK x \in Seq(Seq(S)) : x = Inks(s) /\ Len(x) = Len(s) /\ Letters(s) = FlattenSeq(x)
  BY InksType
<1>2. \A i \in 1 .. Len(x) : x[i] = <<>>
  BY <1>1, InksType DEF Ink
<1> QED BY <1>1, <1>2, FlattenNone

LEMMA PartFacts ==
  ASSUME NEW S, NEW s \in Seq(S), NEW n \in Nat, n = Len(s),
         NEW m \in 1 .. n + 1, NEW k \in m - 1 .. n
  PROVE  /\ SubSeq(s, m, k) \in Seq(S) /\ Len(SubSeq(s, m, k)) = k - m + 1
         /\ \A i \in 1 .. k - m + 1 : SubSeq(s, m, k)[i] = s[m + i - 1]
<1>1. m \in Int /\ k \in Int /\ \A i \in m .. k : s[i] \in S
  OBVIOUS
<1>2. /\ SubSeq(s, m, k) \in Seq(S)
      /\ Len(SubSeq(s, m, k)) = IF m <= k THEN k - m + 1 ELSE 0
      /\ \A i \in 1 .. k - m + 1 : SubSeq(s, m, k)[i] = s[m + i - 1]
  BY <1>1, SubSeqProperties
<1>3. ~(m <= k) => k - m + 1 = 0
  OBVIOUS
<1> QED BY <1>2, <1>3

\* The letters of a content stand between the ends that strip() drops.
LEMMA StripParts ==
  ASSUME NEW S, NEW s \in Seq(S)
  PROVE  \E a \in Seq(S), b \in Seq(S) :
           /\ Strip(s) \in Seq(S) /\ s = a \o (Strip(s) \o b)
           /\ \A i \in 1 .. Len(a) : a[i] = "newline"
           /\ \A i \in 1 .. Len(b) : b[i] = "newline"
<1> DEFINE inked == {i \in DOMAIN s : s[i] # "newline"}
<1>1. PICK n \in Nat : n = Len(s) /\ DOMAIN s = 1 .. n
  OBVIOUS
<1>2. CASE inked = {}
  <2>1. Strip(s) = <<>> /\ <<>> \in Seq(S) /\ Len(<<>>) = 0
    BY <1>2 DEF Strip
  <2>2. s = s \o (<<>> \o <<>>)
    <3>1. <<>> \o <<>> = <<>> /\ s \o <<>> = s
      BY <2>1, ConcatEmptySeq
    <3> QED BY <3>1
  <2>3. \A i \in 1 .. Len(s) : s[i] = "newline"
    BY <1>1, <1>2
  <2>4. \A i \in 1 .. Len(<<>>) : <<>>[i] = "newline"
    BY <2>1
  <2>5. PICK b : b = <<>>
    OBVIOUS
  <2> QED BY <2>1, <2>2, <2>3, <2>4, <2>5
<1>3. CASE inked # {}
  <2>1. inked \in SUBSET (1 .. n)
    BY <1>1
  <2>2. PICK lo, hi : /\ lo = Min(inked) /\ lo \in inked /\ \A i \in inked : lo <= i
                      /\ hi = Max(inked) /\ hi \in inked /\ \A i \in inked : hi >= i
    <3> HIDE DEF inked
    <3> QED BY <1>3, <2>1, MinMaxFacts
  <2>3. lo \in 1 .. n /\ hi \in 1 .. n /\ lo <= hi
    BY <2>1, <2>2
  <2>4. PICK t, a, b, u : /\ t = SubSeq(s, lo, hi) /\ a = SubSeq(s, 1, lo - 1)
                         /\ b = SubSeq(s, hi + 1, n) /\ u = SubSeq(s, lo, n)
    OBVIOUS
  <2>5. Strip(s) = t
    BY <1>3, <2>2, <2>4 DEF Strip
  <2>6. t \in Seq(S)
    <3>1. lo \in 1 .. n + 1 /\ hi \in lo - 1 .. n
      BY <2>3
    <3> QED BY <1>1, <2>4, <3>1, PartFacts
  <2>7. a \in Seq(S) /\ Len(a) = lo - 1 /\ \A i \in 1 .. lo - 1 : a[i] = s[i]
    <3>1. 1 \in 1 .. n + 1 /\ lo - 1 \in 1 - 1 .. n /\ (lo - 1) - 1 + 1 = lo - 1
          /\ \A i \in 1 .. lo - 1 : 1 + i - 1 = i
      BY <2>3
    <3>2. a \in Seq(S) /\ Len(a) = (lo - 1) - 1 + 1
          /\ \A i \in 1 .. (lo - 1) - 1 + 1 : a[i] = s[1 + i - 1]
      BY <1>1, <2>4, <3>1, PartFacts
    <3> QED BY <3>1, <3>2
  <2>8. b \in Seq(S) /\ Len(b) = n - hi /\ \A i \in 1 .. n - hi : b[i] = s[hi + i]
    <3>1. hi + 1 \in 1 .. n + 1 /\ n \in (hi + 1) - 1 .. n /\ n - (hi + 1) + 1 = n - hi
          /\ \A i \in 1 .. n - hi : (hi + 1) + i - 1 = hi + i
      BY <2>3
    <3>2. b \in Seq(S) /\ Len(b) = n - (hi + 1) + 1
          /\ \A i \in 1 .. n - (hi + 1) + 1 : b[i] = s[(hi + 1) + i - 1]
      BY <1>1, <2>4, <3>1, PartFacts
    <3> QED BY <3>1, <3>2
  <2>9. u = t \o b
    <3>1. lo \in 1 .. Len(s) + 1 /\ hi \in lo - 1 .. Len(s) /\ n \in hi .. Len(s)
      BY <1>1, <2>3
    <3> QED BY <2>4, <3>1, ConcatAdjacentSubSeq
  <2>10. s = a \o u
    <3>1. 1 \in 1 .. Len(s) + 1 /\ lo - 1 \in 1 - 1 .. Len(s) /\ n \in lo - 1 .. Len(s)
          /\ (lo - 1) + 1 = lo
      BY <1>1, <2>3
    <3>2. SubSeq(s, 1, lo - 1) \o SubSeq(s, (lo - 1) + 1, n) = SubSeq(s, 1, n)
      BY <3>1, ConcatAdjacentSubSeq
    <3>3. SubSeq(s, 1, n) = s
      BY <1>1, SubSeqFull
    <3> QED BY <2>4, <3>1, <3>2, <3>3
  <2>11. \A i \in 1 .. Len(a) : a[i] = "newline"
    <3>1. \A i \in 1 .. lo - 1 : i \in DOMAIN s /\ i \notin inked
      <4> TAKE i \in 1 .. lo - 1
      <4>1. i \in DOMAIN s /\ ~(lo <= i)
        BY <1>1, <2>3
      <4> QED BY <2>2, <4>1
    <3> QED BY <2>7, <3>1
  <2>12. \A i \in 1 .. Len(b) : b[i] = "newline"
    <3>1. \A i \in 1 .. n - hi : hi + i \in DOMAIN s /\ hi + i \notin inked
      <4> TAKE i \in 1 .. n - hi
      <4>1. hi + i \in DOMAIN s /\ ~(hi >= hi + i)
        BY <1>1, <2>3
      <4> QED BY <2>2, <4>1
    <3> QED BY <2>8, <3>1
  <2> QED BY <2>5, <2>6, <2>7, <2>8, <2>9, <2>10, <2>11, <2>12
<1> QED BY <1>2, <1>3

LEMMA StripLetters ==
  ASSUME NEW S, NEW s \in Seq(S)
  PROVE  Strip(s) \in Seq(S) /\ Letters(Strip(s)) = Letters(s)
<1>1. PICK a \in Seq(S), b \in Seq(S) :
           /\ Strip(s) \in Seq(S) /\ s = a \o (Strip(s) \o b)
           /\ \A i \in 1 .. Len(a) : a[i] = "newline"
           /\ \A i \in 1 .. Len(b) : b[i] = "newline"
  BY StripParts
<1>2. PICK t, u : t = Strip(s) /\ u = t \o b
  OBVIOUS
<1>2a. t \in Seq(S) /\ u \in Seq(S) /\ s = a \o u
  BY <1>1, <1>2, ConcatFacts
<1>3. Letters(a) = <<>> /\ Letters(b) = <<>>
  BY <1>1, NoLetters
<1>4. Letters(s) = Letters(a) \o Letters(u) /\ Letters(u) = Letters(t) \o Letters(b)
  BY <1>2, <1>2a, LettersConcat
<1>5. Letters(t) \in Seq(S)
  BY <1>2a, LettersType
<1>6. Letters(t) \o <<>> = Letters(t) /\ <<>> \o Letters(t) = Letters(t)
  BY <1>5, ConcatEmptySeq
<1> QED BY <1>1, <1>2, <1>3, <1>4, <1>6

\* What the filter drops has no letters.
LEMMA NoiseLetters ==
  ASSUME NEW S, NEW s \in Seq(S), IsNoise(s)
  PROVE  Letters(s) = <<>>
<1>1. PICK t \in Seq(S) : t = Strip(s) /\ Letters(t) = Letters(s)
  BY StripLetters
<1>2. t = <<>> \/ t = <<"dash", "dash", "dash">>
  BY <1>1 DEF IsNoise
<1>3. \A i \in 1 .. Len(t) : t[i] \in {"newline", "dash"}
  <2>1. CASE t = <<>>
    BY <2>1
  <2>2. CASE t = <<"dash", "dash", "dash">>
    BY <2>2
  <2> QED BY <1>2, <2>1, <2>2
<1> QED BY <1>1, <1>3, NoLetters

-----------------------------------------------------------------------------
(* The lines of a section.                                                 *)

LEMMA HeadsLength ==
  ASSUME text \in Text
  PROVE  Len(Heads) = Cardinality(HeadLines)
<1>1. PICK n \in Nat : n = Cardinality(HeadLines)
  BY HeadFacts
<1>2. PICK h : h = Heads
  OBVIOUS
<1>3. h = [s \in 1 .. n |-> h[s]]
  BY <1>1, <1>2 DEF Heads
<1>4. PICK T : T = {h[s] : s \in 1 .. n}
  OBVIOUS
<1>5. h \in Seq(T) /\ DOMAIN h = 1 .. n
  BY <1>3, <1>4
<1>6. Len(h) = n
  BY <1>5
<1> QED BY <1>1, <1>2, <1>6

\* The next heading is the one with the next number.
LEMMA NextHeading ==
  ASSUME TreeInv, Len(tree) <= Cardinality(HeadLines)
  PROVE  /\ Heads[Len(tree)] \in HeadLines /\ Heads[Len(tree)] > line
         /\ Cardinality(HeadsTo(Heads[Len(tree)])) = Len(tree)
<1>1. PICK n \in Nat : n = Len(tree) /\ n > 0
  BY TreeFacts
<1>2. /\ HeadLines \subseteq Nat /\ line \in Nat
      /\ IsFiniteSet(HeadsTo(line)) /\ Cardinality(HeadsTo(line)) = n - 1
      /\ Cardinality(HeadLines) \in Nat
  <2>1. Len(tree) = Cardinality(HeadsTo(line)) + 1 /\ Cardinality(HeadsTo(line)) \in Nat
    BY HeadFacts DEF TreeInv
  <2> QED BY <1>1, <2>1, HeadFacts, TreeFacts DEF TreeInv
<1> DEFINE later == HeadLines \ HeadsTo(line)
<1>3. later # {}
  <2>1. HeadsTo(line) # HeadLines
    BY <1>1, <1>2
  <2> QED BY <2>1 DEF HeadsTo
<1>4. PICK j \in later : \A h \in later : ~(h < j)
  <2>1. later \subseteq Nat
    BY <1>2
  <2> HIDE DEF later
  <2> QED BY <1>3, <2>1, LeastNumber
<1>5. j \in HeadLines /\ j \in Nat /\ j > line
  BY <1>2, <1>4 DEF HeadsTo
<1>6. HeadsTo(j) = HeadsTo(line) \cup {j} /\ j \notin HeadsTo(line)
  <2>1. \A h \in HeadLines : h <= j => h <= line \/ h = j
    BY <1>2, <1>4, <1>5 DEF HeadsTo
  <2>2. \A h \in HeadLines : h <= line => h <= j
    BY <1>2, <1>5
  <2>3. j <= j /\ ~(j <= line)
    BY <1>2, <1>5
  <2> QED BY <1>5, <2>1, <2>2, <2>3 DEF HeadsTo
<1>7. Cardinality(HeadsTo(j)) = n
  <2>1. Cardinality(HeadsTo(line) \cup {j}) = Cardinality(HeadsTo(line)) + 1
    BY <1>2, <1>6, FS_AddElement
  <2> QED BY <1>1, <1>2, <1>6, <2>1
<1>8. Heads[n] = j
  <2>1. LineOf(n + 1) = j
    BY <1>5, <1>7, HeadOfNumber DEF TreeInv
  <2>2. (n + 1) - 1 = n
    BY <1>1
  <2> QED BY <2>1, <2>2 DEF LineOf
<1> QED BY <1>1, <1>5, <1>7, <1>8

\* Where the lines of a section begin, and where they end.
LEMMA SectionBegins ==
  ASSUME TreeInv, NEW s \in 1 .. Len(tree)
  PROVE  \E from \in 1 .. line + 1 :
           /\ from = IF s = 1 THEN 1 ELSE Heads[s - 1] + 1
           /\ \A i \in HeadLines : i >= from => Cardinality(HeadsTo(i)) >= s
<1>1. s \in Nat /\ HeadLines \subseteq 1 .. Len(text) /\ Len(text) \in Nat /\ line \in Nat
      /\ \A i : Cardinality(HeadsTo(i)) \in Nat
  BY TreeFacts, HeadFacts DEF TreeInv
<1>2. CASE s = 1
  <2>1. \A i \in HeadLines : Cardinality(HeadsTo(i)) >= 1
    <3> TAKE i \in HeadLines
    <3>1. i \in HeadsTo(i)
      BY <1>1 DEF HeadsTo
    <3>2. IsFiniteSet(HeadsTo(i))
      BY HeadFacts DEF TreeInv
    <3>3. Cardinality(HeadsTo(i)) # 0
      BY <3>1, <3>2, FS_EmptySet
    <3> QED BY <1>1, <3>3
  <2>2. 1 \in 1 .. line + 1
    BY <1>1
  <2> QED BY <1>2, <2>1, <2>2
<1>3. CASE s # 1
  <2>1. s \in 2 .. Len(tree)
    BY <1>1, <1>3
  <2>2. PICK j : /\ j = Heads[s - 1] /\ j \in HeadLines /\ j <= line
                 /\ Cardinality(HeadsTo(j)) = s - 1
    <3>1. LineOf(s) \in HeadsTo(line) /\ Cardinality(HeadsTo(LineOf(s))) = s - 1
      BY <2>1 DEF TreeInv
    <3> QED BY <3>1 DEF LineOf, HeadsTo
  <2>3. j + 1 \in 1 .. line + 1 /\ j \in Nat
    BY <1>1, <2>2
  <2>4. ASSUME NEW i \in HeadLines, i >= j + 1
        PROVE  Cardinality(HeadsTo(i)) >= s
    <3>1. j < i
      BY <1>1, <2>3, <2>4
    <3>2. Cardinality(HeadsTo(j)) < Cardinality(HeadsTo(i))
      BY <2>2, <3>1, HeadFacts DEF TreeInv
    <3> QED BY <1>1, <2>2, <3>2
  <2> QED BY <1>3, <2>2, <2>3, <2>4
<1> QED BY <1>2, <1>3

LEMMA SectionEnds ==
  ASSUME TreeInv, NEW s \in 1 .. Len(tree)
  PROVE  \E to \in Nat :
           /\ to = IF s > Len(Heads) THEN Len(text) ELSE Heads[s] - 1
           /\ \A i \in HeadLines : i <= to => Cardinality(HeadsTo(i)) < s
           /\ s < Len(tree) => to < line
           /\ s = Len(tree) /\ line < Len(text) /\ line + 1 \notin HeadLines => to >= line + 1
<1>1. s \in Nat /\ HeadLines \subseteq 1 .. Len(text) /\ Len(text) \in Nat /\ line \in Nat
      /\ Len(tree) \in Nat /\ \A i : Cardinality(HeadsTo(i)) \in Nat
  BY TreeFacts, HeadFacts DEF TreeInv
<1>2. Len(Heads) = Cardinality(HeadLines) /\ Cardinality(HeadLines) \in Nat
  BY HeadsLength, HeadFacts DEF TreeInv
<1>3. CASE s > Len(Heads)
  <2>1. \A i \in HeadLines : Cardinality(HeadsTo(i)) < s
    <3> TAKE i \in HeadLines
    <3>1. Cardinality(HeadsTo(i)) <= Cardinality(HeadLines)
      BY HeadFacts DEF TreeInv
    <3> QED BY <1>1, <1>2, <1>3, <3>1
  <2>2. s = Len(tree)
    <3>1. Cardinality(HeadsTo(line)) <= Cardinality(HeadLines) /\ Len(tree) = Cardinality(HeadsTo(line)) + 1
      BY HeadFacts DEF TreeInv
    <3> QED BY <1>1, <1>2, <1>3, <3>1
  <2>3. line < Len(text) => Len(text) >= line + 1
    BY <1>1
  <2> QED BY <1>1, <1>3, <2>1, <2>2, <2>3
<1>4. CASE ~(s > Len(Heads))
  <2>1. PICK j : /\ j = Heads[s] /\ j \in HeadLines /\ Cardinality(HeadsTo(j)) = s
                 /\ s < Len(tree) => j <= line
                 /\ s = Len(tree) => j > line
    <3>1. CASE s = Len(tree)
      BY <1>1, <1>2, <1>4, <3>1, NextHeading
    <3>2. CASE s # Len(tree)
      <4>1. s + 1 \in 2 .. Len(tree) /\ (s + 1) - 1 = s
        BY <1>1, <3>2
      <4>2. LineOf(s + 1) \in HeadsTo(line) /\ Cardinality(HeadsTo(LineOf(s + 1))) = (s + 1) - 1
        BY <4>1 DEF TreeInv
      <4>3. LineOf(s + 1) = Heads[s]
        BY <4>1 DEF LineOf
      <4> QED BY <3>2, <4>1, <4>2, <4>3 DEF HeadsTo
    <3> QED BY <3>1, <3>2
  <2>2. j \in Nat /\ j - 1 \in Nat
    BY <1>1, <2>1
  <2>3. ASSUME NEW i \in HeadLines, i <= j - 1
        PROVE  Cardinality(HeadsTo(i)) < s
    <3>1. i < j
      BY <1>1, <2>2, <2>3
    <3> QED BY <2>1, <3>1, HeadFacts DEF TreeInv
  <2>4. s < Len(tree) => j - 1 < line
    BY <1>1, <2>1, <2>2
  <2>5. s = Len(tree) /\ line + 1 \notin HeadLines => j - 1 >= line + 1
    BY <1>1, <2>1, <2>2
  <2> QED BY <1>4, <2>1, <2>2, <2>3, <2>4, <2>5
<1> QED BY <1>3, <1>4

LEMMA LinesFacts ==
  ASSUME TreeInv, NEW s \in 1 .. Len(tree)
  PROVE  /\ LinesOf(s) \cap HeadLines = {}
         /\ s < Len(tree) => line + 1 \notin LinesOf(s)
         /\ s = Len(tree) /\ line < Len(text) /\ line + 1 \notin HeadLines => line + 1 \in LinesOf(s)
<1>1. s \in Nat /\ line \in Nat /\ HeadLines \subseteq Nat /\ Len(text) \in Nat
      /\ \A i : Cardinality(HeadsTo(i)) \in Nat
  BY TreeFacts, HeadFacts DEF TreeInv
<1>2. PICK from \in 1 .. line + 1 :
           /\ from = IF s = 1 THEN 1 ELSE Heads[s - 1] + 1
           /\ \A i \in HeadLines : i >= from => Cardinality(HeadsTo(i)) >= s
  BY SectionBegins
<1>3. PICK to \in Nat :
           /\ to = IF s > Len(Heads) THEN Len(text) ELSE Heads[s] - 1
           /\ \A i \in HeadLines : i <= to => Cardinality(HeadsTo(i)) < s
           /\ s < Len(tree) => to < line
           /\ s = Len(tree) /\ line < Len(text) /\ line + 1 \notin HeadLines => to >= line + 1
  BY SectionEnds
<1>4. LinesOf(s) = from .. to
  BY <1>2, <1>3 DEF LinesOf
<1>5. LinesOf(s) \cap HeadLines = {}
  <2> SUFFICES ASSUME NEW i \in HeadLines, i \in from .. to PROVE FALSE
    BY <1>4
  <2>1. Cardinality(HeadsTo(i)) >= s /\ Cardinality(HeadsTo(i)) < s
    BY <1>1, <1>2, <1>3
  <2> QED BY <1>1, <2>1
<1>6. s < Len(tree) => line + 1 \notin LinesOf(s)
  BY <1>1, <1>3, <1>4
<1>7. s = Len(tree) /\ line < Len(text) /\ line + 1 \notin HeadLines => line + 1 \in LinesOf(s)
  BY <1>1, <1>2, <1>3, <1>4
<1> QED BY <1>5, <1>6, <1>7

-----------------------------------------------------------------------------
(* The body of a section, as far as it has been read.                      *)

Char == STRING \cup {"newline"}

BodyPart(s, i) == IF i \in LinesOf(s) THEN text[i].body ELSE <<>>
BodyParts(s, l) == [i \in 1 .. l |-> BodyPart(s, i)]
BodyTo(s, l) == FlattenSeq(BodyParts(s, l))

LEMMA SeqOfMore ==
  ASSUME NEW S, NEW T, S \subseteq T, NEW s, s \in Seq(S)
  PROVE  s \in Seq(T)
OBVIOUS

LEMMA BodyPartType ==
  ASSUME TreeInv, NEW s \in 1 .. Len(tree), NEW i \in 1 .. Len(text)
  PROVE  BodyPart(s, i) \in Seq(Char)
<1> DEFINE H == [heading : {TRUE}, level : 1 .. 6, title : STRING]
           B == [heading : {FALSE}, body : Seq(STRING)]
<1>1. text \in Seq(H \cup B)
  BY SplitAssumption DEF TreeInv
<1> HIDE DEF H, B
<1>2. i \in DOMAIN text
  BY <1>1
<1>3. PICK x \in H \cup B : x = text[i]
  BY <1>1, <1>2
<1>4. CASE i \notin LinesOf(s)
  <2>1. <<>> \in Seq(Char)
    BY EmptySeq
  <2> QED BY <1>4, <2>1 DEF BodyPart
<1>5. CASE i \in LinesOf(s)
  <2>1. i \notin HeadLines
    BY <1>5, LinesFacts
  <2>2. ~x.heading
    BY <1>2, <1>3, <2>1 DEF HeadLines
  <2>3. x \notin H
    BY <2>2 DEF H
  <2>4. x \in B
    BY <2>3
  <2>5. x.body \in Seq(Char)
    <3>1. x.body \in Seq(STRING)
      BY <2>4 DEF B
    <3>2. STRING \subseteq Char
      BY DEF Char
    <3> QED BY <3>1, <3>2, SeqOfMore
  <2> QED BY <1>3, <1>5, <2>5 DEF BodyPart
<1> QED BY <1>4, <1>5

LEMMA BodyPartsType ==
  ASSUME NEW s, NEW l \in Nat, \A i \in 1 .. l : BodyPart(s, i) \in Seq(Char)
  PROVE  /\ BodyParts(s, l) \in Seq(Seq(Char)) /\ Len(BodyParts(s, l)) = l
         /\ \A i \in 1 .. l : BodyParts(s, l)[i] = BodyPart(s, i)
         /\ BodyTo(s, l) \in Seq(Char)
<1>1. PICK p : p = BodyParts(s, l)
  OBVIOUS
<1>2. p = [i \in 1 .. l |-> BodyPart(s, i)]
  BY <1>1 DEF BodyParts
<1>3. PICK T : T = Seq(Char)
  OBVIOUS
<1>4. p \in Seq(T)
  BY <1>2, <1>3
<1>5. Len(p) = l /\ \A i \in 1 .. l : p[i] = BodyPart(s, i)
  BY <1>2, <1>4
<1>6. p \in Seq(Seq(Char))
  BY <1>3, <1>4
<1>7. BodyTo(s, l) \in Seq(Char)
  BY <1>1, <1>6, FlattenType DEF BodyTo
<1> QED BY <1>1, <1>5, <1>6, <1>7

LEMMA BodyGrows ==
  ASSUME NEW s, NEW l \in Nat, \A i \in 1 .. l + 1 : BodyPart(s, i) \in Seq(Char)
  PROVE  BodyTo(s, l + 1) = BodyTo(s, l) \o BodyPart(s, l + 1)
<1>1. PICK p, q, x : p = BodyParts(s, l) /\ q = BodyParts(s, l + 1) /\ x = BodyPart(s, l + 1)
  OBVIOUS
<1>2. \A i \in 1 .. l : i \in 1 .. l + 1
  OBVIOUS
<1>3. l + 1 \in Nat /\ l + 1 \in 1 .. l + 1
  OBVIOUS
<1>4. /\ p \in Seq(Seq(Char)) /\ Len(p) = l /\ \A i \in 1 .. l : p[i] = BodyPart(s, i)
      /\ q \in Seq(Seq(Char)) /\ Len(q) = l + 1 /\ \A i \in 1 .. l + 1 : q[i] = BodyPart(s, i)
      /\ x \in Seq(Char) /\ q[l + 1] = x
  <2>1. p \in Seq(Seq(Char)) /\ Len(p) = l /\ \A i \in 1 .. l : p[i] = BodyPart(s, i)
    BY <1>1, <1>2, BodyPartsType
  <2>2. q \in Seq(Seq(Char)) /\ Len(q) = l + 1 /\ \A i \in 1 .. l + 1 : q[i] = BodyPart(s, i)
    BY <1>1, <1>3, BodyPartsType
  <2> QED BY <1>1, <1>3, <2>1, <2>2
<1>5. \A i \in 1 .. l : q[i] = p[i]
  BY <1>2, <1>4
<1>6. FlattenSeq(q) = FlattenSeq(p) \o x
  BY <1>4, <1>5, FlattenLast
<1> QED BY <1>1, <1>6 DEF BodyTo

LEMMA BodyAll ==
  ASSUME text \in Text, NEW s
  PROVE  BodyTo(s, Len(text)) = BodyOf(s)
<1>1. DOMAIN text = 1 .. Len(text)
  BY HeadFacts
<1> QED BY <1>1 DEF BodyTo, BodyParts, BodyPart, BodyOf

\* A section that begins after line l has no body up to there.
LEMMA NoBody ==
  ASSUME NEW s, NEW l \in Nat, \A i \in 1 .. l : i \notin LinesOf(s)
  PROVE  BodyTo(s, l) = <<>>
<1>1. <<>> \in Seq(Char)
  BY EmptySeq
<1>2. \A i \in 1 .. l : BodyPart(s, i) = <<>>
  BY DEF BodyPart
<1>3. PICK p \in Seq(Seq(Char)) : p = BodyParts(s, l) /\ Len(p) = l /\ \A i \in 1 .. l : p[i] = <<>>
  <2>1. \A i \in 1 .. l : BodyPart(s, i) \in Seq(Char)
    BY <1>1, <1>2
  <2> QED BY <1>2, <2>1, BodyPartsType
<1> QED BY <1>3, FlattenNone DEF BodyTo

(* The pieces made of a section. *)
PieceOf(s, r) == IF r.section = s THEN r.content ELSE <<>>
PieceParts(s) == [k \in DOMAIN raws |-> PieceOf(s, raws[k])]

LEMMA PiecesType ==
  ASSUME NEW s, IsSeq(raws), \A k \in DOMAIN raws : raws[k].content \in Seq(Char)
  PROVE  /\ PieceParts(s) \in Seq(Seq(Char)) /\ Len(PieceParts(s)) = Len(raws)
         /\ \A k \in 1 .. Len(raws) : PieceParts(s)[k] = PieceOf(s, raws[k])
         /\ PiecesOf(s) = FlattenSeq(PieceParts(s)) /\ PiecesOf(s) \in Seq(Char)
<1>0. PICK n \in Nat : n = Len(raws) /\ DOMAIN raws = 1 .. n
  BY SeqFacts
<1>1. PICK p : p = PieceParts(s) /\ n = Len(raws) /\ DOMAIN raws = 1 .. n
  BY <1>0
<1>2. p = [k \in 1 .. n |-> PieceOf(s, raws[k])]
  BY <1>1 DEF PieceParts
<1>3. PICK T : T = Seq(Char)
  OBVIOUS
<1>4. \A k \in 1 .. n : PieceOf(s, raws[k]) \in T
  BY <1>1, <1>3, EmptySeq DEF PieceOf
<1>5. p \in Seq(T)
  BY <1>2, <1>4
<1>6. Len(p) = n /\ \A k \in 1 .. n : p[k] = PieceOf(s, raws[k])
  BY <1>2, <1>5
<1>7. p \in Seq(Seq(Char))
  BY <1>3, <1>5
<1>8. PiecesOf(s) = FlattenSeq(p)
  BY <1>1 DEF PiecesOf, PieceParts, PieceOf
<1>9. FlattenSeq(p) \in Seq(Char)
  BY <1>7, FlattenType
<1> QED BY <1>1, <1>6, <1>7, <1>8, <1>9

LEMMA NoPieces ==
  ASSUME NEW s, IsSeq(raws), \A k \in DOMAIN raws : raws[k].content \in Seq(Char),
         \A k \in DOMAIN raws : raws[k].section # s
  PROVE  PiecesOf(s) = <<>>
<1>1. PICK n \in Nat : n = Len(raws) /\ DOMAIN raws = 1 .. n
  BY SeqFacts
<1>2. PICK p \in Seq(Seq(Char)) : /\ p = PieceParts(s) /\ Len(p) = n /\ PiecesOf(s) = FlattenSeq(p)
                                  /\ \A k \in 1 .. n : p[k] = PieceOf(s, raws[k])
  BY <1>1, PiecesType
<1>3. \A k \in 1 .. Len(p) : p[k] = <<>>
  BY <1>1, <1>2 DEF PieceOf
<1> QED BY <1>2, <1>3, FlattenNone

LEMMA PiecesGrow ==
  ASSUME NEW s, IsSeq(raws), \A k \in DOMAIN raws : raws[k].content \in Seq(Char),
         NEW raw, raw.content \in Seq(Char), raws' = Append(raws, raw)
  PROVE  PiecesOf(s)' = PiecesOf(s) \o PieceOf(s, raw)
<1>1. PICK n \in Nat : n = Len(raws) /\ DOMAIN raws = 1 .. n
  BY SeqFacts
<1>2. /\ DOMAIN raws' = 1 .. n + 1 /\ raws'[n + 1] = raw /\ \A k \in 1 .. n : raws'[k] = raws[k]
  BY <1>1, SeqFacts
<1>3. PICK p, q, x : p = PieceParts(s) /\ q = PieceParts(s)' /\ x = PieceOf(s, raw)
  OBVIOUS
<1>4. PICK T : T = Seq(Char)
  OBVIOUS
<1>5. p \in Seq(T) /\ Len(p) = n /\ \A k \in 1 .. n : p[k] = PieceOf(s, raws[k])
  BY <1>1, <1>3, <1>4, PiecesType
<1>6. x \in T /\ \A k \in 1 .. n : PieceOf(s, raws[k]) \in T
  BY <1>1, <1>3, <1>4, EmptySeq DEF PieceOf
<1>7. q = [k \in 1 .. n + 1 |-> IF k = n + 1 THEN x ELSE PieceOf(s, raws[k])]
  <2>1. q = [k \in 1 .. n + 1 |-> PieceOf(s, raws'[k])]
    BY <1>2, <1>3 DEF PieceParts, PieceOf
  <2>2. \A k \in 1 .. n + 1 : PieceOf(s, raws'[k]) = IF k = n + 1 THEN x ELSE PieceOf(s, raws[k])
    <3> TAKE k \in 1 .. n + 1
    <3>1. k # n + 1 => k \in 1 .. n
      OBVIOUS
    <3> QED BY <1>2, <1>3, <3>1
  <2> QED BY <2>1, <2>2
<1>8. q \in Seq(T)
  <2>1. \A k \in 1 .. n + 1 : k = n + 1 \/ k \in 1 .. n
    OBVIOUS
  <2>2. \A k \in 1 .. n + 1 : (IF k = n + 1 THEN x ELSE PieceOf(s, raws[k])) \in T
    BY <1>6, <2>1
  <2> QED BY <1>7, <2>2
<1>9. Len(q) = n + 1 /\ q[n + 1] = x /\ \A k \in 1 .. n : q[k] = p[k]
  BY <1>5, <1>7, <1>8
<1>10. FlattenSeq(q) = FlattenSeq(p) \o x
  <2>1. p \in Seq(Seq(Char)) /\ q \in Seq(Seq(Char)) /\ x \in Seq(Char) /\ Len(p) = n
    BY <1>4, <1>5, <1>6, <1>8
  <2> QED BY <1>9, <2>1, FlattenLast
<1>11. PiecesOf(s) = FlattenSeq(p) /\ PiecesOf(s)' = FlattenSeq(q)
  BY <1>3 DEF PiecesOf, PieceParts, PieceOf
<1> QED BY <1>3, <1>10, <1>11

-----------------------------------------------------------------------------
(* What has been read, and what has been cut.                              *)

Unread(s) == IF s = Len(tree) THEN buf ELSE <<>>
Uncut(s) == IF s = visited THEN rest ELSE <<>>

ContentType ==
  /\ \A s \in DOMAIN tree : tree[s].content \in Seq(Char)
  /\ buf \in Seq(Char) /\ rest \in Seq(Char)
  /\ \A k \in DOMAIN raws : raws[k].content \in Seq(Char)

(***************************************************************************)
(* While the text is read, a section and the lines not given to it yet     *)
(* have the letters of its body so far.                                    *)
(***************************************************************************)
ReadInv ==
  phase = "parse" =>
    /\ line <= Len(text)
    /\ \A s \in DOMAIN tree :
         Letters(tree[s].content) \o Letters(Unread(s)) = Letters(BodyTo(s, line))

(***************************************************************************)
(* From then on a section has the letters of its body, and the pieces made *)
(* of it and what is left to cut have the letters of the section.          *)
(***************************************************************************)
WalkInv ==
  phase # "parse" =>
    /\ Len(tree) = Cardinality(HeadLines) + 1
    /\ \A s \in DOMAIN tree : Letters(tree[s].content) = Letters(BodyOf(s))
    /\ \A s \in 1 .. visited :
         Letters(PiecesOf(s)) \o Letters(Uncut(s)) = Letters(tree[s].content)
    /\ phase = "done" => visited = Len(tree) /\ rest = <<>>

ContentInv == ContentType /\ ReadInv /\ WalkInv

LEMMA LettersOfNone == Letters(<<>>) = <<>>
<1>1. PICK e : e = <<>> /\ e \in Seq(Char) /\ Len(e) = 0
  BY EmptySeq
<1>2. \A i \in 1 .. Len(e) : e[i] \in {"newline", "dash"}
  BY <1>1
<1>3. Letters(e) = <<>>
  BY <1>1, <1>2, NoLetters
<1> QED BY <1>1, <1>3

\* A line's end has no letters.
LEMMA LettersOfLine ==
  ASSUME NEW body \in Seq(Char)
  PROVE  /\ Append(body, "newline") \in Seq(Char)
         /\ Letters(Append(body, "newline")) = Letters(body)
<1>1. PICK nl : nl = "newline"
  OBVIOUS
<1>2. nl \in Char
  BY <1>1 DEF Char
<1>3. PICK one : one = <<nl>>
  OBVIOUS
<1>4. one \in Seq(Char) /\ Len(one) = 1 /\ one[1] = nl
  BY <1>2, <1>3
<1>5. Append(body, nl) = body \o one /\ Append(body, nl) \in Seq(Char)
  BY <1>2, <1>3
<1>6. Letters(one) = <<>>
  <2>1. \A i \in 1 .. Len(one) : one[i] \in {"newline", "dash"}
    BY <1>1, <1>4
  <2> QED BY <1>4, <2>1, NoLetters
<1>7. Letters(body \o one) = Letters(body) \o Letters(one)
  BY <1>4, LettersConcat
<1>8. Letters(body) \o <<>> = Letters(body)
  BY LettersType, ConcatEmptySeq
<1> QED BY <1>1, <1>5, <1>6, <1>7, <1>8

LEMMA FlushedLetters ==
  ASSUME SplitType, ContentType, Last(stack) = Len(tree), NEW s \in DOMAIN tree
  PROVE  /\ Flushed[s].content \in Seq(Char)
         /\ Letters(Flushed[s].content) = Letters(tree[s].content) \o Letters(Unread(s))
<1>1. PICK c, t, f : c = tree[s].content /\ t = Strip(buf) /\ f = Flushed[s].content
  OBVIOUS
<1>2. c \in Seq(Char) /\ t \in Seq(Char) /\ Letters(t) = Letters(buf)
  BY <1>1, StripLetters DEF ContentType
<1>3. CASE s = Len(tree)
  <2>1. Flushed[s] = [tree[s] EXCEPT !.content = @ \o Strip(buf)]
    BY <1>3 DEF Flushed
  <2>2. f = c \o t
    BY <1>1, <2>1
  <2>3. f \in Seq(Char)
    BY <1>2, <2>2, ConcatFacts
  <2>4. Letters(f) = Letters(c) \o Letters(t)
    BY <1>2, <2>2, LettersConcat
  <2> QED BY <1>1, <1>2, <1>3, <2>3, <2>4 DEF Unread
<1>4. CASE s # Len(tree)
  <2>1. f = c
    BY <1>1, <1>4 DEF Flushed
  <2>2. Letters(c) \o <<>> = Letters(c)
    BY <1>2, LettersType, ConcatEmptySeq
  <2> QED BY <1>1, <1>2, <1>4, <2>1, <2>2, LettersOfNone DEF Unread
<1> QED BY <1>3, <1>4

LEMMA BodySame ==
  ASSUME text' = text
  PROVE  /\ HeadLines' = HeadLines /\ Heads' = Heads
         /\ \A s, l : LinesOf(s)' = LinesOf(s) /\ BodyTo(s, l)' = BodyTo(s, l)
         /\ \A s : BodyOf(s)' = BodyOf(s)
<1>1. HeadLines' = HeadLines /\ Heads' = Heads
  BY DEF HeadLines, Heads, HeadsTo
<1>2. \A s : LinesOf(s)' = LinesOf(s)
  BY <1>1 DEF LinesOf
<1>3. \A s, l : BodyTo(s, l)' = BodyTo(s, l)
  BY <1>2 DEF BodyTo, BodyParts, BodyPart
<1>4. \A s : BodyOf(s)' = BodyOf(s)
  BY <1>2 DEF BodyOf
<1> QED BY <1>1, <1>2, <1>3, <1>4

\* One more line of a section.
LEMMA BodyNext ==
  ASSUME TreeInv, line < Len(text), NEW s \in 1 .. Len(tree)
  PROVE  /\ BodyTo(s, line) \in Seq(Char) /\ BodyPart(s, line + 1) \in Seq(Char)
         /\ BodyTo(s, line + 1) = BodyTo(s, line) \o BodyPart(s, line + 1)
<1>1. line \in Nat /\ Len(text) \in Nat
  BY HeadFacts DEF TreeInv
<1>2. \A i \in 1 .. line + 1 : BodyPart(s, i) \in Seq(Char)
  <2>1. \A i \in 1 .. line + 1 : i \in 1 .. Len(text)
    BY <1>1
  <2> QED BY <2>1, BodyPartType
<1>3. \A i \in 1 .. line : BodyPart(s, i) \in Seq(Char)
  BY <1>1, <1>2
<1>4. BodyTo(s, line) \in Seq(Char)
  BY <1>1, <1>3, BodyPartsType
<1>5. BodyTo(s, line + 1) = BodyTo(s, line) \o BodyPart(s, line + 1)
  BY <1>1, <1>2, BodyGrows
<1>6. line + 1 \in 1 .. line + 1
  BY <1>1
<1> QED BY <1>2, <1>4, <1>5, <1>6

LEMMA HeadingContents ==
  ASSUME SplitType, TreeInv, StackInv, ContentInv, ReadHeading
  PROVE  ContentInv'
<1>1. PICK n \in Nat : n = Len(tree) /\ n > 0 /\ DOMAIN tree = 1 .. n
  BY TreeFacts
<1>2. Last(stack) = Len(tree)
  BY DEF StackInv, Last
<1>3. PICK f : /\ f = Flushed /\ IsSeq(f) /\ Len(f) = n
  BY <1>1, FlushedFacts
<1>4. PICK sec : tree' = Append(f, sec) /\ sec.content = <<>>
  <2>1. PICK head, open : tree' = Append(Flushed, Section(head.title, head.level, Last(open)))
    BY DEF ReadHeading
  <2> QED BY <1>3, <2>1 DEF Section
<1>5. /\ phase = "parse" /\ line < Len(text) /\ line + 1 \in HeadLines
      /\ buf' = <<>> /\ line' = line + 1 /\ UNCHANGED <<text, phase, visited, rest, raws>>
  BY HeadingFacts DEF ReadHeading
<1>6. /\ DOMAIN tree' = 1 .. n + 1 /\ tree'[n + 1] = sec /\ \A s \in 1 .. n : tree'[s] = f[s]
  BY <1>3, <1>4, SeqFacts
<1>7. <<>> \in Seq(Char)
  BY EmptySeq
<1>8. ContentType'
  <2>1. \A s \in 1 .. n : tree'[s].content \in Seq(Char)
    BY <1>1, <1>2, <1>3, <1>6, FlushedLetters DEF ContentInv
  <2>2. \A s \in 1 .. n + 1 : s = n + 1 \/ s \in 1 .. n
    OBVIOUS
  <2> QED BY <1>4, <1>5, <1>6, <1>7, <2>1, <2>2 DEF ContentInv, ContentType
<1>9. \A s : Unread(s)' = <<>>
  BY <1>5 DEF Unread
<1>10. ASSUME NEW s \in 1 .. n
       PROVE  Letters(tree'[s].content) \o <<>> = Letters(BodyTo(s, line + 1))
  <2>1. PICK b : b = BodyTo(s, line) /\ b \in Seq(Char)
    BY <1>1, <1>5, BodyNext
  <2>2. Letters(tree'[s].content) = Letters(b)
    <3>1. Letters(tree'[s].content) = Letters(tree[s].content) \o Letters(Unread(s))
      BY <1>1, <1>2, <1>3, <1>6, FlushedLetters DEF ContentInv
    <3> QED BY <1>1, <1>5, <2>1, <3>1 DEF ContentInv, ReadInv
  <2>3. BodyPart(s, line + 1) = <<>>
    <3>1. line + 1 \notin LinesOf(s)
      BY <1>1, <1>5, LinesFacts
    <3> QED BY <3>1 DEF BodyPart
  <2>4. b \o <<>> = b /\ Letters(b) \o <<>> = Letters(b)
    BY <2>1, LettersType, ConcatEmptySeq
  <2>5. BodyTo(s, line + 1) = b
    BY <1>1, <1>5, <2>1, <2>3, <2>4, BodyNext
  <2> QED BY <2>2, <2>4, <2>5
<1>11. BodyTo(n + 1, line + 1) = <<>>
  <2>1. /\ Cardinality(HeadsTo(line + 1)) = n /\ line \in Nat
    <3>1. Cardinality(HeadsTo(line)) + 1 = n
      BY <1>1 DEF TreeInv
    <3> QED BY <1>5, <3>1, HeadsGrow DEF TreeInv
  <2>2. LineOf(n + 1) = line + 1
    BY <1>5, <2>1, HeadOfNumber DEF TreeInv
  <2>3. Heads[n] = line + 1
    <3>1. (n + 1) - 1 = n
      OBVIOUS
    <3> QED BY <2>2, <3>1 DEF LineOf
  <2>4. \A i \in 1 .. line + 1 : i \notin LinesOf(n + 1)
    <3>1. n + 1 # 1 /\ (n + 1) - 1 = n
      BY <1>1
    <3>2. PICK to : to = IF n + 1 > Len(Heads) THEN Len(text) ELSE Heads[n + 1] - 1
      OBVIOUS
    <3>3. LinesOf(n + 1) = (line + 1) + 1 .. to
      BY <2>3, <3>1, <3>2 DEF LinesOf
    <3>4. \A i \in 1 .. line + 1 : ~((line + 1) + 1 <= i)
      BY <2>1
    <3>5. \A i \in (line + 1) + 1 .. to : (line + 1) + 1 <= i
      BY <2>1
    <3> QED BY <3>3, <3>4, <3>5
  <2> QED BY <2>1, <2>4, NoBody
<1>12. \A s \in 1 .. n + 1 : Letters(tree'[s].content) \o <<>> = Letters(BodyTo(s, line + 1))
  <2>1. Letters(tree'[n + 1].content) \o <<>> = Letters(BodyTo(n + 1, line + 1))
    <3>1. <<>> \o <<>> = <<>>
      BY <1>7, ConcatEmptySeq
    <3> QED BY <1>4, <1>6, <1>11, <3>1, LettersOfNone
  <2>2. \A s \in 1 .. n + 1 : s = n + 1 \/ s \in 1 .. n
    OBVIOUS
  <2> QED BY <1>10, <2>1, <2>2
<1>13. ReadInv'
  <2>1. line' <= Len(text)'
    <3>1. line \in Nat /\ Len(text) \in Nat
      BY HeadFacts DEF TreeInv
    <3> QED BY <1>5, <3>1
  <2>2. ASSUME NEW s \in DOMAIN tree'
        PROVE  Letters(tree'[s].content) \o Letters(Unread(s)') = Letters(BodyTo(s, line)')
    <3>1. BodyTo(s, line)' = BodyTo(s, line + 1)
      <4>1. LinesOf(s)' = LinesOf(s)
        BY <1>5, BodySame
      <4> QED BY <1>5, <4>1 DEF BodyTo, BodyParts, BodyPart
    <3> QED BY <1>6, <1>9, <1>12, <3>1, LettersOfNone
  <2> QED BY <2>1, <2>2 DEF ReadInv
<1>14. WalkInv'
  BY <1>5 DEF WalkInv
<1> QED BY <1>8, <1>13, <1>14 DEF ContentInv

LEMMA BodyContents ==
  ASSUME SplitType, TreeInv, ContentInv, ReadBody
  PROVE  ContentInv'
<1>1. PICK n \in Nat : n = Len(tree) /\ n > 0 /\ DOMAIN tree = 1 .. n
  BY TreeFacts
<1>2. /\ phase = "parse" /\ line < Len(text) /\ ~text[line + 1].heading
      /\ buf' = buf \o Append(text[line + 1].body, "newline") /\ line' = line + 1
      /\ UNCHANGED <<text, phase, tree, visited, rest, raws>>
  BY DEF ReadBody
<1>3. line + 1 \notin HeadLines
  BY <1>2 DEF HeadLines
<1>4. BodyPart(n, line + 1) = text[line + 1].body
  BY <1>1, <1>2, <1>3, LinesFacts DEF BodyPart
<1>5. PICK body : body = text[line + 1].body /\ body \in Seq(Char)
  BY <1>1, <1>2, <1>4, BodyNext
<1>6. PICK with : /\ with = Append(body, "newline") /\ with \in Seq(Char)
                  /\ Letters(with) = Letters(body) /\ buf' = buf \o with
  BY <1>2, <1>5, LettersOfLine
<1>7. buf \in Seq(Char) /\ \A s \in 1 .. n : tree[s].content \in Seq(Char)
  BY <1>1 DEF ContentInv, ContentType
<1>8. buf' \in Seq(Char) /\ Letters(buf') = Letters(buf) \o Letters(body)
  <2>1. buf \o with \in Seq(Char)
    BY <1>6, <1>7, ConcatFacts
  <2>2. Letters(buf \o with) = Letters(buf) \o Letters(with)
    BY <1>6, <1>7, LettersConcat
  <2> QED BY <1>6, <2>1, <2>2
<1>9. ContentType'
  BY <1>2, <1>8 DEF ContentInv, ContentType
<1>10. ASSUME NEW s \in 1 .. n
       PROVE  Letters(tree[s].content) \o Letters(Unread(s)') = Letters(BodyTo(s, line + 1))
  <2>1. PICK b, p : /\ b = BodyTo(s, line) /\ b \in Seq(Char)
                    /\ p = BodyPart(s, line + 1) /\ p \in Seq(Char)
                    /\ BodyTo(s, line + 1) = b \o p
    BY <1>1, <1>2, BodyNext
  <2>2. Letters(tree[s].content) \o Letters(Unread(s)) = Letters(b)
    BY <1>1, <1>2, <2>1 DEF ContentInv, ReadInv
  <2>3. CASE s = n
    <3>1. p = body /\ Unread(s) = buf /\ Unread(s)' = buf'
      BY <1>1, <1>2, <1>4, <1>5, <2>1, <2>3 DEF Unread
    <3>2. PICK x, y, z : x = Letters(tree[s].content) /\ y = Letters(buf) /\ z = Letters(body)
      OBVIOUS
    <3>3. x \in Seq(Char) /\ y \in Seq(Char) /\ z \in Seq(Char)
      BY <1>5, <1>7, <3>2, LettersType
    <3>4. (x \o y) \o z = x \o (y \o z)
      BY <3>3
    <3>5. Letters(b \o p) = Letters(b) \o Letters(p)
      BY <2>1, LettersConcat
    <3> QED BY <1>8, <2>1, <2>2, <3>1, <3>2, <3>4, <3>5
  <2>4. CASE s # n
    <3>1. Unread(s) = <<>> /\ Unread(s)' = <<>>
      BY <1>1, <1>2, <2>4 DEF Unread
    <3>2. p = <<>>
      <4>1. line + 1 \notin LinesOf(s)
        BY <1>1, <2>4, LinesFacts
      <4> QED BY <2>1, <4>1 DEF BodyPart
    <3>3. b \o <<>> = b
      BY <2>1, ConcatEmptySeq
    <3> QED BY <2>1, <2>2, <3>1, <3>2, <3>3
  <2> QED BY <2>3, <2>4
<1>11. ReadInv'
  <2>1. line' <= Len(text)'
    <3>1. line \in Nat /\ Len(text) \in Nat
      BY HeadFacts DEF TreeInv
    <3> QED BY <1>2, <3>1
  <2>2. ASSUME NEW s \in DOMAIN tree'
        PROVE  Letters(tree'[s].content) \o Letters(Unread(s)') = Letters(BodyTo(s, line)')
    <3>1. BodyTo(s, line)' = BodyTo(s, line + 1)
      <4>1. LinesOf(s)' = LinesOf(s)
        BY <1>2, BodySame
      <4> QED BY <1>2, <4>1 DEF BodyTo, BodyParts, BodyPart
    <3> QED BY <1>1, <1>2, <1>10, <3>1
  <2> QED BY <2>1, <2>2 DEF ReadInv
<1>12. WalkInv'
  BY <1>2 DEF WalkInv
<1> QED BY <1>9, <1>11, <1>12 DEF ContentInv

LEMMA EndContents ==
  ASSUME SplitType, TreeInv, StackInv, ContentInv, EndOfText, visited = 0
  PROVE  ContentInv'
<1>1. PICK n \in Nat : n = Len(tree) /\ n > 0 /\ DOMAIN tree = 1 .. n
  BY TreeFacts
<1>2. Last(stack) = Len(tree)
  BY DEF StackInv, Last
<1>3. PICK f : /\ f = Flushed /\ IsSeq(f) /\ Len(f) = n /\ DOMAIN f = 1 .. n
  <2>1. IsSeq(Flushed) /\ Len(Flushed) = n
    BY <1>1, FlushedFacts
  <2> QED BY <2>1, SeqFacts
<1>4. /\ phase = "parse" /\ line = Len(text) /\ tree' = f /\ phase' = "walk"
      /\ UNCHANGED <<text, line, buf, visited, rest, raws>>
  BY <1>3 DEF EndOfText
<1>5. \A s \in 1 .. n : /\ f[s].content \in Seq(Char)
                        /\ Letters(f[s].content) = Letters(tree[s].content) \o Letters(Unread(s))
  BY <1>1, <1>2, <1>3, FlushedLetters DEF ContentInv
<1>6. ContentType'
  BY <1>3, <1>4, <1>5 DEF ContentInv, ContentType
<1>7. \A s \in 1 .. n : Letters(f[s].content) = Letters(BodyOf(s))
  BY <1>1, <1>4, <1>5, BodyAll DEF ContentInv, ReadInv, TreeInv
<1>8. n = Cardinality(HeadLines) + 1
  <2>1. HeadsTo(line) = HeadLines
    BY <1>4, HeadFacts DEF HeadsTo, TreeInv
  <2> QED BY <1>1, <2>1 DEF TreeInv
<1>9. WalkInv'
  <2>1. HeadLines' = HeadLines /\ \A s : BodyOf(s)' = BodyOf(s)
    BY <1>4, BodySame
  <2>2. 1 .. visited' = {}
    BY <1>4
  <2> QED BY <1>3, <1>4, <1>7, <1>8, <2>1, <2>2 DEF WalkInv
<1>10. ReadInv'
  BY <1>4 DEF ReadInv
<1> QED BY <1>6, <1>9, <1>10 DEF ContentInv

\* In the walk the tree stays, so only what is cut counts.
LEMMA WalkStep ==
  ASSUME ContentInv, phase # "parse", phase' # "parse", ContentType',
         UNCHANGED <<text, tree>>,
         \A s \in 1 .. visited' :
           Letters(PiecesOf(s)') \o Letters(Uncut(s)') = Letters(tree[s].content),
         phase' = "done" => visited' = Len(tree) /\ rest' = <<>>
  PROVE  ContentInv'
<1>1. HeadLines' = HeadLines /\ \A s : BodyOf(s)' = BodyOf(s)
  BY BodySame
<1>2. WalkInv'
  BY <1>1 DEF ContentInv, WalkInv
<1>3. ReadInv'
  BY DEF ReadInv
<1> QED BY <1>2, <1>3 DEF ContentInv

LEMMA VisitContents ==
  ASSUME SplitInv, TreeInv, TitleInv, ContentInv, Visit
  PROVE  ContentInv'
<1>1. PICK n \in Nat, v \in Nat : n = Len(tree) /\ DOMAIN tree = 1 .. n /\ v = visited
  <2>1. visited \in Nat
    BY DEF SplitInv, SplitType
  <2> QED BY <2>1, TreeFacts
<1>2. /\ phase = "walk" /\ phase' = "walk" /\ rest = <<>> /\ v < n /\ visited' = v + 1
      /\ rest' = Strip(tree[v + 1].content) /\ UNCHANGED <<text, tree, buf, raws>>
  BY <1>1 DEF Visit
<1>3. v + 1 \in 1 .. n
  BY <1>1, <1>2
<1>4. PICK c : c = tree[v + 1].content /\ c \in Seq(Char)
  BY <1>1, <1>3 DEF ContentInv, ContentType
<1>5. rest' \in Seq(Char) /\ Letters(rest') = Letters(c)
  BY <1>2, <1>4, StripLetters
<1>6. ContentType'
  BY <1>2, <1>5 DEF ContentInv, ContentType
<1>7. \A s : PiecesOf(s)' = PiecesOf(s)
  BY <1>2 DEF PiecesOf
<1>8. ASSUME NEW s \in 1 .. v + 1
      PROVE  Letters(PiecesOf(s)') \o Letters(Uncut(s)') = Letters(tree[s].content)
  <2>1. CASE s = v + 1
    <3>1. PiecesOf(s) = <<>>
      <4>1. \A k \in DOMAIN raws : raws[k].section # s
        <5>1. \A k \in DOMAIN raws : raws[k].section \in 0 .. v
          BY <1>1 DEF SplitInv, PiecesEndWell
        <5> QED BY <2>1, <5>1
      <4> QED BY <4>1, NoPieces DEF ContentInv, ContentType, SplitInv, SplitType
    <3>2. Uncut(s)' = rest'
      BY <1>2, <2>1 DEF Uncut
    <3>3. <<>> \o Letters(c) = Letters(c)
      BY <1>4, LettersType, ConcatEmptySeq
    <3> QED BY <1>4, <1>5, <1>7, <2>1, <3>1, <3>2, <3>3, LettersOfNone
  <2>2. CASE s # v + 1
    <3>1. s \in 1 .. visited
      BY <1>1, <2>2
    <3>2. Uncut(s) = <<>> /\ Uncut(s)' = <<>>
      BY <1>2, <2>2 DEF Uncut
    <3>3. Letters(PiecesOf(s)) \o Letters(Uncut(s)) = Letters(tree[s].content)
      BY <1>2, <3>1 DEF ContentInv, WalkInv
    <3> QED BY <1>7, <3>2, <3>3
  <2> QED BY <2>1, <2>2
<1> QED BY <1>2, <1>6, <1>8, WalkStep

LEMMA CutContents ==
  ASSUME SplitInv, TreeInv, TitleInv, ContentInv, Cut
  PROVE  ContentInv'
<1>1. PICK v \in Nat : v = visited
  BY DEF SplitInv, SplitType
<1>2. PICK m, k : m \in Nat /\ m = Len(rest) /\ k = CutAt(rest) /\ k \in 0 .. m /\ rest \in Seq(Char)
  <2>1. rest \in Seq(Char) /\ IsSeq(rest) /\ limit \in Nat
    BY DEF ContentInv, ContentType, SplitInv, SplitType
  <2>2. Len(rest) \in Nat
    BY <2>1
  <2> QED BY <2>1, <2>2, CutFacts
<1>3. PICK piece, left : piece = SubSeq(rest, 1, k) /\ left = SubSeq(rest, k + 1, m)
  OBVIOUS
<1>4. PICK raw : raw = [title |-> CurTitle[v], section |-> v, content |-> piece]
  OBVIOUS
<1>5. raw.section = v /\ raw.content = piece
  BY <1>4
<1>6. /\ phase = "walk" /\ phase' = "walk" /\ rest' = left
      /\ raws' = IF IsNoise(piece) THEN raws ELSE Append(raws, raw)
      /\ UNCHANGED <<text, tree, buf, visited>>
  BY <1>1, <1>2, <1>3, <1>4 DEF Cut
<1>7. piece \in Seq(Char) /\ left \in Seq(Char)
  <2>1. 1 \in 1 .. m + 1 /\ k \in 1 - 1 .. m /\ k + 1 \in 1 .. m + 1 /\ m \in (k + 1) - 1 .. m
    BY <1>2
  <2>2. piece \in Seq(Char)
    BY <1>2, <1>3, <2>1, PartFacts
  <2>3. left \in Seq(Char)
    BY <1>2, <1>3, <2>1, PartFacts
  <2> QED BY <2>2, <2>3
<1>8. rest = piece \o left
  <2>1. 1 \in 1 .. Len(rest) + 1 /\ k \in 1 - 1 .. Len(rest) /\ m \in k .. Len(rest)
    BY <1>2
  <2>2. SubSeq(rest, 1, k) \o SubSeq(rest, k + 1, m) = SubSeq(rest, 1, m)
    BY <1>2, <2>1, ConcatAdjacentSubSeq
  <2>3. SubSeq(rest, 1, m) = rest
    BY <1>2, SubSeqFull
  <2> QED BY <1>3, <2>2, <2>3
<1>9. Letters(rest) = Letters(piece) \o Letters(left)
  BY <1>7, <1>8, LettersConcat
<1>10. IsSeq(raws) /\ \A i \in DOMAIN raws : raws[i].content \in Seq(Char)
  BY DEF ContentInv, ContentType, SplitInv, SplitType
<1>11. \A i \in DOMAIN raws' : raws'[i].content \in Seq(Char)
  <2>1. CASE IsNoise(piece)
    BY <1>6, <1>10, <2>1
  <2>2. CASE ~IsNoise(piece)
    <3>1. PICK l \in Nat : l = Len(raws) /\ DOMAIN raws = 1 .. l
      BY <1>10, SeqFacts
    <3>2. DOMAIN raws' = 1 .. l + 1 /\ raws'[l + 1] = raw /\ \A i \in 1 .. l : raws'[i] = raws[i]
      BY <1>6, <1>10, <2>2, <3>1, SeqFacts
    <3>3. \A i \in 1 .. l + 1 : i = l + 1 \/ i \in 1 .. l
      OBVIOUS
    <3> QED BY <1>5, <1>7, <1>10, <3>1, <3>2, <3>3
  <2> QED BY <2>1, <2>2
<1>12. ContentType'
  BY <1>6, <1>7, <1>11 DEF ContentInv, ContentType
<1>13. \A s : PiecesOf(s) \in Seq(Char)
  BY <1>10, PiecesType
<1>14. \A s : Letters(PiecesOf(s)') = Letters(PiecesOf(s)) \o Letters(IF s = v THEN piece ELSE <<>>)
  <2> TAKE s
  <2>1. Letters(PiecesOf(s)) \o <<>> = Letters(PiecesOf(s))
    BY <1>13, LettersType, ConcatEmptySeq
  <2>2. CASE IsNoise(piece)
    <3>1. PiecesOf(s)' = PiecesOf(s)
      BY <1>6, <2>2 DEF PiecesOf
    <3>2. Letters(IF s = v THEN piece ELSE <<>>) = <<>>
      BY <1>7, <2>2, NoiseLetters, LettersOfNone
    <3> QED BY <2>1, <3>1, <3>2
  <2>3. CASE ~IsNoise(piece)
    <3>1. PICK x : x = (IF s = v THEN piece ELSE <<>>) /\ x \in Seq(Char)
      BY <1>7, EmptySeq
    <3>2. PieceOf(s, raw) = x
      BY <1>5, <3>1 DEF PieceOf
    <3>3. PiecesOf(s)' = PiecesOf(s) \o x
      BY <1>5, <1>6, <1>7, <1>10, <2>3, <3>2, PiecesGrow
    <3>4. Letters(PiecesOf(s) \o x) = Letters(PiecesOf(s)) \o Letters(x)
      BY <1>13, <3>1, LettersConcat
    <3> QED BY <3>1, <3>3, <3>4
  <2> QED BY <2>2, <2>3
<1>15. ASSUME NEW s \in 1 .. v
       PROVE  Letters(PiecesOf(s)') \o Letters(Uncut(s)') = Letters(tree[s].content)
  <2>1. Letters(PiecesOf(s)) \o Letters(Uncut(s)) = Letters(tree[s].content)
    BY <1>1, <1>6 DEF ContentInv, WalkInv
  <2>2. CASE s = v
    <3>1. Uncut(s) = rest /\ Uncut(s)' = left
      BY <1>1, <1>6, <2>2 DEF Uncut
    <3>2. PICK x, y, z : x = Letters(PiecesOf(s)) /\ y = Letters(piece) /\ z = Letters(left)
      OBVIOUS
    <3>3. x \in Seq(Char) /\ y \in Seq(Char) /\ z \in Seq(Char)
      BY <1>7, <1>13, <3>2, LettersType
    <3>4. (x \o y) \o z = x \o (y \o z)
      BY <3>3
    <3> QED BY <1>9, <1>14, <2>1, <2>2, <3>1, <3>2, <3>4
  <2>3. CASE s # v
    <3>1. Uncut(s) = <<>> /\ Uncut(s)' = <<>>
      BY <1>1, <1>6, <2>3 DEF Uncut
    <3>2. Letters(PiecesOf(s)) \o <<>> = Letters(PiecesOf(s))
      BY <1>13, LettersType, ConcatEmptySeq
    <3> QED BY <1>14, <2>1, <2>3, <3>1, <3>2, LettersOfNone
  <2> QED BY <2>2, <2>3
<1> QED BY <1>1, <1>6, <1>12, <1>15, WalkStep

LEMMA ContentsKept == SplitSpec => []ContentInv
<1>1. SplitInit => ContentInv
  <2> SUFFICES ASSUME SplitInit
               PROVE  ContentInv
    OBVIOUS
  <2>1. PICK root : root = Section(NoTitle, 0, 0)
    OBVIOUS
  <2>2. /\ text \in Text /\ line = 0 /\ tree = <<root>> /\ phase = "parse"
        /\ buf = <<>> /\ rest = <<>> /\ raws = <<>> /\ root.content = <<>>
    BY <2>1 DEF SplitInit, Section
  <2>3. DOMAIN tree = {1} /\ tree[1] = root /\ <<>> \in Seq(Char)
    BY <2>2
  <2>4. ContentType
    <3>1. buf \in Seq(Char) /\ rest \in Seq(Char)
      BY <2>2, <2>3
    <3>2. DOMAIN raws = {}
      BY <2>2
    <3>3. \A s \in DOMAIN tree : tree[s].content \in Seq(Char)
      BY <2>2, <2>3
    <3> QED BY <3>1, <3>2, <3>3 DEF ContentType
  <2>5. ReadInv
    <3>1. BodyTo(1, line) = <<>>
      <4>1. \A i \in 1 .. 0 : i \notin LinesOf(1)
        OBVIOUS
      <4> QED BY <2>2, <4>1, NoBody
    <3>2. Unread(1) = <<>> /\ <<>> \o <<>> = <<>>
      BY <2>2, <2>3, ConcatEmptySeq DEF Unread
    <3>3. line <= Len(text)
      BY <2>2, HeadFacts
    <3> QED BY <2>2, <2>3, <3>1, <3>2, <3>3, LettersOfNone DEF ReadInv
  <2>6. WalkInv
    BY <2>2 DEF WalkInv
  <2> QED BY <2>4, <2>5, <2>6 DEF ContentInv
<1>2. SplitInv /\ TreeInv /\ TitleInv /\ ContentInv /\ [SplitNext]_splitVars => ContentInv'
  <2> SUFFICES ASSUME SplitInv, TreeInv, TitleInv, ContentInv, [SplitNext]_splitVars
               PROVE  ContentInv'
    OBVIOUS
  <2>0. SplitType
    BY DEF SplitInv
  <2>1. ASSUME UNCHANGED splitVars
        PROVE  ContentInv'
    <3>1. UNCHANGED <<text, phase, line, tree, buf, visited, rest, raws>>
      BY <2>1 DEF splitVars
    <3>2. ContentType'
      BY <3>1 DEF ContentInv, ContentType
    <3>3. \A s : /\ BodyTo(s, line)' = BodyTo(s, line) /\ BodyOf(s)' = BodyOf(s)
                 /\ Unread(s)' = Unread(s) /\ Uncut(s)' = Uncut(s) /\ PiecesOf(s)' = PiecesOf(s)
      <4>1. \A s : LinesOf(s)' = LinesOf(s) /\ BodyOf(s)' = BodyOf(s)
        BY <3>1, BodySame
      <4> QED BY <3>1, <4>1 DEF BodyTo, BodyParts, BodyPart, Unread, Uncut, PiecesOf
    <3>4. HeadLines' = HeadLines
      BY <3>1, BodySame
    <3>5. ReadInv' /\ WalkInv'
      BY <3>1, <3>3, <3>4 DEF ContentInv, ReadInv, WalkInv
    <3> QED BY <3>2, <3>5 DEF ContentInv
  <2>2. CASE ReadHeading
    BY <2>0, <2>2, HeadingContents DEF ReadHeading, TitleInv
  <2>3. CASE ReadBody
    BY <2>0, <2>3, BodyContents
  <2>4. CASE EndOfText
    BY <2>0, <2>4, EndContents DEF EndOfText, TitleInv
  <2>5. CASE Visit
    BY <2>5, VisitContents
  <2>6. CASE Cut
    BY <2>6, CutContents
  <2>7. ASSUME phase = "walk", phase' # "parse", UNCHANGED <<text, tree, buf, visited, rest, raws>>,
               phase' = "done" => visited = Len(tree) /\ rest = <<>>
        PROVE  ContentInv'
    <3>1. ContentType'
      BY <2>7 DEF ContentInv, ContentType
    <3>2. \A s : Uncut(s)' = Uncut(s) /\ PiecesOf(s)' = PiecesOf(s)
      BY <2>7 DEF Uncut, PiecesOf
    <3>3. \A s \in 1 .. visited' :
            Letters(PiecesOf(s)') \o Letters(Uncut(s)') = Letters(tree[s].content)
      BY <2>7, <3>2 DEF ContentInv, WalkInv
    <3> QED BY <2>7, <3>1, <3>3, WalkStep
  <2>8. CASE TooDeep
    BY <2>7, <2>8 DEF TooDeep
  <2>9. CASE Return
    BY <2>7, <2>9 DEF Return
  <2>10. CASE SplitEnded
    BY <2>1, <2>10 DEF SplitEnded
  <2> QED BY <2>1, <2>2, <2>3, <2>4, <2>5, <2>6, <2>8, <2>9, <2>10 DEF SplitNext
<1> QED BY <1>1, <1>2, SplitSafe, TitlesKept, PTL DEF SplitSpec

(***************************************************************************)
(* When the split returns, the pieces of each section have the letters of  *)
(* the text between its heading and the next, in order: nothing is lost,   *)
(* doubled or moved from the lines to the pieces of smart_split_paragraph, *)
(* for every text and limit.                                               *)
(***************************************************************************)
THEOREM NothingIsLost == SplitSpec => []SectionsAreWhole
<1>1. SplitInv /\ TreeInv /\ ContentInv => SectionsAreWhole
  <2> SUFFICES ASSUME SplitInv, TreeInv, ContentInv, phase = "done", NEW s \in 1 .. Len(Heads) + 1
               PROVE  Letters(PiecesOf(s)) = Letters(BodyOf(s))
    BY DEF SectionsAreWhole
  <2>1. Len(Heads) = Cardinality(HeadLines)
    BY HeadsLength DEF TreeInv
  <2>2. /\ Len(tree) = Cardinality(HeadLines) + 1 /\ visited = Len(tree) /\ rest = <<>>
    BY DEF ContentInv, WalkInv
  <2>3. s \in 1 .. visited /\ s \in DOMAIN tree
    BY <2>1, <2>2, TreeFacts
  <2>4. Letters(PiecesOf(s)) \o Letters(Uncut(s)) = Letters(BodyOf(s))
    BY <2>3 DEF ContentInv, WalkInv
  <2>5. Uncut(s) = <<>>
    BY <2>2 DEF Uncut
  <2>6. Letters(PiecesOf(s)) \o <<>> = Letters(PiecesOf(s))
    <3>1. PiecesOf(s) \in Seq(Char)
      BY PiecesType DEF ContentInv, ContentType, SplitInv, SplitType
    <3> QED BY <3>1, LettersType, ConcatEmptySeq
  <2> QED BY <2>4, <2>5, <2>6, LettersOfNone
<1> QED BY <1>1, SplitSafe, TitlesKept, ContentsKept, PTL
===============================================================================
