-------------------------------- MODULE Ingest --------------------------------
(***************************************************************************)
(* From an upload to paragraphs and their vectors: the ingest service of   *)
(* src/apps/knowledge, its Celery tasks and the requests that start or     *)
(* disturb them.                                                           *)
(*                                                                         *)
(* Statements run in autocommit, so each is a step of its own.  Celery and *)
(* its once lock are not part of the repository: a task that is delayed    *)
(* takes the lock of its name and key or raises, waits in a queue, is run  *)
(* by some worker, and gives the lock back when it ends; a worker that     *)
(* dies loses its task and leaves the lock, which expires.                 *)
(***************************************************************************)
EXTENDS Naturals, Sequences, FiniteSets

CONSTANTS
  Doc,        \* documents of one knowledge base
  Upload,     \* files that are uploaded (module Splitter), with their pieces
  Worker,     \* Celery workers
  Editor,     \* requests that edit a document
  MaxFaults   \* bound: workers that die, tasks not queued, locks that expire

SplitterModule == INSTANCE Splitter
Splittable == {f \in Upload : SplitterModule!Splits(f)}

ASSUME IngestAssumption ==
  /\ MaxFaults \in Nat
  /\ \A f \in Upload : f.pieces \in Nat

VARIABLES
  doc,      \* document rows
  file,     \* the file of a document
  task,     \* document_task rows: the status of each type
  para,     \* status of each paragraph row of a document, in creation order
  queue,    \* tasks that wait for a worker
  once,     \* keys of the once locks that are held
  work,     \* what a worker does
  edit,     \* what a request that edits has read
  lost,     \* documents whose splitting was lost
  cut,      \* documents whose embedding lost its worker
  losses,   \* how many workers died or tasks were not queued
  expired   \* how many locks expired

rows == <<doc, task, para, file>>
celery == <<queue, once, work, lost, cut, losses, expired>>
vars == <<rows, celery, edit>>

-----------------------------------------------------------------------------
(* States of rows and tasks.                                               *)

Status == {"PENDING", "STARTED", "SUCCESS", "FAILURE"}
Allowed == [PENDING |-> {"STARTED", "FAILURE"},
            STARTED |-> {"SUCCESS", "FAILURE"},
            SUCCESS |-> {"STARTED", "FAILURE"},
            FAILURE |-> {"PENDING", "STARTED"}]
CanTransit(current, target) == target \in Allowed[current]

Splits(d) == file[d] \in Splittable
Pieces(d) == file[d].pieces

\* given: the status or the count came with a request.
NoRow == [status |-> "none", count |-> 0, given |-> FALSE]
Exists(d) == doc[d] # NoRow

SplitJob(d) == [name |-> "split_document", of |-> {d}]
EmbedJob(d) == [name |-> "embed_by_document", of |-> {d}]
RefreshJob == [name |-> "embed_by_knowledge", of |-> Doc]
Job == {SplitJob(d) : d \in Doc} \cup {EmbedJob(d) : d \in Doc} \cup {RefreshJob}

Idle == [at |-> "idle"]
\* Phases in which the task row of an embedding says that it has begun.
Starting == {"start_embed", "vectors"}
Queued(job) == queue[job] > 0

Init ==
  /\ doc = [d \in Doc |-> NoRow]
  /\ task = [d \in Doc |-> [split |-> "none", embed |-> "none"]]
  /\ para = [d \in Doc |-> <<>>]
  /\ file = [d \in Doc |-> [pieces |-> 0]]
  /\ queue = [job \in Job |-> 0] /\ once = {}
  /\ work = [w \in Worker |-> Idle]
  /\ edit = [e \in Editor |-> Idle]
  /\ lost = {} /\ cut = {} /\ losses = 0 /\ expired = 0

-----------------------------------------------------------------------------
(* Celery.                                                                 *)

\* delay(): queued under its lock, or AlreadyQueued.
Delay(job) ==
  IF job \in once THEN UNCHANGED <<once, queue>>
  ELSE /\ once' = once \cup {job}
       /\ queue' = [queue EXCEPT ![job] = @ + 1]

\* A worker starts a task.
Take(w, job) ==
  /\ work[w] = Idle /\ Queued(job)
  /\ queue' = [queue EXCEPT ![job] = @ - 1]
  /\ work' = [work EXCEPT ![w] =
       [job |-> job, at |-> IF job.name = "split_document" THEN "split" ELSE "next",
        d |-> CHOOSE d \in job.of : TRUE, todo |-> {d \in job.of : Exists(d)}, ids |-> {}]]
  /\ UNCHANGED <<rows, once, edit, lost, cut, losses, expired>>

\* The task ends, and its lock is given back.
Leave(w) ==
  /\ work' = [work EXCEPT ![w] = Idle]
  /\ once' = once \ {work[w].job}
  /\ UNCHANGED <<queue, lost, cut, losses, expired>>

GoTo(w, at) ==
  /\ work' = [work EXCEPT ![w].at = at]
  /\ UNCHANGED <<queue, once, lost, cut, losses, expired>>

Die(w) ==
  /\ work[w] # Idle /\ losses + expired < MaxFaults
  /\ work' = [work EXCEPT ![w] = Idle]
  /\ losses' = losses + 1
  /\ lost' = IF work[w].job.name = "split_document" THEN lost \cup work[w].job.of ELSE lost
  /\ cut' = IF work[w].at \in Starting THEN cut \cup {work[w].d} ELSE cut
  /\ UNCHANGED <<rows, queue, once, edit, expired>>

Expire(job) ==
  /\ job \in once /\ losses + expired < MaxFaults
  /\ once' = once \ {job} /\ expired' = expired + 1
  /\ UNCHANGED <<rows, queue, work, edit, lost, cut, losses>>

-----------------------------------------------------------------------------
(* Splitting.  A phase is named for what the worker does next.             *)

At(w, at) == work[w] # Idle /\ work[w].at = at
Doing(w) == work[w].d
SetDoc(d, status) == doc' = [doc EXCEPT ![d].status = status]
SetTask(d, type, status) == task' = [task EXCEPT ![d][type] = status]

(***************************************************************************)
(* The document is read, its task reset, and its status set if transit     *)
(* lets it; a document that is at it already fails.  In one step: nothing  *)
(* else changes the task, and an edit that is saved in between is          *)
(* overwritten as one that is saved before.                                *)
(***************************************************************************)
SplitBegin(w) == LET d == Doing(w) IN
  /\ At(w, "split")
  /\ SetTask(d, "split", "PENDING")
  /\ IF CanTransit(doc[d].status, "STARTED")
     THEN SetDoc(d, "STARTED") /\ GoTo(w, "start_task")
     ELSE UNCHANGED doc /\ GoTo(w, "fail")
  /\ UNCHANGED <<para, file>>

SplitStartTask(w) == LET d == Doing(w) IN
  /\ At(w, "start_task")
  /\ SetTask(d, "split", "STARTED")
  /\ GoTo(w, IF Splits(d) THEN "create" ELSE "fail")
  /\ UNCHANGED <<doc, para, file>>

\* Variant: one paragraph too few.
CreateFewer(w) == LET d == Doing(w) IN
  /\ At(w, "create")
  /\ IF Len(para[d]) + 1 < Pieces(d)
     THEN para' = [para EXCEPT ![d] = Append(@, "PENDING")] /\ GoTo(w, "create")
     ELSE UNCHANGED para /\ GoTo(w, "finish")
  /\ UNCHANGED <<doc, task, file>>

\* One row after the other.
CreateParagraph(w) == LET d == Doing(w) IN
  /\ At(w, "create")
  /\ IF Len(para[d]) < Pieces(d)
     THEN para' = [para EXCEPT ![d] = Append(@, "PENDING")] /\ GoTo(w, "create")
     ELSE UNCHANGED para /\ GoTo(w, "finish")
  /\ UNCHANGED <<doc, task, file>>

\* A paragraph is refused; those before it stay.
RefuseParagraph(w) ==
  /\ At(w, "create") /\ Len(para[Doing(w)]) < Pieces(Doing(w))
  /\ GoTo(w, "fail")
  /\ UNCHANGED rows

SplitFinish(w) == LET d == Doing(w) IN
  /\ At(w, "finish")
  /\ doc' = [doc EXCEPT ![d] = [status |-> "SUCCESS", count |-> Len(para[d]), given |-> FALSE]]
  /\ GoTo(w, "finish_task")
  /\ UNCHANGED <<task, para, file>>

SplitFinishTask(w) ==
  /\ At(w, "finish_task")
  /\ SetTask(Doing(w), "split", "SUCCESS")
  /\ GoTo(w, "then_embed")
  /\ UNCHANGED <<doc, para, file>>

\* Variant: the failure is noted in the document only.
SplitFailDocument(w) ==
  /\ At(w, "fail")
  /\ SetDoc(Doing(w), "FAILURE") /\ Leave(w)
  /\ UNCHANGED <<task, para, file>>

SplitFail(w) ==
  \/ /\ At(w, "fail")
     /\ SetDoc(Doing(w), "FAILURE") /\ GoTo(w, "fail_task")
     /\ UNCHANGED <<task, para, file>>
  \/ /\ At(w, "fail_task")
     /\ SetTask(Doing(w), "split", "FAILURE") /\ Leave(w)
     /\ UNCHANGED <<doc, para, file>>

\* Split, the document is handed on, and the task is over.
ThenEmbed(w) == LET job == EmbedJob(Doing(w)) IN
  /\ At(w, "then_embed")
  /\ work' = [work EXCEPT ![w] = Idle]
  /\ once' = (once \cup {job}) \ {work[w].job}
  /\ queue' = [queue EXCEPT ![job] = IF job \in once THEN @ ELSE @ + 1]
  /\ UNCHANGED <<rows, lost, cut, losses, expired>>

Split(w) ==
  /\ \/ SplitBegin(w) \/ SplitStartTask(w) \/ CreateParagraph(w)
     \/ RefuseParagraph(w) \/ SplitFinish(w) \/ SplitFinishTask(w)
     \/ SplitFail(w) \/ ThenEmbed(w)
  /\ UNCHANGED edit

-----------------------------------------------------------------------------
(* Embedding.                                                              *)

(***************************************************************************)
(* The class that PGVectorStore names is the second of that name in its    *)
(* file; it defines one of the methods its base declares, so that it       *)
(* cannot be instantiated.                                                 *)
(***************************************************************************)
Declared == {"batch_save", "query", "delete_by_paragraph_ids",
             "delete_by_document_ids", "delete_by_knowledge_ids"}
Defined == {"query"}
HasStore == Declared \subseteq Defined

\* The names the ingest service imports; EmbeddingItem is not among them.
Imported == {"PGVectorStore", "Document", "DocumentTask", "Paragraph", "Problem"}
CanSave == "EmbeddingItem" \in Imported /\ HasStore

\* The next document of the task.
NextDocument(w) ==
  /\ At(w, "next")
  /\ IF work[w].todo = {} THEN Leave(w)
     ELSE \E d \in work[w].todo :
            /\ work' = [work EXCEPT ![w].at = "embed", ![w].d = d, ![w].todo = @ \ {d}]
            /\ UNCHANGED <<queue, once, lost, cut, losses, expired>>
  /\ UNCHANGED rows

Open(d) == {i \in DOMAIN para[d] : para[d][i] # "SUCCESS"}

\* The knowledge row: how it is searched, and whether it has a model.  A
\* request may edit it at any time.
Kinds == {"vector", "no model", "text"}

(***************************************************************************)
(* A base without vectors is only tokenized, which changes the vectors it  *)
(* has not and a task row nobody creates.  Without a model it raises, and  *)
(* the task ends with the documents that are left.                         *)
(***************************************************************************)
EmbedBegin(w) == LET d == Doing(w) IN
  /\ At(w, "embed")
  /\ \E kind \in Kinds :
     \/ kind = "no model" /\ Leave(w)
     \/ /\ kind = "text" \/ (kind = "vector" /\ Open(d) = {})
        /\ GoTo(w, "next")
     \/ /\ kind = "vector" /\ Open(d) # {}
        /\ work' = [work EXCEPT ![w].at = "reset_task", ![w].ids = Open(d)]
        /\ UNCHANGED <<queue, once, lost, cut, losses, expired>>
  /\ UNCHANGED rows

ResetTask(w) ==
  /\ At(w, "reset_task")
  /\ SetTask(Doing(w), "embed", "PENDING") /\ GoTo(w, "start_embed")
  /\ UNCHANGED <<doc, para, file>>

StartEmbed(w) ==
  /\ At(w, "start_embed")
  /\ SetTask(Doing(w), "embed", "STARTED") /\ GoTo(w, "vectors")
  /\ UNCHANGED <<doc, para, file>>

\* Variant: the failure is told by the paragraphs only.
RaiseSilently(w) ==
  /\ At(w, "vectors") /\ ~CanSave
  /\ GoTo(w, "fail_paragraphs")
  /\ UNCHANGED rows

\* Whether the model answers or not, there is no way to keep its vectors.
EmbedRaise(w) ==
  /\ At(w, "vectors") /\ ~CanSave
  /\ SetTask(Doing(w), "embed", "FAILURE")
  /\ GoTo(w, "fail_paragraphs")
  /\ UNCHANGED <<doc, para, file>>

SetParagraphs(d, ids, status) ==
  para' = [para EXCEPT ![d] = [i \in DOMAIN @ |-> IF i \in ids THEN status ELSE @[i]]]

\* The paragraphs that were read have failed, and so has the whole task.
EmbedFail(w) ==
  /\ At(w, "fail_paragraphs")
  /\ SetParagraphs(Doing(w), work[w].ids, "FAILURE")
  /\ Leave(w)
  /\ UNCHANGED <<doc, task, file>>

Embed(w) ==
  /\ \/ NextDocument(w) \/ EmbedBegin(w) \/ ResetTask(w) \/ StartEmbed(w)
     \/ EmbedRaise(w) \/ EmbedFail(w)
  /\ UNCHANGED edit

-----------------------------------------------------------------------------
(* Requests.                                                               *)

\* The event of an upload: its handler queues the splitting.
EmitIngested(d) == Delay(SplitJob(d))

\* The row, its task and the event; the broker may refuse the task.
UploadDocument(d, f) ==
  /\ ~Exists(d)
  /\ file' = [file EXCEPT ![d] = f]
  /\ doc' = [doc EXCEPT ![d] = [status |-> "PENDING", count |-> 0, given |-> FALSE]]
  /\ SetTask(d, "split", "PENDING")
  /\ \/ EmitIngested(d) /\ UNCHANGED <<lost, losses>>
     \/ /\ losses + expired < MaxFaults /\ losses' = losses + 1
        /\ lost' = lost \cup {d} /\ UNCHANGED <<once, queue>>
  /\ UNCHANGED <<para, work, cut, edit, expired>>

PostDocument(d) == \E f \in Upload : UploadDocument(d, f)

\* The paragraphs are reset; the old vectors cannot be deleted, and nothing
\* is queued.
RefreshDocument(d) ==
  /\ Exists(d) /\ ~HasStore
  /\ SetParagraphs(d, DOMAIN para[d], "PENDING")
  /\ UNCHANGED <<doc, task, file, celery, edit>>

PostRefresh(d) == RefreshDocument(d)

RefreshKnowledge ==
  /\ Delay(RefreshJob)
  /\ UNCHANGED <<rows, work, lost, cut, losses, expired, edit>>

\* A document is read, and written back as a whole.
ReadDocument(e, d) ==
  /\ edit[e] = Idle /\ Exists(d)
  /\ edit' = [edit EXCEPT ![e] = [at |-> "save", d |-> d, row |-> doc[d]]]
  /\ UNCHANGED <<rows, celery>>

(***************************************************************************)
(* The serializer leaves the status and the counts open to the body of a   *)
(* request; what it does not give is written as it was read.               *)
(***************************************************************************)
Written(row) ==
  {row} \cup [status : Status, count : {row.count, 0}, given : {TRUE}]

SaveDocument(e) ==
  /\ edit[e] # Idle
  /\ \E row \in Written(edit[e].row) : doc' = [doc EXCEPT ![edit[e].d] = row]
  /\ edit' = [edit EXCEPT ![e] = Idle]
  /\ UNCHANGED <<task, para, file, celery>>

Request ==
  \/ \E d \in Doc : PostDocument(d) \/ PostRefresh(d)
  \/ RefreshKnowledge
  \/ \E e \in Editor : SaveDocument(e) \/ \E d \in Doc : ReadDocument(e, d)

Step(w) == Split(w) \/ Embed(w)

Next ==
  \/ Request
  \/ \E w \in Worker : Step(w) \/ Die(w) \/ \E job \in Job : Take(w, job)
  \/ \E job \in Job : Expire(job)

(***************************************************************************)
(* Workers that live go on; the queue is first in, first out, so that a    *)
(* task waits only for those before it.                                    *)
(***************************************************************************)
Fairness ==
  /\ \A w \in Worker : WF_vars(Step(w))
  /\ \A d \in Doc : SF_vars(\E w \in Worker : Take(w, SplitJob(d)))

Spec == Init /\ [][Next]_vars /\ Fairness

-----------------------------------------------------------------------------
(* Properties.                                                             *)

(***************************************************************************)
(* A document whose splitting says SUCCESS has all the paragraphs of its   *)
(* file; one that says so itself has and counts them, whatever was read    *)
(* before and saved over it, unless a request gave it that status or       *)
(* count.  A worker that dies or a paragraph that is refused leaves a part *)
(* of them, and never under that status (services/ingest.py, split).       *)
(***************************************************************************)
Earned(row) == row.status = "SUCCESS" /\ ~row.given
SuccessIsWhole ==
  \A d \in Doc :
    /\ task[d].split = "SUCCESS" \/ Earned(doc[d]) => Splits(d) /\ Len(para[d]) = Pieces(d)
    /\ Earned(doc[d]) => doc[d].count = Pieces(d)

(***************************************************************************)
(* A failed paragraph is explained by the embedding task of its document:  *)
(* it failed, or it has begun again, or an embedding of this document has  *)
(* lost its worker (services/ingest.py, embed_document).                   *)
(***************************************************************************)
FailureIsTold ==
  \A d \in Doc : "FAILURE" \in {para[d][i] : i \in DOMAIN para[d]} =>
    \/ task[d].embed = "FAILURE" \/ d \in cut
    \/ \E w \in Worker : work[w] # Idle /\ Doing(w) = d /\ work[w].at \in Starting

(***************************************************************************)
(* Every upload whose splitting is not lost with its worker or before it   *)
(* is queued ends as a success or a failure (services/ingest.py, split).   *)
(***************************************************************************)
UploadSettles ==
  \A d \in Doc : Exists(d) ~> d \in lost \/ task[d].split \in {"SUCCESS", "FAILURE"}
===============================================================================
