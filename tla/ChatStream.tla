------------------------------ MODULE ChatStream ------------------------------
(***************************************************************************)
(* The turns of one chat: ChatView.post and OpenAICompatibleView.post      *)
(* (src/apps/chat/views.py), the linear pipeline (src/apps/chat/engine/v1) *)
(* that runs in a thread of its own, the queue between the two             *)
(* (src/apps/chat/sse.py), the records and the history kept in the cache   *)
(* (src/apps/chat/cache.py).                                               *)
(*                                                                         *)
(* A turn is a view, whose generator the server pulls frame by frame, and  *)
(* a pipeline.  An answer, and the reasoning that goes with it, is the     *)
(* number of chunks it is made of.                                         *)
(***************************************************************************)
EXTENDS Integers, Sequences

CONSTANTS
  Turn,       \* the questions asked in the chat
  OpenAI,     \* those that came to the OpenAI endpoint
  MaxChunks,  \* bound: chunks of answer and reasoning the model gives a turn
  HistoryMax  \* HISTORY_MAX

ASSUME ChatAssumption == OpenAI \subseteq Turn /\ MaxChunks \in [Turn -> Nat] /\ HistoryMax \in Nat \ {0}

VARIABLES
  view,     \* where the view of a turn is
  work,     \* where its pipeline is
  queue,    \* EventEmitter._q
  shown,    \* what its client got: chunks, and whether the message ended
  ctx,      \* PipelineContext: chunks so far, answer, reasoning_content
  chat,     \* the row of the chat: whose name it has, its current record
  named,    \* whether the view's copy of the chat has a name
  records,  \* the chat's records, in order of creation
  history,  \* chat_info:<chat>:history
  items,    \* what push_history of a turn has read
  log,      \* ghost: everything pushed to the history, in the order of writing
  base,     \* ghost: how much of the log the cached history was written without
  kept,     \* ghost: base when push_history of a turn read
  overlap   \* ghost: two turns were saved at once

views == <<view, shown, named>>
pipes == <<work, ctx>>
ghosts == <<log, base, kept, overlap>>
stored == <<chat, records, history, items, ghosts>>
vars == <<views, pipes, queue, stored>>

Saving == {"name", "record", "current", "read user", "write user",
           "read assistant", "write assistant"}
Savers == {r \in Turn : view[r] \in Saving}

Init ==
  /\ view = [r \in Turn |-> "new"]
  /\ work = [r \in Turn |-> "off"]
  /\ queue = [r \in Turn |-> <<>>]
  /\ shown = [r \in Turn |-> [content |-> 0, reasoning |-> 0, ended |-> FALSE]]
  /\ ctx = [r \in Turn |-> [content |-> 0, reasoning |-> 0, answer |-> 0, thoughts |-> 0]]
  /\ chat = [name |-> "none", current |-> 0]
  /\ named = [r \in Turn |-> FALSE]
  /\ records = <<>> /\ history = <<>> /\ log = <<>> /\ base = 0
  /\ items = [r \in Turn |-> <<>>]
  /\ kept = [r \in Turn |-> 0]
  /\ overlap = FALSE

GoTo(r, phase) == view' = [view EXCEPT ![r] = phase]

\* A queue without a view and a pipeline whose answer nobody will read any
\* more are left out.
Emit(r, events) ==
  queue' = IF view[r] \in {"ready", "waiting", "sent"} THEN [queue EXCEPT ![r] = @ \o events]
           ELSE queue

-----------------------------------------------------------------------------
(* The view.                                                               *)

\* The chat is read, the pipeline's thread started, the response returned.
Post(r) ==
  /\ view[r] = "new"
  /\ GoTo(r, "ready")
  /\ named' = [named EXCEPT ![r] = chat.name # "none"]
  /\ work' = [work EXCEPT ![r] = "reset"]
  /\ UNCHANGED <<shown, ctx, queue, stored>>

\* The response is closed before its generator was started.
Drop(r) ==
  /\ view[r] = "ready"
  /\ GoTo(r, "dropped")
  /\ queue' = [queue EXCEPT ![r] = <<>>]
  /\ work' = [work EXCEPT ![r] = "off"]
  /\ UNCHANGED <<shown, named, ctx, stored>>

\* The first pull: the OpenAI stream begins with a frame of its own.
Open(r) ==
  /\ view[r] = "ready"
  /\ GoTo(r, IF r \in OpenAI THEN "sent" ELSE "waiting")
  /\ UNCHANGED <<shown, named, pipes, queue, stored>>

\* A frame is out and the server asks for the next.
Pull(r) ==
  /\ view[r] = "sent"
  /\ GoTo(r, "waiting")
  /\ UNCHANGED <<shown, named, pipes, queue, stored>>

\* finally: is entered, at the end of the stream or by GeneratorExit.
Finish(r) ==
  /\ GoTo(r, "name")
  /\ queue' = [queue EXCEPT ![r] = <<>>]
  /\ overlap' = (overlap \/ Savers # {})
  /\ UNCHANGED <<chat, records, history, items, log, base, kept>>

\* The kinds of event whose chunks are put together.
Delta == {"content", "reasoning"}

\* What the adapter passes on to an OpenAI client: neither the events of the
\* nodes nor a second end.
Convert(r, event) == event \in Delta \/ (event = "end" /\ ~shown[r].ended)

\* The queue gives an event.  The OpenAI stream ends with a frame of its own.
Get(r) ==
  /\ view[r] = "waiting" /\ queue[r] # <<>>
  /\ LET event == Head(queue[r])
     IN  \/ /\ event = "close" /\ r \notin OpenAI
            /\ Finish(r)
            /\ UNCHANGED shown
         \/ /\ event = "close" /\ r \in OpenAI
            /\ GoTo(r, "done")
            /\ queue' = [queue EXCEPT ![r] = <<>>]
            /\ UNCHANGED <<shown, stored>>
         \/ /\ event # "close"
            /\ queue' = [queue EXCEPT ![r] = Tail(@)]
            /\ GoTo(r, IF r \in OpenAI /\ ~Convert(r, event) THEN "waiting" ELSE "sent")
            /\ shown' = [shown EXCEPT ![r] =
                 [content |-> @.content + (IF event = "content" THEN 1 ELSE 0),
                  reasoning |-> @.reasoning + (IF event = "reasoning" THEN 1 ELSE 0),
                  ended |-> @.ended \/ event = "end"]]
            /\ UNCHANGED stored
  /\ UNCHANGED <<named, pipes>>

\* The frame [DONE] is out and the server asks for the next.
Done(r) ==
  /\ view[r] = "done"
  /\ Finish(r)
  /\ UNCHANGED <<shown, named, pipes>>

\* The client is gone: the generator is closed where it yielded.
Disconnect(r) ==
  /\ view[r] \in {"sent", "done"}
  /\ Finish(r)
  /\ UNCHANGED <<shown, named, pipes>>

-----------------------------------------------------------------------------
(* What generate() saves: _save_record, then push_history twice.  Between  *)
(* any two of these statements others run.                                 *)

\* A chat that had no name when it was read is called by its question.
SaveName(r) ==
  /\ view[r] = "name"
  /\ GoTo(r, "record")
  /\ chat' = IF named[r] THEN chat ELSE [chat EXCEPT !.name = r]
  /\ UNCHANGED <<work, records, history, items, ghosts>>

CreateRecord(r) ==
  /\ view[r] = "record"
  /\ GoTo(r, "current")
  /\ records' = Append(records, [turn |-> r, answer |-> ctx[r].answer,
                                  reasoning |-> ctx[r].thoughts])
  /\ UNCHANGED <<work, chat, history, items, ghosts>>

RecordOf(r) == CHOOSE i \in DOMAIN records : records[i].turn = r

SetCurrent(r) ==
  /\ view[r] = "current"
  /\ GoTo(r, "read user")
  /\ chat' = [chat EXCEPT !.current = RecordOf(r)]
  /\ UNCHANGED <<work, records, history, items, ghosts>>

Entry(r, role) == [turn |-> r, role |-> role,
                   answer |-> IF role = "user" THEN 0 ELSE ctx[r].answer]

Reading(role) == IF role = "user" THEN "read user" ELSE "read assistant"
Writing(role) == IF role = "user" THEN "write user" ELSE "write assistant"

ReadHistory(r, role) ==
  /\ view[r] = Reading(role)
  /\ GoTo(r, Writing(role))
  /\ items' = [items EXCEPT ![r] = history]
  /\ kept' = [kept EXCEPT ![r] = base]
  /\ UNCHANGED <<work, chat, records, history, log, base, overlap>>

LastOf(s) == SubSeq(s, IF Len(s) > HistoryMax THEN Len(s) - HistoryMax + 1 ELSE 1, Len(s))

\* push_history has what it read no longer.
Forget(r) == items' = [items EXCEPT ![r] = <<>>] /\ kept' = [kept EXCEPT ![r] = 0]

\* Variant: the oldest entries are kept.
WriteFirst(r, role) ==
  /\ view[r] = Writing(role)
  /\ GoTo(r, IF role = "user" THEN "read assistant" ELSE "saved")
  /\ LET all == Append(items[r], Entry(r, role))
     IN  history' = SubSeq(all, 1, IF Len(all) > HistoryMax THEN HistoryMax ELSE Len(all))
  /\ log' = Append(log, Entry(r, role)) /\ base' = kept[r]
  /\ Forget(r)
  /\ UNCHANGED <<work, chat, records, overlap>>

WriteHistory(r, role) ==
  /\ view[r] = Writing(role)
  /\ GoTo(r, IF role = "user" THEN "read assistant" ELSE "saved")
  /\ history' = LastOf(Append(items[r], Entry(r, role)))
  /\ log' = Append(log, Entry(r, role)) /\ base' = kept[r]
  /\ Forget(r)
  /\ work' = IF role = "user" THEN work ELSE [work EXCEPT ![r] = "off"]
  /\ UNCHANGED <<chat, records, overlap>>

\* A statement raises, the database or Redis being away: the rest is not done.
FailToSave(r) ==
  /\ view[r] \in Saving
  /\ GoTo(r, "failed")
  /\ Forget(r)
  /\ work' = [work EXCEPT ![r] = "off"]
  /\ UNCHANGED <<chat, records, history, log, base, overlap>>

Save(r) ==
  /\ \/ SaveName(r) \/ CreateRecord(r) \/ SetCurrent(r)
     \/ \E role \in {"user", "assistant"} : ReadHistory(r, role) \/ WriteHistory(r, role)
     \/ FailToSave(r)
  /\ UNCHANGED <<shown, named, ctx, queue>>

\* ChatUpdateView.put
Rename ==
  /\ chat.name # "user"
  /\ chat' = [chat EXCEPT !.name = "user"]
  /\ UNCHANGED <<views, pipes, queue, records, history, items, ghosts>>

\* The cached history has lived for its hour, or the cache has lost it.
ExpireHistory ==
  /\ history # <<>>
  /\ history' = <<>>
  /\ base' = Len(log)
  /\ UNCHANGED <<views, pipes, queue, chat, records, items, log, kept, overlap>>

-----------------------------------------------------------------------------
(* The pipeline.                                                           *)

Step(r, from, to) == work[r] = from /\ work' = [work EXCEPT ![r] = to]

\* The question is tidied.  One event stands for the start and end of a node.
ResetProblem(r) ==
  /\ Step(r, "reset", "search")
  /\ Emit(r, <<"node">>) /\ UNCHANGED ctx

(***************************************************************************)
(* Without knowledge ids there is nothing to search.  With them            *)
(* knowledge_search raises, as does every request for a vector store       *)
(* (module Ingest): a Break, so that no answer is ever taken directly from *)
(* a paragraph.                                                            *)
(***************************************************************************)
SearchKnowledge(r) == Step(r, "search", "chat") /\ UNCHANGED <<ctx, queue>>

\* The messages are put together and the model is asked.
OpenModel(r) == Step(r, "chat", "model") /\ UNCHANGED <<ctx, queue>>

\* A chunk of the answer or of the reasoning; a chunk of both is two events.
Chunk(r) ==
  /\ work[r] = "model" /\ ctx[r].content + ctx[r].reasoning < MaxChunks[r]
  /\ \E kind \in Delta :
       /\ ctx' = [ctx EXCEPT ![r][kind] = @ + 1]
       /\ Emit(r, <<kind>>)
  /\ UNCHANGED work

Join(r, from, to, whole, kind) ==
  Step(r, from, to) /\ ctx' = [ctx EXCEPT ![r][whole] = ctx[r][kind]] /\ UNCHANGED queue

\* Variant: the message ends before its reasoning is put together.
EndMessageFirst(r) ==
  \/ Join(r, "model", "answered", "answer", "content")
  \/ Step(r, "answered", "told") /\ Emit(r, <<"end">>) /\ UNCHANGED ctx
  \/ Join(r, "told", "closing", "thoughts", "reasoning")

\* The answer is put together, then the reasoning, then the message ends.
EndMessage(r) ==
  \/ Join(r, "model", "answered", "answer", "content")
  \/ Join(r, "answered", "told", "thoughts", "reasoning")
  \/ Step(r, "told", "closing") /\ Emit(r, <<"end">>) /\ UNCHANGED ctx

\* Variant: an exception leaves the queue without its sentinel.
BreakOpen(r) ==
  /\ work[r] \in {"reset", "search", "chat", "model"}
  /\ work' = [work EXCEPT ![r] = "off"]
  /\ UNCHANGED <<ctx, queue>>

\* A step raises: bad settings, the search, the gateway or the model.
Break(r) ==
  /\ work[r] \in {"reset", "search", "chat", "model"}
  /\ work' = [work EXCEPT ![r] = "closing"]
  /\ UNCHANGED <<ctx, queue>>

\* finally: the sentinel.
Close(r) == Step(r, "closing", "off") /\ Emit(r, <<"close">>) /\ UNCHANGED ctx

Pipeline(r) ==
  /\ \/ ResetProblem(r) \/ SearchKnowledge(r)
     \/ OpenModel(r) \/ Chunk(r) \/ EndMessage(r) \/ Break(r) \/ Close(r)
  /\ UNCHANGED <<views, stored>>

-----------------------------------------------------------------------------
View(r) == Post(r) \/ Open(r) \/ Pull(r) \/ Get(r) \/ Done(r) \/ Save(r)

Next ==
  \/ \E r \in Turn : View(r) \/ Drop(r) \/ Disconnect(r) \/ Pipeline(r)
  \/ Rename
  \/ ExpireHistory

Spec == Init /\ [][Next]_vars

-----------------------------------------------------------------------------
(* Properties.                                                             *)

(***************************************************************************)
(* The record of a turn whose client saw the message end holds exactly     *)
(* the answer and the reasoning the client saw, although the view and the  *)
(* pipeline share nothing but the context and the queue.                   *)
(***************************************************************************)
RecordIsWhatWasShown ==
  \A i \in DOMAIN records :
    LET r == records[i].turn
    IN  shown[r].ended => /\ records[i].answer = shown[r].content
                          /\ records[i].reasoning = shown[r].reasoning

\* The i-th and the j-th push are in the order of the records: turn after
\* turn, the question of a turn before its answer.
InOrder(i, j) ==
  \E m, n \in DOMAIN records :
    /\ records[m].turn = log[i].turn /\ records[n].turn = log[j].turn
    /\ m < n \/ (m = n /\ log[i].role = "user" /\ log[j].role = "assistant")

IsPushed(r, role) == \E i \in DOMAIN log : log[i].turn = r /\ log[i].role = role

(***************************************************************************)
(* As long as no two turns were saved at once, and whenever the cache      *)
(* loses the history, between the statements of a save or within a push:   *)
(* the history is the end of all that was pushed, but for what the cache   *)
(* had lost when the last push read it, and the pushes are in the order of *)
(* the records.  In any case a saved turn has pushed its question and its  *)
(* answer, and the answer is the record's when the client stayed to the    *)
(* end of the message.                                                     *)
(***************************************************************************)
HistoryFollowsRecords ==
  /\ ~overlap => /\ history = LastOf(SubSeq(log, base + 1, Len(log)))
                 /\ \A i, j \in DOMAIN log : i < j => InOrder(i, j)
  /\ \A r \in Turn : view[r] = "saved" => IsPushed(r, "user") /\ IsPushed(r, "assistant")
  /\ \A i \in DOMAIN log :
       log[i].role = "assistant" /\ shown[log[i].turn].ended =>
         \E m \in DOMAIN records :
           records[m].turn = log[i].turn /\ records[m].answer = log[i].answer

(***************************************************************************)
(* Nobody waits for ever: a view that blocks on an empty queue has a       *)
(* pipeline that still runs and, whatever fails in it, puts the sentinel.  *)
(***************************************************************************)
WaitIsAnswered == \A r \in Turn : view[r] = "waiting" /\ queue[r] = <<>> => work[r] # "off"
=============================================================================
