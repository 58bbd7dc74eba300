------------------------------ MODULE ChatProofs ------------------------------
(***************************************************************************)
(* Proofs about the turns of a chat, for every number of turns, chunks and *)
(* history entries.                                                        *)
(***************************************************************************)
EXTENDS ChatStream, FiniteSets, FiniteSetTheorems, SequenceTheorems, TLAPS

-----------------------------------------------------------------------------
(* The shape of the state.                                                 *)

Listening == {"ready", "waiting", "sent"}
Recorded == (Saving \ {"name", "record"}) \cup {"saved", "failed"}
Views == Listening \cup Saving \cup {"new", "dropped", "done", "saved", "failed"}
Works == {"off", "reset", "search", "chat", "model", "answered", "told", "closing"}
Events == {"node", "content", "reasoning", "end", "close"}
Roles == {"user", "assistant"}

Shown == [content : Nat, reasoning : Nat, ended : BOOLEAN]
Context == [content : Nat, reasoning : Nat, answer : Nat, thoughts : Nat]
Records == [turn : Turn, answer : Nat, reasoning : Nat]
Entries == [turn : Turn, role : Roles, answer : Nat]

StreamType ==
  /\ view \in [Turn -> Views]
  /\ work \in [Turn -> Works]
  /\ queue \in [Turn -> Seq(Events)]
  /\ shown \in [Turn -> Shown]
  /\ ctx \in [Turn -> Context]

StoreType ==
  /\ records \in Seq(Records)
  /\ history \in Seq(Entries)
  /\ items \in [Turn -> Seq(Entries)]
  /\ log \in Seq(Entries)
  /\ base \in 0 .. Len(log)
  /\ kept \in [Turn -> 0 .. Len(log)]
  /\ overlap \in BOOLEAN

-----------------------------------------------------------------------------
(* The queue between the pipeline and the view of turn r.                  *)

Count(q, event) == Cardinality({i \in DOMAIN q : q[i] = event})

Has(q, event) == \E i \in DOMAIN q : q[i] = event

(* The sentinel is the last event, and once the pipeline is over it is     *)
(* there until the view takes it.                                          *)
Closes(r) ==
  view[r] \in Listening /\ work[r] = "off" =>
    queue[r] # <<>> /\ queue[r][Len(queue[r])] = "close"

(* A turn that was not posted has nothing, and one that listens no more    *)
(* has no queue.                                                           *)
Quiet(r) ==
  /\ view[r] \notin Listening => queue[r] = <<>>
  /\ view[r] = "new" =>
       /\ work[r] = "off"
       /\ shown[r] = [content |-> 0, reasoning |-> 0, ended |-> FALSE]
       /\ ctx[r] = [content |-> 0, reasoning |-> 0, answer |-> 0, thoughts |-> 0]

(* What was shown and what is on its way are what the model gave.          *)
Counted(r) ==
  view[r] \in Listening =>
    /\ shown[r].content + Count(queue[r], "content") = ctx[r].content
    /\ shown[r].reasoning + Count(queue[r], "reasoning") = ctx[r].reasoning

(* What the pipeline has put together is whole.                            *)
Whole(r) ==
  /\ work[r] \in {"answered", "told"} => ctx[r].answer = ctx[r].content
  /\ work[r] = "told" => ctx[r].thoughts = ctx[r].reasoning

(* The end on its way: nothing but the sentinel comes behind it.           *)
EndComes(r) ==
  Has(queue[r], "end") =>
    /\ work[r] \in {"closing", "off"}
    /\ ctx[r].answer = ctx[r].content
    /\ ctx[r].thoughts = ctx[r].reasoning
    /\ \A i, j \in DOMAIN queue[r] : queue[r][i] = "end" /\ i < j => queue[r][j] \notin Delta

(* The end was shown: the context is what was shown.                       *)
EndShown(r) ==
  shown[r].ended =>
    /\ work[r] \in {"closing", "off"}
    /\ ctx[r].answer = shown[r].content
    /\ ctx[r].thoughts = shown[r].reasoning
    /\ \A i \in DOMAIN queue[r] : queue[r][i] \notin Delta

TurnInv(r) == Closes(r) /\ Quiet(r) /\ Counted(r) /\ Whole(r) /\ EndComes(r) /\ EndShown(r)

StreamInv == StreamType /\ \A r \in Turn : TurnInv(r)

-----------------------------------------------------------------------------
(* The records and the history.                                            *)

(* Where a turn has a record for sure. *)
HasRecord == Recorded \ {"failed"}

RecordsInv ==
  /\ \A i \in DOMAIN records : view[records[i].turn] \in Recorded
  /\ \A r \in Turn : view[r] \in HasRecord => \E m \in DOMAIN records : records[m].turn = r
  /\ RecordIsWhatWasShown

(* Where the question of a turn was pushed and its answer was not. *)
Between == {"read assistant", "write assistant"}

(***************************************************************************)
(* What was pushed: by whom, and that who went on has pushed.              *)
(***************************************************************************)
PushedInv ==
  /\ \A i \in DOMAIN log :
       /\ view[log[i].turn] \in Between \cup {"saved", "failed"}
       /\ view[log[i].turn] \in Between => log[i].role = "user"
       /\ \E m \in DOMAIN records : records[m].turn = log[i].turn
       /\ log[i].role = "assistant" /\ shown[log[i].turn].ended =>
            \E m \in DOMAIN records :
              records[m].turn = log[i].turn /\ records[m].answer = log[i].answer
  /\ \A r \in Turn :
       /\ view[r] \in Between \cup {"saved"} => IsPushed(r, "user")
       /\ view[r] = "saved" => IsPushed(r, "assistant")

(* The end of what was pushed after the first n. *)
Behind(n) == LastOf(SubSeq(log, n + 1, Len(log)))

(***************************************************************************)
(* A turn that is being saved, alone, has the last record once it has one, *)
(* and what its push has read is what the history then was.                *)
(***************************************************************************)
SavingInv ==
  /\ \A r, s \in Savers : r = s
  /\ \A r \in Savers : view[r] \notin {"name", "record"} =>
       Len(records) > 0 /\ records[Len(records)].turn = r
  /\ \A r \in Turn : view[r] \in {"write user", "write assistant"} => items[r] = Behind(kept[r])
  /\ history = Behind(base)
  /\ \A i, j \in DOMAIN log : i < j => InOrder(i, j)

HistoryInv == ~overlap => SavingInv

-----------------------------------------------------------------------------
(* Counting in a queue.                                                    *)

LEMMA Places ==
  ASSUME NEW q \in Seq(Events), NEW k
  PROVE  /\ DOMAIN q = 1 .. Len(q) /\ Len(q) \in Nat
         /\ IsFiniteSet({i \in DOMAIN q : q[i] = k})
         /\ Count(q, k) \in Nat
<1>1. DOMAIN q = 1 .. Len(q) /\ Len(q) \in Nat
  OBVIOUS
<1>2. IsFiniteSet(DOMAIN q)
  BY <1>1, FS_Interval
<1>3. IsFiniteSet({i \in DOMAIN q : q[i] = k})
  BY <1>2, FS_Subset
<1>4. Count(q, k) \in Nat
  BY <1>3, FS_CardinalityType DEF Count
<1> QED
  BY <1>1, <1>3, <1>4

LEMMA CountNone ==
  ASSUME NEW q \in Seq(Events), NEW k
  PROVE  Count(q, k) = 0 <=> ~Has(q, k)
<1> DEFINE S == {i \in DOMAIN q : q[i] = k}
<1>1. IsFiniteSet(S)
  BY Places
<1>2. Cardinality(S) = 0 <=> S = {}
  BY <1>1, FS_EmptySet
<1>3. S = {} <=> ~Has(q, k)
  BY DEF Has
<1> QED
  BY <1>2, <1>3 DEF Count

LEMMA CountAppend ==
  ASSUME NEW q \in Seq(Events), NEW e \in Events, NEW k
  PROVE  Count(q \o <<e>>, k) = Count(q, k) + (IF e = k THEN 1 ELSE 0)
<1> DEFINE longer == q \o <<e>>
           S == {i \in DOMAIN q : q[i] = k}
           T == {i \in DOMAIN longer : longer[i] = k}
<1>1. /\ DOMAIN longer = 1 .. Len(q) + 1 /\ DOMAIN q = 1 .. Len(q) /\ Len(q) \in Nat
      /\ longer[Len(q) + 1] = e
      /\ \A i \in 1 .. Len(q) : longer[i] = q[i]
  OBVIOUS
<1>2. T = IF e = k THEN S \cup {Len(q) + 1} ELSE S
  BY <1>1
<1>3. Len(q) + 1 \notin S
  BY <1>1
<1>4. IsFiniteSet(S) /\ Cardinality(S) = Count(q, k)
  BY Places DEF Count
<1>5. Cardinality(S \cup {Len(q) + 1}) = Cardinality(S) + 1
  BY <1>3, <1>4, FS_AddElement
<1>6. Count(longer, k) = Cardinality(T) /\ Count(q, k) \in Nat
  BY Places DEF Count
<1> HIDE DEF S, T
<1> QED
  BY <1>2, <1>4, <1>5, <1>6

LEMMA CountTail ==
  ASSUME NEW q \in Seq(Events), q # <<>>, NEW k
  PROVE  Count(q, k) = Count(Tail(q), k) + (IF Head(q) = k THEN 1 ELSE 0)
<1> DEFINE rest == Tail(q)
           S == {i \in DOMAIN q : q[i] = k}
           T == {i \in DOMAIN rest : rest[i] = k}
           f == [i \in T |-> i + 1]
<1>1. /\ DOMAIN rest = 1 .. Len(q) - 1 /\ DOMAIN q = 1 .. Len(q) /\ Len(q) \in Nat \ {0}
      /\ Head(q) = q[1] /\ rest \in Seq(Events)
      /\ \A i \in 1 .. Len(q) - 1 : rest[i] = q[i + 1]
  OBVIOUS
<1>2. IsFiniteSet(S) /\ IsFiniteSet(T)
  BY <1>1, Places
<1>3. \A i \in S \ {1} : i - 1 \in T
  BY <1>1
<1>4. T \subseteq Nat /\ \A i \in T : i + 1 \in S \ {1}
  BY <1>1
<1>5. f \in Bijection(T, S \ {1})
  <2> HIDE DEF S, T
  <2>1. S \subseteq Nat
    BY <1>1 DEF S
  <2>2. f \in [T -> S \ {1}]
    BY <1>4
  <2>3. \A i, j \in T : f[i] = f[j] => i = j
    BY <1>4
  <2>4. \A i \in S \ {1} : \E j \in T : f[j] = i
    <3> TAKE i \in S \ {1}
    <3>1. i - 1 \in T
      BY <1>3
    <3>2. f[i - 1] = i
      BY <3>1, <2>1
    <3> QED
      BY <3>1, <3>2
  <2> QED
    BY <2>2, <2>3, <2>4 DEF Bijection, Injection, IsInjective, Surjection
<1>6. Cardinality(S \ {1}) = Cardinality(T)
  BY <1>2, <1>5, FS_Bijection DEF ExistsBijection
<1>7. Cardinality(S \ {1}) = IF Head(q) = k THEN Cardinality(S) - 1 ELSE Cardinality(S)
  <2>1. 1 \in S <=> Head(q) = k
    BY <1>1
  <2> HIDE DEF S
  <2> QED
    BY <1>2, <2>1, FS_RemoveElement
<1>8. Cardinality(S) = Count(q, k) /\ Cardinality(T) = Count(rest, k)
  BY DEF Count
<1>9. Count(q, k) \in Nat /\ Count(rest, k) \in Nat
  BY <1>1, Places
<1> HIDE DEF S, T
<1> QED
  BY <1>6, <1>7, <1>8, <1>9

-----------------------------------------------------------------------------
(* The stream.                                                             *)

Untouched(s) ==
  /\ view'[s] = view[s] /\ work'[s] = work[s] /\ queue'[s] = queue[s]
  /\ shown'[s] = shown[s] /\ ctx'[s] = ctx[s]

(* A step of one turn leaves the others alone. *)
LEMMA OneTurn ==
  ASSUME StreamInv, NEW r \in Turn, StreamType', TurnInv(r)',
         \A s \in Turn \ {r} : Untouched(s)
  PROVE  StreamInv'
<1> SUFFICES ASSUME NEW s \in Turn, s # r PROVE TurnInv(s)'
  BY DEF StreamInv
<1>1. TurnInv(s) /\ Untouched(s)
  BY DEF StreamInv
<1>2. Closes(s)' /\ Quiet(s)' /\ Counted(s)'
  BY <1>1 DEF TurnInv, Untouched, Closes, Quiet, Counted
<1>3. Whole(s)' /\ EndComes(s)' /\ EndShown(s)'
  BY <1>1 DEF TurnInv, Untouched, Whole, EndComes, EndShown, Has
<1> QED
  BY <1>2, <1>3 DEF TurnInv

(* What Emit does to the queues. *)
LEMMA Emitted ==
  ASSUME StreamType, NEW r \in Turn, NEW e \in Events, Emit(r, <<e>>)
  PROVE  /\ queue' \in [Turn -> Seq(Events)]
         /\ \A s \in Turn \ {r} : queue'[s] = queue[s]
         /\ view[r] \in Listening => queue'[r] = queue[r] \o <<e>>
         /\ view[r] \notin Listening => queue'[r] = queue[r]
<1>1. queue \in [Turn -> Seq(Events)]
  BY DEF StreamType
<1>2. queue[r] \o <<e>> \in Seq(Events)
  BY <1>1
<1> QED
  BY <1>1, <1>2 DEF Emit, Listening

LEMMA Longer ==
  ASSUME NEW q \in Seq(Events), NEW e \in Events
  PROVE  LET l == q \o <<e>>
         IN  /\ Len(l) = Len(q) + 1 /\ l # <<>> /\ l[Len(l)] = e
             /\ DOMAIN l = 1 .. Len(q) + 1 /\ DOMAIN q = 1 .. Len(q) /\ Len(q) \in Nat
             /\ \A i \in DOMAIN q : l[i] = q[i]
OBVIOUS

LEMMA Shorter ==
  ASSUME NEW q \in Seq(Events), q # <<>>
  PROVE  /\ Tail(q) \in Seq(Events) /\ Head(q) \in Events /\ Head(q) = q[1]
         /\ DOMAIN Tail(q) = 1 .. Len(q) - 1 /\ DOMAIN q = 1 .. Len(q) /\ Len(q) \in Nat \ {0}
         /\ Len(Tail(q)) = Len(q) - 1
         /\ \A i \in 1 .. Len(q) - 1 : Tail(q)[i] = q[i + 1]
OBVIOUS

(***************************************************************************)
(* The pipeline emits e, no end, and adds it to the chunks if it is one;   *)
(* the answer is not put together yet.                                     *)
(***************************************************************************)
LEMMA EmitKeeps ==
  ASSUME StreamInv, NEW r \in Turn, NEW e \in {"node", "content", "reasoning"}, Emit(r, <<e>>),
         work[r] \in {"reset", "model"}, work'[r] \in {"search", "model"},
         view' = view, shown' = shown,
         ctx'[r].content = ctx[r].content + (IF e = "content" THEN 1 ELSE 0),
         ctx'[r].reasoning = ctx[r].reasoning + (IF e = "reasoning" THEN 1 ELSE 0)
  PROVE  TurnInv(r)'
<1>1. /\ queue[r] \in Seq(Events) /\ view[r] \in Views
      /\ shown[r] \in Shown /\ ctx[r] \in Context
      /\ Closes(r) /\ Quiet(r) /\ Counted(r) /\ Whole(r) /\ EndComes(r) /\ EndShown(r)
  BY DEF StreamInv, StreamType, TurnInv
<1>2. e \in Events
  BY DEF Events
<1>3. /\ view[r] \in Listening => queue'[r] = queue[r] \o <<e>>
      /\ view[r] \notin Listening => queue'[r] = queue[r]
  BY <1>2, Emitted DEF StreamInv
<1>4. ~Has(queue[r], "end") /\ ~shown[r].ended /\ view[r] # "new"
  BY <1>1 DEF EndComes, EndShown, Quiet
<1>5. ~Has(queue'[r], "end")
  BY <1>1, <1>2, <1>3, <1>4, Longer DEF Has
<1>6. Closes(r)' /\ Quiet(r)' /\ Whole(r)'
  BY <1>1, <1>3, <1>4 DEF Closes, Quiet, Whole
<1>7. Counted(r)'
  <2> SUFFICES ASSUME view[r] \in Listening
               PROVE  /\ shown[r].content + Count(queue'[r], "content") = ctx'[r].content
                      /\ shown[r].reasoning + Count(queue'[r], "reasoning") = ctx'[r].reasoning
    BY DEF Counted
  <2>1. /\ Count(queue'[r], "content")
             = Count(queue[r], "content") + (IF e = "content" THEN 1 ELSE 0)
        /\ Count(queue'[r], "reasoning")
             = Count(queue[r], "reasoning") + (IF e = "reasoning" THEN 1 ELSE 0)
    <3>1. /\ Count(queue[r] \o <<e>>, "content")
               = Count(queue[r], "content") + (IF e = "content" THEN 1 ELSE 0)
          /\ Count(queue[r] \o <<e>>, "reasoning")
               = Count(queue[r], "reasoning") + (IF e = "reasoning" THEN 1 ELSE 0)
      BY <1>1, <1>2, CountAppend
    <3>2. queue'[r] = queue[r] \o <<e>>
      BY <1>3
    <3> QED
      BY <3>1, <3>2
  <2>2. /\ shown[r].content + Count(queue[r], "content") = ctx[r].content
        /\ shown[r].reasoning + Count(queue[r], "reasoning") = ctx[r].reasoning
    BY <1>1 DEF Counted
  <2>3. Count(queue[r], "content") \in Nat /\ Count(queue[r], "reasoning") \in Nat
    BY <1>1, Places
  <2>5. /\ shown[r].content \in Nat /\ shown[r].reasoning \in Nat
        /\ ctx[r].content \in Nat /\ ctx[r].reasoning \in Nat
    BY <1>1 DEF Context, Shown
  <2> QED
    BY <2>1, <2>2, <2>3, <2>5
<1>8. EndComes(r)' /\ EndShown(r)'
  BY <1>4, <1>5 DEF EndComes, EndShown
<1> QED
  BY <1>6, <1>7, <1>8 DEF TurnInv

(***************************************************************************)
(* The pipeline goes on without an event, and puts together at most what   *)
(* it has just finished.                                                   *)
(***************************************************************************)
LEMMA SilentKeeps ==
  ASSUME StreamInv, NEW r \in Turn, view' = view, shown' = shown, queue' = queue,
         work[r] \notin {"off", "told", "closing"}, work'[r] \in Works \ {"off"},
         ctx'[r] \in Context,
         ctx'[r].content = ctx[r].content, ctx'[r].reasoning = ctx[r].reasoning,
         Whole(r)'
  PROVE  TurnInv(r)'
<1>1. Closes(r) /\ Quiet(r) /\ Counted(r) /\ Whole(r) /\ EndComes(r) /\ EndShown(r)
  BY DEF StreamInv, TurnInv
<1>2. ~Has(queue[r], "end") /\ ~shown[r].ended /\ view[r] # "new"
  BY <1>1 DEF EndComes, EndShown, Quiet
<1>3. Closes(r)' /\ Quiet(r)' /\ Counted(r)'
  BY <1>1, <1>2 DEF Closes, Quiet, Counted
<1>4. EndComes(r)' /\ EndShown(r)'
  BY <1>2 DEF EndComes, EndShown
<1> QED
  BY <1>3, <1>4 DEF TurnInv

(* Events behind which no chunk comes: the end, and the sentinel. *)
LEMMA LastEventKeeps ==
  ASSUME StreamInv, NEW r \in Turn, NEW e \in {"end", "close"}, Emit(r, <<e>>),
         view' = view, shown' = shown, ctx' = ctx,
         work[r] = IF e = "end" THEN "told" ELSE "closing",
         work'[r] = IF e = "end" THEN "closing" ELSE "off"
  PROVE  TurnInv(r)'
<1>1. /\ queue[r] \in Seq(Events) /\ view[r] \in Views
      /\ shown[r] \in Shown /\ ctx[r] \in Context
      /\ Closes(r) /\ Quiet(r) /\ Counted(r) /\ Whole(r) /\ EndComes(r) /\ EndShown(r)
  BY DEF StreamInv, StreamType, TurnInv
<1>2. e \in Events /\ e \notin Delta
  BY DEF Events, Delta
<1>3. /\ view[r] \in Listening => queue'[r] = queue[r] \o <<e>>
      /\ view[r] \notin Listening => queue'[r] = queue[r]
  BY <1>2, Emitted DEF StreamInv
<1>4. view[r] # "new" /\ view'[r] = view[r]
  BY <1>1 DEF Quiet
<1>5. Closes(r)' /\ Quiet(r)' /\ Whole(r)'
  BY <1>1, <1>2, <1>3, <1>4, Longer DEF Closes, Quiet, Whole
<1>6. Counted(r)'
  <2>1. /\ view[r] \in Listening => Count(queue'[r], "content") = Count(queue[r], "content") + 0
        /\ view[r] \in Listening => Count(queue'[r], "reasoning") = Count(queue[r], "reasoning") + 0
    <3>1. e # "content" /\ e # "reasoning"
      OBVIOUS
    <3>2. /\ Count(queue[r] \o <<e>>, "content") = Count(queue[r], "content") + 0
          /\ Count(queue[r] \o <<e>>, "reasoning") = Count(queue[r], "reasoning") + 0
      BY <1>1, <1>2, <3>1, CountAppend
    <3> QED
      BY <1>3, <3>2
  <2>2. Count(queue[r], "content") \in Nat /\ Count(queue[r], "reasoning") \in Nat
    BY <1>1, Places
  <2> QED
    BY <1>1, <1>4, <2>1, <2>2 DEF Counted
<1>7. EndComes(r)'
  <2> SUFFICES ASSUME Has(queue'[r], "end")
               PROVE  /\ work'[r] \in {"closing", "off"}
                      /\ ctx[r].answer = ctx[r].content
                      /\ ctx[r].thoughts = ctx[r].reasoning
                      /\ \A i, j \in DOMAIN queue'[r] :
                           queue'[r][i] = "end" /\ i < j => queue'[r][j] \notin Delta
    BY DEF EndComes
  <2>1. CASE view[r] \notin Listening
    BY <1>1, <1>3, <2>1 DEF EndComes
  <2>2. CASE view[r] \in Listening
    <3>1. queue'[r] = queue[r] \o <<e>>
      BY <1>3, <2>2
    <3>2. e = "end" \/ Has(queue[r], "end")
      BY <1>1, <1>2, <3>1, Longer DEF Has
    <3>3. ctx[r].answer = ctx[r].content /\ ctx[r].thoughts = ctx[r].reasoning
      BY <1>1, <3>2 DEF EndComes, Whole
    <3>4. ASSUME NEW i \in DOMAIN queue'[r], NEW j \in DOMAIN queue'[r],
                 queue'[r][i] = "end", i < j
          PROVE  queue'[r][j] \notin Delta
      <4>1. /\ i \in 1 .. Len(queue[r]) + 1 /\ j \in 1 .. Len(queue[r]) + 1
            /\ Len(queue[r]) \in Nat /\ DOMAIN queue[r] = 1 .. Len(queue[r])
            /\ queue'[r][Len(queue[r]) + 1] = e
            /\ \A k \in 1 .. Len(queue[r]) : queue'[r][k] = queue[r][k]
        BY <1>1, <1>2, <3>1, Longer
      <4>2. i \in DOMAIN queue[r] /\ queue[r][i] = "end"
        BY <3>4, <4>1
      <4>3. CASE j = Len(queue[r]) + 1
        BY <1>2, <4>1, <4>3
      <4>4. CASE j \in 1 .. Len(queue[r])
        BY <1>1, <3>4, <4>1, <4>2, <4>4 DEF EndComes, Has
      <4> QED
        BY <4>1, <4>3, <4>4
    <3> QED
      BY <3>3, <3>4
  <2> QED
    BY <2>1, <2>2
<1>8. EndShown(r)'
  <2>1. \A i \in DOMAIN queue'[r] : queue'[r][i] = e \/ (i \in DOMAIN queue[r] /\ queue'[r][i] = queue[r][i])
    <3>1. CASE view[r] \notin Listening
      BY <1>3, <3>1
    <3>2. CASE view[r] \in Listening
      <4>1. queue'[r] = queue[r] \o <<e>>
        BY <1>3, <3>2
      <4>2. /\ DOMAIN queue'[r] = 1 .. Len(queue[r]) + 1 /\ Len(queue[r]) \in Nat
            /\ DOMAIN queue[r] = 1 .. Len(queue[r])
            /\ queue'[r][Len(queue[r]) + 1] = e
            /\ \A k \in 1 .. Len(queue[r]) : queue'[r][k] = queue[r][k]
        BY <1>1, <1>2, <4>1, Longer
      <4> SUFFICES ASSUME NEW i \in DOMAIN queue'[r]
                   PROVE  queue'[r][i] = e
                            \/ (i \in DOMAIN queue[r] /\ queue'[r][i] = queue[r][i])
        OBVIOUS
      <4>3. CASE i = Len(queue[r]) + 1
        BY <4>2, <4>3
      <4>4. CASE i \in 1 .. Len(queue[r])
        BY <4>2, <4>4
      <4> QED
        BY <4>2, <4>3, <4>4
    <3> QED
      BY <3>1, <3>2
  <2> QED
    BY <1>1, <1>2, <2>1 DEF EndShown
<1> QED
  BY <1>5, <1>6, <1>7, <1>8 DEF TurnInv

(* A turn whose view listens no more: at most its pipeline is forgotten. *)
LEMMA LeavingKeeps ==
  ASSUME StreamInv, NEW r \in Turn, view'[r] \notin Listening \cup {"new"}, queue'[r] = <<>>,
         shown'[r] = shown[r], ctx'[r] = ctx[r], work'[r] \in {work[r], "off"}
  PROVE  TurnInv(r)'
<1>1. Whole(r) /\ EndShown(r)
  BY DEF StreamInv, TurnInv
<1>2. Closes(r)' /\ Quiet(r)' /\ Counted(r)'
  BY DEF Closes, Quiet, Counted
<1>3. Whole(r)' /\ EndComes(r)' /\ EndShown(r)'
  BY <1>1 DEF Whole, EndComes, EndShown, Has
<1> QED
  BY <1>2, <1>3 DEF TurnInv

(***************************************************************************)
(* The view takes an event: a chunk goes from the queue to what is shown,  *)
(* and once the end is taken nothing is left that could be shown.          *)
(***************************************************************************)
LEMMA TakingKeeps ==
  ASSUME StreamInv, NEW r \in Turn, view[r] = "waiting", queue[r] # <<>>,
         NEW event, event = Head(queue[r]), event # "close",
         view'[r] \in {"waiting", "sent"}, queue'[r] = Tail(queue[r]),
         work'[r] = work[r], ctx'[r] = ctx[r],
         shown'[r] = [content |-> shown[r].content + (IF event = "content" THEN 1 ELSE 0),
                      reasoning |-> shown[r].reasoning + (IF event = "reasoning" THEN 1 ELSE 0),
                      ended |-> shown[r].ended \/ event = "end"]
  PROVE  TurnInv(r)'
<1> DEFINE q == queue[r]
<1>1. /\ q \in Seq(Events) /\ shown[r] \in Shown /\ ctx[r] \in Context
      /\ Closes(r) /\ Counted(r) /\ Whole(r) /\ EndComes(r) /\ EndShown(r)
  BY DEF StreamInv, StreamType, TurnInv
<1>2. view[r] \in Listening /\ view'[r] \in Listening /\ view'[r] # "new"
  BY DEF Listening
<1>3. /\ Tail(q) \in Seq(Events) /\ event = q[1] /\ event \in Events
      /\ DOMAIN Tail(q) = 1 .. Len(q) - 1 /\ DOMAIN q = 1 .. Len(q) /\ Len(q) \in Nat \ {0}
      /\ Len(Tail(q)) = Len(q) - 1
      /\ \A i \in 1 .. Len(q) - 1 : Tail(q)[i] = q[i + 1]
  BY <1>1, Shorter
<1>4. Closes(r)'
  <2> SUFFICES ASSUME work[r] = "off"
               PROVE  Tail(q) # <<>> /\ Tail(q)[Len(Tail(q))] = "close"
    BY DEF Closes
  <2>1. q[Len(q)] = "close"
    BY <1>1, <1>2 DEF Closes
  <2>2. Len(q) > 1
    BY <1>3, <2>1
  <2>3. Len(q) - 1 \in 1 .. Len(q) - 1 /\ (Len(q) - 1) + 1 = Len(q)
    BY <1>3, <2>2
  <2>4. Tail(q)[Len(q) - 1] = q[(Len(q) - 1) + 1]
    BY <1>3, <2>3
  <2>5. Tail(q) # <<>>
    <3>1. Len(Tail(q)) # 0
      BY <1>3, <2>2
    <3>2. Len(<<>>) = 0
      OBVIOUS
    <3> QED
      BY <3>1, <3>2
  <2> QED
    BY <1>3, <2>1, <2>3, <2>4, <2>5
<1>5. /\ Count(q, "content") = Count(Tail(q), "content") + (IF event = "content" THEN 1 ELSE 0)
      /\ Count(q, "reasoning") = Count(Tail(q), "reasoning") + (IF event = "reasoning" THEN 1 ELSE 0)
  BY <1>1, CountTail
<1>6. Count(Tail(q), "content") \in Nat /\ Count(Tail(q), "reasoning") \in Nat
  BY <1>3, Places
<1>7. /\ shown[r].content + Count(q, "content") = ctx[r].content
      /\ shown[r].reasoning + Count(q, "reasoning") = ctx[r].reasoning
      /\ shown[r].content \in Nat /\ shown[r].reasoning \in Nat
      /\ ctx[r].content \in Nat /\ ctx[r].reasoning \in Nat
  BY <1>1, <1>2 DEF Counted, Shown, Context
<1>8. /\ shown'[r].content = shown[r].content + (IF event = "content" THEN 1 ELSE 0)
      /\ shown'[r].reasoning = shown[r].reasoning + (IF event = "reasoning" THEN 1 ELSE 0)
      /\ shown'[r].ended = (shown[r].ended \/ event = "end")
  OBVIOUS
<1>9. /\ shown'[r].content + Count(Tail(q), "content") = ctx[r].content
      /\ shown'[r].reasoning + Count(Tail(q), "reasoning") = ctx[r].reasoning
  BY <1>5, <1>6, <1>7, <1>8
<1>10. Counted(r)'
  BY <1>9 DEF Counted
<1>11. Quiet(r)' /\ Whole(r)'
  BY <1>1, <1>2 DEF Quiet, Whole
<1>12. EndComes(r)'
  <2>1. ASSUME Has(Tail(q), "end") PROVE Has(q, "end")
    <3>1. PICK i \in DOMAIN Tail(q) : Tail(q)[i] = "end"
      BY <2>1 DEF Has
    <3>2. i + 1 \in DOMAIN q /\ q[i + 1] = "end"
      BY <1>3, <3>1
    <3> QED
      BY <3>2 DEF Has
  <2>2. ASSUME Has(q, "end"), NEW i \in DOMAIN Tail(q), NEW j \in DOMAIN Tail(q),
               Tail(q)[i] = "end", i < j
        PROVE  Tail(q)[j] \notin Delta
    <3>1. /\ i + 1 \in DOMAIN q /\ j + 1 \in DOMAIN q /\ i + 1 < j + 1
          /\ q[i + 1] = "end" /\ Tail(q)[j] = q[j + 1]
      BY <1>3, <2>2
    <3> QED
      BY <1>1, <2>2, <3>1 DEF EndComes
  <2> QED
    BY <1>1, <2>1, <2>2 DEF EndComes
<1>13. EndShown(r)'
  <2>1. CASE shown[r].ended
    <3>1. \A i \in DOMAIN q : q[i] \notin Delta
      BY <1>1, <2>1 DEF EndShown
    <3>2. 1 \in DOMAIN q /\ \A i \in DOMAIN Tail(q) : i + 1 \in DOMAIN q /\ Tail(q)[i] = q[i + 1]
      BY <1>3
    <3>3. event # "content" /\ event # "reasoning"
      BY <1>3, <3>1, <3>2 DEF Delta
    <3>4. shown'[r].content = shown[r].content /\ shown'[r].reasoning = shown[r].reasoning
      BY <1>7, <1>8, <3>3
    <3> QED
      BY <1>1, <2>1, <3>1, <3>2, <3>4 DEF EndShown
  <2>2. CASE event = "end"
    <3>1. Has(q, "end") /\ 1 \in DOMAIN q
      BY <1>3, <2>2 DEF Has
    <3>2. /\ work[r] \in {"closing", "off"}
          /\ ctx[r].answer = ctx[r].content /\ ctx[r].thoughts = ctx[r].reasoning
      BY <1>1, <3>1 DEF EndComes
    <3>3. \A i \in DOMAIN Tail(q) : Tail(q)[i] \notin Delta
      <4> TAKE i \in DOMAIN Tail(q)
      <4>1. i + 1 \in DOMAIN q /\ 1 < i + 1 /\ Tail(q)[i] = q[i + 1] /\ q[1] = "end"
        BY <1>3, <2>2
      <4> QED
        BY <1>1, <3>1, <4>1 DEF EndComes
    <3>4. ~Has(Tail(q), "content") /\ ~Has(Tail(q), "reasoning")
      BY <3>3 DEF Has, Delta
    <3>5. Count(Tail(q), "content") = 0 /\ Count(Tail(q), "reasoning") = 0
      BY <1>3, <3>4, CountNone
    <3>6. shown'[r].content = ctx[r].content /\ shown'[r].reasoning = ctx[r].reasoning
      BY <1>7, <1>8, <1>9, <3>5
    <3> QED
      BY <3>2, <3>3, <3>6 DEF EndShown
  <2> QED
    BY <1>8, <2>1, <2>2 DEF EndShown
<1> QED
  BY <1>4, <1>10, <1>11, <1>12, <1>13 DEF TurnInv

-----------------------------------------------------------------------------
(* Every step keeps the stream's invariant.                                *)

(* A view goes on to another phase. *)
LEMMA WentTo ==
  ASSUME StreamType, NEW r \in Turn, NEW phase \in Views, GoTo(r, phase)
  PROVE  /\ view' \in [Turn -> Views] /\ view'[r] = phase
         /\ \A s \in Turn \ {r} : view'[s] = view[s]
BY DEF StreamType, GoTo

LEMMA PostKeeps ==
  ASSUME StreamInv, NEW r \in Turn, Post(r)
  PROVE  StreamInv'
<1>1. /\ view[r] = "new" /\ GoTo(r, "ready") /\ work' = [work EXCEPT ![r] = "reset"]
      /\ shown' = shown /\ ctx' = ctx /\ queue' = queue
  BY DEF Post
<1>2. StreamType /\ Quiet(r)
  BY DEF StreamInv, TurnInv
<1>3. view' \in [Turn -> Views] /\ view'[r] = "ready" /\ \A s \in Turn \ {r} : view'[s] = view[s]
  BY <1>1, <1>2, WentTo DEF Views, Listening
<1>4. StreamType'
  BY <1>1, <1>2, <1>3 DEF StreamType, Works
<1>5. work'[r] = "reset" /\ queue'[r] = <<>>
  BY <1>1, <1>2 DEF StreamType, Quiet, Listening
<1>6. /\ shown'[r] = [content |-> 0, reasoning |-> 0, ended |-> FALSE]
      /\ ctx'[r] = [content |-> 0, reasoning |-> 0, answer |-> 0, thoughts |-> 0]
  BY <1>1, <1>2 DEF Quiet
<1>7. <<>> \in Seq(Events) /\ ~Has(<<>>, "content") /\ ~Has(<<>>, "reasoning") /\ ~Has(<<>>, "end")
  BY DEF Has
<1>8. Counted(r)'
  <2>1. Count(queue'[r], "content") = 0 /\ Count(queue'[r], "reasoning") = 0
    BY <1>5, <1>7, CountNone
  <2> QED
    BY <1>6, <2>1 DEF Counted
<1>9. Closes(r)' /\ Quiet(r)' /\ Whole(r)' /\ EndShown(r)'
  BY <1>3, <1>5, <1>6 DEF Closes, Quiet, Whole, EndShown, Listening
<1>10. EndComes(r)'
  BY <1>5, <1>7 DEF EndComes
<1>11. TurnInv(r)'
  BY <1>8, <1>9, <1>10 DEF TurnInv
<1> QED
  BY <1>1, <1>3, <1>4, <1>11, OneTurn DEF Untouched, StreamInv, StreamType

(* The generator starts, or is asked for the next frame. *)
LEMMA OpenKeeps ==
  ASSUME StreamInv, NEW r \in Turn, Open(r) \/ Pull(r)
  PROVE  StreamInv'
<1>1. PICK phase \in {"sent", "waiting"} : GoTo(r, phase)
  BY DEF Open, Pull
<1>2. view[r] \in Listening /\ UNCHANGED <<shown, work, ctx, queue>>
  BY DEF Open, Pull, pipes, Listening
<1>3. StreamType /\ TurnInv(r)
  BY DEF StreamInv
<1>4. view' \in [Turn -> Views] /\ view'[r] = phase /\ \A s \in Turn \ {r} : view'[s] = view[s]
  BY <1>1, <1>3, WentTo DEF Views, Listening
<1>5. StreamType'
  BY <1>2, <1>3, <1>4 DEF StreamType
<1>6. view'[r] \in Listening /\ view'[r] # "new"
  BY <1>4 DEF Listening
<1>7. TurnInv(r)'
  BY <1>2, <1>3, <1>6 DEF TurnInv, Closes, Quiet, Counted, Whole, EndComes, EndShown, Has
<1> QED
  BY <1>2, <1>4, <1>5, <1>7, OneTurn DEF Untouched

(* The generator ends, is closed, or was never started. *)
LEMMA LeaveKeeps ==
  ASSUME StreamInv, NEW r \in Turn, NEW phase \in {"name", "done", "dropped"}, GoTo(r, phase),
         queue' = [queue EXCEPT ![r] = <<>>], UNCHANGED <<shown, ctx>>,
         work' = work \/ work' = [work EXCEPT ![r] = "off"]
  PROVE  StreamInv'
<1>1. StreamType
  BY DEF StreamInv
<1>2. phase \in Views /\ phase \notin Listening \cup {"new"}
  BY DEF Views, Listening, Saving
<1>3. view' \in [Turn -> Views] /\ view'[r] = phase /\ \A s \in Turn \ {r} : view'[s] = view[s]
  BY <1>1, <1>2, WentTo
<1>4. /\ work' \in [Turn -> Works] /\ work'[r] \in {work[r], "off"}
      /\ \A s \in Turn \ {r} : work'[s] = work[s]
  BY <1>1 DEF StreamType, Works
<1>5. /\ queue' \in [Turn -> Seq(Events)] /\ queue'[r] = <<>>
      /\ \A s \in Turn \ {r} : queue'[s] = queue[s]
  BY <1>1 DEF StreamType
<1>6. StreamType'
  BY <1>1, <1>3, <1>4, <1>5 DEF StreamType
<1>7. TurnInv(r)'
  BY <1>2, <1>3, <1>4, <1>5, LeavingKeeps
<1> QED
  BY <1>3, <1>4, <1>5, <1>6, <1>7, OneTurn DEF Untouched

LEMMA GetKeeps ==
  ASSUME StreamInv, NEW r \in Turn, Get(r)
  PROVE  StreamInv'
<1> DEFINE event == Head(queue[r])
<1>1. /\ view[r] = "waiting" /\ queue[r] # <<>> /\ UNCHANGED <<work, ctx>>
      /\ StreamType
  BY DEF Get, pipes, StreamInv
<1>2. CASE event = "close"
  <2>1. \E phase \in {"name", "done"} : GoTo(r, phase)
    BY <1>2 DEF Get, Finish
  <2>2. queue' = [queue EXCEPT ![r] = <<>>] /\ shown' = shown
    BY <1>2 DEF Get, Finish
  <2> QED
    BY <1>1, <2>1, <2>2, LeaveKeeps
<1>3. CASE event # "close"
  <2>1. /\ queue' = [queue EXCEPT ![r] = Tail(@)]
        /\ GoTo(r, IF r \in OpenAI /\ ~Convert(r, event) THEN "waiting" ELSE "sent")
        /\ shown' = [shown EXCEPT ![r] =
             [content |-> @.content + (IF event = "content" THEN 1 ELSE 0),
              reasoning |-> @.reasoning + (IF event = "reasoning" THEN 1 ELSE 0),
              ended |-> @.ended \/ event = "end"]]
    BY <1>3 DEF Get
  <2>2. PICK phase \in {"waiting", "sent"} : GoTo(r, phase)
    BY <2>1
  <2>3. view' \in [Turn -> Views] /\ view'[r] = phase /\ \A s \in Turn \ {r} : view'[s] = view[s]
    BY <1>1, <2>2, WentTo DEF Views, Listening
  <2>4. /\ queue' \in [Turn -> Seq(Events)] /\ queue'[r] = Tail(queue[r])
        /\ \A s \in Turn \ {r} : queue'[s] = queue[s]
    BY <1>1, <2>1, Shorter DEF StreamType
  <2>5. /\ shown'[r] = [content |-> shown[r].content + (IF event = "content" THEN 1 ELSE 0),
                        reasoning |-> shown[r].reasoning + (IF event = "reasoning" THEN 1 ELSE 0),
                        ended |-> shown[r].ended \/ event = "end"]
        /\ \A s \in Turn \ {r} : shown'[s] = shown[s]
        /\ shown' \in [Turn -> Shown]
    <3>1. shown \in [Turn -> Shown]
      BY <1>1 DEF StreamType
    <3> DEFINE new == [content |-> shown[r].content + (IF event = "content" THEN 1 ELSE 0),
                       reasoning |-> shown[r].reasoning + (IF event = "reasoning" THEN 1 ELSE 0),
                       ended |-> shown[r].ended \/ event = "end"]
    <3>4. shown' = [shown EXCEPT ![r] = new]
      BY <2>1
    <3>5. new \in Shown
      BY <3>1 DEF Shown
    <3>6. shown'[r] = new /\ \A s \in Turn \ {r} : shown'[s] = shown[s]
      <4> HIDE DEF new
      <4> QED
        BY <3>1, <3>4
    <3>7. shown' \in [Turn -> Shown]
      <4> HIDE DEF new
      <4> QED
        BY <3>1, <3>4, <3>5
    <3> QED
      BY <3>6, <3>7
  <2>6. StreamType'
    BY <1>1, <2>3, <2>4, <2>5 DEF StreamType
  <2>7. TurnInv(r)'
    <3>1. work'[r] = work[r] /\ ctx'[r] = ctx[r]
      BY <1>1
    <3> HIDE DEF event
    <3> QED
      BY <1>1, <1>3, <2>3, <2>4, <2>5, <3>1, TakingKeeps DEF event
  <2> QED
    BY <1>1, <2>3, <2>4, <2>5, <2>6, <2>7, OneTurn DEF Untouched
<1> QED
  BY <1>2, <1>3

(* What generate() saves says nothing to the client. *)
LEMMA SaveGoes ==
  ASSUME NEW r \in Turn, Save(r)
  PROVE  /\ view[r] \in Saving
         /\ \E phase \in Recorded \cup {"record"} :
              GoTo(r, phase) /\ (view[r] \in Recorded => phase \in Recorded)
         /\ work' = work \/ work' = [work EXCEPT ![r] = "off"]
         /\ UNCHANGED <<shown, ctx, queue>>
<1>1. UNCHANGED <<shown, ctx, queue>>
  BY DEF Save
<1>2. ASSUME NEW phase \in Recorded \cup {"record"}, GoTo(r, phase), view[r] \in Saving,
             view[r] = "name" \/ phase \in Recorded,
             work' = work \/ work' = [work EXCEPT ![r] = "off"]
      PROVE  /\ view[r] \in Saving
             /\ \E p \in Recorded \cup {"record"} :
                  GoTo(r, p) /\ (view[r] \in Recorded => p \in Recorded)
             /\ work' = work \/ work' = [work EXCEPT ![r] = "off"]
  BY <1>2 DEF Recorded
<1>3. CASE SaveName(r)
  BY <1>1, <1>2, <1>3 DEF SaveName, Saving
<1>4. CASE CreateRecord(r) \/ SetCurrent(r)
  BY <1>1, <1>2, <1>4 DEF CreateRecord, SetCurrent, Recorded, Saving
<1>5. CASE FailToSave(r)
  BY <1>1, <1>2, <1>5 DEF FailToSave, Recorded
<1>6. ASSUME NEW role, ReadHistory(r, role)
      PROVE  \E phase \in {"write user", "write assistant"} :
               GoTo(r, phase) /\ view[r] \in Saving /\ work' = work
  BY <1>6 DEF ReadHistory, Reading, Writing, Saving
<1>7. ASSUME NEW role, WriteHistory(r, role)
      PROVE  \E phase \in {"read assistant", "saved"} :
               /\ GoTo(r, phase) /\ view[r] \in Saving
               /\ work' = work \/ work' = [work EXCEPT ![r] = "off"]
  BY <1>7 DEF WriteHistory, Writing, Saving
<1>8. {"write user", "write assistant", "read assistant", "saved"} \subseteq Recorded
  BY DEF Recorded, Saving
<1> QED
  BY <1>1, <1>2, <1>3, <1>4, <1>5, <1>6, <1>7, <1>8 DEF Save

LEMMA SaveKeeps ==
  ASSUME StreamInv, NEW r \in Turn, Save(r)
  PROVE  StreamInv'
<1>1. StreamType /\ Quiet(r)
  BY DEF StreamInv, TurnInv
<1>2. PICK phase \in Recorded \cup {"record"} : GoTo(r, phase)
  BY SaveGoes
<1>3. /\ view[r] \in Saving /\ UNCHANGED <<shown, ctx, queue>>
      /\ work' = work \/ work' = [work EXCEPT ![r] = "off"]
  BY SaveGoes
<1>4. phase \in Views /\ phase \notin Listening \cup {"new"}
  BY DEF Recorded, Views, Listening, Saving
<1>5. view' \in [Turn -> Views] /\ view'[r] = phase /\ \A s \in Turn \ {r} : view'[s] = view[s]
  BY <1>1, <1>2, <1>4, WentTo
<1>6. /\ work' \in [Turn -> Works] /\ work'[r] \in {work[r], "off"}
      /\ \A s \in Turn \ {r} : work'[s] = work[s]
  BY <1>1, <1>3 DEF StreamType, Works
<1>7. StreamType'
  BY <1>1, <1>3, <1>5, <1>6 DEF StreamType
<1>8. queue'[r] = <<>>
  BY <1>1, <1>3 DEF Quiet, Listening, Saving
<1>9. TurnInv(r)'
  BY <1>3, <1>4, <1>5, <1>6, <1>8, LeavingKeeps
<1> QED
  BY <1>3, <1>5, <1>6, <1>7, <1>9, OneTurn DEF Untouched

(* What one step of the pipeline of r leaves alone. *)
LEMMA PipelineTouches ==
  ASSUME StreamInv, NEW r \in Turn, UNCHANGED views,
         NEW to \in Works, work' = [work EXCEPT ![r] = to],
         ctx' \in [Turn -> Context], queue' \in [Turn -> Seq(Events)],
         \A s \in Turn \ {r} : ctx'[s] = ctx[s] /\ queue'[s] = queue[s],
         TurnInv(r)'
  PROVE  StreamInv'
<1>1. StreamType
  BY DEF StreamInv
<1>2. work' \in [Turn -> Works] /\ \A s \in Turn \ {r} : work'[s] = work[s]
  BY <1>1 DEF StreamType
<1>3. view' = view /\ shown' = shown
  BY DEF views
<1>4. StreamType'
  BY <1>1, <1>2, <1>3 DEF StreamType
<1> QED
  BY <1>2, <1>3, <1>4, OneTurn DEF Untouched

(* A chunk more of one kind. *)
LEMMA ChunkAdds ==
  ASSUME StreamType, NEW r \in Turn, NEW kind \in Delta, ctx' = [ctx EXCEPT ![r][kind] = @ + 1]
  PROVE  /\ ctx' \in [Turn -> Context]
         /\ \A s \in Turn \ {r} : ctx'[s] = ctx[s]
         /\ ctx'[r].content = ctx[r].content + (IF kind = "content" THEN 1 ELSE 0)
         /\ ctx'[r].reasoning = ctx[r].reasoning + (IF kind = "reasoning" THEN 1 ELSE 0)
<1>1. ctx \in [Turn -> Context] /\ ctx[r] \in Context
  BY DEF StreamType
<1>2. CASE kind = "content"
  <2>1. ctx' = [ctx EXCEPT ![r] = [ctx[r] EXCEPT !.content = ctx[r].content + 1]]
    BY <1>2
  <2> QED
    BY <1>1, <1>2, <2>1 DEF Context
<1>3. CASE kind = "reasoning"
  <2>1. ctx' = [ctx EXCEPT ![r] = [ctx[r] EXCEPT !.reasoning = ctx[r].reasoning + 1]]
    BY <1>3
  <2> QED
    BY <1>1, <1>3, <2>1 DEF Context
<1> QED
  BY <1>2, <1>3 DEF Delta

LEMMA ChunkKeeps ==
  ASSUME StreamInv, NEW r \in Turn, Chunk(r), UNCHANGED views
  PROVE  StreamInv'
<1>1. PICK kind \in Delta : ctx' = [ctx EXCEPT ![r][kind] = @ + 1] /\ Emit(r, <<kind>>)
  BY DEF Chunk
<1>2. work[r] = "model" /\ work' = work /\ view' = view /\ shown' = shown /\ StreamType
  BY DEF Chunk, views, StreamInv
<1>3. kind \in Events /\ kind \in {"node", "content", "reasoning"}
  BY DEF Events, Delta
<1>4. /\ ctx' \in [Turn -> Context]
      /\ \A s \in Turn \ {r} : ctx'[s] = ctx[s]
      /\ ctx'[r].content = ctx[r].content + (IF kind = "content" THEN 1 ELSE 0)
      /\ ctx'[r].reasoning = ctx[r].reasoning + (IF kind = "reasoning" THEN 1 ELSE 0)
  BY <1>1, <1>2, ChunkAdds
<1>5. queue' \in [Turn -> Seq(Events)] /\ \A s \in Turn \ {r} : queue'[s] = queue[s]
  BY <1>1, <1>2, <1>3, Emitted
<1>6. TurnInv(r)'
  BY <1>1, <1>2, <1>3, <1>4, EmitKeeps
<1>7. work' = [work EXCEPT ![r] = "model"] /\ "model" \in Works
  BY <1>2 DEF StreamType, Works
<1> QED
  BY <1>4, <1>5, <1>6, <1>7, PipelineTouches

LEMMA ResetKeeps ==
  ASSUME StreamInv, NEW r \in Turn, ResetProblem(r), UNCHANGED views
  PROVE  StreamInv'
<1>1. /\ work[r] = "reset" /\ work' = [work EXCEPT ![r] = "search"]
      /\ Emit(r, <<"node">>) /\ ctx' = ctx /\ view' = view /\ shown' = shown /\ StreamType
  BY DEF ResetProblem, Step, views, StreamInv
<1>2. "node" \in Events /\ "search" \in Works
  BY DEF Events, Works
<1>3. queue' \in [Turn -> Seq(Events)] /\ \A s \in Turn \ {r} : queue'[s] = queue[s]
  BY <1>1, <1>2, Emitted
<1>4. ctx \in [Turn -> Context] /\ work'[r] = "search"
  BY <1>1 DEF StreamType
<1>5. ctx'[r].content = ctx[r].content + 0 /\ ctx'[r].reasoning = ctx[r].reasoning + 0
  BY <1>1, <1>4 DEF Context
<1>6. TurnInv(r)'
  BY <1>1, <1>4, <1>5, EmitKeeps
<1> QED
  BY <1>1, <1>2, <1>3, <1>4, <1>6, PipelineTouches

(* The end of the message, and the sentinel. *)
LEMMA LastEventGoes ==
  ASSUME StreamInv, NEW r \in Turn, UNCHANGED views, ctx' = ctx,
         \/ Step(r, "told", "closing") /\ Emit(r, <<"end">>)
         \/ Step(r, "closing", "off") /\ Emit(r, <<"close">>)
  PROVE  StreamInv'
<1>1. PICK e \in {"end", "close"} :
        /\ Emit(r, <<e>>)
        /\ Step(r, IF e = "end" THEN "told" ELSE "closing", IF e = "end" THEN "closing" ELSE "off")
  OBVIOUS
<1>2. e \in Events /\ view' = view /\ shown' = shown /\ StreamType
  BY DEF Events, views, StreamInv
<1>3. queue' \in [Turn -> Seq(Events)] /\ \A s \in Turn \ {r} : queue'[s] = queue[s]
  BY <1>1, <1>2, Emitted
<1>4. PICK to \in Works :
        to = (IF e = "end" THEN "closing" ELSE "off") /\ work' = [work EXCEPT ![r] = to]
  BY <1>1 DEF Step, Works
<1>5. work[r] = (IF e = "end" THEN "told" ELSE "closing") /\ work'[r] = to /\ ctx \in [Turn -> Context]
  BY <1>1, <1>2, <1>4 DEF Step, StreamType
<1>6. TurnInv(r)'
  BY <1>1, <1>2, <1>4, <1>5, LastEventKeeps
<1> QED
  BY <1>2, <1>3, <1>4, <1>5, <1>6, PipelineTouches

(* The steps without an event. *)
LEMMA SilentGoes ==
  ASSUME StreamInv, NEW r \in Turn, UNCHANGED views, queue' = queue,
         work[r] \notin {"off", "told", "closing"},
         NEW to \in Works \ {"off"}, work' = [work EXCEPT ![r] = to],
         ctx' \in [Turn -> Context], \A s \in Turn \ {r} : ctx'[s] = ctx[s],
         ctx'[r].content = ctx[r].content, ctx'[r].reasoning = ctx[r].reasoning,
         to \in {"answered", "told"} => ctx'[r].answer = ctx[r].content,
         to = "told" => ctx'[r].thoughts = ctx[r].reasoning
  PROVE  StreamInv'
<1>1. /\ view' = view /\ shown' = shown /\ work'[r] = to /\ ctx'[r] \in Context
      /\ queue \in [Turn -> Seq(Events)]
  BY DEF views, StreamInv, StreamType
<1>2. Whole(r)'
  BY <1>1 DEF Whole
<1>3. TurnInv(r)'
  BY <1>1, <1>2, SilentKeeps
<1> QED
  BY <1>1, <1>3, PipelineTouches

LEMMA JoinKeeps ==
  ASSUME StreamInv, NEW r \in Turn, UNCHANGED views,
         \/ Join(r, "model", "answered", "answer", "content")
         \/ Join(r, "answered", "told", "thoughts", "reasoning")
  PROVE  StreamInv'
<1>1. StreamType /\ Whole(r) /\ ctx \in [Turn -> Context]
  BY DEF StreamInv, StreamType, TurnInv
<1>2. CASE Join(r, "model", "answered", "answer", "content")
  <2>1. /\ work[r] = "model" /\ work' = [work EXCEPT ![r] = "answered"] /\ queue' = queue
        /\ ctx' = [ctx EXCEPT ![r] = [ctx[r] EXCEPT !.answer = ctx[r].content]]
    BY <1>2 DEF Join, Step
  <2>2. /\ ctx' \in [Turn -> Context] /\ \A s \in Turn \ {r} : ctx'[s] = ctx[s]
        /\ ctx'[r].content = ctx[r].content /\ ctx'[r].reasoning = ctx[r].reasoning
        /\ ctx'[r].answer = ctx[r].content
    BY <1>1, <2>1 DEF Context
  <2>3. "answered" \in Works \ {"off"}
    BY DEF Works
  <2> QED
    BY <2>1, <2>2, <2>3, SilentGoes
<1>3. CASE Join(r, "answered", "told", "thoughts", "reasoning")
  <2>1. /\ work[r] = "answered" /\ work' = [work EXCEPT ![r] = "told"] /\ queue' = queue
        /\ ctx' = [ctx EXCEPT ![r] = [ctx[r] EXCEPT !.thoughts = ctx[r].reasoning]]
    BY <1>3 DEF Join, Step
  <2>2. /\ ctx' \in [Turn -> Context] /\ \A s \in Turn \ {r} : ctx'[s] = ctx[s]
        /\ ctx'[r].content = ctx[r].content /\ ctx'[r].reasoning = ctx[r].reasoning
        /\ ctx'[r].thoughts = ctx[r].reasoning /\ ctx'[r].answer = ctx[r].answer
    BY <1>1, <2>1 DEF Context
  <2>3. "told" \in Works \ {"off"}
    BY DEF Works
  <2>4. ctx[r].answer = ctx[r].content
    BY <1>1, <2>1 DEF Whole
  <2> QED
    BY <2>1, <2>2, <2>3, <2>4, SilentGoes
<1> QED
  BY <1>2, <1>3

LEMMA PipelineKeeps ==
  ASSUME StreamInv, NEW r \in Turn, Pipeline(r)
  PROVE  StreamInv'
<1>1. UNCHANGED views /\ StreamType /\ ctx \in [Turn -> Context]
  BY DEF Pipeline, StreamInv, StreamType
<1>2. CASE SearchKnowledge(r) \/ OpenModel(r) \/ Break(r)
  <2>1. PICK to \in {"chat", "model", "closing"} : work' = [work EXCEPT ![r] = to]
    BY <1>2 DEF SearchKnowledge, OpenModel, Break, Step
  <2>2. work[r] \in {"reset", "search", "chat", "model"} /\ ctx' = ctx /\ queue' = queue
    BY <1>2 DEF SearchKnowledge, OpenModel, Break, Step
  <2>3. to \in Works \ {"off"} /\ to \notin {"answered", "told"}
    BY DEF Works
  <2> QED
    BY <1>1, <2>1, <2>2, <2>3, SilentGoes
<1>3. CASE EndMessage(r)
  <2>1. CASE Step(r, "told", "closing") /\ Emit(r, <<"end">>) /\ UNCHANGED ctx
    BY <1>1, <2>1, LastEventGoes
  <2> QED
    BY <1>1, <1>3, <2>1, JoinKeeps DEF EndMessage
<1>4. CASE Close(r)
  BY <1>1, <1>4, LastEventGoes DEF Close
<1> QED
  BY <1>1, <1>2, <1>3, <1>4, ResetKeeps, ChunkKeeps DEF Pipeline

LEMMA StreamStep ==
  ASSUME StreamInv, [Next]_vars
  PROVE  StreamInv'
<1>1. ASSUME UNCHANGED <<views, pipes, queue>> PROVE StreamInv'
  <2>1. UNCHANGED <<view, work, queue, shown, ctx>>
    BY <1>1 DEF views, pipes
  <2>2. StreamType'
    BY <2>1 DEF StreamInv, StreamType
  <2>3. \A s \in Turn : TurnInv(s) <=> TurnInv(s)'
    BY <2>1 DEF TurnInv, Closes, Quiet, Counted, Whole, EndComes, EndShown, Has
  <2> QED
    BY <2>2, <2>3 DEF StreamInv
<1>2. ASSUME NEW r \in Turn, View(r) PROVE StreamInv'
  <2>1. CASE Done(r)
    <3>1. GoTo(r, "name") /\ queue' = [queue EXCEPT ![r] = <<>>] /\ UNCHANGED <<shown, ctx, work>>
      BY <2>1 DEF Done, Finish, pipes
    <3> QED
      BY <3>1, LeaveKeeps
  <2> QED
    BY <1>2, <2>1, PostKeeps, OpenKeeps, GetKeeps, SaveKeeps DEF View
<1>3. ASSUME NEW r \in Turn, Drop(r) PROVE StreamInv'
  <2>1. /\ GoTo(r, "dropped") /\ queue' = [queue EXCEPT ![r] = <<>>] /\ UNCHANGED <<shown, ctx>>
        /\ work' = [work EXCEPT ![r] = "off"]
    BY <1>3 DEF Drop
  <2> QED
    BY <2>1, LeaveKeeps
<1>4. ASSUME NEW r \in Turn, Disconnect(r) PROVE StreamInv'
  <2>1. GoTo(r, "name") /\ queue' = [queue EXCEPT ![r] = <<>>] /\ UNCHANGED <<shown, ctx, work>>
    BY <1>4 DEF Disconnect, Finish, pipes
  <2> QED
    BY <2>1, LeaveKeeps
<1>5. CASE Rename
  BY <1>1, <1>5 DEF Rename
<1>6. CASE ExpireHistory
  BY <1>1, <1>6 DEF ExpireHistory
<1>7. CASE UNCHANGED vars
  BY <1>1, <1>7 DEF vars
<1> QED
  BY <1>2, <1>3, <1>4, <1>5, <1>6, <1>7, PipelineKeeps DEF Next

LEMMA StreamStarts == Init => StreamInv
<1> SUFFICES ASSUME Init PROVE StreamInv
  OBVIOUS
<1>1. StreamType
  BY DEF Init, StreamType, Views, Works, Shown, Context
<1>2. ASSUME NEW r \in Turn PROVE TurnInv(r)
  <2>1. /\ view[r] = "new" /\ work[r] = "off" /\ queue[r] = <<>>
        /\ shown[r] = [content |-> 0, reasoning |-> 0, ended |-> FALSE]
        /\ ctx[r] = [content |-> 0, reasoning |-> 0, answer |-> 0, thoughts |-> 0]
    BY DEF Init
  <2> QED
    BY <2>1 DEF TurnInv, Closes, Quiet, Counted, Whole, EndComes, EndShown, Has, Listening
<1> QED
  BY <1>1, <1>2 DEF StreamInv

LEMMA StreamInvariant == Spec => []StreamInv
BY StreamStarts, StreamStep, PTL DEF Spec

(***************************************************************************)
(* A view that blocks on its empty queue has a pipeline that still runs,   *)
(* whatever fails, leaves or overlaps: EventEmitter.close in the finally   *)
(* of _run_pipeline answers every wait.                                    *)
(***************************************************************************)
THEOREM WaitsAreAnswered == Spec => []WaitIsAnswered
<1>1. StreamInv => WaitIsAnswered
  BY DEF StreamInv, TurnInv, Closes, WaitIsAnswered, Listening
<1> QED
  BY <1>1, StreamInvariant, PTL

-----------------------------------------------------------------------------
(* The records.                                                            *)

(* A step leaves the store and those who save alone, or it is one of these. *)
Idly ==
  /\ UNCHANGED <<records, history, items, ghosts>>
  /\ \A t \in Turn : view[t] \in Saving \/ view'[t] \in Saving => view'[t] = view[t]

LEMMA StoreSteps ==
  ASSUME StreamType, [Next]_vars
  PROVE  \/ Idly
         \/ \E r \in Turn : Finish(r) /\ view[r] \notin Saving
         \/ \E r \in Turn : Save(r)
         \/ ExpireHistory
<1>0. view \in [Turn -> Views]
  BY DEF StreamType
<1>1. ASSUME NEW r \in Turn, view[r] \notin Saving, NEW phase \in Views \ Saving, GoTo(r, phase),
             UNCHANGED <<records, history, items, ghosts>>
      PROVE  Idly
  BY <1>0, <1>1 DEF Idly, GoTo
<1>2. ASSUME UNCHANGED <<view, records, history, items, ghosts>> PROVE Idly
  BY <1>2 DEF Idly
<1>3. {"ready", "waiting", "sent", "done", "dropped"} \subseteq Views \ Saving
  BY DEF Views, Saving, Listening
<1>4. ASSUME NEW r \in Turn, Post(r) \/ Drop(r) \/ Open(r) \/ Pull(r) PROVE Idly
  <2>1. view[r] \notin Saving /\ UNCHANGED <<records, history, items, ghosts>>
    BY <1>4 DEF Post, Drop, Open, Pull, Saving, stored
  <2>2. \E phase \in {"ready", "waiting", "sent", "dropped"} : GoTo(r, phase)
    BY <1>4 DEF Post, Drop, Open, Pull
  <2> QED
    BY <1>1, <1>3, <2>1, <2>2
<1>5. ASSUME NEW r \in Turn, Get(r) PROVE Idly \/ (Finish(r) /\ view[r] \notin Saving)
  <2>1. view[r] \notin Saving
    BY <1>5 DEF Get, Saving
  <2>2. \/ Finish(r)
        \/ /\ \E phase \in {"done", "waiting", "sent"} : GoTo(r, phase)
           /\ UNCHANGED stored
    BY <1>5 DEF Get
  <2> QED
    BY <1>1, <1>3, <2>1, <2>2 DEF stored
<1>6. ASSUME NEW r \in Turn, Done(r) \/ Disconnect(r) PROVE Finish(r) /\ view[r] \notin Saving
  BY <1>6 DEF Done, Disconnect, Saving
<1>7. ASSUME NEW r \in Turn, Pipeline(r) PROVE Idly
  BY <1>2, <1>7 DEF Pipeline, views, stored
<1>8. CASE Rename
  BY <1>2, <1>8 DEF Rename, views
<1>9. CASE UNCHANGED vars
  BY <1>2, <1>9 DEF vars, views, stored
<1> QED
  BY <1>4, <1>5, <1>6, <1>7, <1>8, <1>9 DEF Next, View

(* A turn with a record shows nothing any more. *)
LEMMA RecordedStays ==
  ASSUME StreamType, [Next]_vars, NEW t \in Turn, view[t] \in Recorded
  PROVE  view'[t] \in Recorded /\ shown'[t] = shown[t]
<1>0. view \in [Turn -> Views] /\ shown \in [Turn -> Shown]
  BY DEF StreamType
<1>1. ASSUME NEW r \in Turn, r # t \/ view'[r] \in Recorded, NEW phase, GoTo(r, phase)
      PROVE  view'[t] \in Recorded
  BY <1>0, <1>1 DEF GoTo
<1>2. ASSUME NEW r \in Turn, Save(r) PROVE view'[t] \in Recorded /\ shown'[t] = shown[t]
  <2>1. PICK phase : GoTo(r, phase) /\ (view[r] \in Recorded => phase \in Recorded)
    BY <1>2, SaveGoes
  <2>2. shown' = shown /\ (r # t \/ view'[r] \in Recorded)
    BY <1>0, <1>2, <2>1, SaveGoes DEF GoTo
  <2> QED
    BY <1>1, <2>1, <2>2
<1>3. ASSUME NEW r \in Turn, Post(r) \/ Drop(r) \/ Open(r) \/ Pull(r) \/ Done(r) \/ Disconnect(r)
      PROVE  view'[t] \in Recorded /\ shown'[t] = shown[t]
  <2>1. view[r] \notin Recorded /\ shown' = shown /\ \E phase : GoTo(r, phase)
    BY <1>3 DEF Post, Drop, Open, Pull, Done, Disconnect, Finish, Recorded, Saving
  <2> QED
    BY <1>1, <2>1
<1>4. ASSUME NEW r \in Turn, Get(r) PROVE view'[t] \in Recorded /\ shown'[t] = shown[t]
  <2>1. view[r] \notin Recorded /\ \E phase : GoTo(r, phase)
    BY <1>4 DEF Get, Finish, Recorded, Saving
  <2>2. shown'[t] = shown[t]
    BY <1>0, <1>4, <2>1 DEF Get
  <2> QED
    BY <1>1, <2>1, <2>2
<1>5. ASSUME UNCHANGED views PROVE view'[t] \in Recorded /\ shown'[t] = shown[t]
  BY <1>5 DEF views
<1>6. ASSUME NEW r \in Turn, Pipeline(r) PROVE UNCHANGED views
  BY <1>6 DEF Pipeline
<1> QED
  BY <1>2, <1>3, <1>4, <1>5, <1>6 DEF Next, View, Rename, ExpireHistory, vars

LEMMA Appending ==
  ASSUME NEW S, NEW q \in Seq(S), NEW e \in S
  PROVE  /\ Append(q, e) \in Seq(S)
         /\ Len(Append(q, e)) = Len(q) + 1 /\ Len(q) \in Nat
         /\ DOMAIN Append(q, e) = 1 .. Len(q) + 1 /\ DOMAIN q = 1 .. Len(q)
         /\ Append(q, e)[Len(q) + 1] = e
         /\ \A i \in 1 .. Len(q) : Append(q, e)[i] = q[i]
OBVIOUS

(* The history keeps at most HistoryMax entries. *)
LEMMA LastOfType ==
  ASSUME NEW h \in Seq(Entries), NEW e \in Entries
  PROVE  LastOf(Append(h, e)) \in Seq(Entries)
<1> DEFINE q == Append(h, e)
<1>1. q \in Seq(Entries) /\ Len(q) \in Nat \ {0} /\ HistoryMax \in Nat \ {0}
  BY Appending, ChatAssumption
<1>2. \A m \in 1 .. Len(q) : SubSeq(q, m, Len(q)) \in Seq(Entries)
  BY <1>1
<1> QED
  BY <1>1, <1>2 DEF LastOf

LEMMA EntryType ==
  ASSUME StreamType, NEW r \in Turn, NEW role \in Roles
  PROVE  Entry(r, role) \in Entries
<1>1. ctx[r].answer \in Nat
  BY DEF StreamType, Context
<1> QED
  BY <1>1 DEF Entry, Entries

LEMMA StoreTypeKept ==
  ASSUME StreamType, StoreType, [Next]_vars
  PROVE  StoreType'
<1>0. /\ records \in Seq(Records) /\ history \in Seq(Entries) /\ items \in [Turn -> Seq(Entries)]
      /\ log \in Seq(Entries) /\ Len(log) \in Nat
      /\ base \in 0 .. Len(log) /\ kept \in [Turn -> 0 .. Len(log)] /\ overlap \in BOOLEAN
  BY DEF StoreType
<1>1. CASE Idly
  BY <1>1 DEF Idly, ghosts, StoreType
<1>2. ASSUME NEW r \in Turn, Finish(r) PROVE StoreType'
  BY <1>2 DEF Finish, StoreType
<1>3. CASE ExpireHistory
  BY <1>0, <1>3 DEF ExpireHistory, StoreType
<1>4. ASSUME NEW r \in Turn, Save(r) PROVE StoreType'
  <2>1. CASE SaveName(r) \/ SetCurrent(r)
    <3>1. UNCHANGED <<records, history, items, ghosts>>
      BY <2>1 DEF SaveName, SetCurrent
    <3> QED
      BY <3>1 DEF StoreType, ghosts
  <2>2. CASE CreateRecord(r)
    <3> DEFINE record == [turn |-> r, answer |-> ctx[r].answer, reasoning |-> ctx[r].thoughts]
    <3>1. record \in Records
      BY DEF StreamType, Context, Records
    <3>2. records' = Append(records, record) /\ UNCHANGED <<history, items, ghosts>>
      BY <2>2 DEF CreateRecord
    <3>3. records' \in Seq(Records)
      BY <1>0, <3>1, <3>2, Appending
    <3> QED
      BY <1>0, <3>2, <3>3 DEF StoreType, ghosts
  <2>3. ASSUME NEW role \in Roles, ReadHistory(r, role) PROVE StoreType'
    BY <1>0, <2>3 DEF ReadHistory, StoreType
  <2>4. ASSUME NEW role \in Roles, WriteHistory(r, role) PROVE StoreType'
    <3>1. /\ history' = LastOf(Append(items[r], Entry(r, role)))
          /\ log' = Append(log, Entry(r, role)) /\ base' = kept[r]
          /\ items' = [items EXCEPT ![r] = <<>>] /\ kept' = [kept EXCEPT ![r] = 0]
          /\ UNCHANGED <<records, overlap>>
      BY <2>4 DEF WriteHistory, Forget
    <3>2. history' \in Seq(Entries)
      BY <1>0, <3>1, EntryType, LastOfType
    <3>3. log' \in Seq(Entries) /\ Len(log') = Len(log) + 1
      BY <1>0, <3>1, EntryType, Appending
    <3>4. items' \in [Turn -> Seq(Entries)]
      BY <1>0, <3>1
    <3>5. base' \in 0 .. Len(log') /\ kept' \in [Turn -> 0 .. Len(log')]
      BY <1>0, <3>1, <3>3
    <3> QED
      BY <1>0, <3>1, <3>2, <3>3, <3>4, <3>5 DEF StoreType
  <2>5. CASE FailToSave(r)
    BY <1>0, <2>5 DEF FailToSave, Forget, StoreType
  <2> QED
    BY <1>4, <2>1, <2>2, <2>3, <2>4, <2>5 DEF Save, Roles
<1> QED
  BY <1>1, <1>2, <1>3, <1>4, StoreSteps

(* Records are only added at the end, each by the turn whose it is. *)
LEMMA RecordsGrow ==
  ASSUME StreamType, StoreType, [Next]_vars
  PROVE  \/ records' = records
         \/ \E r \in Turn :
              /\ CreateRecord(r) /\ UNCHANGED <<shown, ctx, log>>
              /\ view[r] = "record" /\ view'[r] = "current"
              /\ records' = Append(records, [turn |-> r, answer |-> ctx[r].answer,
                                               reasoning |-> ctx[r].thoughts])
              /\ DOMAIN records' = 1 .. Len(records) + 1
              /\ records'[Len(records) + 1].turn = r
              /\ records'[Len(records) + 1].answer = ctx[r].answer
              /\ records'[Len(records) + 1].reasoning = ctx[r].thoughts
              /\ \A i \in 1 .. Len(records) : records'[i] = records[i]
<1>1. ASSUME NEW r \in Turn, Save(r)
      PROVE  records' = records \/ (CreateRecord(r) /\ UNCHANGED <<shown, ctx>>)
  BY <1>1 DEF Save, SaveName, SetCurrent, ReadHistory, WriteHistory, FailToSave
<1>2. records' = records \/ \E r \in Turn : CreateRecord(r) /\ UNCHANGED <<shown, ctx>>
  BY <1>1, StoreSteps DEF Idly, Finish, ExpireHistory
<1>3. ASSUME NEW r \in Turn, CreateRecord(r), UNCHANGED <<shown, ctx>>
      PROVE  /\ UNCHANGED log /\ view[r] = "record" /\ view'[r] = "current"
             /\ records' = Append(records, [turn |-> r, answer |-> ctx[r].answer,
                                              reasoning |-> ctx[r].thoughts])
             /\ DOMAIN records' = 1 .. Len(records) + 1
             /\ records'[Len(records) + 1].turn = r
             /\ records'[Len(records) + 1].answer = ctx[r].answer
             /\ records'[Len(records) + 1].reasoning = ctx[r].thoughts
             /\ \A i \in 1 .. Len(records) : records'[i] = records[i]
  <2> DEFINE record == [turn |-> r, answer |-> ctx[r].answer, reasoning |-> ctx[r].thoughts]
  <2>1. record \in Records /\ records \in Seq(Records)
    BY DEF StreamType, StoreType, Context, Records
  <2>2. records' = Append(records, record) /\ view[r] = "record" /\ GoTo(r, "current") /\ UNCHANGED log
    BY <1>3 DEF CreateRecord, ghosts
  <2>3. view'[r] = "current"
    BY <2>2 DEF StreamType, GoTo
  <2>4. record.turn = r /\ record.answer = ctx[r].answer /\ record.reasoning = ctx[r].thoughts
    OBVIOUS
  <2>5. /\ DOMAIN records' = 1 .. Len(records) + 1 /\ records'[Len(records) + 1] = record
        /\ \A i \in 1 .. Len(records) : records'[i] = records[i]
    <3> HIDE DEF record
    <3> QED
      BY <2>1, <2>2, Appending
  <2> QED
    BY <2>2, <2>3, <2>4, <2>5
<1> QED
  BY <1>2, <1>3

(* A turn is counted among those with a record only when it creates one. *)
LEMMA RecordComes ==
  ASSUME StreamType, [Next]_vars, NEW t \in Turn, view'[t] \in HasRecord
  PROVE  view[t] \in HasRecord \/ CreateRecord(t)
<1>0. view \in [Turn -> Views]
  BY DEF StreamType
<1>1. ASSUME NEW r \in Turn, Save(r) PROVE view[t] \in HasRecord \/ CreateRecord(t)
  <2>1. CASE r # t
    <3>1. \E phase : GoTo(r, phase)
      BY <1>1, SaveGoes
    <3> QED
      BY <1>0, <2>1, <3>1 DEF GoTo
  <2>2. CASE r = t
    <3>1. SaveName(t) => view'[t] = "record"
      BY <1>0 DEF SaveName, GoTo
    <3>2. FailToSave(t) => view'[t] = "failed"
      BY <1>0 DEF FailToSave, GoTo
    <3>3. SetCurrent(t) => view[t] = "current"
      BY DEF SetCurrent
    <3>4. ASSUME NEW role, ReadHistory(t, role) \/ WriteHistory(t, role)
          PROVE  view[t] \in {"read user", "write user", "read assistant", "write assistant"}
      BY <3>4 DEF ReadHistory, WriteHistory, Reading, Writing
    <3>5. {"current", "read user", "write user", "read assistant", "write assistant"} \subseteq HasRecord
      BY DEF HasRecord, Recorded, Saving
    <3>6. "record" \notin HasRecord /\ "failed" \notin HasRecord
      BY DEF HasRecord, Recorded
    <3> QED
      BY <1>1, <2>2, <3>1, <3>2, <3>3, <3>4, <3>5, <3>6 DEF Save
  <2> QED
    BY <2>1, <2>2
<1>2. ASSUME NEW r \in Turn, NEW phase, GoTo(r, phase), phase \notin HasRecord PROVE view[t] \in HasRecord
  BY <1>0, <1>2 DEF GoTo
<1>3. {"ready", "waiting", "sent", "done", "dropped", "name"} \cap HasRecord = {}
  BY DEF HasRecord, Recorded, Saving
<1>4. ASSUME NEW r \in Turn,
             Post(r) \/ Drop(r) \/ Open(r) \/ Pull(r) \/ Get(r) \/ Done(r) \/ Disconnect(r)
      PROVE  \E phase \in {"ready", "waiting", "sent", "done", "dropped", "name"} : GoTo(r, phase)
  BY <1>4 DEF Post, Drop, Open, Pull, Get, Done, Disconnect, Finish
<1>5. ASSUME NEW r \in Turn, Pipeline(r) PROVE view' = view
  BY <1>5 DEF Pipeline, views
<1>6. Rename \/ ExpireHistory \/ UNCHANGED vars => view' = view
  BY DEF Rename, ExpireHistory, vars, views
<1> QED
  BY <1>1, <1>2, <1>3, <1>4, <1>5, <1>6 DEF Next, View

(* A new record says what its client was shown, if it was shown the end. *)
LEMMA RecordsKept ==
  ASSUME StreamInv, StoreType, RecordsInv, [Next]_vars
  PROVE  RecordsInv'
<1>0. /\ StreamType /\ records \in Seq(Records)
      /\ DOMAIN records = 1 .. Len(records) /\ Len(records) \in Nat
  BY DEF StreamInv, StoreType
<1>1. \A i \in DOMAIN records : records[i].turn \in Turn
  <2>1. \A i \in DOMAIN records : records[i] \in Records
    BY <1>0
  <2> QED
    BY <2>1 DEF Records
<1>2. \A i \in DOMAIN records :
        view'[records[i].turn] \in Recorded /\ shown'[records[i].turn] = shown[records[i].turn]
  BY <1>0, <1>1, RecordedStays DEF RecordsInv
<1>3. CASE records' = records
  <2>1. ASSUME NEW r \in Turn, view'[r] \in HasRecord
        PROVE  \E m \in DOMAIN records : records[m].turn = r
    <3>1. ~CreateRecord(r)
      <4>1. CreateRecord(r) => Len(records') = Len(records) + 1
        <5> DEFINE record == [turn |-> r, answer |-> ctx[r].answer, reasoning |-> ctx[r].thoughts]
        <5>1. record \in Records
          BY <1>0 DEF StreamType, Context, Records
        <5> QED
          BY <1>0, <5>1, Appending DEF CreateRecord
      <4>2. Len(records') = Len(records)
        BY <1>3
      <4>3. \A n \in Nat : n # n + 1
        OBVIOUS
      <4> QED
        BY <1>0, <4>1, <4>2, <4>3
    <3>2. view[r] \in HasRecord
      BY <1>0, <2>1, <3>1, RecordComes
    <3> QED
      BY <3>2 DEF RecordsInv
  <2> QED
    BY <1>2, <1>3, <2>1 DEF RecordsInv, RecordIsWhatWasShown
<1>4. ASSUME NEW c \in Turn, UNCHANGED <<shown, ctx>>, view'[c] = "current",
             DOMAIN records' = 1 .. Len(records) + 1,
             records'[Len(records) + 1].turn = c,
             records'[Len(records) + 1].answer = ctx[c].answer,
             records'[Len(records) + 1].reasoning = ctx[c].thoughts,
             \A i \in 1 .. Len(records) : records'[i] = records[i],
             \A r \in Turn : CreateRecord(r) => r = c
      PROVE  RecordsInv'
  <2>1. view'[c] \in Recorded /\ shown'[c] = shown[c]
    BY <1>4 DEF Recorded, Saving
  <2>2. shown[c].ended => ctx[c].answer = shown[c].content /\ ctx[c].thoughts = shown[c].reasoning
    BY DEF StreamInv, TurnInv, EndShown
  <2>3. ASSUME NEW i \in DOMAIN records'
        PROVE  /\ view'[records'[i].turn] \in Recorded
               /\ shown'[records'[i].turn].ended =>
                    /\ records'[i].answer = shown'[records'[i].turn].content
                    /\ records'[i].reasoning = shown'[records'[i].turn].reasoning
    <3>1. CASE i = Len(records) + 1
      BY <1>4, <2>1, <2>2, <3>1
    <3>2. CASE i \in 1 .. Len(records)
      BY <1>0, <1>2, <1>4, <3>2 DEF RecordsInv, RecordIsWhatWasShown
    <3> QED
      BY <1>0, <1>4, <3>1, <3>2
  <2>4. ASSUME NEW r \in Turn, view'[r] \in HasRecord
        PROVE  \E m \in DOMAIN records' : records'[m].turn = r
    <3>1. CASE r = c
      BY <1>0, <1>4, <3>1
    <3>2. CASE r # c
      <4>1. view[r] \in HasRecord
        BY <1>0, <1>4, <2>4, <3>2, RecordComes
      <4>2. PICK m \in DOMAIN records : records[m].turn = r
        BY <4>1 DEF RecordsInv
      <4> QED
        BY <1>0, <1>4, <4>2
    <3> QED
      BY <3>1, <3>2
  <2> QED
    BY <2>3, <2>4 DEF RecordsInv, RecordIsWhatWasShown
<1>5. ASSUME NEW c \in Turn, NEW r \in Turn, CreateRecord(c), CreateRecord(r) PROVE r = c
  <2>1. view'[c] = "current" /\ view'[r] = "current" /\ view[r] = "record"
    BY <1>0, <1>5 DEF CreateRecord, GoTo, StreamType
  <2> QED
    BY <1>0, <1>5, <2>1 DEF CreateRecord, GoTo, StreamType
<1> QED
  BY <1>0, <1>3, <1>4, <1>5, RecordsGrow

LEMMA StoreStarts == Init => StoreType /\ RecordsInv /\ PushedInv /\ HistoryInv
<1> SUFFICES ASSUME Init PROVE StoreType /\ RecordsInv /\ PushedInv /\ HistoryInv
  OBVIOUS
<1>1. /\ records = <<>> /\ history = <<>> /\ log = <<>> /\ base = 0 /\ overlap = FALSE
      /\ \A r \in Turn : view[r] = "new"
  BY DEF Init
<1>2. Len(<<>>) = 0 /\ <<>> \in Seq(Records) /\ <<>> \in Seq(Entries) /\ DOMAIN <<>> = {}
  OBVIOUS
<1>3. StoreType
  <2>1. items \in [Turn -> Seq(Entries)]
    BY <1>2 DEF Init
  <2>2. Len(log) = 0
    BY <1>1
  <2>3. base \in 0 .. Len(log) /\ kept \in [Turn -> 0 .. Len(log)]
    BY <1>1, <2>2 DEF Init
  <2>4. overlap \in BOOLEAN
    BY <1>1
  <2> QED
    BY <1>1, <1>2, <2>1, <2>3, <2>4 DEF StoreType
<1>4. RecordsInv
  BY <1>1, <1>2 DEF RecordsInv, RecordIsWhatWasShown, HasRecord, Recorded, Saving
<1>5. PushedInv
  BY <1>1, <1>2 DEF PushedInv, Between
<1>6. history = Behind(base)
  <2>1. SubSeq(<<>>, 1, 0) = <<>>
    OBVIOUS
  <2>2. HistoryMax \in Nat
    BY ChatAssumption
  <2> QED
    BY <1>1, <1>2, <2>1, <2>2 DEF Behind, LastOf
<1>7. Savers = {}
  BY <1>1 DEF Savers, Saving
<1>8. SavingInv
  BY <1>1, <1>2, <1>6, <1>7 DEF SavingInv
<1> QED
  BY <1>3, <1>4, <1>5, <1>8 DEF HistoryInv

LEMMA RecordsInvariant == Spec => []RecordsInv
BY StreamStarts, StreamStep, StoreStarts, StoreTypeKept, RecordsKept, PTL DEF Spec, StreamInv

(***************************************************************************)
(* The record of a turn whose client saw the message end is what the       *)
(* client saw: ChatStep puts answer and reasoning together before it emits *)
(* the end, and _save_record runs after the queue is drained or left.      *)
(***************************************************************************)
THEOREM RecordsAreWhatWasShown == Spec => []RecordIsWhatWasShown
BY RecordsInvariant, PTL DEF RecordsInv

-----------------------------------------------------------------------------
(* What was pushed.                                                        *)

(* The log grows by an entry of the turn that writes, and in no other way. *)
LEMMA LogGrows ==
  ASSUME StreamType, StoreType, [Next]_vars
  PROVE  \/ log' = log /\ \A r \in Turn, role \in Roles : ~WriteHistory(r, role)
         \/ \E r \in Turn, role \in Roles :
              /\ WriteHistory(r, role) /\ UNCHANGED <<shown, ctx, records>>
              /\ log' = Append(log, Entry(r, role))
              /\ DOMAIN log' = 1 .. Len(log) + 1
              /\ log'[Len(log) + 1] = Entry(r, role)
              /\ \A i \in 1 .. Len(log) : log'[i] = log[i]
<1>1. ASSUME NEW r \in Turn, NEW role \in Roles, WriteHistory(r, role)
      PROVE  /\ log' = Append(log, Entry(r, role))
             /\ DOMAIN log' = 1 .. Len(log) + 1
             /\ log'[Len(log) + 1] = Entry(r, role)
             /\ \A i \in 1 .. Len(log) : log'[i] = log[i]
             /\ UNCHANGED records
  <2>1. log' = Append(log, Entry(r, role)) /\ UNCHANGED records
    BY <1>1 DEF WriteHistory
  <2>2. Entry(r, role) \in Entries /\ log \in Seq(Entries)
    BY EntryType DEF StoreType
  <2> QED
    BY <2>1, <2>2, Appending
<1>2. ASSUME NEW r \in Turn, NEW role \in Roles, WriteHistory(r, role) PROVE log' # log
  <2>1. Len(log') = Len(log) + 1
    <3>1. Entry(r, role) \in Entries /\ log \in Seq(Entries)
      BY EntryType DEF StoreType
    <3> QED
      BY <1>1, <1>2, <3>1, Appending
  <2>2. Len(log) \in Nat /\ \A n \in Nat : n # n + 1
    BY DEF StoreType
  <2> QED
    BY <2>1, <2>2
<1>3. ASSUME NEW r \in Turn, Save(r)
      PROVE  \/ log' = log
             \/ \E role \in Roles : WriteHistory(r, role) /\ UNCHANGED <<shown, ctx>>
  BY <1>3 DEF Save, SaveName, CreateRecord, SetCurrent, ReadHistory, FailToSave, Roles, ghosts
<1>4. log' = log \/ \E r \in Turn, role \in Roles : WriteHistory(r, role) /\ UNCHANGED <<shown, ctx>>
  BY <1>3, StoreSteps DEF Idly, Finish, ExpireHistory, ghosts
<1> QED
  BY <1>1, <1>2, <1>4

(* A turn that has pushed goes on to push its answer, is over or fails. *)
LEMMA PushedStays ==
  ASSUME StreamType, [Next]_vars, NEW t \in Turn, view[t] \in Between \cup {"saved", "failed"}
  PROVE  /\ view'[t] \in Between \cup {"saved", "failed"}
         /\ view'[t] \in Between => view[t] \in Between
<1>0. view \in [Turn -> Views]
  BY DEF StreamType
<1>1. ASSUME NEW r \in Turn, r # t, NEW phase, GoTo(r, phase) PROVE view'[t] = view[t]
  BY <1>0, <1>1 DEF GoTo
<1>2. ASSUME NEW r \in Turn, Save(r)
      PROVE  /\ view'[t] \in Between \cup {"saved", "failed"}
             /\ view'[t] \in Between => view[t] \in Between
  <2>1. CASE r # t
    BY <1>1, <1>2, <2>1, SaveGoes
  <2>2. CASE r = t
    <3>1. ~SaveName(t) /\ ~CreateRecord(t) /\ ~SetCurrent(t)
      BY DEF SaveName, CreateRecord, SetCurrent, Between
    <3>2. FailToSave(t) => view'[t] = "failed"
      BY <1>0 DEF FailToSave, GoTo
    <3>3. ASSUME NEW role, ReadHistory(t, role)
          PROVE  view[t] = "read assistant" /\ view'[t] = "write assistant"
      <4>1. view[t] = Reading(role) /\ view'[t] = Writing(role)
        BY <1>0, <3>3 DEF ReadHistory, GoTo
      <4> QED
        BY <4>1 DEF Reading, Writing, Between
    <3>4. ASSUME NEW role, WriteHistory(t, role) PROVE view[t] = "write assistant" /\ view'[t] = "saved"
      <4>1. /\ view[t] = Writing(role)
            /\ view'[t] = IF role = "user" THEN "read assistant" ELSE "saved"
        BY <1>0, <3>4 DEF WriteHistory, GoTo
      <4> QED
        BY <4>1 DEF Writing, Between
    <3> QED
      BY <1>2, <2>2, <3>1, <3>2, <3>3, <3>4 DEF Save, Between
  <2> QED
    BY <2>1, <2>2
<1>3. ASSUME NEW r \in Turn,
             Post(r) \/ Drop(r) \/ Open(r) \/ Pull(r) \/ Get(r) \/ Done(r) \/ Disconnect(r)
      PROVE  view'[t] = view[t]
  <2>1. \E phase : GoTo(r, phase)
    BY <1>3 DEF Post, Drop, Open, Pull, Get, Done, Disconnect, Finish
  <2>2. view[r] \in {"new", "ready", "sent", "waiting", "done"}
    BY <1>3 DEF Post, Drop, Open, Pull, Get, Done, Disconnect
  <2>3. r # t
    BY <2>2 DEF Between
  <2> QED
    BY <1>1, <2>1, <2>3
<1>4. ASSUME NEW r \in Turn, Pipeline(r) PROVE view' = view
  BY <1>4 DEF Pipeline, views
<1>5. Rename \/ ExpireHistory \/ UNCHANGED vars => view' = view
  BY DEF Rename, ExpireHistory, vars, views
<1> QED
  BY <1>2, <1>3, <1>4, <1>5 DEF Next, View

(* Who has pushed now had pushed before, or this step is the push. *)
LEMMA PushComes ==
  ASSUME StreamType, [Next]_vars, NEW t \in Turn
  PROVE  /\ view'[t] \in Between \cup {"saved"} =>
              view[t] \in Between \cup {"saved"} \/ WriteHistory(t, "user")
         /\ view'[t] = "saved" => view[t] = "saved" \/ WriteHistory(t, "assistant")
<1>0. view \in [Turn -> Views]
  BY DEF StreamType
<1>1. ASSUME NEW r \in Turn, r # t, NEW phase, GoTo(r, phase) PROVE view'[t] = view[t]
  BY <1>0, <1>1 DEF GoTo
<1>2. ASSUME NEW r \in Turn, Save(r), r # t PROVE view'[t] = view[t]
  BY <1>1, <1>2, SaveGoes
<1>3. CASE Save(t)
  <2>1. SaveName(t) \/ CreateRecord(t) \/ SetCurrent(t) \/ FailToSave(t) =>
          view'[t] \in {"record", "current", "read user", "failed"}
    BY <1>0 DEF SaveName, CreateRecord, SetCurrent, FailToSave, GoTo
  <2>2. ASSUME NEW role \in Roles, ReadHistory(t, role)
        PROVE  view'[t] = "write user" \/ (view[t] \in Between /\ view'[t] = "write assistant")
    <3>1. view[t] = Reading(role) /\ view'[t] = Writing(role)
      BY <1>0, <2>2 DEF ReadHistory, GoTo
    <3> QED
      BY <3>1 DEF Reading, Writing, Between
  <2>3. WriteHistory(t, "user") => view'[t] = "read assistant"
    BY <1>0 DEF WriteHistory, GoTo
  <2>4. WriteHistory(t, "assistant") => view[t] \in Between
    BY DEF WriteHistory, Writing, Between
  <2> QED
    BY <1>3, <2>1, <2>2, <2>3, <2>4 DEF Save, Between, Roles
<1>4. ASSUME NEW r \in Turn,
             Post(r) \/ Drop(r) \/ Open(r) \/ Pull(r) \/ Get(r) \/ Done(r) \/ Disconnect(r)
      PROVE  view'[t] = view[t] \/ view'[t] \notin Between \cup {"saved"}
  <2>1. PICK phase \in {"ready", "waiting", "sent", "done", "dropped", "name"} : GoTo(r, phase)
    BY <1>4 DEF Post, Drop, Open, Pull, Get, Done, Disconnect, Finish
  <2> QED
    BY <1>0, <1>1, <2>1 DEF GoTo, Between
<1>5. ASSUME NEW r \in Turn, Pipeline(r) PROVE view' = view
  BY <1>5 DEF Pipeline, views
<1>6. Rename \/ ExpireHistory \/ UNCHANGED vars => view' = view
  BY DEF Rename, ExpireHistory, vars, views
<1> QED
  BY <1>2, <1>3, <1>4, <1>5, <1>6 DEF Next, View, Between

LEMMA PushedKept ==
  ASSUME StreamInv, StoreType, RecordsInv, PushedInv, [Next]_vars
  PROVE  PushedInv'
<1>0. /\ StreamType /\ log \in Seq(Entries) /\ DOMAIN log = 1 .. Len(log) /\ Len(log) \in Nat
      /\ records \in Seq(Records) /\ DOMAIN records = 1 .. Len(records) /\ Len(records) \in Nat
  BY DEF StreamInv, StoreType
<1>1. ASSUME NEW m \in DOMAIN records PROVE m \in DOMAIN records' /\ records'[m] = records[m]
  <2>1. \/ records' = records
        \/ /\ DOMAIN records' = 1 .. Len(records) + 1
           /\ \A i \in 1 .. Len(records) : records'[i] = records[i]
    BY <1>0, RecordsGrow
  <2> QED
    BY <1>0, <1>1, <2>1
<1>2. \A i \in DOMAIN log : log[i].turn \in Turn
  <2>1. \A i \in DOMAIN log : log[i] \in Entries
    BY <1>0
  <2> QED
    BY <2>1 DEF Entries
<1>3. Between \cup {"saved", "failed"} \subseteq Recorded
  BY DEF Between, Recorded, Saving
(* The entries that were there. *)
<1>4. ASSUME NEW i \in DOMAIN log
      PROVE  LET t == log[i].turn
             IN  /\ view'[t] \in Between \cup {"saved", "failed"}
                 /\ view'[t] \in Between => log[i].role = "user"
                 /\ \E m \in DOMAIN records' : records'[m].turn = t
                 /\ log[i].role = "assistant" /\ shown'[t].ended =>
                      \E m \in DOMAIN records' :
                        records'[m].turn = t /\ records'[m].answer = log[i].answer
  <2> DEFINE t == log[i].turn
  <2>1. t \in Turn /\ view[t] \in Between \cup {"saved", "failed"}
    BY <1>2 DEF PushedInv
  <2>2. view'[t] \in Between \cup {"saved", "failed"} /\ (view'[t] \in Between => view[t] \in Between)
    BY <1>0, <2>1, PushedStays
  <2>3. shown'[t] = shown[t]
    BY <1>0, <1>3, <2>1, RecordedStays
  <2>4. view[t] \in Between => log[i].role = "user"
    BY DEF PushedInv
  <2>5. \E m \in DOMAIN records' : records'[m].turn = t
    BY <1>1 DEF PushedInv
  <2>6. log[i].role = "assistant" /\ shown[t].ended =>
          \E m \in DOMAIN records' : records'[m].turn = t /\ records'[m].answer = log[i].answer
    BY <1>1 DEF PushedInv
  <2> HIDE DEF t
  <2>7. /\ view'[t] \in Between \cup {"saved", "failed"}
        /\ view'[t] \in Between => log[i].role = "user"
        /\ \E m \in DOMAIN records' : records'[m].turn = t
        /\ log[i].role = "assistant" /\ shown'[t].ended =>
             \E m \in DOMAIN records' :
               records'[m].turn = t /\ records'[m].answer = log[i].answer
    BY <2>2, <2>3, <2>4, <2>5, <2>6
  <2> QED
    BY <2>7 DEF t
<1>5. CASE log' = log /\ \A r \in Turn, role \in Roles : ~WriteHistory(r, role)
  <2>1. ASSUME NEW r \in Turn
        PROVE  /\ view'[r] \in Between \cup {"saved"} => IsPushed(r, "user")'
               /\ view'[r] = "saved" => IsPushed(r, "assistant")'
    <3>1. ~WriteHistory(r, "user") /\ ~WriteHistory(r, "assistant")
      BY <1>5 DEF Roles
    <3>2. \A role : IsPushed(r, role)' <=> IsPushed(r, role)
      BY <1>5 DEF IsPushed
    <3> QED
      BY <1>0, <3>1, <3>2, PushComes DEF PushedInv
  <2> QED
    BY <1>4, <1>5, <2>1 DEF PushedInv
<1>6. ASSUME NEW w \in Turn, NEW role \in Roles, WriteHistory(w, role), UNCHANGED <<shown, ctx, records>>,
             DOMAIN log' = 1 .. Len(log) + 1, log'[Len(log) + 1] = Entry(w, role),
             \A i \in 1 .. Len(log) : log'[i] = log[i]
      PROVE  PushedInv'
  <2> DEFINE e == Entry(w, role)
  <2>1. e.turn = w /\ e.role = role /\ (role = "assistant" => e.answer = ctx[w].answer)
    BY DEF Entry
  <2>2. /\ view[w] = Writing(role)
        /\ view'[w] = IF role = "user" THEN "read assistant" ELSE "saved"
    BY <1>0, <1>6 DEF WriteHistory, GoTo, StreamType
  <2>3. view'[w] \in Between \cup {"saved"} /\ (view'[w] \in Between => role = "user")
    BY <2>2 DEF Between
  <2>4. PICK m \in DOMAIN records : records[m].turn = w
    <3>1. view[w] \in HasRecord
      BY <2>2 DEF Writing, HasRecord, Recorded, Saving
    <3> QED
      BY <3>1 DEF RecordsInv
  <2>5. role = "assistant" /\ shown'[w].ended => records[m].answer = e.answer
    <3>1. shown[w].ended => ctx[w].answer = shown[w].content
      BY DEF StreamInv, TurnInv, EndShown
    <3>2. shown[w].ended => records[m].answer = shown[w].content
      BY <2>4 DEF RecordsInv, RecordIsWhatWasShown
    <3> QED
      BY <1>6, <2>1, <3>1, <3>2
  <2> HIDE DEF e
  <2>6. ASSUME NEW i \in DOMAIN log'
        PROVE  LET t == log'[i].turn
               IN  /\ view'[t] \in Between \cup {"saved", "failed"}
                   /\ view'[t] \in Between => log'[i].role = "user"
                   /\ \E n \in DOMAIN records' : records'[n].turn = t
                   /\ log'[i].role = "assistant" /\ shown'[t].ended =>
                        \E n \in DOMAIN records' :
                          records'[n].turn = t /\ records'[n].answer = log'[i].answer
    <3>1. CASE i \in 1 .. Len(log)
      <4>1. log'[i] = log[i] /\ i \in DOMAIN log
        BY <1>0, <1>6, <3>1
      <4> QED
        BY <1>4, <4>1
    <3>2. CASE i = Len(log) + 1
      <4>1. log'[i] = e
        BY <1>6, <3>2 DEF e
      <4> QED
        BY <1>6, <2>1, <2>3, <2>4, <2>5, <4>1
    <3> QED
      BY <1>0, <1>6, <3>1, <3>2
  <2>7. ASSUME NEW r \in Turn, NEW ro \in Roles, IsPushed(r, ro) \/ WriteHistory(r, ro)
        PROVE  IsPushed(r, ro)'
    <3>1. CASE IsPushed(r, ro)
      BY <1>0, <1>6, <3>1 DEF IsPushed
    <3>2. CASE WriteHistory(r, ro)
      <4>1. Entry(r, ro) = e
        <5>1. Entry(r, ro) \in Entries /\ Entry(w, role) \in Entries /\ log \in Seq(Entries)
          BY <1>0, EntryType
        <5>2. log' = Append(log, Entry(r, ro))
          BY <3>2 DEF WriteHistory
        <5>3. log'[Len(log) + 1] = Entry(r, ro)
          BY <5>1, <5>2, Appending
        <5> QED
          BY <1>6, <5>3 DEF e
      <4>2. e.turn = r /\ e.role = ro
        BY <4>1 DEF Entry
      <4>3. Len(log) + 1 \in DOMAIN log' /\ log'[Len(log) + 1] = e
        BY <1>0, <1>6 DEF e
      <4> QED
        BY <4>2, <4>3 DEF IsPushed
    <3> QED
      BY <2>7, <3>1, <3>2
  <2>8. ASSUME NEW r \in Turn
        PROVE  /\ view'[r] \in Between \cup {"saved"} => IsPushed(r, "user")'
               /\ view'[r] = "saved" => IsPushed(r, "assistant")'
    <3>1. "user" \in Roles /\ "assistant" \in Roles
      BY DEF Roles
    <3> QED
      BY <1>0, <2>7, <3>1, PushComes DEF PushedInv
  <2> QED
    BY <2>6, <2>8 DEF PushedInv
<1> QED
  BY <1>0, <1>5, <1>6, LogGrows

-----------------------------------------------------------------------------
(* The history.                                                            *)

(* What is left of a sequence after the first n, place by place. *)
LEMMA RestIs ==
  ASSUME NEW s \in Seq(Entries), NEW n \in 0 .. Len(s)
  PROVE  /\ SubSeq(s, n + 1, Len(s)) \in Seq(Entries)
         /\ Len(SubSeq(s, n + 1, Len(s))) = Len(s) - n
         /\ \A i \in 1 .. Len(s) - n : SubSeq(s, n + 1, Len(s))[i] = s[n + i]
<1> DEFINE q == SubSeq(s, n + 1, Len(s))
<1>1. Len(s) \in Nat
  OBVIOUS
<1>2. \A i \in n + 1 .. Len(s) : s[i] \in Entries
  BY <1>1
<1>3. /\ q \in Seq(Entries)
      /\ Len(q) = IF n + 1 <= Len(s) THEN Len(s) - (n + 1) + 1 ELSE 0
      /\ \A i \in 1 .. Len(s) - (n + 1) + 1 : q[i] = s[(n + 1) + i - 1]
  BY <1>1, <1>2, SubSeqProperties
<1> HIDE DEF q
<1>4. /\ q \in Seq(Entries) /\ Len(q) = Len(s) - n
      /\ \A i \in 1 .. Len(s) - n : q[i] = s[n + i]
  BY <1>1, <1>3
<1> QED
  BY <1>4 DEF q

(* The end of a sequence, place by place. *)
LEMMA LastOfIs ==
  ASSUME NEW s \in Seq(Entries), NEW n \in Nat,
         n = IF Len(s) > HistoryMax THEN Len(s) - HistoryMax ELSE 0
  PROVE  /\ LastOf(s) \in Seq(Entries)
         /\ Len(LastOf(s)) = Len(s) - n
         /\ \A i \in 1 .. Len(s) - n : LastOf(s)[i] = s[n + i]
<1>1. HistoryMax \in Nat \ {0} /\ Len(s) \in Nat /\ n \in 0 .. Len(s)
  BY ChatAssumption
<1>2. LastOf(s) = SubSeq(s, n + 1, Len(s))
  BY <1>1 DEF LastOf
<1> QED
  BY <1>1, <1>2, RestIs

(* An entry pushed to the end of a sequence gives the end of the longer one. *)
LEMMA EndOfLonger ==
  ASSUME NEW s \in Seq(Entries), NEW e \in Entries
  PROVE  LastOf(Append(LastOf(s), e)) = LastOf(Append(s, e))
<1> DEFINE n == IF Len(s) > HistoryMax THEN Len(s) - HistoryMax ELSE 0
           h == LastOf(s)
           he == Append(h, e)
           se == Append(s, e)
           k == IF Len(he) > HistoryMax THEN Len(he) - HistoryMax ELSE 0
           m == IF Len(se) > HistoryMax THEN Len(se) - HistoryMax ELSE 0
<1>1. HistoryMax \in Nat \ {0} /\ Len(s) \in Nat /\ n \in Nat /\ n <= Len(s)
  BY ChatAssumption
<1>2. h \in Seq(Entries) /\ Len(h) = Len(s) - n /\ \A i \in 1 .. Len(s) - n : h[i] = s[n + i]
  BY <1>1, LastOfIs
<1>3. /\ he \in Seq(Entries) /\ Len(he) = Len(s) - n + 1 /\ he[Len(s) - n + 1] = e
      /\ \A i \in 1 .. Len(s) - n : he[i] = s[n + i]
  <2> HIDE DEF h, n
  <2> QED
    BY <1>2, Appending
<1>4. /\ se \in Seq(Entries) /\ Len(se) = Len(s) + 1 /\ se[Len(s) + 1] = e
      /\ \A i \in 1 .. Len(s) : se[i] = s[i]
  BY Appending
<1>5. k \in Nat /\ m \in Nat /\ m = n + k /\ m <= Len(s)
  <2>2. n = (IF Len(s) > HistoryMax THEN Len(s) - HistoryMax ELSE 0)
    OBVIOUS
  <2>3. k = (IF Len(he) > HistoryMax THEN Len(he) - HistoryMax ELSE 0)
    OBVIOUS
  <2>4. m = (IF Len(se) > HistoryMax THEN Len(se) - HistoryMax ELSE 0)
    OBVIOUS
  <2> HIDE DEF he, se, n, k, m
  <2>5. Len(he) = Len(s) - n + 1 /\ Len(se) = Len(s) + 1
    BY <1>3, <1>4
  <2>6. Len(he) \in Nat /\ Len(se) \in Nat
    BY <1>1, <2>5
  <2>7. CASE Len(s) < HistoryMax
    <3>1. n = 0
      BY <1>1, <2>2, <2>7
    <3>2. k = 0 /\ m = 0
      BY <1>1, <2>3, <2>4, <2>5, <2>6, <2>7, <3>1
    <3> QED
      BY <1>1, <3>1, <3>2
  <2>8. CASE Len(s) = HistoryMax
    <3>1. n = 0
      BY <1>1, <2>2, <2>8
    <3>2. k = 1 /\ m = 1
      BY <1>1, <2>3, <2>4, <2>5, <2>6, <2>8, <3>1
    <3> QED
      BY <1>1, <2>8, <3>1, <3>2
  <2>9. CASE Len(s) > HistoryMax
    <3>1. n = Len(s) - HistoryMax
      BY <1>1, <2>2, <2>9
    <3>2. k = 1 /\ m = Len(s) + 1 - HistoryMax
      BY <1>1, <2>3, <2>4, <2>5, <2>6, <2>9, <3>1
    <3> QED
      BY <1>1, <2>9, <3>1, <3>2
  <2> QED
    BY <1>1, <2>7, <2>8, <2>9
<1>6. /\ LastOf(he) \in Seq(Entries) /\ Len(LastOf(he)) = Len(he) - k
      /\ \A i \in 1 .. Len(he) - k : LastOf(he)[i] = he[k + i]
  <2> HIDE DEF he
  <2> QED
    BY <1>3, <1>5, LastOfIs
<1>7. /\ LastOf(se) \in Seq(Entries) /\ Len(LastOf(se)) = Len(se) - m
      /\ \A i \in 1 .. Len(se) - m : LastOf(se)[i] = se[m + i]
  <2> HIDE DEF se
  <2> QED
    BY <1>4, <1>5, LastOfIs
<1> HIDE DEF h, he, se, n, k, m
<1>8. Len(LastOf(he)) = Len(s) + 1 - m /\ Len(LastOf(se)) = Len(s) + 1 - m
  BY <1>1, <1>3, <1>4, <1>5, <1>6, <1>7
<1>9. ASSUME NEW i \in 1 .. Len(s) + 1 - m PROVE LastOf(he)[i] = LastOf(se)[i]
  <2>1. LastOf(he)[i] = he[k + i] /\ LastOf(se)[i] = se[m + i]
    BY <1>1, <1>3, <1>4, <1>5, <1>6, <1>7
  <2>2. CASE i = Len(s) + 1 - m
    <3>1. k + i = Len(s) - n + 1 /\ m + i = Len(s) + 1
      BY <1>1, <1>5, <2>2
    <3> QED
      BY <1>3, <1>4, <2>1, <3>1
  <2>3. CASE i # Len(s) + 1 - m
    <3>1. k + i \in 1 .. Len(s) - n /\ n + (k + i) = m + i /\ m + i \in 1 .. Len(s)
      BY <1>1, <1>5, <2>3
    <3> QED
      BY <1>3, <1>4, <2>1, <3>1
  <2> QED
    BY <2>2, <2>3
<1>10. LastOf(he) = LastOf(se)
  BY <1>6, <1>7, <1>8, <1>9, SeqEqual
<1> QED
  BY <1>10 DEF h, he, se

(* What was pushed after the first n, with one more entry. *)
LEMMA PushedBehind ==
  ASSUME NEW s \in Seq(Entries), NEW e \in Entries, NEW n \in 0 .. Len(s)
  PROVE  LastOf(Append(LastOf(SubSeq(s, n + 1, Len(s))), e))
           = LastOf(SubSeq(Append(s, e), n + 1, Len(Append(s, e))))
<1> DEFINE q == SubSeq(s, n + 1, Len(s))
           se == Append(s, e)
           qe == SubSeq(se, n + 1, Len(se))
<1>1. /\ se \in Seq(Entries) /\ Len(se) = Len(s) + 1 /\ se[Len(s) + 1] = e /\ Len(s) \in Nat
      /\ \A i \in 1 .. Len(s) : se[i] = s[i]
  BY Appending
<1>2. /\ q \in Seq(Entries) /\ Len(q) = Len(s) - n
      /\ \A i \in 1 .. Len(s) - n : q[i] = s[n + i]
  BY RestIs
<1>3. /\ qe \in Seq(Entries) /\ Len(qe) = Len(s) - n + 1
      /\ \A i \in 1 .. Len(s) - n + 1 : qe[i] = se[n + i]
  <2> HIDE DEF se
  <2>1. n \in 0 .. Len(se) /\ Len(se) - n = Len(s) - n + 1
    BY <1>1
  <2>2. /\ qe \in Seq(Entries) /\ Len(qe) = Len(se) - n
        /\ \A i \in 1 .. Len(se) - n : qe[i] = se[n + i]
    BY <1>1, <2>1, RestIs
  <2> QED
    BY <2>1, <2>2
<1>4. Append(q, e) = qe
  <2> HIDE DEF q, se, qe
  <2>1. /\ Append(q, e) \in Seq(Entries) /\ Len(Append(q, e)) = Len(s) - n + 1
        /\ Append(q, e)[Len(s) - n + 1] = e
        /\ \A i \in 1 .. Len(s) - n : Append(q, e)[i] = s[n + i]
    BY <1>2, Appending
  <2>2. \A i \in 1 .. Len(s) - n + 1 : Append(q, e)[i] = qe[i]
    <3> TAKE i \in 1 .. Len(s) - n + 1
    <3>1. CASE i = Len(s) - n + 1
      <4>1. n + i = Len(s) + 1
        BY <1>1, <3>1
      <4> QED
        BY <1>1, <1>3, <2>1, <3>1, <4>1
    <3>2. CASE i # Len(s) - n + 1
      <4>1. i \in 1 .. Len(s) - n /\ n + i \in 1 .. Len(s)
        BY <1>1, <3>2
      <4> QED
        BY <1>1, <1>3, <2>1, <4>1
    <3> QED
      BY <3>1, <3>2
  <2> QED
    BY <1>3, <2>1, <2>2, SeqEqual
<1>5. LastOf(Append(LastOf(q), e)) = LastOf(Append(q, e))
  BY <1>2, EndOfLonger
<1> QED
  BY <1>4, <1>5

(* Nothing of a longer sequence comes after its end. *)
LEMMA NothingBehind ==
  ASSUME NEW s \in Seq(Entries)
  PROVE  LastOf(SubSeq(s, Len(s) + 1, Len(s))) = <<>>
<1>1. Len(s) \in 0 .. Len(s) /\ Len(s) - Len(s) = 0
  OBVIOUS
<1>2. SubSeq(s, Len(s) + 1, Len(s)) \in Seq(Entries) /\ Len(SubSeq(s, Len(s) + 1, Len(s))) = 0
  BY <1>1, RestIs
<1>3. SubSeq(s, Len(s) + 1, Len(s)) = <<>>
  BY <1>2, EmptySeq
<1>4. HistoryMax \in Nat
  BY ChatAssumption
<1>5. LastOf(<<>>) = SubSeq(<<>>, 1, 0)
  BY <1>4 DEF LastOf
<1>6. SubSeq(<<>>, 1, 0) = <<>>
  OBVIOUS
<1> QED
  BY <1>3, <1>5, <1>6

(* Pairs that were in order stay so: records are only added at the end. *)
LEMMA OrderStays ==
  ASSUME StreamType, StoreType, [Next]_vars, NEW i \in DOMAIN log, NEW j \in DOMAIN log,
         InOrder(i, j)
  PROVE  InOrder(i, j)'
<1>1. /\ log \in Seq(Entries) /\ DOMAIN log = 1 .. Len(log) /\ Len(log) \in Nat
      /\ records \in Seq(Records) /\ DOMAIN records = 1 .. Len(records) /\ Len(records) \in Nat
  BY DEF StoreType
<1>2. \/ records' = records
      \/ /\ DOMAIN records' = 1 .. Len(records) + 1
         /\ \A m \in 1 .. Len(records) : records'[m] = records[m]
  BY RecordsGrow
<1>3. ASSUME NEW m \in DOMAIN records PROVE m \in DOMAIN records' /\ records'[m] = records[m]
  BY <1>1, <1>2, <1>3
<1>4. \/ log' = log
      \/ \A n \in 1 .. Len(log) : log'[n] = log[n]
  BY LogGrows
<1>5. log'[i] = log[i] /\ log'[j] = log[j]
  BY <1>1, <1>4
<1>6. PICK m \in DOMAIN records, n \in DOMAIN records :
        /\ records[m].turn = log[i].turn /\ records[n].turn = log[j].turn
        /\ m < n \/ (m = n /\ log[i].role = "user" /\ log[j].role = "assistant")
  BY DEF InOrder
<1> QED
  BY <1>3, <1>5, <1>6 DEF InOrder

(* What the history was stays so when the log does. *)
LEMMA BehindStays ==
  ASSUME NEW n, UNCHANGED log
  PROVE  Behind(n)' = Behind(n)
BY DEF Behind

(***************************************************************************)
(* Without overlap a turn that is being saved has the records and the      *)
(* history to itself.                                                      *)
(***************************************************************************)
LEMMA IdleKeepsHistory ==
  ASSUME StreamType, StoreType, SavingInv, [Next]_vars, Idly
  PROVE  SavingInv'
<1>1. UNCHANGED <<records, history, items, log, base, kept>>
  BY DEF Idly, ghosts
<1>2. Savers' = Savers /\ \A t \in Savers : view'[t] = view[t]
  BY DEF Idly, Savers
<1>3. \A t \in Turn : view'[t] \in {"write user", "write assistant"} => view'[t] = view[t]
  BY DEF Idly, Saving
<1>4. history' = Behind(base)'
  BY <1>1 DEF SavingInv, Behind
<1>5. \A r \in Turn : view'[r] \in {"write user", "write assistant"} => items'[r] = Behind(kept[r])'
  BY <1>1, <1>3 DEF SavingInv, Behind
<1>6. \A i, j \in DOMAIN log' : i < j => InOrder(i, j)'
  BY <1>1, OrderStays DEF SavingInv
<1>7. \A r \in Savers' : view'[r] \notin {"name", "record"} =>
        Len(records') > 0 /\ records'[Len(records')].turn = r
  BY <1>1, <1>2 DEF SavingInv
<1>8. \A r, s \in Savers' : r = s
  BY <1>2 DEF SavingInv
<1> QED
  BY <1>4, <1>5, <1>6, <1>7, <1>8 DEF SavingInv

(* A turn that begins to save is the only one, or there is an overlap. *)
LEMMA FinishKeepsHistory ==
  ASSUME StreamType, StoreType, HistoryInv, [Next]_vars,
         NEW r \in Turn, Finish(r), view[r] \notin Saving
  PROVE  HistoryInv'
<1> SUFFICES ASSUME ~overlap' PROVE SavingInv'
  BY DEF HistoryInv
<1>1. /\ overlap' = (overlap \/ Savers # {}) /\ GoTo(r, "name")
      /\ UNCHANGED <<records, history, items, log, base, kept>>
  BY DEF Finish
<1>2. ~overlap /\ Savers = {} /\ SavingInv
  BY <1>1 DEF HistoryInv
<1>3. view' = [view EXCEPT ![r] = "name"] /\ view \in [Turn -> Views]
  BY <1>1 DEF GoTo, StreamType
<1>4. view'[r] = "name" /\ \A t \in Turn : view'[t] \in Saving => t = r
  BY <1>2, <1>3 DEF Savers
<1>5. Savers' = {r}
  BY <1>4 DEF Savers, Saving
<1>6. history' = Behind(base)'
  BY <1>1, <1>2 DEF SavingInv, Behind
<1>7. \A i, j \in DOMAIN log' : i < j => InOrder(i, j)'
  BY <1>1, <1>2, OrderStays DEF SavingInv
<1>8. \A t \in Turn : view'[t] \notin {"write user", "write assistant"}
  BY <1>4 DEF Saving
<1> QED
  BY <1>4, <1>5, <1>6, <1>7, <1>8 DEF SavingInv

(* The cache loses the history, whoever saves. *)
LEMMA ExpireKeepsHistory ==
  ASSUME StreamType, StoreType, HistoryInv, [Next]_vars, ExpireHistory
  PROVE  HistoryInv'
<1> SUFFICES ASSUME ~overlap' PROVE SavingInv'
  BY DEF HistoryInv
<1>1. /\ UNCHANGED <<view, records, items, log, kept, overlap>>
      /\ history' = <<>> /\ base' = Len(log)
  BY DEF ExpireHistory, views
<1>2. SavingInv /\ log \in Seq(Entries)
  BY <1>1 DEF HistoryInv, StoreType
<1>3. history' = Behind(base)'
  <2>1. LastOf(SubSeq(log, Len(log) + 1, Len(log))) = <<>>
    BY <1>2, NothingBehind
  <2> QED
    BY <1>1, <2>1 DEF Behind
<1>4. \A r \in Turn : view'[r] \in {"write user", "write assistant"} => items'[r] = Behind(kept[r])'
  BY <1>1, <1>2 DEF SavingInv, Behind
<1>5. \A i, j \in DOMAIN log' : i < j => InOrder(i, j)'
  BY <1>1, <1>2, OrderStays DEF SavingInv
<1>6. Savers' = Savers
  BY <1>1 DEF Savers
<1> QED
  BY <1>1, <1>2, <1>3, <1>4, <1>5, <1>6 DEF SavingInv

(* Alone, a turn that saves goes on; what its new phase asks for. *)
LEMMA SaverGoesOn ==
  ASSUME StreamType, SavingInv, NEW r \in Turn, view[r] \in Saving, NEW phase, GoTo(r, phase),
         phase \notin {"name", "record", "saved", "failed"} =>
           Len(records') > 0 /\ records'[Len(records')].turn = r,
         phase \in {"write user", "write assistant"} => items'[r] = Behind(kept[r])',
         history' = Behind(base)',
         \A i, j \in DOMAIN log' : i < j => InOrder(i, j)'
  PROVE  SavingInv'
<1>1. view' = [view EXCEPT ![r] = phase] /\ view \in [Turn -> Views]
  BY DEF GoTo, StreamType
<1>2. view'[r] = phase
  BY <1>1
<1>3. \A t \in Turn : t # r => view'[t] \notin Saving
  BY <1>1 DEF SavingInv, Savers
<1>4. Savers' \subseteq {r} /\ (r \in Savers' => phase \in Saving)
  BY <1>2, <1>3 DEF Savers
<1>5. "saved" \notin Saving /\ "failed" \notin Saving /\ {"write user", "write assistant"} \subseteq Saving
  BY DEF Saving
<1>6. \A t \in Turn : view'[t] \in {"write user", "write assistant"} => items'[t] = Behind(kept[t])'
  BY <1>2, <1>3, <1>5
<1>7. \A t \in Savers' : view'[t] \notin {"name", "record"} =>
        Len(records') > 0 /\ records'[Len(records')].turn = t
  BY <1>2, <1>4, <1>5
<1> QED
  BY <1>4, <1>6, <1>7 DEF SavingInv

(***************************************************************************)
(* A push of the turn that saves alone comes in the order of the records:  *)
(* it has the last record, and pushed its question before its answer.      *)
(***************************************************************************)
LEMMA PushInOrder ==
  ASSUME StreamInv, StoreType, RecordsInv, PushedInv, SavingInv, [Next]_vars,
         NEW r \in Turn, view[r] \in Saving, NEW role \in Roles, WriteHistory(r, role)
  PROVE  \A i, j \in DOMAIN log' : i < j => InOrder(i, j)'
<1>0. /\ StreamType /\ log \in Seq(Entries) /\ DOMAIN log = 1 .. Len(log) /\ Len(log) \in Nat
      /\ records \in Seq(Records) /\ DOMAIN records = 1 .. Len(records) /\ Len(records) \in Nat
  BY DEF StreamInv, StoreType
<1>1. /\ log' = Append(log, Entry(r, role)) /\ records' = records
      /\ view[r] = Writing(role)
  BY DEF WriteHistory
<1>2. Entry(r, role) \in Entries /\ Entry(r, role).turn = r /\ Entry(r, role).role = role
  BY <1>0, EntryType DEF Entry
<1>3. /\ DOMAIN log' = 1 .. Len(log) + 1
      /\ log'[Len(log) + 1] = Entry(r, role)
      /\ \A i \in 1 .. Len(log) : log'[i] = log[i]
  BY <1>0, <1>1, <1>2, Appending
<1>4. Len(records) \in DOMAIN records /\ records[Len(records)].turn = r
  <2>1. r \in Savers /\ view[r] \notin {"name", "record"}
    BY <1>1 DEF Savers, Writing
  <2>2. Len(records) > 0 /\ records[Len(records)].turn = r
    BY <2>1 DEF SavingInv
  <2> QED
    BY <1>0, <2>2
<1>5. ASSUME NEW i \in 1 .. Len(log), NEW k, k = Len(log) + 1 PROVE InOrder(i, k)'
  <2>1. PICK m \in DOMAIN records : records[m].turn = log[i].turn
    BY <1>0 DEF PushedInv
  <2>2. CASE m < Len(records)
    BY <1>0, <1>1, <1>2, <1>3, <1>4, <1>5, <2>1, <2>2 DEF InOrder
  <2>3. CASE m = Len(records)
    <3>1. log[i].turn = r
      BY <1>4, <2>1, <2>3
    <3>2. view[r] \in Between \cup {"saved", "failed"} /\ (view[r] \in Between => log[i].role = "user")
      BY <1>0, <3>1 DEF PushedInv
    <3>3. view[r] = "write assistant" /\ role = "assistant" /\ log[i].role = "user"
      BY <1>1, <3>2 DEF Writing, Between, Roles
    <3> QED
      BY <1>0, <1>1, <1>2, <1>3, <1>4, <1>5, <3>1, <3>3 DEF InOrder
  <2> QED
    BY <1>0, <2>1, <2>2, <2>3
<1>6. ASSUME NEW i \in 1 .. Len(log), NEW j \in 1 .. Len(log), i < j PROVE InOrder(i, j)'
  BY <1>0, <1>6, OrderStays DEF SavingInv
<1> QED
  BY <1>0, <1>3, <1>5, <1>6

LEMMA SaveKeepsHistory ==
  ASSUME StreamInv, StoreType, RecordsInv, PushedInv, SavingInv, [Next]_vars,
         NEW r \in Turn, Save(r)
  PROVE  SavingInv'
<1>0. /\ StreamType /\ records \in Seq(Records) /\ history \in Seq(Entries)
      /\ items \in [Turn -> Seq(Entries)] /\ kept \in [Turn -> 0 .. Len(log)]
      /\ log \in Seq(Entries) /\ base \in 0 .. Len(log)
      /\ view[r] \in Saving /\ r \in Savers
  BY SaveGoes DEF StreamInv, StoreType, Savers
<1>1. view[r] \notin {"name", "record"} => Len(records) > 0 /\ records[Len(records)].turn = r
  BY <1>0 DEF SavingInv
<1>2. ASSUME UNCHANGED log PROVE \A i, j \in DOMAIN log' : i < j => InOrder(i, j)'
  BY <1>0, <1>2, OrderStays DEF SavingInv
<1>3. ASSUME UNCHANGED <<history, log, base>> PROVE history' = Behind(base)'
  BY <1>3 DEF SavingInv, Behind
<1>4. CASE SaveName(r)
  <2>1. GoTo(r, "record") /\ UNCHANGED <<records, history, log, base>>
    BY <1>4 DEF SaveName, ghosts
  <2> QED
    BY <1>0, <1>2, <1>3, <2>1, SaverGoesOn
<1>5. CASE CreateRecord(r)
  <2> DEFINE record == [turn |-> r, answer |-> ctx[r].answer, reasoning |-> ctx[r].thoughts]
  <2>1. GoTo(r, "current") /\ records' = Append(records, record) /\ UNCHANGED <<history, log, base>>
    BY <1>5 DEF CreateRecord, ghosts
  <2>2. record \in Records /\ record.turn = r
    BY <1>0 DEF StreamType, Context, Records
  <2> HIDE DEF record
  <2>3. Len(records') > 0 /\ records'[Len(records')].turn = r
    <3>1. Len(records') = Len(records) + 1 /\ records'[Len(records) + 1] = record /\ Len(records) \in Nat
      BY <1>0, <2>1, <2>2, Appending
    <3> QED
      BY <2>2, <3>1
  <2> QED
    BY <1>0, <1>2, <1>3, <2>1, <2>3, SaverGoesOn
<1>6. CASE SetCurrent(r)
  <2>1. view[r] = "current" /\ GoTo(r, "read user") /\ UNCHANGED <<records, history, log, base>>
    BY <1>6 DEF SetCurrent, ghosts
  <2> QED
    BY <1>0, <1>1, <1>2, <1>3, <2>1, SaverGoesOn
<1>7. ASSUME NEW role \in Roles, ReadHistory(r, role) PROVE SavingInv'
  <2>1. /\ view[r] = Reading(role) /\ GoTo(r, Writing(role))
        /\ items' = [items EXCEPT ![r] = history] /\ kept' = [kept EXCEPT ![r] = base]
        /\ UNCHANGED <<records, history, log, base>>
    BY <1>7 DEF ReadHistory
  <2>2. items'[r] = history' /\ kept'[r] = base'
    BY <1>0, <2>1
  <2>3. items'[r] = Behind(kept[r])'
    BY <1>3, <2>1, <2>2 DEF Behind
  <2>4. Len(records') > 0 /\ records'[Len(records')].turn = r
    <3>1. view[r] \notin {"name", "record"}
      BY <2>1 DEF Reading
    <3> QED
      BY <1>1, <2>1, <3>1
  <2> QED
    BY <1>0, <1>2, <1>3, <2>1, <2>3, <2>4, SaverGoesOn
<1>8. ASSUME NEW role \in Roles, WriteHistory(r, role) PROVE SavingInv'
  <2> DEFINE e == Entry(r, role)
  <2>1. /\ view[r] = Writing(role) /\ history' = LastOf(Append(items[r], e))
        /\ log' = Append(log, e) /\ base' = kept[r]
        /\ GoTo(r, IF role = "user" THEN "read assistant" ELSE "saved")
        /\ UNCHANGED records
    BY <1>8 DEF WriteHistory
  <2>2. e \in Entries
    BY <1>0, EntryType
  <2> HIDE DEF e
  <2>3. history' = Behind(base)'
    <3>1. items[r] = LastOf(SubSeq(log, kept[r] + 1, Len(log)))
      BY <2>1 DEF SavingInv, Writing, Behind
    <3>2. kept[r] \in 0 .. Len(log)
      BY <1>0
    <3>3. LastOf(Append(items[r], e)) = LastOf(SubSeq(Append(log, e), kept[r] + 1, Len(Append(log, e))))
      BY <1>0, <2>2, <3>1, <3>2, PushedBehind
    <3> QED
      BY <2>1, <3>3 DEF Behind
  <2>4. \A i, j \in DOMAIN log' : i < j => InOrder(i, j)'
    BY <1>0, <1>8, PushInOrder
  <2>5. Len(records') > 0 /\ records'[Len(records')].turn = r
    <3>1. view[r] \notin {"name", "record"}
      BY <2>1 DEF Writing
    <3> QED
      BY <1>1, <2>1, <3>1
  <2>6. PICK phase \in {"read assistant", "saved"} : GoTo(r, phase)
    BY <2>1
  <2> QED
    BY <1>0, <2>3, <2>4, <2>5, <2>6, SaverGoesOn
<1>9. CASE FailToSave(r)
  <2>1. GoTo(r, "failed") /\ UNCHANGED <<records, history, log, base>>
    BY <1>9 DEF FailToSave
  <2> QED
    BY <1>0, <1>2, <1>3, <2>1, SaverGoesOn
<1> QED
  BY <1>4, <1>5, <1>6, <1>7, <1>8, <1>9 DEF Save, Roles

LEMMA HistoryKept ==
  ASSUME StreamInv, StoreType, RecordsInv, PushedInv, HistoryInv, [Next]_vars
  PROVE  HistoryInv'
<1>0. StreamType
  BY DEF StreamInv
<1>1. ASSUME NEW r \in Turn, Save(r) PROVE overlap' = overlap
  BY <1>1 DEF Save, SaveName, CreateRecord, SetCurrent, ReadHistory, WriteHistory, FailToSave, ghosts
<1>2. ASSUME NEW r \in Turn, Save(r) PROVE HistoryInv'
  BY <1>1, <1>2, SaveKeepsHistory DEF HistoryInv
<1>3. CASE Idly
  <2>1. overlap' = overlap
    BY <1>3 DEF Idly, ghosts
  <2> QED
    BY <1>0, <1>3, <2>1, IdleKeepsHistory DEF HistoryInv
<1> QED
  BY <1>0, <1>2, <1>3, FinishKeepsHistory, ExpireKeepsHistory, StoreSteps

LEMMA HistoryInvariant == Spec => [](PushedInv /\ HistoryInv)
BY StreamStarts, StreamStep, StoreStarts, StoreTypeKept, RecordsKept, PushedKept, HistoryKept,
   PTL DEF Spec, StreamInv

(***************************************************************************)
(* The history is the end of what was pushed, but for what the cache had   *)
(* lost when the last push read it, in the order of the records, whenever  *)
(* the cache loses it and wherever a save fails, unless two turns were     *)
(* saved at once; a saved turn has pushed its question and its answer, and *)
(* the answer is its record's.                                             *)
(***************************************************************************)
THEOREM HistoriesFollowRecords == Spec => []HistoryFollowsRecords
<1>1. PushedInv /\ HistoryInv => HistoryFollowsRecords
  BY DEF PushedInv, HistoryInv, SavingInv, HistoryFollowsRecords, Behind
<1> QED
  BY <1>1, HistoryInvariant, PTL

===============================================================================
