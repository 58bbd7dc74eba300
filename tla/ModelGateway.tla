----------------------------- MODULE ModelGateway -----------------------------
(***************************************************************************)
(* One model of the model platform: ModelGateway.get_model with its cache  *)
(* (src/apps/model_platform/service/gateway.py) beside the views that edit *)
(* and delete the row (src/apps/model_platform/views.py).                  *)
(*                                                                         *)
(* The cache is shared by all processes, the lock by the threads of one.   *)
(* A row is the number of the edit that wrote its credential and the       *)
(* number of the edit that wrote its name; a built model is the row it was *)
(* built from.                                                             *)
(***************************************************************************)
EXTENDS Integers, FiniteSets

CONSTANTS
  Reader,       \* threads that ask for the model
  ProcessOf,    \* the process a reader runs in
  Editor,       \* requests to the views of the model
  Absent,       \* no row, or nothing in the cache
  Cacheable     \* Model.is_cacheable

Processes == {ProcessOf[r] : r \in Reader}

Rows == [cred : Nat, name : Nat]

ASSUME GatewayAssumption ==
  /\ ProcessOf \in [Reader -> Processes]
  /\ Cacheable \in BOOLEAN
  /\ Absent \notin Rows

VARIABLES
  row,      \* the row of the model
  cached,   \* model:<id> in the cache
  reader,   \* where a thread is in get_model, and the row it has read
  held,     \* processes whose lock for the model is held
  editor,   \* where a request is, and its copy of the row
  edits,    \* how many edits there were
  builds,   \* history: models a process built since the cache was last emptied
  late      \* history: the cache was emptied while a reader held a row to store

gatewayVars == <<row, cached, reader, held, editor, edits, builds, late>>

\* A row, as far as an edit tells rows apart.
RowOf(cred, name) == [cred |-> cred, name |-> name]

GatewayInit ==
  /\ row = RowOf(0, 0)
  /\ cached = Absent
  /\ reader = [r \in Reader |-> [pc |-> "idle", row |-> Absent]]
  /\ held = {}
  /\ editor = [e \in Editor |-> [pc |-> "new", row |-> Absent]]
  /\ edits = 0
  /\ builds = [p \in Processes |-> 0]
  /\ late = FALSE

-----------------------------------------------------------------------------
(* get_model.                                                              *)

Reading(r, phase) == reader[r].pc = phase
Step(r, phase, seen) == reader' = [reader EXCEPT ![r] = [pc |-> phase, row |-> seen]]

\* The cache has it, or the thread goes for the lock.
LookUp(r) ==
  /\ Reading(r, "idle")
  /\ Step(r, IF cached # Absent THEN "idle" ELSE "locking", Absent)
  /\ UNCHANGED <<held, cached, builds>>

Lock(r) ==
  /\ Reading(r, "locking") /\ ProcessOf[r] \notin held
  /\ held' = held \cup {ProcessOf[r]}
  /\ Step(r, "locked", Absent)
  /\ UNCHANGED <<cached, builds>>

Unlock(r) ==
  /\ held' = held \ {ProcessOf[r]}
  /\ Step(r, "idle", Absent)

\* Variant: the cache is not looked at again under the lock.
CheckNothing(r) ==
  /\ Reading(r, "locked")
  /\ Step(r, "checked", Absent) /\ UNCHANGED <<held, cached, builds>>

CheckAgain(r) ==
  /\ Reading(r, "locked")
  /\ \/ cached # Absent /\ Unlock(r)
     \/ cached = Absent /\ Step(r, "checked", Absent) /\ UNCHANGED held
  /\ UNCHANGED <<cached, builds>>

\* repo.get raises for a row that is gone; the provider builds the model.
Build(r) ==
  /\ Reading(r, "checked")
  /\ \/ row = Absent /\ Unlock(r) /\ UNCHANGED builds
     \/ /\ row # Absent /\ Step(r, "built", row)
        /\ builds' = [builds EXCEPT ![ProcessOf[r]] = @ + 1]
        /\ UNCHANGED held
  /\ UNCHANGED cached

Store(r) ==
  /\ Reading(r, "built")
  /\ cached' = IF Cacheable THEN reader[r].row ELSE cached
  /\ Unlock(r)
  /\ UNCHANGED builds

GetModel(r) ==
  /\ LookUp(r) \/ Lock(r) \/ CheckAgain(r) \/ Build(r) \/ Store(r)
  /\ UNCHANGED <<row, editor, edits, late>>

Empty ==
  /\ cached' = Absent
  /\ builds' = [p \in Processes |-> 0]

\* The entry has lived for its eight hours.
Expire ==
  /\ cached # Absent
  /\ Empty
  /\ UNCHANGED <<row, reader, held, editor, edits, late>>

-----------------------------------------------------------------------------
(* The views.                                                              *)

\* put() reads the row and merges what was sent: a credential, or a name.
Read(e) ==
  /\ editor[e].pc = "new" /\ row # Absent
  /\ \E what \in {"cred", "name"} :
       editor' = [editor EXCEPT ![e] = [pc |-> "save", row |-> [row EXCEPT ![what] = edits + 1]]]
  /\ edits' = edits + 1
  /\ UNCHANGED <<row, cached, builds, late>>

\* row.save() writes all of it, and inserts it if it is gone.
SaveRow(e) ==
  /\ editor[e].pc = "save"
  /\ row' = editor[e].row
  /\ editor' = [editor EXCEPT ![e] = [pc |-> "invalidate", row |-> Absent]]
  /\ UNCHANGED <<cached, builds, edits, late>>

Delete(e) ==
  /\ editor[e].pc = "new"
  /\ row' = Absent
  /\ editor' = [editor EXCEPT ![e] = [pc |-> "invalidate", row |-> Absent]]
  /\ UNCHANGED <<cached, builds, edits, late>>

\* Variant: the entry is left in the cache.
InvalidateNothing(e) ==
  /\ editor[e].pc = "invalidate"
  /\ editor' = [editor EXCEPT ![e].pc = "done"]
  /\ UNCHANGED <<row, cached, builds, late, edits>>

Invalidate(e) ==
  /\ editor[e].pc = "invalidate"
  /\ Empty
  /\ late' = (late \/ \E r \in Reader : Reading(r, "built"))
  /\ editor' = [editor EXCEPT ![e].pc = "done"]
  /\ UNCHANGED <<row, edits>>

Edit(e) == (Read(e) \/ SaveRow(e) \/ Delete(e) \/ Invalidate(e)) /\ UNCHANGED <<reader, held>>

-----------------------------------------------------------------------------
GatewayNext ==
  \/ \E r \in Reader : GetModel(r)
  \/ \E e \in Editor : Edit(e)
  \/ Expire

GatewaySpec == GatewayInit /\ [][GatewayNext]_gatewayVars

-----------------------------------------------------------------------------
(* Properties.                                                             *)

Open == \E e \in Editor : editor[e].pc = "invalidate"

(***************************************************************************)
(* What is cached is the row, but for the moment between the save and the  *)
(* invalidation of an edit, unless a reader that had read the old row      *)
(* stored it after the invalidation: then it stays for eight hours.        *)
(***************************************************************************)
CacheIsCurrent == ~Open /\ ~late => cached \in {Absent, row}

(***************************************************************************)
(* Double-checked locking: a process builds a cacheable model at most once *)
(* between two removals of the cache entry, however many threads miss it.  *)
(***************************************************************************)
BuiltOnce == Cacheable => \A p \in Processes : builds[p] <= 1
=============================================================================
