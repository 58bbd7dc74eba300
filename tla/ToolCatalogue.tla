---------------------------- MODULE ToolCatalogue -----------------------------
(***************************************************************************)
(* The tool catalogue (src/apps/tool): rows that requests create, edit,    *)
(* publish, import and delete, and the debug request, which checks code,   *)
(* runs it (module ToolExecutor) and keeps a record of the run.            *)
(*                                                                         *)
(* Statements run in autocommit.  A request reads a row in one step and    *)
(* writes it in another.  Export and the import of a file call functions   *)
(* _json has not; the records of a tool cannot be cleared, since another   *)
(* view has the path first: none of them changes a row.                    *)
(***************************************************************************)
EXTENDS ToolExecutor

CONSTANTS
  Tool,     \* identities of rows; a name is one tool's
  Editor    \* requests that edit a row

VARIABLES
  tool,      \* rows: their status, and whether pylint passes their code
  records,   \* records of runs, of each tool
  edit,      \* what an edit has read
  of,        \* the tool that a debug request names
  checked,   \* tools that were published with code that pylint passes
  recorded   \* runs whose record was written

catalogue == <<tool, records, edit, of, checked, recorded>>
vars == <<execution, catalogue>>

NoRow == [status |-> "none"]
Deleted == [status |-> "deleted"]
Exists(t) == tool[t] \notin {NoRow, Deleted}
Idle == [at |-> "idle"]

Init ==
  /\ ExecutorInit
  /\ tool = [t \in Tool |-> NoRow] /\ records = [t \in Tool |-> {}]
  /\ edit = [e \in Editor |-> Idle]
  /\ of \in [Run -> Tool] /\ checked = {} /\ recorded = {}

-----------------------------------------------------------------------------
(* Rows.                                                                   *)

StaticCheck(source) == source = "clean"
Source == {"clean", "errors"}

\* Code is not looked at.
PostTool(t, source) ==
  /\ tool[t] = NoRow
  /\ tool' = [tool EXCEPT ![t] = [status |-> "DRAFT", code |-> source]]
  /\ UNCHANGED <<records, edit, of, checked, recorded>>

ReadTool(e, t, next) ==
  /\ edit[e] = Idle /\ Exists(t)
  /\ edit' = [edit EXCEPT ![e] = [at |-> next, tool |-> t, row |-> tool[t]]]
  /\ UNCHANGED <<tool, records, of, checked, recorded>>

Done(e) == edit' = [edit EXCEPT ![e] = Idle]

\* The whole row is written, and inserted when it is gone.
SaveTool(e, source) == LET t == edit[e].tool IN
  /\ edit[e].at = "put"
  /\ tool' = [tool EXCEPT ![t] = [edit[e].row EXCEPT !.code = source]]
  /\ Done(e) /\ UNCHANGED <<records, of, checked, recorded>>

\* Variant: published as it is.
PublishUnchecked(e) == LET t == edit[e].tool IN
  /\ edit[e].at = "publish"
  /\ tool' = [tool EXCEPT ![t] = IF Exists(t) THEN [@ EXCEPT !.status = "PUBLISHED"] ELSE @]
  /\ checked' = IF StaticCheck(edit[e].row.code) THEN checked \cup {t} ELSE checked
  /\ Done(e) /\ UNCHANGED <<records, of, recorded>>

\* The code that was read is checked; then only the status is written, and
\* a row that is gone is an error.
PublishTool(e) == LET t == edit[e].tool IN
  /\ edit[e].at = "publish"
  /\ IF StaticCheck(edit[e].row.code) /\ Exists(t)
     THEN /\ tool' = [tool EXCEPT ![t].status = "PUBLISHED"]
          /\ checked' = checked \cup {t}
     ELSE UNCHANGED <<tool, checked>>
  /\ Done(e) /\ UNCHANGED <<records, of, recorded>>

\* The row of a name is updated, whatever it is; a new one has no creator,
\* which is refused.
ImportTool(t, source) ==
  /\ tool' = [tool EXCEPT ![t] = IF Exists(t) THEN [@ EXCEPT !.code = source] ELSE @]
  /\ UNCHANGED <<records, edit, of, checked, recorded>>

\* With the records of its runs.
DeleteTool(t) ==
  /\ Exists(t)
  /\ tool' = [tool EXCEPT ![t] = Deleted]
  /\ records' = [records EXCEPT ![t] = {}]
  /\ UNCHANGED <<edit, of, checked, recorded>>

EditRows ==
  \/ \E t \in Tool : DeleteTool(t) \/ \E source \in Source : PostTool(t, source) \/ ImportTool(t, source)
  \/ \E e \in Editor :
       \/ \E t \in Tool, next \in {"put", "publish"} : ReadTool(e, t, next)
       \/ PublishTool(e)
       \/ \E source \in Source : SaveTool(e, source)

-----------------------------------------------------------------------------
(* A debug request.                                                        *)

\* Code that pylint fails is not run, nor code whose inputs do not fit.
Debug(r, t) ==
  /\ at[r] = "idle"
  /\ \/ code[r].clean /\ ExecCode(r, t)
     \/ GoTo(r, "refused") /\ UNCHANGED <<code, limit, age, proc, exit, dog, stop, result>>
  /\ UNCHANGED catalogue

\* The run is over: the tool is looked up, if there is one.
FindTool(r) ==
  /\ at[r] = "told"
  /\ GoTo(r, IF Exists(of[r]) THEN "record" ELSE "answered")
  /\ UNCHANGED <<code, limit, age, proc, exit, dog, stop, result, catalogue>>

\* Variant: the status is left at its default.
RecordDefault(r) ==
  /\ at[r] = "record" /\ GoTo(r, "answered")
  /\ IF Exists(of[r])
     THEN /\ records' = [records EXCEPT ![of[r]] = @ \cup {[run |-> r, status |-> "SUCCESS"]}]
          /\ recorded' = recorded \cup {r}
     ELSE UNCHANGED <<records, recorded>>
  /\ UNCHANGED <<code, limit, age, proc, exit, dog, stop, result, tool, edit, of, checked>>

\* The record refers to the tool: it is refused when the tool is gone.
RecordExecution(r) ==
  /\ at[r] = "record" /\ GoTo(r, "answered")
  /\ IF Exists(of[r])
     THEN /\ records' = [records EXCEPT ![of[r]] = @ \cup {[run |-> r, status |-> result[r]]}]
          /\ recorded' = recorded \cup {r}
     ELSE UNCHANGED <<records, recorded>>
  /\ UNCHANGED <<code, limit, age, proc, exit, dog, stop, result, tool, edit, of, checked>>

Next ==
  \/ EditRows /\ UNCHANGED execution
  \/ \E r \in Run :
       \/ \E t \in Limit : Debug(r, t)
       \/ FindTool(r) \/ RecordExecution(r)
       \/ ExecutorStep(r) /\ UNCHANGED catalogue

\* Threads are scheduled, clocks tick and the limit on processor time is
\* enforced; a program need not end.
Fairness == \A r \in Run :
  /\ WF_vars(Execute(r) /\ UNCHANGED catalogue) /\ WF_vars(Tick(r) /\ UNCHANGED catalogue)
  /\ WF_vars(Watcher(r) /\ UNCHANGED catalogue) /\ WF_vars(CpuExceeded(r) /\ UNCHANGED catalogue)

Spec == Init /\ [][Next]_vars /\ Fairness

-----------------------------------------------------------------------------
(* Properties.                                                             *)

Answered(r) == at[r] \in {"told", "record", "answered", "raised", "refused"}

(***************************************************************************)
(* When the request goes on, its process does not run any more, whatever   *)
(* it did with its time (executor.py, exec_code).                          *)
(***************************************************************************)
NothingLeftRunning == \A r \in Run : Answered(r) => proc[r] # "running"

(***************************************************************************)
(* A record says what became of the run: success of a process that ended   *)
(* by itself with 0, rejection of one that never was, a timeout of one     *)
(* that had all its time, failure of one that ended otherwise.  How an     *)
(* endless loop is told, which the limit of processor time may end before  *)
(* its timeout, is left open (services.py, record_execution).              *)
(***************************************************************************)
RecordTellsRun == \A t \in Tool : \A rec \in records[t] : LET r == rec.run IN
  /\ rec.status = "SUCCESS" => exit[r] = "0" /\ proc[r] = "reaped"
  /\ rec.status = "REJECTED" <=> proc[r] = "none"
  /\ rec.status = "TIMEOUT" => Overdue(r)
  /\ rec.status = "FAILURE" /\ code[r].does # "spins" => exit[r] \notin {"none", "0"}

(***************************************************************************)
(* What says PUBLISHED once had code that pylint passes, through edits     *)
(* that write an old row back and after it was deleted (views.py,          *)
(* ToolPublishView).                                                       *)
(***************************************************************************)
PublishedWasChecked ==
  \A t \in Tool : Exists(t) /\ tool[t].status = "PUBLISHED" => t \in checked

(***************************************************************************)
(* Whatever the code does, a run is answered, and its watchdog goes        *)
(* (executor.py, exec_code).                                               *)
(***************************************************************************)
RunsEnd == \A r \in Run : at[r] = "spawn" ~> Answered(r) /\ dog[r] = "off"
===============================================================================
