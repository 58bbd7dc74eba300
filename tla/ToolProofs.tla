------------------------------ MODULE ToolProofs ------------------------------
(***************************************************************************)
(* Proofs about tools and their runs, for every number of runs, programs   *)
(* and editors, and all limits.                                            *)
(***************************************************************************)
EXTENDS ToolCatalogue, TLAPS

Place == {"idle", "refused", "spawn", "register", "communicate", "kill", "finish",
          "raised", "told", "record", "answered"}

RunType ==
  /\ at \in [Run -> Place]
  /\ limit \in [Run -> Nat] /\ age \in [Run -> Nat]
  /\ proc \in [Run -> {"none", "running", "dead", "reaped"}]
  /\ exit \in [Run -> {"none", "0", "1", "killed", "SIGXCPU"}]
  /\ result \in [Run -> {"none", "SUCCESS", "FAILURE", "TIMEOUT", "REJECTED"}]

Over(r) == at[r] \in {"told", "record", "answered"}

(***************************************************************************)
(* Where the thread is tells what its process can be.                      *)
(***************************************************************************)
PlaceInv == \A r \in Run :
  /\ at[r] \in {"idle", "refused", "spawn", "raised"} => proc[r] = "none"
  /\ at[r] \in {"register", "communicate", "kill"} => proc[r] \in {"running", "dead"}
  /\ at[r] = "finish" => proc[r] = "reaped"
  /\ at[r] = "kill" => Overdue(r)
  /\ Over(r) => proc[r] # "running"
  /\ proc[r] \in {"dead", "reaped"} => exit[r] # "none"

\* What the answer of a run says is so.
TellsTruth(r) ==
  /\ result[r] = "SUCCESS" => exit[r] = "0" /\ proc[r] = "reaped"
  /\ result[r] = "REJECTED" <=> proc[r] = "none"
  /\ result[r] = "TIMEOUT" => Overdue(r)
  /\ result[r] = "FAILURE" => exit[r] \notin {"none", "0"}

ResultInv == \A r \in Run : Over(r) => TellsTruth(r)

RunInv == RunType /\ PlaceInv /\ ResultInv

\* A record is of a run that has been answered, and has its result.
RecordInv ==
  \A t \in Tool : \A rec \in records[t] :
    rec.run \in Run /\ at[rec.run] = "answered" /\ rec.status = result[rec.run]

-----------------------------------------------------------------------------
(* Runs.                                                                   *)

(* A step of one run leaves the others alone. *)
LEMMA OneRun ==
  ASSUME RunInv, RunType', NEW r \in Run,
         \A q \in Run \ {r} : /\ at'[q] = at[q] /\ limit'[q] = limit[q] /\ age'[q] = age[q]
                              /\ proc'[q] = proc[q] /\ exit'[q] = exit[q] /\ result'[q] = result[q],
         /\ at'[r] \in {"idle", "refused", "spawn", "raised"} => proc'[r] = "none"
         /\ at'[r] \in {"register", "communicate", "kill"} => proc'[r] \in {"running", "dead"}
         /\ at'[r] = "finish" => proc'[r] = "reaped"
         /\ at'[r] = "kill" => Overdue(r)'
         /\ Over(r)' => proc'[r] # "running"
         /\ proc'[r] \in {"dead", "reaped"} => exit'[r] # "none",
         Over(r)' => TellsTruth(r)'
  PROVE  RunInv'
<1>1. PlaceInv'
  <2> SUFFICES ASSUME NEW q \in Run
               PROVE  /\ at'[q] \in {"idle", "refused", "spawn", "raised"} => proc'[q] = "none"
                      /\ at'[q] \in {"register", "communicate", "kill"} => proc'[q] \in {"running", "dead"}
                      /\ at'[q] = "finish" => proc'[q] = "reaped"
                      /\ at'[q] = "kill" => Overdue(q)'
                      /\ Over(q)' => proc'[q] # "running"
                      /\ proc'[q] \in {"dead", "reaped"} => exit'[q] # "none"
    BY DEF PlaceInv
  <2>1. CASE q = r
    BY <2>1 DEF Over, Overdue
  <2>2. CASE q # r
    BY <2>2 DEF RunInv, PlaceInv, Over, Overdue
  <2> QED
    BY <2>1, <2>2
<1>2. ResultInv'
  <2> SUFFICES ASSUME NEW q \in Run, Over(q)' PROVE TellsTruth(q)'
    BY DEF ResultInv
  <2>1. CASE q = r
    BY <2>1 DEF Over, TellsTruth, Overdue
  <2>2. CASE q # r
    BY <2>2 DEF RunInv, ResultInv, Over, TellsTruth, Overdue
  <2> QED
    BY <2>1, <2>2
<1> QED
  BY <1>1, <1>2 DEF RunInv

LEMMA ExecCodeStep ==
  ASSUME RunInv, NEW r \in Run, NEW t \in Limit, at[r] = "idle", ExecCode(r, t)
  PROVE  RunInv'
<1>1. /\ (IF t = 0 THEN Default ELSE t) \in Nat
      /\ UNCHANGED <<age, proc, exit>>
      /\ limit' = [limit EXCEPT ![r] = IF t = 0 THEN Default ELSE t]
      /\ proc[r] = "none"
  BY ExecutorAssumption DEF ExecCode, RunInv, PlaceInv
<1>2. CASE GoTo(r, "spawn") /\ UNCHANGED result
  <2>1. RunType'
    BY <1>1, <1>2 DEF GoTo, RunInv, RunType, Place
  <2>2. at'[r] = "spawn"
    BY <1>2 DEF GoTo, RunInv, RunType
  <2>3. \A q \in Run \ {r} : at'[q] = at[q] /\ limit'[q] = limit[q]
    BY <1>1, <1>2 DEF GoTo, RunInv, RunType
  <2> QED
    BY <1>1, <1>2, <2>1, <2>2, <2>3, OneRun DEF Over
<1>3. CASE GoTo(r, "told") /\ Answer(r, "REJECTED")
  <2>1. RunType'
    BY <1>1, <1>3 DEF GoTo, Answer, RunInv, RunType, Place
  <2>2. at'[r] = "told" /\ result'[r] = "REJECTED"
    BY <1>3 DEF GoTo, Answer, RunInv, RunType
  <2>3. \A q \in Run \ {r} : at'[q] = at[q] /\ limit'[q] = limit[q] /\ result'[q] = result[q]
    BY <1>1, <1>3 DEF GoTo, Answer, RunInv, RunType
  <2> QED
    BY <1>1, <2>1, <2>2, <2>3, OneRun DEF TellsTruth
<1> QED
  BY <1>2, <1>3 DEF ExecCode

(* The thread goes on, and tells nothing yet. *)
LEMMA MovesOn ==
  ASSUME RunInv, NEW r \in Run, NEW place \in Place, GoTo(r, place),
         UNCHANGED <<limit, age, exit, result>>,
         RunType',
         \A q \in Run \ {r} : proc'[q] = proc[q],
         /\ place \in {"refused", "spawn", "raised"} => proc'[r] = "none"
         /\ place \in {"register", "communicate", "kill"} => proc'[r] \in {"running", "dead"}
         /\ place = "finish" => proc'[r] = "reaped"
         /\ place = "kill" => Overdue(r)
         /\ proc'[r] \in {"dead", "reaped"} => exit[r] # "none",
         place \notin {"idle", "told", "record", "answered"}
  PROVE  RunInv'
<1>1. at'[r] = place /\ \A q \in Run \ {r} : at'[q] = at[q]
  BY DEF GoTo, RunInv, RunType
<1> QED
  BY <1>1, OneRun DEF Over, Overdue

LEMMA ExecuteStep ==
  ASSUME RunInv, NEW r \in Run, Execute(r)
  PROVE  RunInv'
<1> USE DEF RunInv
<1>1. CASE Spawn(r)
  <2>1. proc[r] = "none" /\ UNCHANGED <<limit, age, exit, result>>
    BY <1>1 DEF Spawn, PlaceInv
  <2>2. CASE GoTo(r, "register") /\ proc' = [proc EXCEPT ![r] = "running"]
    <3>1. RunType' /\ proc'[r] = "running" /\ \A q \in Run \ {r} : proc'[q] = proc[q]
      BY <2>1, <2>2 DEF GoTo, RunType, Place
    <3> QED
      BY <2>1, <2>2, <3>1, MovesOn DEF Place
  <2>3. CASE GoTo(r, "raised") /\ UNCHANGED proc
    <3>1. RunType'
      BY <2>1, <2>3 DEF GoTo, RunType, Place
    <3> QED
      BY <2>1, <2>3, <3>1, MovesOn DEF Place
  <2> QED
    BY <1>1, <2>2, <2>3 DEF Spawn
<1>2. CASE Register(r)
  <2>1. /\ GoTo(r, "communicate") /\ UNCHANGED <<limit, age, proc, exit, result>>
        /\ proc[r] \in {"running", "dead"} /\ (proc[r] = "dead" => exit[r] # "none")
    BY <1>2 DEF Register, PlaceInv
  <2>2. RunType'
    BY <2>1 DEF GoTo, RunType, Place
  <2> QED
    BY <2>1, <2>2, MovesOn DEF Place
<1>3. CASE Communicate(r)
  <2>1. UNCHANGED <<limit, age, exit, result>> /\ proc[r] \in {"running", "dead"}
        /\ (proc[r] = "dead" => exit[r] # "none")
    BY <1>3 DEF Communicate, PlaceInv
  <2>2. CASE proc[r] = "dead" /\ proc' = [proc EXCEPT ![r] = "reaped"] /\ GoTo(r, "finish")
    <3>1. RunType' /\ proc'[r] = "reaped" /\ \A q \in Run \ {r} : proc'[q] = proc[q]
      BY <2>1, <2>2 DEF GoTo, RunType, Place
    <3> QED
      BY <2>1, <2>2, <3>1, MovesOn DEF Place
  <2>3. CASE Overdue(r) /\ GoTo(r, "kill") /\ UNCHANGED proc
    <3>1. RunType'
      BY <2>1, <2>3 DEF GoTo, RunType, Place
    <3> QED
      BY <2>1, <2>3, <3>1, MovesOn DEF Place
  <2> QED
    BY <1>3, <2>2, <2>3 DEF Communicate
<1>4. CASE Kill(r)
  <2>1. /\ GoTo(r, "told") /\ Answer(r, "TIMEOUT") /\ Die(r, "killed") /\ UNCHANGED <<limit, age>>
        /\ proc[r] \in {"running", "dead"} /\ (proc[r] = "dead" => exit[r] # "none") /\ Overdue(r)
    BY <1>4 DEF Kill, PlaceInv
  <2>2. RunType'
    BY <2>1 DEF GoTo, Answer, Die, RunType, Place
  <2>3. /\ at'[r] = "told" /\ result'[r] = "TIMEOUT" /\ proc'[r] = "dead" /\ exit'[r] # "none"
        /\ \A q \in Run \ {r} : /\ at'[q] = at[q] /\ result'[q] = result[q]
                                /\ proc'[q] = proc[q] /\ exit'[q] = exit[q]
    BY <2>1 DEF GoTo, Answer, Die, RunType
  <2> QED
    BY <2>1, <2>2, <2>3, OneRun DEF TellsTruth, Overdue
<1>5. CASE Finish(r)
  <2>1. /\ GoTo(r, "told") /\ Answer(r, IF exit[r] = "0" THEN "SUCCESS" ELSE "FAILURE")
        /\ UNCHANGED <<limit, age, proc, exit>> /\ proc[r] = "reaped" /\ exit[r] # "none"
    BY <1>5 DEF Finish, PlaceInv
  <2>2. RunType'
    BY <2>1 DEF GoTo, Answer, RunType, Place
  <2>3. /\ at'[r] = "told" /\ result'[r] = (IF exit[r] = "0" THEN "SUCCESS" ELSE "FAILURE")
        /\ \A q \in Run \ {r} : at'[q] = at[q] /\ result'[q] = result[q]
    BY <2>1 DEF GoTo, Answer, RunType
  <2> QED
    BY <2>1, <2>2, <2>3, OneRun DEF TellsTruth, Overdue
<1> QED
  BY <1>1, <1>2, <1>3, <1>4, <1>5 DEF Execute

(* Whatever ends a process that runs. *)
LEMMA DieStep ==
  ASSUME RunInv, NEW r \in Run, NEW how \in {"0", "1", "killed", "SIGXCPU"}, Die(r, how),
         UNCHANGED <<at, limit, age, result>>
  PROVE  RunInv'
<1>1. RunType'
  BY DEF Die, RunInv, RunType
<1>2. /\ \A q \in Run \ {r} : proc'[q] = proc[q] /\ exit'[q] = exit[q]
      /\ proc[r] # "running" => proc'[r] = proc[r] /\ exit'[r] = exit[r]
      /\ proc[r] = "running" => proc'[r] = "dead" /\ exit'[r] = how
  BY DEF Die, RunInv, RunType
<1>3. /\ at[r] \in {"idle", "refused", "spawn", "raised"} => proc[r] = "none"
      /\ at[r] \in {"register", "communicate", "kill"} => proc[r] \in {"running", "dead"}
      /\ at[r] = "finish" => proc[r] = "reaped"
      /\ at[r] = "kill" => Overdue(r)
      /\ Over(r) => proc[r] # "running" /\ TellsTruth(r)
      /\ proc[r] \in {"dead", "reaped"} => exit[r] # "none"
  BY DEF RunInv, PlaceInv, ResultInv
<1> QED
  BY <1>1, <1>2, <1>3, OneRun DEF Over, Overdue, TellsTruth

LEMMA TickStep ==
  ASSUME RunInv, NEW r \in Run, Tick(r)
  PROVE  RunInv'
<1>1. age' = [age EXCEPT ![r] = @ + 1] /\ UNCHANGED <<at, limit, proc, exit, result>>
  BY DEF Tick
<1>2. RunType'
  BY <1>1 DEF RunInv, RunType
<1>3. (\A q \in Run \ {r} : age'[q] = age[q]) /\ (Overdue(r) => Overdue(r)')
  BY <1>1 DEF RunInv, RunType, Overdue
<1>4. /\ at[r] \in {"idle", "refused", "spawn", "raised"} => proc[r] = "none"
      /\ at[r] \in {"register", "communicate", "kill"} => proc[r] \in {"running", "dead"}
      /\ at[r] = "finish" => proc[r] = "reaped"
      /\ at[r] = "kill" => Overdue(r)
      /\ Over(r) => proc[r] # "running" /\ TellsTruth(r)
      /\ proc[r] \in {"dead", "reaped"} => exit[r] # "none"
  BY DEF RunInv, PlaceInv, ResultInv
<1>5. Over(r)' => TellsTruth(r)'
  BY <1>1, <1>3, <1>4 DEF Over, TellsTruth
<1> QED
  BY <1>1, <1>2, <1>3, <1>4, <1>5, OneRun DEF Over

LEMMA StepKeeps ==
  ASSUME RunInv, NEW r \in Run, ExecutorStep(r)
  PROVE  RunInv'
<1>1. CASE Terminate(r)
  BY <1>1, DieStep DEF Terminate, Exits
<1>2. CASE CpuExceeded(r)
  BY <1>2, DieStep DEF CpuExceeded, Exits
<1>3. CASE Watcher(r)
  <2>1. UNCHANGED <<at, limit, age, result>>
    BY <1>3 DEF Watcher
  <2>2. CASE Die(r, "killed")
    BY <2>1, <2>2, DieStep
  <2>3. CASE UNCHANGED <<proc, exit>>
    BY <2>1, <2>3 DEF RunInv, RunType, PlaceInv, ResultInv, Over, Overdue, TellsTruth
  <2> QED
    BY <1>3, <2>2, <2>3 DEF Watcher
<1> QED
  BY <1>1, <1>2, <1>3, ExecuteStep, TickStep DEF ExecutorStep

(* A thread that has its answer, and one that is refused, tell no other. *)
LEMMA AnswerKept ==
  ASSUME RunInv, NEW r \in Run, NEW place \in Place, GoTo(r, place),
         UNCHANGED <<limit, age, proc, exit, result>>,
         \/ at[r] = "idle" /\ place = "refused"
         \/ Over(r) /\ place \in {"record", "answered"}
  PROVE  RunInv'
<1>1. at'[r] = place /\ \A q \in Run \ {r} : at'[q] = at[q]
  BY DEF GoTo, RunInv, RunType
<1>2. RunType'
  BY DEF GoTo, RunInv, RunType
<1>3. /\ at[r] = "idle" => proc[r] = "none"
      /\ Over(r) => proc[r] # "running" /\ TellsTruth(r)
      /\ proc[r] \in {"dead", "reaped"} => exit[r] # "none"
  BY DEF RunInv, PlaceInv, ResultInv
<1> QED
  BY <1>1, <1>2, <1>3, OneRun DEF Over, Overdue, TellsTruth

LEMMA DebugStep ==
  ASSUME RunInv, NEW r \in Run, NEW t \in Limit, Debug(r, t)
  PROVE  RunInv'
<1>1. CASE ExecCode(r, t)
  BY <1>1, ExecCodeStep DEF Debug
<1>2. CASE GoTo(r, "refused") /\ UNCHANGED <<code, limit, age, proc, exit, dog, stop, result>>
  BY <1>2, AnswerKept DEF Debug, Place
<1> QED
  BY <1>1, <1>2 DEF Debug

LEMMA RunStep ==
  ASSUME RunInv, Next \/ UNCHANGED vars
  PROVE  RunInv'
<1>1. CASE UNCHANGED execution
  BY <1>1 DEF execution, RunInv, RunType, PlaceInv, ResultInv, Over, Overdue, TellsTruth
<1>2. ASSUME NEW r \in Run, NEW t \in Limit, Debug(r, t) PROVE RunInv'
  BY <1>2, DebugStep
<1>3. ASSUME NEW r \in Run, FindTool(r) PROVE RunInv'
  BY <1>3, AnswerKept DEF FindTool, Over, Place
<1>4. ASSUME NEW r \in Run, RecordExecution(r) PROVE RunInv'
  BY <1>4, AnswerKept DEF RecordExecution, Over, Place
<1>5. ASSUME NEW r \in Run, ExecutorStep(r) PROVE RunInv'
  BY <1>5, StepKeeps
<1> QED
  BY <1>1, <1>2, <1>3, <1>4, <1>5 DEF Next, vars

-----------------------------------------------------------------------------
(* Records.                                                                *)

(* The answer of a run that has been answered does not change any more. *)
LEMMA AnswerStays ==
  ASSUME RunInv, NEW r \in Run, at[r] = "answered", Next \/ UNCHANGED vars
  PROVE  at'[r] = "answered" /\ result'[r] = result[r]
<1>1. CASE UNCHANGED execution
  BY <1>1 DEF execution
<1>2. ASSUME NEW q \in Run, NEW t \in Limit, Debug(q, t)
      PROVE  at'[r] = "answered" /\ result'[r] = result[r]
  BY <1>2 DEF Debug, ExecCode, GoTo, Answer, RunInv, RunType
<1>3. ASSUME NEW q \in Run, FindTool(q) \/ RecordExecution(q)
      PROVE  at'[r] = "answered" /\ result'[r] = result[r]
  BY <1>3 DEF FindTool, RecordExecution, GoTo, RunInv, RunType
<1>4. ASSUME NEW q \in Run, Execute(q) PROVE at'[r] = "answered" /\ result'[r] = result[r]
  BY <1>4 DEF Execute, Spawn, Register, Communicate, Kill, Finish, GoTo, Answer, RunInv, RunType
<1>5. ASSUME NEW q \in Run, Terminate(q) \/ CpuExceeded(q) \/ Tick(q) \/ Watcher(q)
      PROVE  at'[r] = "answered" /\ result'[r] = result[r]
  BY <1>5 DEF Terminate, CpuExceeded, Exits, Tick, Watcher
<1> QED
  BY <1>1, <1>2, <1>3, <1>4, <1>5 DEF Next, vars, ExecutorStep

RecordType == records = [t \in Tool |-> records[t]]

LEMMA RecordStep ==
  ASSUME RunInv, RecordType, RecordInv, Next \/ UNCHANGED vars
  PROVE  RecordType' /\ RecordInv'
<1>1. ASSUME \A t \in Tool : records'[t] \subseteq records[t], RecordType'
      PROVE  RecordType' /\ RecordInv'
  BY <1>1, AnswerStays DEF RecordInv
<1>2. CASE UNCHANGED records
  BY <1>1, <1>2 DEF RecordType
<1>3. ASSUME NEW t \in Tool, DeleteTool(t) PROVE RecordType' /\ RecordInv'
  BY <1>1, <1>3 DEF DeleteTool, RecordType
<1>4. ASSUME NEW r \in Run, RecordExecution(r) PROVE RecordType' /\ RecordInv'
  <2>1. CASE records' = records
    BY <1>2, <2>1
  <2>2. CASE records' = [records EXCEPT ![of[r]] = @ \cup {[run |-> r, status |-> result[r]]}]
    <3>1. at'[r] = "answered" /\ result'[r] = result[r]
      BY <1>4 DEF RecordExecution, GoTo, RunInv, RunType
    <3>2. RecordType'
      BY <2>2 DEF RecordType
    <3>3. ASSUME NEW t \in Tool, NEW rec \in records'[t]
          PROVE  rec.run \in Run /\ at'[rec.run] = "answered" /\ rec.status = result'[rec.run]
      <4>1. CASE rec \in records[t]
        BY <1>4, <4>1, AnswerStays DEF RecordInv
      <4>2. CASE rec = [run |-> r, status |-> result[r]]
        BY <3>1, <4>2
      <4> QED
        BY <2>2, <3>3, <4>1, <4>2 DEF RecordType
    <3> QED
      BY <3>2, <3>3 DEF RecordInv
  <2> QED
    BY <1>4, <2>1, <2>2 DEF RecordExecution
<1> QED
  BY <1>2, <1>3, <1>4 DEF Next, vars, EditRows, PostTool, ImportTool, ReadTool, PublishTool,
     SaveTool, Debug, FindTool, catalogue

-----------------------------------------------------------------------------
(* Rows.                                                                   *)

ToolRow == [status : {"DRAFT", "PUBLISHED"}, code : Source]

\* What is published was checked, and so was what an edit may write back.
PublishInv ==
  /\ tool \in [Tool -> ToolRow \cup {NoRow, Deleted}]
  /\ edit \in [Editor -> {Idle} \cup [at : {"put", "publish"}, tool : Tool, row : ToolRow]]
  /\ \A t \in Tool : tool[t] \in ToolRow /\ tool[t].status = "PUBLISHED" => t \in checked
  /\ \A e \in Editor :
       edit[e] # Idle /\ edit[e].row.status = "PUBLISHED" => edit[e].tool \in checked

LEMMA RowsExist ==
  ASSUME PublishInv, NEW t \in Tool
  PROVE  Exists(t) <=> tool[t] \in ToolRow
BY DEF PublishInv, Exists, ToolRow, NoRow, Deleted

(* A row is written that is no more published than what was checked. *)
LEMMA RowWritten ==
  ASSUME PublishInv, NEW t \in Tool, NEW row \in ToolRow \cup {NoRow, Deleted},
         tool' = [tool EXCEPT ![t] = row], checked \subseteq checked',
         row \in ToolRow /\ row.status = "PUBLISHED" => t \in checked',
         edit' \in [Editor -> {Idle} \cup [at : {"put", "publish"}, tool : Tool, row : ToolRow]],
         \A e \in Editor : edit'[e] \in {Idle, edit[e]}
  PROVE  PublishInv'
<1>1. tool' \in [Tool -> ToolRow \cup {NoRow, Deleted}]
  BY DEF PublishInv
<1>2. \A s \in Tool : tool'[s] \in ToolRow /\ tool'[s].status = "PUBLISHED" => s \in checked'
  BY DEF PublishInv
<1>3. \A e \in Editor :
        edit'[e] # Idle /\ edit'[e].row.status = "PUBLISHED" => edit'[e].tool \in checked'
  BY DEF PublishInv
<1> QED
  BY <1>1, <1>2, <1>3 DEF PublishInv

(* What an edit is about. *)
LEMMA EditIs ==
  ASSUME PublishInv, NEW e \in Editor, edit[e].at \in {"put", "publish"}
  PROVE  edit[e] # Idle /\ edit[e].tool \in Tool /\ edit[e].row \in ToolRow
BY DEF PublishInv, Idle

LEMMA DoneIs ==
  ASSUME PublishInv, NEW e \in Editor, Done(e)
  PROVE  /\ edit' \in [Editor -> {Idle} \cup [at : {"put", "publish"}, tool : Tool, row : ToolRow]]
         /\ \A d \in Editor : edit'[d] \in {Idle, edit[d]}
BY DEF PublishInv, Done

LEMMA PublishStep ==
  ASSUME PublishInv, Next \/ UNCHANGED vars
  PROVE  PublishInv'
<1>1. CASE UNCHANGED <<tool, edit, checked>>
  BY <1>1 DEF PublishInv
<1>2. ASSUME NEW t \in Tool, NEW source \in Source, PostTool(t, source) PROVE PublishInv'
  <2>1. [status |-> "DRAFT", code |-> source] \in ToolRow
    BY DEF ToolRow
  <2>2. edit' = edit /\ checked' = checked
        /\ tool' = [tool EXCEPT ![t] = [status |-> "DRAFT", code |-> source]]
    BY <1>2 DEF PostTool
  <2> QED
    BY <2>1, <2>2, RowWritten DEF PublishInv
<1>3. ASSUME NEW t \in Tool, NEW source \in Source, ImportTool(t, source) PROVE PublishInv'
  <2>1. CASE Exists(t)
    <3>1. tool[t] \in ToolRow
      BY <2>1, RowsExist
    <3>2. /\ [tool[t] EXCEPT !.code = source] \in ToolRow
          /\ [tool[t] EXCEPT !.code = source].status = tool[t].status
      BY <3>1 DEF ToolRow
    <3>3. /\ tool' = [tool EXCEPT ![t] = [tool[t] EXCEPT !.code = source]]
          /\ edit' = edit /\ checked' = checked
      BY <1>3, <2>1 DEF ImportTool, PublishInv
    <3> QED
      BY <3>1, <3>2, <3>3, RowWritten DEF PublishInv
  <2>2. CASE ~Exists(t)
    BY <1>1, <1>3, <2>2 DEF ImportTool, PublishInv
  <2> QED
    BY <2>1, <2>2
<1>4. ASSUME NEW t \in Tool, DeleteTool(t) PROVE PublishInv'
  <2>1. Deleted \notin ToolRow
    BY DEF Deleted, ToolRow
  <2> QED
    BY <1>4, <2>1, RowWritten DEF DeleteTool, PublishInv
<1>5. ASSUME NEW e \in Editor, NEW t \in Tool, NEW next \in {"put", "publish"}, ReadTool(e, t, next)
      PROVE  PublishInv'
  <2>1. /\ edit' = [edit EXCEPT ![e] = [at |-> next, tool |-> t, row |-> tool[t]]]
        /\ tool[t] \in ToolRow /\ UNCHANGED <<tool, checked>>
    BY <1>5, RowsExist DEF ReadTool
  <2>2. edit' \in [Editor -> {Idle} \cup [at : {"put", "publish"}, tool : Tool, row : ToolRow]]
    BY <2>1 DEF PublishInv
  <2>3. ASSUME NEW d \in Editor, edit'[d] # Idle, edit'[d].row.status = "PUBLISHED"
        PROVE  edit'[d].tool \in checked
    BY <2>1, <2>3 DEF PublishInv
  <2> QED
    BY <2>1, <2>2, <2>3 DEF PublishInv
<1>6. ASSUME NEW e \in Editor, PublishTool(e) PROVE PublishInv'
  <2> DEFINE t == edit[e].tool
  <2>1. edit[e].tool \in Tool /\ Done(e)
    BY <1>6, EditIs DEF PublishTool
  <2>2. CASE StaticCheck(edit[e].row.code) /\ Exists(t)
    <3>1. tool[t] \in ToolRow
      BY <2>1, <2>2, RowsExist
    <3>2. [tool[t] EXCEPT !.status = "PUBLISHED"] \in ToolRow
      BY <3>1 DEF ToolRow
    <3>3. /\ tool' = [tool EXCEPT ![t] = [tool[t] EXCEPT !.status = "PUBLISHED"]]
          /\ checked' = checked \cup {t}
      BY <1>6, <2>2 DEF PublishTool, PublishInv
    <3> QED
      BY <2>1, <3>2, <3>3, DoneIs, RowWritten
  <2>3. CASE ~(StaticCheck(edit[e].row.code) /\ Exists(t))
    <3>1. tool' = tool /\ checked' = checked
      BY <1>6, <2>3 DEF PublishTool
    <3> QED
      BY <2>1, <3>1, DoneIs DEF PublishInv
  <2> QED
    BY <2>2, <2>3
<1>7. ASSUME NEW e \in Editor, NEW source \in Source, SaveTool(e, source) PROVE PublishInv'
  <2> DEFINE row == [edit[e].row EXCEPT !.code = source]
  <2>1. /\ edit[e] # Idle /\ edit[e].tool \in Tool /\ edit[e].row \in ToolRow /\ Done(e)
        /\ tool' = [tool EXCEPT ![edit[e].tool] = row] /\ checked' = checked
    BY <1>7, EditIs DEF SaveTool
  <2>2. row \in ToolRow /\ row.status = edit[e].row.status
    BY <2>1 DEF ToolRow
  <2>3. row.status = "PUBLISHED" => edit[e].tool \in checked
    BY <2>1, <2>2 DEF PublishInv
  <2> QED
    BY <2>1, <2>2, <2>3, DoneIs, RowWritten
<1> QED
  BY <1>1, <1>2, <1>3, <1>4, <1>5, <1>6, <1>7 DEF Next, vars, catalogue, EditRows, Debug,
     FindTool, RecordExecution

-----------------------------------------------------------------------------
LEMMA ToolInvariant == Spec => [](RunInv /\ RecordType /\ RecordInv /\ PublishInv)
<1>1. Init => RunInv /\ RecordType /\ RecordInv /\ PublishInv
  <2> SUFFICES ASSUME Init PROVE RunInv /\ RecordType /\ RecordInv /\ PublishInv
    OBVIOUS
  <2>1. RunInv
    BY DEF Init, ExecutorInit, RunInv, RunType, PlaceInv, ResultInv, Over, Place
  <2>2. RecordType /\ RecordInv
    BY DEF Init, RecordType, RecordInv
  <2>3. PublishInv
    BY DEF Init, PublishInv, NoRow, ToolRow
  <2> QED
    BY <2>1, <2>2, <2>3
<1>2. RunInv /\ RecordType /\ RecordInv /\ PublishInv /\ [Next]_vars
        => (RunInv /\ RecordType /\ RecordInv /\ PublishInv)'
  BY RunStep, RecordStep, PublishStep
<1> QED
  BY <1>1, <1>2, PTL DEF Spec

(***************************************************************************)
(* No process outlives the request that started it, whatever the program   *)
(* does, whoever ends it, and whatever limits it was given.                *)
(***************************************************************************)
THEOREM ProcessIsOver == Spec => []NothingLeftRunning
<1>1. RunInv => NothingLeftRunning
  BY DEF RunInv, RunType, PlaceInv, NothingLeftRunning, Answered, Over
<1> QED
  BY <1>1, ToolInvariant, PTL

(***************************************************************************)
(* Every record tells how its run ended, for every number of runs at once. *)
(***************************************************************************)
THEOREM RecordsTell == Spec => []RecordTellsRun
<1>1. RunInv /\ RecordInv => RecordTellsRun
  BY DEF RunInv, ResultInv, RecordInv, RecordTellsRun, Over, TellsTruth
<1> QED
  BY <1>1, ToolInvariant, PTL

(***************************************************************************)
(* No interleaving of edits, imports, deletions and publications shows a   *)
(* tool as published whose code pylint never passed.                       *)
(***************************************************************************)
THEOREM PublishedTools == Spec => []PublishedWasChecked
<1>1. PublishInv => PublishedWasChecked
  BY RowsExist DEF PublishInv, PublishedWasChecked
<1> QED
  BY <1>1, ToolInvariant, PTL

-----------------------------------------------------------------------------
(* Runs come to an end.                                                    *)

\* The thread goes on, or the clock does, or the system ends the process.
CanGoOn(r) ==
  \/ at[r] \in {"spawn", "register", "kill", "finish"}
  \/ /\ at[r] = "communicate"
     /\ \/ proc[r] = "dead" \/ Overdue(r)
        \/ age[r] < MaxAge /\ (code[r].does = "spins" /\ proc[r] = "running" => age[r] < CpuLimit)
        \/ code[r].does = "spins" /\ proc[r] = "running" /\ age[r] >= CpuLimit

\* The watchdog of a run that has been answered has been told to leave.
RunsGoOn == \A r \in Run :
  IF Answered(r) THEN dog[r] = "off" \/ stop[r] ELSE at[r] = "idle" \/ CanGoOn(r)

PlacesLeft(r) ==
  IF at[r] = "spawn" THEN 5
  ELSE IF at[r] = "register" THEN 3
  ELSE IF at[r] = "communicate" THEN 2
  ELSE IF at[r] \in {"kill", "finish"} THEN 1 ELSE 0

ProcessLeft(r) == IF proc[r] = "running" THEN 1 ELSE 0
DogLeft(r) == IF dog[r] = "off" THEN 0 ELSE 1

\* What is left to do: statements, seconds, the process and its watchdog.
StepsLeft(r) ==
  PlacesLeft(r) + ProcessLeft(r) + DogLeft(r) + (MaxAge - age[r])

Shortens ==
  \A r \in Run : /\ ExecutorStep(r) => StepsLeft(r)' < StepsLeft(r)
                 /\ at[r] # "idle" => StepsLeft(r)' <= StepsLeft(r)

DogInv == \A r \in Run :
  /\ at[r] \in {"idle", "refused"} => dog[r] = "off"
  /\ Answered(r) => dog[r] = "off" \/ stop[r]
  /\ age[r] <= MaxAge /\ limit[r] <= MaxAge

DogType == dog \in [Run -> {"off", "blind", "watches"}] /\ stop \in [Run -> BOOLEAN]

(* A step of one run leaves what is left of the others. *)
LEMMA OthersStay ==
  ASSUME RunType, DogType, NEW r \in Run, NEW q \in Run \ {r},
         ExecutorStep(r) \/ FindTool(r) \/ RecordExecution(r) \/ \E t \in Limit : Debug(r, t)
  PROVE  /\ at'[q] = at[q] /\ limit'[q] = limit[q] /\ age'[q] = age[q]
         /\ proc'[q] = proc[q] /\ dog'[q] = dog[q] /\ stop'[q] = stop[q]
<1> USE DEF RunType, DogType
<1>1. CASE Spawn(r) \/ Register(r) \/ Communicate(r)
  BY <1>1 DEF Spawn, Register, Communicate, GoTo
<1>2. CASE Kill(r) \/ Finish(r)
  BY <1>2 DEF Kill, Finish, GoTo, Die
<1>3. CASE Terminate(r) \/ CpuExceeded(r)
  BY <1>3 DEF Terminate, CpuExceeded, Exits, Die
<1>4. CASE Tick(r)
  BY <1>4 DEF Tick
<1>5. CASE Watcher(r)
  BY <1>5 DEF Watcher, DogLeaves, Die
<1>6. CASE FindTool(r) \/ RecordExecution(r)
  BY <1>6 DEF FindTool, RecordExecution, GoTo
<1>7. CASE \E t \in Limit : Debug(r, t)
  BY <1>7 DEF Debug, ExecCode, GoTo
<1> QED
  BY <1>1, <1>2, <1>3, <1>4, <1>5, <1>6, <1>7 DEF ExecutorStep, Execute

(* What a step of a run does to it. *)
LEMMA RunShortens ==
  ASSUME RunType, DogType, NEW r \in Run, ExecutorStep(r), age[r] <= MaxAge,
         at[r] \in {"idle", "refused"} => dog[r] = "off" /\ proc[r] = "none",
         at[r] = "spawn" => proc[r] = "none",
         Answered(r) => dog[r] = "off" \/ stop[r]
  PROVE  /\ StepsLeft(r)' \in Nat /\ StepsLeft(r) \in Nat /\ StepsLeft(r)' < StepsLeft(r)
         /\ Answered(r)' => dog'[r] = "off" \/ stop'[r]
         /\ at'[r] \in {"idle", "refused"} => dog'[r] = "off"
         /\ age'[r] <= MaxAge /\ limit'[r] = limit[r]
         /\ DogType'
<1>0. age[r] \in Nat /\ MaxAge \in Nat /\ limit[r] \in Nat
  BY ExecutorAssumption DEF RunType
<1> USE DEF RunType, DogType
<1>1. CASE Spawn(r)
  <2>1. at[r] = "spawn" /\ proc[r] = "none" /\ UNCHANGED <<limit, age, dog>>
    BY <1>1 DEF Spawn
  <2>2. \/ at'[r] = "register" /\ proc'[r] = "running" /\ stop' = stop
        \/ at'[r] = "raised" /\ proc'[r] = "none" /\ stop'[r] = TRUE
    BY <1>1, <2>1 DEF Spawn, GoTo
  <2>3. DogType'
    BY <1>1 DEF Spawn
  <2>7. PlacesLeft(r) = 5 /\ PlacesLeft(r)' \in {0, 3}
    BY <2>1, <2>2 DEF PlacesLeft
  <2>8. StepsLeft(r)' \in Nat /\ StepsLeft(r) \in Nat /\ StepsLeft(r)' < StepsLeft(r)
    <3>1. ProcessLeft(r) \in {0, 1} /\ ProcessLeft(r)' \in {0, 1} /\ DogLeft(r) \in {0, 1} /\ DogLeft(r)' \in {0, 1}
      BY DEF ProcessLeft, DogLeft
    <3>2. DogLeft(r)' = DogLeft(r)
      BY <1>0, <2>1, <2>2 DEF ProcessLeft, DogLeft
    <3> QED
      BY <1>0, <2>1, <2>2, <2>7, <3>1, <3>2 DEF StepsLeft
  <2> QED
    BY <1>0, <2>1, <2>2, <2>3, <2>8 DEF Answered
<1>2. CASE Register(r)
  <2>1. /\ at[r] = "register" /\ at'[r] = "communicate" /\ UNCHANGED <<limit, age, proc, stop>>
        /\ dog'[r] = (IF dog[r] = "blind" THEN "watches" ELSE dog[r])
    BY <1>2 DEF Register, GoTo
  <2>2. DogType'
    BY <1>2 DEF Register
  <2>7. PlacesLeft(r) = 3 /\ PlacesLeft(r)' = 2
    BY <2>1 DEF PlacesLeft
  <2>8. StepsLeft(r)' \in Nat /\ StepsLeft(r) \in Nat /\ StepsLeft(r)' < StepsLeft(r)
    <3>1. ProcessLeft(r) \in {0, 1} /\ ProcessLeft(r)' \in {0, 1} /\ DogLeft(r) \in {0, 1} /\ DogLeft(r)' \in {0, 1}
      BY DEF ProcessLeft, DogLeft
    <3>2. ProcessLeft(r)' <= ProcessLeft(r) /\ DogLeft(r)' = DogLeft(r)
      BY <1>0, <2>1 DEF ProcessLeft, DogLeft
    <3> QED
      BY <1>0, <2>1, <2>7, <3>1, <3>2 DEF StepsLeft
  <2> QED
    BY <1>0, <2>1, <2>2, <2>8 DEF Answered
<1>3. CASE Communicate(r)
  <2>1. /\ at[r] = "communicate" /\ at'[r] \in {"finish", "kill"} /\ UNCHANGED <<limit, age, dog, stop>>
        /\ proc'[r] = "running" => proc[r] = "running"
    BY <1>3 DEF Communicate, GoTo
  <2>7. PlacesLeft(r) = 2 /\ PlacesLeft(r)' = 1
    BY <2>1 DEF PlacesLeft
  <2>8. StepsLeft(r)' \in Nat /\ StepsLeft(r) \in Nat /\ StepsLeft(r)' < StepsLeft(r)
    <3>1. ProcessLeft(r) \in {0, 1} /\ ProcessLeft(r)' \in {0, 1} /\ DogLeft(r) \in {0, 1} /\ DogLeft(r)' \in {0, 1}
      BY DEF ProcessLeft, DogLeft
    <3>2. ProcessLeft(r)' <= ProcessLeft(r) /\ DogLeft(r)' = DogLeft(r)
      BY <1>0, <2>1 DEF ProcessLeft, DogLeft
    <3> QED
      BY <1>0, <2>1, <2>7, <3>1, <3>2 DEF StepsLeft
  <2> QED
    BY <1>0, <2>1, <2>8 DEF Answered
<1>4. CASE Kill(r) \/ Finish(r)
  <2>1. /\ at[r] \in {"kill", "finish"} /\ at'[r] = "told" /\ UNCHANGED <<limit, age, dog>>
        /\ proc'[r] = "running" => proc[r] = "running"
        /\ stop' = [stop EXCEPT ![r] = TRUE]
    BY <1>4 DEF Kill, Finish, GoTo, Die
  <2>7. PlacesLeft(r) = 1 /\ PlacesLeft(r)' = 0
    BY <2>1 DEF PlacesLeft
  <2>8. StepsLeft(r)' \in Nat /\ StepsLeft(r) \in Nat /\ StepsLeft(r)' < StepsLeft(r)
    <3>1. ProcessLeft(r) \in {0, 1} /\ ProcessLeft(r)' \in {0, 1} /\ DogLeft(r) \in {0, 1} /\ DogLeft(r)' \in {0, 1}
      BY DEF ProcessLeft, DogLeft
    <3>2. ProcessLeft(r)' <= ProcessLeft(r) /\ DogLeft(r)' = DogLeft(r)
      BY <1>0, <2>1 DEF ProcessLeft, DogLeft
    <3> QED
      BY <1>0, <2>1, <2>7, <3>1, <3>2 DEF StepsLeft
  <2> QED
    BY <1>0, <2>1, <2>8 DEF Answered
<1>5. CASE Terminate(r) \/ CpuExceeded(r)
  <2>1. /\ UNCHANGED <<at, limit, age, dog, stop>>
        /\ proc[r] = "running" /\ proc'[r] = "dead"
    BY <1>5 DEF Terminate, CpuExceeded, Exits, Die
  <2>7. PlacesLeft(r) \in Nat /\ PlacesLeft(r)' = PlacesLeft(r)
    BY <2>1 DEF PlacesLeft
  <2>8. StepsLeft(r)' \in Nat /\ StepsLeft(r) \in Nat /\ StepsLeft(r)' < StepsLeft(r)
    <3>1. ProcessLeft(r) \in {0, 1} /\ ProcessLeft(r)' \in {0, 1} /\ DogLeft(r) \in {0, 1} /\ DogLeft(r)' \in {0, 1}
      BY DEF ProcessLeft, DogLeft
    <3>2. ProcessLeft(r) = 1 /\ ProcessLeft(r)' = 0 /\ DogLeft(r)' = DogLeft(r)
      BY <1>0, <2>1 DEF ProcessLeft, DogLeft
    <3> QED
      BY <1>0, <2>1, <2>7, <3>1, <3>2 DEF StepsLeft
  <2> QED
    BY <1>0, <2>1, <2>8 DEF Answered
<1>6. CASE Tick(r)
  <2>1. /\ UNCHANGED <<at, limit, proc, dog, stop>> /\ at[r] \notin {"idle", "told", "raised"}
        /\ age[r] < MaxAge /\ age'[r] = age[r] + 1
    BY <1>6 DEF Tick
  <2>7. PlacesLeft(r) \in Nat /\ PlacesLeft(r)' = PlacesLeft(r)
    BY <2>1 DEF PlacesLeft
  <2>8. StepsLeft(r)' \in Nat /\ StepsLeft(r) \in Nat /\ StepsLeft(r)' < StepsLeft(r)
    <3>1. ProcessLeft(r) \in {0, 1} /\ ProcessLeft(r)' \in {0, 1} /\ DogLeft(r) \in {0, 1} /\ DogLeft(r)' \in {0, 1}
      BY DEF ProcessLeft, DogLeft
    <3>2. ProcessLeft(r)' <= ProcessLeft(r) /\ DogLeft(r)' = DogLeft(r)
      BY <1>0, <2>1 DEF ProcessLeft, DogLeft
    <3> QED
      BY <1>0, <2>1, <2>7, <3>1, <3>2 DEF StepsLeft
  <2> QED
    BY <1>0, <2>1, <2>8 DEF Answered
<1>7. CASE Watcher(r)
  <2>1. /\ UNCHANGED <<at, limit, age, stop>> /\ dog[r] # "off" /\ dog' = [dog EXCEPT ![r] = "off"]
        /\ proc'[r] = "running" => proc[r] = "running"
    BY <1>7 DEF Watcher, DogLeaves, Die
  <2>7. PlacesLeft(r) \in Nat /\ PlacesLeft(r)' = PlacesLeft(r)
    BY <2>1 DEF PlacesLeft
  <2>8. StepsLeft(r)' \in Nat /\ StepsLeft(r) \in Nat /\ StepsLeft(r)' < StepsLeft(r)
    <3>1. ProcessLeft(r) \in {0, 1} /\ ProcessLeft(r)' \in {0, 1} /\ DogLeft(r) \in {0, 1} /\ DogLeft(r)' \in {0, 1}
      BY DEF ProcessLeft, DogLeft
    <3>2. ProcessLeft(r)' <= ProcessLeft(r) /\ DogLeft(r) = 1 /\ DogLeft(r)' = 0
      BY <1>0, <2>1 DEF ProcessLeft, DogLeft
    <3> QED
      BY <1>0, <2>1, <2>7, <3>1, <3>2 DEF StepsLeft
  <2> QED
    BY <1>0, <2>1, <2>8 DEF Answered
<1> QED
  BY <1>1, <1>2, <1>3, <1>4, <1>5, <1>6, <1>7 DEF ExecutorStep, Execute

LEMMA StepShortens ==
  ASSUME RunInv, DogType, DogInv, NEW r \in Run, ExecutorStep(r)
  PROVE  /\ StepsLeft(r)' \in Nat /\ StepsLeft(r) \in Nat /\ StepsLeft(r)' < StepsLeft(r)
         /\ Answered(r)' => dog'[r] = "off" \/ stop'[r]
         /\ at'[r] \in {"idle", "refused"} => dog'[r] = "off"
         /\ age'[r] <= MaxAge /\ limit'[r] = limit[r]
         /\ DogType'
<1>1. /\ age[r] <= MaxAge
      /\ at[r] \in {"idle", "refused"} => dog[r] = "off"
      /\ Answered(r) => dog[r] = "off" \/ stop[r]
  BY DEF DogInv
<1>2. at[r] \in {"idle", "refused", "spawn"} => proc[r] = "none"
  BY DEF RunInv, PlaceInv
<1>3. RunType
  BY DEF RunInv
<1> QED
  BY <1>1, <1>2, <1>3, RunShortens

LEMMA LessIsNotSame == \A m, n \in Nat : m < n => m # n /\ m <= n
OBVIOUS

LEMMA DogInitial == ASSUME Limit \cup {Default} \subseteq 0 .. MaxAge, Init PROVE DogType /\ DogInv
BY ExecutorAssumption DEF Init, ExecutorInit, DogType, DogInv, Answered

LEMMA DogStep ==
  ASSUME Limit \cup {Default} \subseteq 0 .. MaxAge,
         RunInv, DogType, DogInv, Next \/ UNCHANGED vars
  PROVE  (DogType /\ DogInv)' /\ (Next => Shortens)
<1>0. \A q \in Run : /\ age[q] \in Nat /\ age[q] <= MaxAge /\ MaxAge \in Nat
                     /\ StepsLeft(q) \in Nat /\ limit[q] <= MaxAge
  <2> TAKE q \in Run
  <2>1. age[q] \in Nat /\ age[q] <= MaxAge /\ MaxAge \in Nat /\ limit[q] <= MaxAge
    BY ExecutorAssumption DEF RunInv, RunType, DogInv
  <2>2. PlacesLeft(q) \in Nat /\ ProcessLeft(q) \in Nat /\ DogLeft(q) \in Nat
    BY DEF PlacesLeft, ProcessLeft, DogLeft
  <2> QED
    BY <2>1, <2>2 DEF StepsLeft
<1>1. CASE UNCHANGED execution
  <2>1. (DogType /\ DogInv)'
    BY <1>1 DEF execution, DogType, DogInv, Answered
  <2>2. \A q \in Run : StepsLeft(q)' = StepsLeft(q)
    BY <1>1 DEF execution, StepsLeft, PlacesLeft, ProcessLeft, DogLeft
  <2>3. \A q \in Run : ~ExecutorStep(q)
    BY <2>2, StepShortens, LessIsNotSame
  <2> QED
    BY <1>0, <2>1, <2>2, <2>3 DEF Shortens
<1>2. ASSUME NEW r \in Run,
             ExecutorStep(r) \/ FindTool(r) \/ RecordExecution(r) \/ \E t \in Limit : Debug(r, t)
      PROVE  (DogType /\ DogInv)' /\ Shortens
  <2>1. \A q \in Run \ {r} : /\ at'[q] = at[q] /\ limit'[q] = limit[q] /\ age'[q] = age[q]
                             /\ proc'[q] = proc[q] /\ dog'[q] = dog[q] /\ stop'[q] = stop[q]
    BY <1>2, OthersStay DEF RunInv
  <2>2. \A q \in Run \ {r} : StepsLeft(q)' = StepsLeft(q)
    BY <2>1 DEF StepsLeft, PlacesLeft, ProcessLeft, DogLeft
  <2>3. /\ DogType'
        /\ at'[r] \in {"idle", "refused"} => dog'[r] = "off"
        /\ Answered(r)' => dog'[r] = "off" \/ stop'[r]
        /\ age'[r] <= MaxAge /\ limit'[r] <= MaxAge
        /\ ExecutorStep(r) => StepsLeft(r)' < StepsLeft(r)
        /\ at[r] # "idle" => StepsLeft(r)' <= StepsLeft(r)
    <3>1. CASE ExecutorStep(r)
      <4>1. /\ StepsLeft(r)' \in Nat /\ StepsLeft(r) \in Nat /\ StepsLeft(r)' < StepsLeft(r)
            /\ Answered(r)' => dog'[r] = "off" \/ stop'[r]
            /\ at'[r] \in {"idle", "refused"} => dog'[r] = "off"
            /\ age'[r] <= MaxAge /\ limit'[r] = limit[r]
            /\ DogType'
        BY <3>1, StepShortens
      <4> QED
        BY <1>0, <4>1
    <3>2. CASE FindTool(r) \/ RecordExecution(r)
      <4>1. /\ at[r] \in {"told", "record"} /\ at'[r] \in {"record", "answered"}
            /\ UNCHANGED <<limit, age, proc, dog, stop>>
        BY <3>2 DEF FindTool, RecordExecution, GoTo, RunInv, RunType
      <4>2. StepsLeft(r)' = StepsLeft(r)
        BY <4>1 DEF StepsLeft, PlacesLeft, ProcessLeft, DogLeft
      <4>3. ~ExecutorStep(r)
        BY <4>2, StepShortens, LessIsNotSame
      <4> QED
        BY <1>0, <4>1, <4>2, <4>3 DEF DogType, DogInv, Answered
    <3>3. CASE \E t \in Limit : Debug(r, t)
      <4>1. /\ at[r] = "idle" /\ dog[r] = "off" /\ UNCHANGED <<age, proc, stop>>
            /\ \/ at'[r] = "refused" /\ UNCHANGED <<limit, dog>>
               \/ at'[r] = "told" /\ UNCHANGED dog /\ limit'[r] <= MaxAge
               \/ at'[r] = "spawn" /\ dog' = [dog EXCEPT ![r] = "blind"] /\ limit'[r] <= MaxAge
        <5>1. at[r] = "idle" /\ dog[r] = "off" /\ limit[r] <= MaxAge
          BY <3>3 DEF Debug, DogInv
        <5>2. CASE GoTo(r, "refused") /\ UNCHANGED <<code, limit, age, proc, exit, dog, stop, result>>
          BY <5>1, <5>2 DEF GoTo, RunInv, RunType
        <5>3. ASSUME NEW t \in Limit, ExecCode(r, t)
              PROVE  /\ UNCHANGED <<age, proc, stop>> /\ limit'[r] <= MaxAge
                     /\ \/ at'[r] = "told" /\ UNCHANGED dog
                        \/ at'[r] = "spawn" /\ dog' = [dog EXCEPT ![r] = "blind"]
          BY <5>3 DEF ExecCode, GoTo, RunInv, RunType
        <5> QED
          BY <3>3, <5>1, <5>2, <5>3 DEF Debug
      <4>2. ~ExecutorStep(r)
        <5> SUFFICES ASSUME ExecutorStep(r) PROVE FALSE
          OBVIOUS
        <5>1. CASE Execute(r) \/ Tick(r)
          BY <4>1, <5>1 DEF Execute, Spawn, Register, Communicate, Kill, Finish, Tick
        <5>2. CASE Watcher(r)
          BY <4>1, <5>2 DEF Watcher
        <5>3. CASE Terminate(r) \/ CpuExceeded(r)
          BY <4>1, <5>3 DEF Terminate, CpuExceeded, Exits, RunInv, PlaceInv
        <5> QED
          BY <5>1, <5>2, <5>3 DEF ExecutorStep
      <4> QED
        BY <1>0, <4>1, <4>2 DEF DogType, Answered
    <3> QED
      BY <1>2, <3>1, <3>2, <3>3
  <2>4. \A q \in Run \ {r} : ~ExecutorStep(q)
    BY <2>2, StepShortens, LessIsNotSame
  <2>5. DogInv'
    BY <2>1, <2>3 DEF DogInv, Answered
  <2>6. Shortens
    BY <1>0, <2>2, <2>3, <2>4 DEF Shortens
  <2> QED
    BY <2>3, <2>5, <2>6
<1> QED
  BY <1>1, <1>2 DEF Next, vars

(***************************************************************************)
(* Whatever the code does, its run comes to an end: until it has been      *)
(* answered the thread can go on, time can pass or the system ends the     *)
(* process, then the watchdog is free to leave, and each of these steps    *)
(* takes something away of what is left (executor.py, exec_code).  The     *)
(* bound on time leaves room for the limits of the requests.               *)
(***************************************************************************)
THEOREM RunsComeToAnEnd ==
  ASSUME Limit \cup {Default} \subseteq 0 .. MaxAge
  PROVE  Spec => []RunsGoOn /\ [][Shortens]_vars
<1>1. RunInv /\ DogInv => RunsGoOn
  <2> SUFFICES ASSUME RunInv, DogInv, NEW r \in Run, ~Answered(r), at[r] # "idle" PROVE CanGoOn(r)
    BY DEF RunsGoOn, DogInv
  <2>1. at[r] \in {"spawn", "register", "kill", "finish", "communicate"}
    BY DEF RunInv, RunType, Place, Answered
  <2>2. CpuLimit \in Nat /\ MaxAge \in Nat /\ age[r] \in Nat /\ limit[r] \in Nat
    BY ExecutorAssumption DEF RunInv, RunType
  <2>3. ~Overdue(r) => age[r] < MaxAge
    BY <2>2 DEF Overdue, DogInv
  <2> QED
    BY <2>1, <2>2, <2>3 DEF CanGoOn
<1>2. Init => DogType /\ DogInv
  BY DogInitial
<1>3. RunInv /\ DogType /\ DogInv /\ [Next]_vars => (DogType /\ DogInv)' /\ [Shortens]_vars
  BY DogStep
<1> QED
  BY <1>1, <1>2, <1>3, ToolInvariant, PTL DEF Spec
===============================================================================
