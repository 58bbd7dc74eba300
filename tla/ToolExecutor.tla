----------------------------- MODULE ToolExecutor -----------------------------
(***************************************************************************)
(* Running the code of a tool in a process of its own                      *)
(* (src/apps/tool/infra/executor.py): the thread of the request that       *)
(* starts the process and waits for it, the watchdog thread beside it, and *)
(* the limits the system puts on the process.                              *)
(*                                                                         *)
(* A program is what the executor can tell of it: whether it has a banned  *)
(* word, parses and passes pylint, and what it does with its time and      *)
(* memory.  What it prints is left out.                                    *)
(***************************************************************************)
EXTENDS Naturals

CONSTANTS
  Run,        \* runs of code, one for each request
  Program,    \* programs: [banned, parses, clean : BOOLEAN, does : Behaviour]
  Limit,      \* time limits that requests give, 0 for none
  CpuLimit,   \* SandboxConfig.cpu_limit
  Default,    \* SandboxConfig.timeout
  MaxAge      \* bound: the time a model run may take

Behaviour == {"ends", "raises", "spins", "waits", "hogs"}

ASSUME ExecutorAssumption ==
  /\ {CpuLimit, Default, MaxAge} \subseteq Nat /\ Limit \subseteq Nat
  /\ \A p \in Program : p.does \in Behaviour

VARIABLES
  at,       \* what the thread of the request does next
  code,     \* the program it was given
  limit,    \* the seconds it has
  age,      \* the seconds since the watchdog was started
  proc,     \* the process: none, running, dead, or reaped
  exit,     \* how it ended
  dog,      \* the watchdog: off, without a pid, or watching one
  stop,     \* the event that ends the watchdog
  result    \* what exec_code returned

execution == <<at, code, limit, age, proc, exit, dog, stop, result>>

ExecutorInit ==
  /\ at = [r \in Run |-> "idle"] /\ code \in [Run -> Program]
  /\ limit = [r \in Run |-> 0] /\ age = [r \in Run |-> 0]
  /\ proc = [r \in Run |-> "none"] /\ exit = [r \in Run |-> "none"]
  /\ dog = [r \in Run |-> "off"] /\ stop = [r \in Run |-> FALSE]
  /\ result = [r \in Run |-> "none"]

-----------------------------------------------------------------------------
(* The thread of the request.                                              *)

GoTo(r, place) == at' = [at EXCEPT ![r] = place]
Answer(r, status) == result' = [result EXCEPT ![r] = status]

Precheck(p) == ~p.banned /\ p.parses

\* The words and the syntax first; the clock of the watchdog starts here.
ExecCode(r, t) ==
  /\ limit' = [limit EXCEPT ![r] = IF t = 0 THEN Default ELSE t]
  /\ IF Precheck(code[r])
     THEN /\ GoTo(r, "spawn") /\ dog' = [dog EXCEPT ![r] = "blind"]
          /\ UNCHANGED result
     ELSE GoTo(r, "told") /\ Answer(r, "REJECTED") /\ UNCHANGED dog
  /\ UNCHANGED <<code, age, proc, exit, stop>>

\* Popen returns, or raises: then only the watchdog is left, and told.
Spawn(r) ==
  /\ at[r] = "spawn"
  /\ \/ GoTo(r, "register") /\ proc' = [proc EXCEPT ![r] = "running"] /\ UNCHANGED stop
     \/ GoTo(r, "raised") /\ stop' = [stop EXCEPT ![r] = TRUE] /\ UNCHANGED proc
  /\ UNCHANGED <<code, limit, age, exit, dog, result>>

\* The watchdog has looked for the pid in vain until now.
Register(r) ==
  /\ at[r] = "register"
  /\ GoTo(r, "communicate")
  /\ dog' = [dog EXCEPT ![r] = IF @ = "blind" THEN "watches" ELSE @]
  /\ UNCHANGED <<code, limit, age, proc, exit, stop, result>>

\* Variant: the limit is in another unit than the clock.
NeverOverdue(r) == age[r] > MaxAge

Overdue(r) == age[r] >= limit[r]

\* The end of the process, or of the patience.
Communicate(r) ==
  /\ at[r] = "communicate"
  /\ \/ /\ proc[r] = "dead"
        /\ proc' = [proc EXCEPT ![r] = "reaped"] /\ GoTo(r, "finish")
     \/ /\ Overdue(r)
        /\ GoTo(r, "kill") /\ UNCHANGED proc
  /\ UNCHANGED <<code, limit, age, exit, dog, stop, result>>

\* What a process that runs dies of; one that is dead keeps what it died of.
Die(r, how) ==
  /\ proc' = [proc EXCEPT ![r] = IF @ = "running" THEN "dead" ELSE @]
  /\ exit' = [exit EXCEPT ![r] = IF proc[r] = "running" THEN how ELSE @]

\* Variant: the process is left to the watchdog, which is stopped.
KillNothing(r) ==
  /\ at[r] = "kill"
  /\ GoTo(r, "told") /\ Answer(r, "TIMEOUT")
  /\ stop' = [stop EXCEPT ![r] = TRUE]
  /\ UNCHANGED <<code, limit, age, dog, proc, exit>>

Kill(r) ==
  /\ at[r] = "kill"
  /\ Die(r, "killed")
  /\ GoTo(r, "told") /\ Answer(r, "TIMEOUT")
  /\ stop' = [stop EXCEPT ![r] = TRUE]
  /\ UNCHANGED <<code, limit, age, dog>>

Finish(r) ==
  /\ at[r] = "finish"
  /\ stop' = [stop EXCEPT ![r] = TRUE]
  /\ Answer(r, IF exit[r] = "0" THEN "SUCCESS" ELSE "FAILURE")
  /\ GoTo(r, "told")
  /\ UNCHANGED <<code, limit, age, proc, exit, dog>>

Execute(r) == Spawn(r) \/ Register(r) \/ Communicate(r) \/ Kill(r) \/ Finish(r)

-----------------------------------------------------------------------------
(* The process and its limits.                                             *)

Exits(r, how) ==
  /\ proc[r] = "running" /\ Die(r, how)
  /\ UNCHANGED <<at, code, limit, age, dog, stop, result>>

\* Its memory is limited twice: by the system, and by the watchdog.
Terminate(r) ==
  \/ code[r].does = "ends" /\ Exits(r, "0")
  \/ code[r].does \in {"raises", "hogs"} /\ Exits(r, "1")

\* The processor time of a loop runs with the clock, to the limit.
CpuExceeded(r) ==
  /\ code[r].does = "spins" /\ age[r] >= CpuLimit /\ Exits(r, "SIGXCPU")

\* A second passes.
Tick(r) ==
  /\ at[r] \notin {"idle", "told", "raised"} /\ age[r] < MaxAge
  /\ code[r].does = "spins" /\ proc[r] = "running" => age[r] < CpuLimit
  /\ age' = [age EXCEPT ![r] = @ + 1]
  /\ UNCHANGED <<at, code, limit, proc, exit, dog, stop, result>>

-----------------------------------------------------------------------------
(* The watchdog, every 0.2 seconds.                                        *)

DogLeaves(r) == dog' = [dog EXCEPT ![r] = "off"]

Watcher(r) ==
  /\ dog[r] # "off" /\ DogLeaves(r)
  /\ \/ stop[r] /\ UNCHANGED <<proc, exit>>
     \/ /\ ~stop[r] /\ dog[r] = "watches"
        /\ \/ Overdue(r) /\ Die(r, "killed")
           \/ ~Overdue(r) /\ code[r].does = "hogs" /\ proc[r] = "running" /\ Die(r, "killed")
           \/ ~Overdue(r) /\ proc[r] # "running" /\ UNCHANGED <<proc, exit>>
  /\ UNCHANGED <<at, code, limit, age, stop, result>>

ExecutorStep(r) ==
  Execute(r) \/ Terminate(r) \/ CpuExceeded(r) \/ Tick(r) \/ Watcher(r)
===============================================================================
