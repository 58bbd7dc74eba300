# Formal models of yx-agent

yx-agent is a Django application that runs AI applications: chat over knowledge
bases, and *workflows*, directed graphs of nodes (LLM calls, forms, conditions,
loops, tools) that a concurrent scheduler executes. This directory holds TLA+
models of it, TLC configurations that check them on small instances, and
proofs checked by TLAPS for every instance.

Paths below are relative to `src/apps`.

## The system

| component | state | operations | interacts with |
|---|---|---|---|
| workflow scheduler, `agent/engine/executor.py` | thread pool and its queue; per run a `_Scope`: `pending`, `done`, `activated`, `error`, the idle event | `run`, `run_subgraph`, `_run_node`, `_next_nodes`, `acquire`/`release`/`abort` | asks the graph for edges, writes results to the context store, emits events |
| workflow graph, `agent/engine/graph.py` | nodes, ordered edges, adjacency lists | `add_node`, `add_edge`, queries, `validate` (Kahn), JSON | saved by the views, run by the scheduler |
| loop nodes, `agent/engine/nodes/loop_node.py` | `loop_vars`, `_loop_depth` in the shared context store | iterations, break, continue | call back into `run_subgraph` from a pool worker |
| context store and node library, `engine/context.py`, `engine/comparators.py`, `engine/nodes` | global, chat, loop and node variables under one lock | `write_result`, resolve, render, compare; one `execute` per node type | every node of a run, in parallel branches |
| workflow service and resume, `agent/services.py`, `engine/persistence.py` | one `workflow_execution` row: status, done, next, context, frozen graph | `execute`, `snapshot`, `resume`/`restore` | scheduler, database |
| editing and publishing, `agent/views.py` | `Application.work_flow` (draft), `ApplicationVersion` rows | save, publish, debug | validation, service |
| chat, `chat/views.py`, `chat/sse.py`, `chat/engine/v1` | an event queue per request, `Chat`, `ChatRecord`, history in Redis | post, stream, save record, push history, rename | pipeline thread produces, HTTP response consumes |
| access limit, `chat/auth.py`, `common/cache.py` | a counter per application, identity and day | `ensure_access`, `cache_incr` | Redis |
| triggers, `trigger/`, `common/redis_lock.py` | `Trigger` and `TriggerTask` rows, in-memory jobs of each process, a Redis lock | create, edit, toggle, delete, restore at start, fire | Celery |
| model gateway, `model_platform/service/gateway.py` | cache of model objects, a lock per model and process | `get_model`, `invalidate` | database, cache, the views that edit and delete |
| ingestion, `knowledge/services/ingest.py`, `knowledge/tasks.py` | status of document, tasks and paragraphs | upload, split, embed, refresh, edit | event bus, Celery with once locks, vector store |
| text splitting, `knowledge/splitter` | the tree of sections of a text | choose a handler, parse, cut | ingestion |
| tool sandbox, `tool/infra/executor.py`, `tool/services.py` | a child process, a watchdog thread, the record of a run | `exec_code`, `record_execution` | operating system |
| tool catalogue, `tool/views.py` | `Tool` rows: draft or published, code | create, edit, publish, import, delete, debug | pylint, sandbox |
| identity and workspaces, `identity/`, knowledge views | users, workspaces, members; bases and terms kept in a workspace | create, edit, delete, with the checks of each request | database with foreign keys |
| retrieval, MCP, model providers, configuration | single rows, or none | request handlers, adapters | database, remote services |

What is hard about it, line by line, is the list `hazards` of `PROJECT.json`.
In short: the scheduler's counter and its two critical sections under any
interleaving of the pool; aborts racing the other workers; AND joins judged
from a changing set; snapshots that keep part of the run; statements in
autocommit with another request or the end of the process between them;
read-modify-write on Redis; locks that expire under their holder; jobs in the
memory of several processes; a stream whose consumer may leave; a process that
three parties may end.

What makes each component correct:

* scheduler: a node runs at most once, after a predecessor; `run` returns
  exactly when everything is over, and always returns; joins wait for what
  they should; no successor is lost.
* graph: an accepted graph has one entry, closed loops and no cycle.
* loops: iterations are sequential, a break ends its loop and no other, an
  error reaches `run`.
* context and nodes: the answer is one a last answering node gave; a comparator
  and its negation decide.
* resume: the saved context fits the saved done set, and a resumed run executes
  exactly what the first one left.
* publishing: a published application stays published.
* chat: every stream ends; the record holds what was shown, the history what
  was pushed.
* counters and locks: the limit is kept, no two holders.
* triggers: an enabled trigger has a job, and keeps its task through edits.
* gateway: after an invalidation nobody is served the old model; it is built once.
* ingestion: a status is earned, a failure is told, every upload settles.
* splitting: no text is lost; titles are the nearest; cuts are at the best break.
* tools: no process outlives its request; records are true; what is published
  was checked.
* workspaces: an owner is a member, and so is whoever makes a base.

## Modules

| module | models |
|---|---|
| `WorkflowGraph` | the graph as a value and the queries of `graph.py`; the routing filter of `_next_nodes` |
| `Scheduler` | `Executor.run` on the main graph |
| `Dataflow` | what `run` promises, without pool, counters and locks |
| `GraphCheck` | `WorkflowGraph.validate` with Kahn's algorithm as a state machine |
| `LoopExecutor` | `Executor.run` with `run_subgraph` and the loop nodes: nested scopes in one pool |
| `WorkflowService` | `execute`, snapshot, `resume` over `Scheduler`, saving the draft, publishing |
| `ContextStore`, `NodeLibrary` | variables, references, templates, comparators; the built-in nodes at work on one store |
| `ChatStream` | turns of one chat: view, pipeline thread, queue between them, records, history |
| `AccessLimit`, `ModelGateway`, `SharedCache` | the daily counter; the cached model; both over one cache that may restart |
| `Triggers` | rows, processes with their jobs, requests, firings under the Redis lock |
| `Splitter`, `SplitModel` | which handler takes a file and whether it returns; the tree of headings and the cutting of sections |
| `Ingest` | documents from upload to vectors (uses `Splitter`) |
| `ToolExecutor`, `ToolCatalogue` | one run of code with process and watchdog; the rows and records around it |
| `Workspaces` | users, workspaces, members, bases, terms |
| `WorkflowProofs` | theorems about `Scheduler`, `WorkflowService` and `GraphCheck` |
| `LoopProofs`, `ChatProofs`, `TriggerProofs`, `ToolProofs` | theorems about `LoopExecutor`, `ChatStream`, `Triggers`, the tool modules |
| `NodeProofs` | theorems about `ContextStore` and `NodeLibrary`, and about the default template of `MCNodeLibrary` |
| `SharedProofs` | theorems about `SharedCache`'s two parts and about `Workspaces` |
| `IngestProofs` | theorems about `Ingest` and `SplitModel` |
| `MCScheduler`, `MCAlgorithms`, `MCWorkflowService`, `MCLoopExecutor`, `MCNodeLibrary`, `MCSharedCache`, `MCChatStream`, `MCTriggers`, `MCIngest`, `MCToolCatalogue`, `MCWorkspaces` | the instances TLC runs on |

Modules that compose others: `WorkflowService` extends `Scheduler` and starts
its runs; `NodeLibrary` extends `ContextStore`; `SharedCache` puts `AccessLimit`
and `ModelGateway` on one cache; `ToolCatalogue` extends `ToolExecutor`; `Ingest`
instantiates `Splitter`; `Scheduler` implements `Dataflow`. Operators marked
"Variant" in a comment are ways in which the code could have been wrong; each
property was seen to fail under one.

### Scheduler and the code

A graph is a record; edges keep their order and are named by index, so that
two edges between the same nodes stay two. A pool task is a record of its node,
depth, phase and the edges it chose. `tasks` is the pool's submission order,
`started` how far the FIFO queue has been handed to workers; a worker is a task
started and not over, and there are at most `PoolSize`.

| code | model |
|---|---|
| `run` 61-76 | `Run`, `Wake` (the event is set: shut the pool down), `Join` (workers gone: return or raise) |
| `_Scope.abort`, `release` | `Abort`, `Release` |
| `_run_node` 96-117 | `Start` (depth check), `Execute`, `Interrupt`, `Fail`, `MarkDone`, `NextNodes`, `Acquire`, `ReleaseSelf`, `Submit` |
| `_next_nodes` 130-155 | `Selected` inside `NextNodes`: one critical section |
| `pool.submit` after shutdown | the second case of `Submit`: the task ends, its exception stays in a Future |

Each critical section of `scope.lock` is one action, so every interleaving of
the real threads is a behaviour of the model. `pending` may become negative
after an abort, as in the code. A condition node may return any branch; a form
node interrupts unless a form was submitted; the nodes in `MayFail` may raise.
Values of variables are `NodeLibrary`'s matter, nested scopes `LoopExecutor`'s.

### GraphCheck and the code

`RejectStart` and `RejectContainers` are the structural checks, `StartCounting`
the counting loop and the initial queue, `PopLeft` one iteration of the
`while`, `Decide` the comparison of `seen` with the number of nodes. The order
in which nodes enter the queue, in the code that of a dict and of the edges, is
any order: the verdict does not depend on it. `AcceptsExactlyAcyclic` says what
a cycle is without a path: `Reach(n)` is the least set of nodes that holds where
the counted edges of `n` lead and is closed under them.

### WorkflowService and the code

`ExecuteDraft` and `Resume` build the graph, store and pre-done set of a new run
and `Launch` it; `Running` are the scheduler's own steps; `Snapshot` is the
`except WorkflowInterrupt` of `execute` with `_upsert`, which writes the graph
only into a new row; `Finish` is every other end of a run, among them an
interrupt of a resumed run, which `resume` does not catch. `Edit` is the
editor's `put`. A publish reads the draft, then unpublishes in its transaction
what is committed, and commits with its own version; two of them interleave. The store is the set of nodes whose result is in it. Sessions run
one after another.

### LoopExecutor and the code

All tasks of all scopes share `tasks`, as they share the pool; a task names its
scope, and `scopes[1]` is the main graph's. The first half of the module is
`_Scope` and `_run_node` again, per scope; the second half is
`LoopNode.execute`: `EnterLoop` and `WriteDepth` (lines 15-24), then for each
iteration `SetLoop`, `RunSubgraph` (a new scope, its first task, the worker
blocks), `EndIteration` or `RaiseFromBody`, and at last `ExitLoop`. The worker of
a waiting loop stays busy. `loop_vars` is its owner, index and `_break`; `LoopsAlone`
says which workflows keep the loops with breaks apart. The executor is there for
the loop-node, as `run_workflow` provides it; the services of
`ApplicationWorkflowService` do not provide it (see Divergences).

### ContextStore, NodeLibrary and the code

A value is None, a number, a text (tokens), a list or a dict. `Resolve`, the
rendering of templates and the comparators follow `context.py` and
`comparators.py` case by case, with what raises. In `NodeLibrary` a node
`executes` (it reads the store and computes its result) and is `written` later,
so that nodes of parallel branches see each other's results or not; what an
external call returns is any of a few outcomes, or an exception. Which node may
run is one step here, since `Scheduler` treats its interleavings. `Closure` says
what a chain of edges leads to, without a path: what is in every set that holds
the first nodes and is closed under the edges. `Behind` and `Around` are such
sets, and `AnswersInOrder` says with them which workflows have a certain answer.
`Whole` says what values are made of, `IsConfigured` that a workflow's constants
and references are made so.

### ChatStream and the code

A turn is a view, whose generator the server pulls frame by frame and may drop
at any frame (the client left), and a pipeline in a thread of its own. The steps
of the pipeline stand in the code's order and each may fail. Saving is
statement by statement. The second endpoint
(OpenAI compatible) opens and ends its stream with a frame of its own and shows
its client what `Convert`, the adapter, passes on. The model gives chunks of an
answer and of its reasoning; both are put together after the last chunk.

| code | model |
|---|---|
| `post` 26-56, first pull, every further one | `Post`, `Open`, `Pull`; `Drop` if the generator was never started |
| `emitter.events`/`stream`, `[DONE]` | `Get`, `Done` |
| `finally`, by the end or by `GeneratorExit` | `Finish`, `Disconnect` |
| `_save_record` 75-77, 78-82, 83 | `SaveName`, `CreateRecord`, `SetCurrent` |
| `push_history`, for the question and for the answer | `ReadHistory`, `WriteHistory` |
| a statement of these that raises | `FailToSave`: the rest is not done |
| the TTL of an hour, or Redis losing the key | `ExpireHistory`, at any time, within a save or a push too |

Four variables are ghosts: `log` has everything that was pushed, `base` how much
of it the cached history was written without, because the cache had lost that
before the last push read; `kept` remembers it for a push that has read, and
`overlap` says that two turns were saved at once.

### AccessLimit, ModelGateway and the code

`cache_incr` is two steps: an `INCR` of a key that is there, or the miss and
the later `set`. `get_model` is the read of the cache, the lock of the process,
the second read, the read of the row, the build and the store; an edit is read,
save and invalidate, and so is a deletion. `Restart` empties both keys.

### Triggers and the code

A request changes a row statement by statement (`serializers.py` deletes and
creates the task, twice) and then the jobs of the process that serves it. A
process that starts restores jobs from the table until a setting raises.
A firing is `run_trigger`: take the lock with a token of its own, read the
row, hand the task to Celery, leave. A process may end anywhere; the lock stays
until it expires, which it may do under a holder that works on.

### Splitter, SplitModel, Ingest and the code

`Splitter` is the chain of handlers as a choice on suffix and source, with what
each handler needs of a file. `SplitModel` reads lines into a stack of open
sections, walks the sections in preorder and cuts each one, one nested call of
`smart_split_paragraph` at a time. `Ingest` has a row, a task and paragraphs per
document; every statement is a step, a worker's phase is named for what it does
next. Celery and celery-once are external: a queue, a lock per task and key, a
worker that may die with its task, a lock that may expire. (`config.celery`,
from which `knowledge/tasks.py:4` takes the application, is not in the
repository; what a queue and its workers do is taken from how the tasks are
declared.) An edit reads a document and writes it back, with a status and counts
of its own if the body of the request has them, which the serializer allows
(`knowledge/serializers.py:23`); the row remembers that as `given`. Its name,
kind and meta, which an edit may change as well, are left out, so a document
keeps its file. A worker's own changes are never `given`. `cut` are documents
whose embedding lost its worker between saying STARTED and the end.

### ToolExecutor, ToolCatalogue and the code

The thread of the request checks, starts the process, tells the watchdog its
pid, waits, and reaps; the watchdog, `communicate` and the system's limit on
processor time may each end the process. Time is a clock per run, up to
`MaxAge`. Rows are read and written back in separate steps.

### Workspaces and the code

A request is let in, is checked and writes, each in a step; what it read stays
with it. The database refuses a row that refers to one that is gone, and
deletes with a row what refers to it (`on_delete=CASCADE`; the folders, whose
deletion sets null, are left out). That is an assumption of the model and no
result. The request that posts a member writes the member it finds with
`require_owner_or_manage`, the one that asks, and not the user its body names.

## Runs

| run | bounds | shows |
|---|---|---|
| `SchedulerAll` | all DAGs on five nodes with one source, every choice of AND joins; four-node DAGs with a condition; forms, failing nodes and a depth limit of 3; three workers; fair threads | `AtMostOnce`, `QuietWhenIdle`, `NoLostSuccessor`, `JoinWaitsForSiblings`, refinement of `Dataflow`, `RunReturns` |
| `SchedulerSkipped` | one workflow | a violation, see Findings |
| `AlgorithmsAll` | validation: every edge set on three nodes (self edges too), on four without, doubled edges, two starts, loops with body and container varied; splitting: every text of up to five lines in the set of `MCAlgorithms`, limits 0, 2, 3, 4 | `AcceptsExactlyAcyclic`, `TitleIsNearest`, `SectionsAreWhole`, `CutsAtBestBreak` |
| `LoopAll` | bodies that fork, join, fail, ask for input, break, continue or exceed the depth; loops in a row, nested, side by side; two iterations, three workers; fair threads | `IterationsDoNotOverlap`, `ErrorReachesRun`, `LoopsStopAtBreak`, `RunReturns` |
| `ResumeAll` | forms alone, before a condition, with branches, in parallel and in a row; a node that may fail; drafts edited into each other; three runs, two workers; two publishers | `SnapshotIsExact`, `ResumeRepeatsNothing`, `ResumeCompletes`, `StaysPublished` |
| `NodesAll` | the shipped default workflow and eight small ones that use every node type, with every outcome of external calls | `AnswerIsOfALastNode`, `DefaultAnswers`, `NegationsDecide` |
| `ChatAll` | two turns of one chat, one on each endpoint, one chunk (of answer or reasoning) for the first and none for the second, a history of three entries, any loss of the cache | `RecordIsWhatWasShown`, `HistoryFollowsRecords`, `WaitIsAnswered` |
| `CacheAll` | three requests under limit 2 (and none), three readers in two processes, two editors | `GrantedAtMost`, `CacheIsCurrent`, `BuiltOnce` |
| `TriggersAll` | two processes, one trigger, two requests, one crash, one due time, any expiry | `OneInside`, `EnabledHasJob`, `EditKeepsTask` |
| `IngestAll` | one document of five kinds of files, two workers, one editor, one fault; fair workers | `SuccessIsWhole`, `FailureIsTold`, `UploadSettles` |
| `ToolAll` | one run of each kind of program, limits 0 and 1 beside a processor limit of 2 and a default of 3, clock up to 4; one tool, two editors | `NothingLeftRunning`, `RecordTellsRun`, `PublishedWasChecked`, `RunsEnd` |
| `WorkspacesAll` | two users, one workspace, base and term, three requests at once, which are symmetric | `OwnerIsMember`, `MakerIsMember` |

Why these bounds are enough: a race of the scheduler involves at most two
finishing predecessors, their common successor, the node behind it and one
bystander, which five nodes and three workers hold; no shape of that size is
left out, and the proofs cover the other sizes. A resume can go wrong through
one form, one bypassing branch and one earlier run; a third run resumes the same
row again. Two iterations are enough for one to follow another, two loops for
one to disturb the other, three workers let both wait while a body runs. In
`LoopAll` nothing aborts the main graph beside a loop, and nested or parallel
loops have no breaks (see Divergences). Every race of the other modules is
between two actors over one row or key, and a third one only arrives after; the
cache run has three so that two race and one meets what they leave. A history of
three entries is cut both at and inside a turn. One chunk tells an answer from
none; the proofs cover the other numbers of chunks, turns and entries. Behind
the check of a membership a second request may delete the user and a third write
the row again, so the workspaces have three requests. A fault of the ingestion
is a worker that dies, a lock that expires or a task that is not queued; the
proofs cover any number of them. In the tool run the limits are
chosen so that the watchdog, the processor limit and the default of
`communicate` are each the first for some program.
Where a bound caps what the environment may do (`MaxFaults`, `MaxCrashes`,
`MaxRequests`, `MaxTime`, `MaxAge`, `MaxRuns`), the constant says so.

Deadlock is checked except where the system may stop because every actor is
done or gone: the runs of the cache, the chat, the ingestion, the tools, the
triggers and the workspaces. In the others a finished run stutters
(`Terminated`), so one that is stuck elsewhere is reported.

Fairness. `RunReturns` (of `Scheduler` and of `LoopExecutor`) assumes weak
fairness of the thread in `run` and of the pool as a whole: the operating system
schedules runnable threads, the pool hands out its queue in order and every
modelled `execute` returns. Whether a node fails is left open. `UploadSettles`
assumes that a worker which lives goes on, and strong fairness of taking a
document's splitting task: other tasks may keep the workers busy for a while,
but the queue is first in, first out. `RunsEnd` assumes that the request's thread
and the watchdog are scheduled, that clocks tick and that the system enforces
the limit on processor time; nothing makes a program end. `WaitIsAnswered` needs
no fairness: it says that whoever blocks has a thread that still runs and whose
every way out puts the sentinel.

## Findings

* `SchedulerSkipped` (`executor.py:141`): if the predecessor that finishes last
  takes a branch away from the join, the join is never looked at again and the
  run succeeds without it; `executor.py:6` says skipped upstreams do not block.

## Divergences and limits met while modelling

Left without a run. They are stated so that a reader of the properties knows
what their conditions leave out. First those in which the code does something
else than a comment, docstring or test beside it says.

| the repository says | the code does | how the models see it |
|---|---|---|
| `agent/engine/nodes/loop_node.py:79`: "continue 视作本轮提前结束" (a continue ends its round early) | the continue sets `_break`, and line 31 leaves the whole loop; `_continue` is read nowhere | `Execute`, `EndIteration`; `LoopsStopAtBreak` demands an end only after a break, and lets a loop end early after either |
| `tool/tests/test_sandbox_escape.py:70`: `test_infinite_loop_times_out` asserts `r["status"] == "TIMEOUT"` under `timeout=10` (`conftest.py:10`) | `RLIMIT_CPU` (`tool/infra/executor.py:129`) ends the loop after the default five seconds of processor time, and the answer is FAILURE | `CpuExceeded`; `RecordTellsRun` leaves open how an endless loop is told |
| `chat/cache.py:14`: "TTL 必须设置，过期从 DB 重建" (what has expired is rebuilt from the database) | `get_history` returns an empty list, and nothing but `push_history` fills it | `ExpireHistory`; `HistoryFollowsRecords` counts what was pushed since the loss (`base`) |
| `chat/cache.py:33`: "追加 {role, content} 到历史" (appends to the history) | read, append and write without a lock: of two turns that are saved at once one loses entries | `ReadHistory`, `WriteHistory`; excepted by `overlap` |
| `chat/views.py:75`: "首轮用首问做会话标题" (the first turn names the chat by its question) | each turn looks at the copy it read before its stream, so that a later one names the chat again, and over the user's name | `SaveName`; no property |
| `chat/views.py:51`: "流结束（或被打断）后落库 + 回写历史，保证记录完整" (saving after the stream ended or was interrupted keeps the record complete) | the answer is put together after the last chunk; a client that leaves before has seen chunks that its record has not | `Disconnect`, `Join`; `RecordIsWhatWasShown` speaks of messages that ended |
| `common/cache.py:7`: "原子自增；key 不存在时初始化为 delta" (atomic increment; a missing key begins at delta) | after a miss the key is set whatever another call has put there (line 11) | `Miss`, `Set`; `GrantedAtMost` allows the limit once per first value |
| `trigger/bootstrap.py:6`: "把所有启用中的定时触发器重新挂载到调度器" (puts all enabled timers back into the scheduler) | the first setting that cannot be read ends the loop, and `apps.py:15` swallows the exception | `LoadAllTriggers`; excepted by `poisoned` |
| `knowledge/domain/states.py:1`: "并做合法流转校验" (with a check of legal transitions) | only `split` asks `transit`; a PUT writes whatever status its body has (`knowledge/serializers.py:23`), and an edit may write back an old one | `SaveDocument`; excepted by `given` |
| `knowledge/splitter/split_model.py:26`: full stop before either of ！ and ？ | the three in a row, ！ before ？ (line 31) | `CutAt` follows the code |

"Excepted by" names the history variable through which a property leaves the
case out. That is so for `late` of `CacheIsCurrent` (a model built from the old
row is stored behind the invalidation and served for eight hours,
`model_platform/service/gateway.py:31`), for `overlap` and `torn` of
`EditKeepsTask` (another request or the end of the process cuts into an edit,
`trigger/serializers.py:32`), for `torn` of `OwnerIsMember` (the owner is deleted
before the membership is written, `identity/services.py:28`) and for `lost` of
`UploadSettles` (a worker dies with its task, and the document stays STARTED,
`knowledge/tasks.py:10`) as well. In all these cases the code does go wrong; the
property says that it does in no other.

* Scheduler and loops. An AND join counts the predecessors activated so far, so
  on paths of different length it may run early (`executor.py:150`; it holds for
  siblings, `JoinWaitsForSiblings`). Two edges between the same nodes, which
  `validate` accepts, run their target twice (`executor.py:134`). A self edge on
  a main-graph node passes validation (`graph.py:101`). As many loops as workers
  wait for each other, and a form beside a loop hangs `run` (`executor.py:85`,
  `:117`). `_loop_depth` is changed without the lock and nested or parallel
  loops share `loop_vars` (`loop_node.py:23`, `:27`). A workflow service gives
  its runs no executor, so loop nodes raise there (`services.py:55`).
* Resume. A form beside another branch loses what the abort cut off
  (`persistence.py:26`); `_form_submitted` stays set, so a second form takes the
  first one's data (`services.py:45`); the row keeps the first graph after an
  edit (`persistence.py:24`); all executions without a chat share one row
  (`persistence.py:22`).
* Publishing. Two concurrent publishes can leave two published versions;
  `execute` runs the draft, although docs speak of the published version
  (`agent/views.py:40`).
* Nodes. A variable assignment hands its braces to `get_field` and gets None; an
  evaluation takes the operator of its first condition for all.
* Triggers. A due time is fired once per process (`run.py:7`); a deleted trigger
  keeps its job in other processes (`trigger/views.py:63`).
* Gateway. An edit that writes its copy of the row back loses another's edit, or
  brings a deleted row back (`model_platform/views.py:78`).
* Ingestion. `PGVectorStore` lacks methods its base declares abstract, so that
  it cannot be instantiated: no embedding succeeds, a refresh raises after it
  has set the paragraphs to PENDING (`ingest.py:129`), every search raises.
  `EmbeddingItem` is not imported. Files have no `file_name`, so text, csv, html
  and pdf files always end in FAILURE. A re-embedding of a base stops at its
  first failure (`tasks.py:32`). A document whose embedding fails stays SUCCESS
  from its split (`ingest.py:106`).
* Splitting. A limit of 0 or less, and a text of very many pieces, end in
  `RecursionError`.
* Tools. Saving edits a published tool's code without a check, and so may an
  edit between the check and the save of a publish (`tool/views.py:69`); an
  import overwrites by name.
* Identity. Logging out bans the refresh token only; a registration code is not
  used up; term bases check no membership; posting a member writes the one who
  asks (`identity/views.py:164`), so that a workspace has no member but its owner.
* Missing and unrouted code. `config/celery.py`, which `knowledge/tasks.py:4` and
  with it every upload imports, is not in the repository; the models of
  ingestion and triggers take Celery as it is meant to be. `config/urls.py`
  includes the routes of common, identity, model platform, knowledge, chat, MCP
  and triggers; `tool/urls.py` and `agent/urls.py` exist but are not included,
  and the application has none. The views behind them are modelled as they stand.

## Proofs

All theorems hold for every value of the constants that satisfies the named
assumptions. Each invariant below is inductive; each proof module checks that
it holds initially, that each action keeps it (one lemma or step per action),
and that it implies the property.

* `WorkflowProofs`, one run (assumptions of `WorkflowGraph` and `Scheduler`:
  well-formed graphs with one start, a pool with a worker).
  `TypeCorrect`. `PendingIsExact`: `CountInv` adds that the chosen edges of a
  task are only those not yet submitted and that nothing is submitted before
  the release; each action moves `pending` and the set `Tokens` by the same
  element, which the cardinality theorems turn into the equality.
  `CompletionIsExact` (`QuietWhenIdle`) and `NothingRefused`: the event is set
  at `pending = 0`, then there is no token, then every task is over; a task that
  still has to submit holds a token, so the pool is not shut down.
  `RunsOnce` (`AtMostOnce`), for workflows without parallel edges: `OnceInv`
  says that the nodes of tasks and of edges still to be submitted are pairwise
  different and all activated, except the entry, which has no predecessor.
  `SuccessorsRun` (`NoLostSuccessor`), parallel edges or not: `FlowInv` says
  that a node once activated is held by a task or by an edge still to be
  submitted and that an abort leaves an aborted task; `FollowedInv` that an edge
  to be followed has activated its target, unless that is a join for which a
  predecessor is outstanding, which will look at it again after its own
  `done.add`. The run alone shows the end; the proof needs who still owes what
  in between. `JoinsWait` (`JoinWaitsForSiblings`): siblings are activated by
  one critical section before the first of them can choose (`JoinInv`), so the
  set an AND join was judged from is the final one.
  `RefinesDataflow` (`ImplementsDataflow`): under the mapping of `Scheduler`
  every action is an abstract step or a stutter; `UndoneInv` (a node whose task
  has not marked it is not done) makes `MarkDone` a real completion, which is
  why parallel edges are excluded.
  `RunIsNeverStuck` and `RunsAreFinite` are what `RunReturns` adds fairness to.
  `WakeInv`: workers take tasks in their order, and while the thread in `run` is
  not to be woken there is no error and `pending` is not 0, so that by
  `PendingIsExact` some task is not over; it is with a worker, or one is free for
  the first in the queue. `Remaining` is what a run may still do: the steps of
  every place, without those its task has passed. It is finite, and without
  parallel edges every step takes at least one away and brings none back. A
  condition-node needs a branch
  to return (`Branch # {}`).
* `WorkflowProofs`, the service. `SavedContextIsExact` (`SnapshotIsExact`):
  `ServiceInv` says that the store is the done set and the nodes of tasks
  between `write_result` and `done.add` (`StoreInv`), that a run comes back only
  after the pool has drained (`EndInv`), and that the row's parts fit together
  (`RowInv`). `ResumedRunsAreNew` (`ResumeRepeatsNothing`) and
  `ResumedRunsComplete` (`ResumeCompletes`): the scheduler's invariant is proved
  again for runs that start with nodes done (`EngineInv` is the part of it that
  holds for them), and `SessionInv` carries across runs that the form is not
  done in the row and that a resumed run's tasks are of new nodes. The second
  theorem is about a snapshot with nothing left but the form and what lies
  behind it (`OnlyFormLeft`); `Certain` are the nodes a run surely reaches
  behind it, over paths without a condition. What is lost without that is under
  Divergences.
  `AlwaysPublished` (`StaysPublished`): a request that has unpublished others
  commits its own version with that.
* `WorkflowProofs`, validation (finite graphs). `ValidationIsExact`
  (`AcceptsExactlyAcyclic`): `KahnInv` counts, for every node, its edges from
  nodes not popped yet; a node is in the queue once, from when nothing is left
  until it is popped; and no popped node reaches itself, because what is not
  popped is closed under edges the other way. If nodes are left over at the end,
  each has a predecessor that is left over, and the one that reaches most nodes
  reaches itself. That choice replaces an induction along a path.
* `LoopProofs`. `IterationsAreApart` (`IterationsDoNotOverlap`) and
  `ErrorsReachRun` (`ErrorReachesRun`), for every nesting of loops, parallel
  edges, number of iterations and order of failures. `LoopInv` has the counter
  argument of `PendingIsExact` for each scope (`CountInv`), and says which task
  answers for a scope (`OwnInv`): unless a scope ended without an error, it is
  the last one its owner opened, and the owner waits for it or was aborted and
  handed the error on to its own scope, which was opened before. So if `run`
  returned after a failure, the first scope that failed could not be the first.
  `BreaksStopTheirLoop` (`LoopsStopAtBreak`; whether a continue ends the loop as
  well, which it does in this code, the property leaves open), as long as loops with breaks are
  apart (`BreaksAreApart`). All loops of a run share one `_break`, so without
  that the break or the reset of another loop counts too. `StopInv` follows the
  flag from the `execute` that sets it to the loop that reads it: a scope's done
  are its nodes that have executed (`DoneInv`), while a loop iterates the flag
  says what its body has asked for (`BreakInv`), and the bodies a loop has begun
  are as many as it has counted, none of which but the last asked for a break
  (`BodiesOK`). `AloneKeepsApart`: workflows that have breaks only where the
  main graph runs one node at a time and holds all loops (`LoopsAlone`, checked
  of every workflow of `LoopAll`) keep them apart: the nodes of a body run in
  its iterations and nowhere else (`InsideInv`), and one task of the main graph
  is on its way at most (`OneInv`). `LoopsStop` puts the two together.
  `RunsStickOnlyInLoops`, for every workflow: a run that cannot go on has all
  workers of its pool waiting in loops, or its main graph failed beside a loop
  and the pool refused a node of the body that the loop waits for. `StallInv` is
  the counterpart of `WakeInv`, for each scope, and says whose body a loop waits
  for. If no task can step and a worker is free, every task is over or waits;
  the loop that waits for the youngest scope then waits for a task that was
  refused, since a loop in that scope would wait for a younger one. Both ways
  do occur: TLC finds the first as soon as `PoolSize` is 1, and the second where
  a form asks for input beside a loop, which is why `LoopAll` has neither.
  `TasksAreFinite`: what a task has left to do (`TaskLeft`: statements, edges it
  may choose or has chosen, iterations) is a number that its own steps make
  smaller and the others' leave alone.
* `NodeProofs`. `AnswersAreLast` (`AnswerIsOfALastNode`), for workflows whose
  answering nodes are in order (`AnswersInOrder`, checked of every workflow of
  `NodesAll`): no answering node is reached around one that it lies behind. In
  others a node without AND join runs with the first of two paths that lead to
  it, and a node of the other path may answer after it. `WayInv`: until a node
  has completed, every node that was reached was reached around it, on every way
  that the branches taken so far have left open. So what has answered before a
  node does not lie behind it.
  `ComparatorsDecide` (`NegationsDecide`), for values of any depth: what a node
  returns, and with it the whole context, is made of values (`ValueInv`), which
  is proved of each node type. What a reference leads to is a value by minimal
  counterexample along its path. `Whole` and `IsConfigured` are assumed of the
  constants; TLC evaluates both on those of `NodesAll`.
  `TemplateAnswers` (`DefaultAnswers`), for every question and any other
  workflows beside: `PlaceInv` says that the nodes of the template run one after
  the other, the last one as the search decides, `ResultInv` that what the
  search found stays in the context under its name.
* `ChatProofs`. `WaitsAreAnswered` (`WaitIsAnswered`): `TurnInv` ties the view's
  place to the pipeline's and to what is in the queue between them: once
  the pipeline is over, the sentinel is last in the queue of a view that still
  listens.
  `RecordsAreWhatWasShown`: what was shown and what is queued are together what
  the model gave, and no piece of the answer follows the message end.
  `HistoriesFollowRecords`, for a cache that may lose the history between any two
  statements: a turn that saves alone has the last record, what it has read is
  the end of the log from where it read it, and what it still has to push is what
  the log lacks. The cut at HISTORY_MAX commutes with an append.
* `SharedProofs`, the cache. `GrantedWithinLimit`: `LimitInv` counts what the counter has
  still to grant, which the property alone does not. `OneBuildPerProcess` and
  `OnlyLateStoresAreStale`: `GatewayInv` joins the lock (one reader per process
  inside), who has a model still to store, and that what is to be stored is
  current when the cache is.
* `TriggerProofs`. `MutualExclusion`: `LockInv` says that a thread inside whose
  time is not over owns the key, token included, which late exits and crashes
  keep. `EditsKeepTasks` and `EnabledTimersHaveJobs` with `TriggerInv`: for each
  trigger, as long as requests on it have not overlapped, one request at most is
  at work and the row is as far as its statements have come (`AloneInv`), the
  task is there or a create is still to come (`TaskInv`), and an enabled timer
  on which no request works has its job as soon as all processes run and none
  met an unreadable setting (`JobInv`). They assume that there is a process.
* `IngestProofs`. `StatusIsEarned`: a document has never more paragraphs than
  its file (`WholeInv`), so that "all of them" stays true and may be written
  later, by a worker that has seen them or by an edit that has read it. A status
  or a count that a request gives is excepted (`given`) until it is set anew;
  what an edit has read or was given goes with it to its save (`Earned`).
  `NothingBefore` says that nobody works on, or has read, a document that is not
  there, so that an upload disturbs nobody. `FailuresAreTold`: the embedding
  that is about to fail its paragraphs has failed its task already (`ToldInv`).
  Most steps are instances of one lemma, `AdvanceKeeps`, on what a worker may
  write. `UploadsAreNotForgotten`: a splitting that has not ended in SUCCESS or FAILURE
  is in the queue, with a worker, or was lost with a worker that died
  or before it was queued (`NotForgotten`). That needs `JobInv`: the lock of a splitting is free until the
  upload asks for it, and a worker splits for the task of its document. Every
  step of a worker's splitting leaves it less to do (`SplitLeft`: the phases and
  the pieces to come), and no other step adds to it. There has to be a document. `CutsAreBest` (`CutsAtBestBreak`), for every text and limit:
  `PiecesEndWell` adds to the property that what was made of a section ends well
  as soon as something of it is left to cut, since only then can a piece follow;
  `CutFacts` is about `smart_split_paragraph` itself.
  `TitlesAreNearest` (`TitleIsNearest`), for every text: `TreeInv` numbers the
  sections by their headings and puts each into the nearest one before it that
  has a higher rank; `StackInv` says that the open sections are those with only
  sections of lower rank behind them, so that the section to which the loop of
  `parse_to_tree` closes is that nearest one. The title a section takes is
  defined by recursion over its parents; that there is such a function, and that
  it gives the nearest title that is not blank, is by minimal counterexample.
  `NothingIsLost` (`SectionsAreWhole`), for every text and limit: `ReadInv` says
  that a section and the lines not given to it yet have the letters of its body
  so far, `WalkInv` that the pieces made of a section and what is left to cut
  have the letters of the section. It rests on lemmas about `FlattenSeq` (what it
  makes of two sequences together, of one more part, of parts without letters),
  by minimal counterexample again.
* `ToolProofs`. `ProcessIsOver` and `RecordsTell`: the place of the request's
  thread says what the process can be (`PlaceInv`) and the answer tells how it
  ended (`ResultInv`). `RunsComeToAnEnd`: a request that is not answered can go on
  (`RunsGoOn`), and one that is has its watchdog off or told to stop (`DogInv`,
  which keeps limits and ages within the bound on time too); every step leaves
  less to do (`StepsLeft`), the passing of time included. It assumes that the bound on time
  leaves room for the limits. `PublishedTools`: what an edit may still write back was
  checked if it is published (`PublishInv`).
* `SharedProofs`, the workspaces. `OwnersBelong` and `MakersBelong` with `SpaceInv`:
  a request that is about to make the owner a member works for the owner of the
  workspace, if it is there (`OwnersAct`); the members of a workspace are only
  ever its owner (`OnlyOwners`), since a member is written for the one who asks
  and who had to be a member; so a membership that was looked up goes only with
  its workspace, and then no base is written there (`AskersBelong`). The
  database's cascades are assumed.

Only model-checked is liveness: both `RunReturns`, `UploadSettles` and
`RunsEnd`. The prover has neither ENABLED nor fairness. For the scheduler, the
uploads and the tools the theorems say the rest, for every value of the
constants: something can go on until the end is reached, and not for ever; that
a step which can be taken is taken is the fairness. Of loops they say when a
run sticks and that each task is finite; that the tasks are finitely many too
would have to follow the nesting of the bodies, which is a recursion over data.
Every other property of a passing run is stated by a
theorem.

An induction over data is not to be had from the prover: its induction theorems
take an operator. Where a function is defined by recursion, as a walk along a
path, the title of a section, a joined sequence or the nodes that a node
reaches, the proofs take the least of the numbers, or the element, at which the
claim would fail.

## Hazards without a property

Three of the list: a loop that waits for a body whose next task the pool refuses
(`RunReturns` fails as soon as something aborts the main graph beside a loop, so
`LoopAll` leaves that out; `RunsStickOnlyInLoops` says when it can happen), the
row that executions without a chat share (it needs two sessions at once, which
`WorkflowService` does not have), and the name of a chat decided by a stale copy
(`SaveName` does what the code does, which is the hazard; see Divergences).

## Plan

Done: scheduler, validation, loops, resume, publishing, context and nodes, chat,
counters, gateway, triggers, ingestion, splitting, tools, workspaces, and the
theorems above. What would add most next: two sessions at once over one
execution row; that a run with loops has finitely many tasks; votes and
share links of the chat.

## Not modelled

* Retrieval: SQL over vectors behind a store class that cannot be instantiated;
  the models that call it see it raise.
* Model providers and MCP: adapters to remote services, without state of their
  own; the agent loop belongs to libraries.
* Tokens, codes and passwords of identity; paragraph, problem and hit-test
  views, which are nested in others or have no route; export and listing.
* Configuration, migrations and scripts: deployment data.

Component by component the status is in `PROJECT.json`.
