# TLA+ verification of the autonomous agent

This directory models the agent of this repository in TLA+, checks the models
with TLC and proves theorems about them with TLAPS. Paths below are relative to
the repository: `src/agent/...` is the implementation, `worker/src` the gateway,
`docs` its documentation.

Every definition that stands for code is listed with its lines in
`PROJECT.json` under `map`; the hazards the properties are aimed at are there
under `hazards`, each with the line where it bites.

## 1. Inventory

| Component | State it keeps | Operations | Talks to |
|---|---|---|---|
| **Control loop** `agent/runtime/agent-runtime.ts`, `run-session.ts`, `run-usage.ts` | plan, attempts per task, last evaluation, run status, usage counters | `run`, one iteration = select, execute, evaluate, learn, put records, complete or revise | planner, selector, executor, evaluator, learner, retriever, memory store, event sink |
| **Planner** `agent/planner.ts`, helpers `agent/runtime/plan-tasks.ts` | id generator | `createPlan`, `revisePlan`, `nextTask`, `withTaskStatus`, `withRemainingTasksSkipped` | model provider |
| **Selector, executor, learner** `agent/action-selector.ts`, `executor.ts`, `learner.ts` | none of their own | choose act / finish / give up; invoke a tool; draw records from an attempt | model provider, tools |
| **Resilient and instrumented provider** `models/resilient-provider.ts`, `instrumented-provider.ts` | attempt counter of a request | `generate`, `structuredGenerate`, `requestToolAction` | provider, event sink |
| **OpenAI-compatible provider** `models/openai-compatible` | the wire names of the tools offered | one HTTP exchange: `postJson`, `parseChatCompletion`, `parseToolActionProposal`; statuses and answers become `ModelProviderError` | network |
| **Memory store** `memory/sqlite/sqlite-memory-store.ts` | SQLite tables of records and of tags | `put`, `get`, `query`, `count`, `close` | - |
| **Semantic index** `memory/sqlite/sqlite-semantic-index.ts`, `memory/indexed-memory-store.ts` | one vector per record, the dimensions first seen | `put` then `index`, `backfill`, `search`, `close` | embedding provider, store |
| **Retrieval** `memory/hybrid-retriever.ts`, `lexical-retriever.ts` | none | score, rank, limit and diversify the records for a query | store, index |
| **Evaluation** `evaluation` | none | check criteria one after the other, derive a verdict | sandbox |
| **Local environment** `sandbox/local` | phase, table of processes | `start`, `exec`, `startProcess`, `stopProcess`, `getState`, `stop`, `destroy` | Docker CLI |
| **Cloudflare environment and gateway** `sandbox/cloudflare`, `worker/src` | `knownProcesses`, `destroyed`; the gateway keeps nothing | the same operations, each one or more HTTP requests | client, gateway, sandbox |
| **Local composition** `composition/local-docker-run.ts`, `scripts/agent.ts` | what to clean up | start, run, SIGINT, cleanup | everything above |
| **Storage and archive** `storage` | two files per object | `putObject`, `getObject`, `deleteObject`, `listObjects`, `archiveArtifacts` | file system, sandbox, event sink |
| **Events and trajectory** `events`, `agent/runtime/trajectory.ts` | listeners; a fold of the log | `emit`, `trajectoryFromEvents` | listeners |
| **Tools** `tools` | registry | `invokeTool` and nine tools: validate, resolve paths, call the sandbox, emit, cap | sandbox, search provider |
| **CLI, domain types** `cli`, `domain` | none | parsing, validation | - |

What is hard in each, and what makes it correct:

- *Control loop.* Five places end a run, one of them a catch block around the
  others; limits are read only at the head of the loop while the counters move
  in between; the model owns the plan and may drop, reorder, repeat or echo
  tasks; several records are put one by one and any put may throw. Correct: it
  ends, once, with the event of its final status; the limits are overshot by one
  iteration at most; completion is the evaluator's word; completed tasks stay
  completed, rest on an attempt of their own and are not worked on again;
  memory is complete and its lessons have their evidence.
- *Resilient provider.* Two nested loops with separate budgets, and two layers
  that number and announce calls. Correct: bounded calls, each announced and
  closed once, no call after a permanent failure, an honest outcome, and an end.
- *Environments.* Methods are `async` and called concurrently: phase and
  process states are read before an await and written after it. Correct: no
  container outlives `destroy`, a stopped process is not reported as exited.
- *Wire.* A reply may be any status with any text; a tool is named on the wire by a
  sanitised and numbered name. Correct: every reply becomes one outcome of the request, the
  proposal returned is of the tool the model was told about, and no token is counted twice.
- *Memory, index, retrieval.* The store and the index are written one after the other, with
  an embedding call in between; vectors may be of an old text, another model or other
  dimensions; the process may be interrupted or crash at every await. Correct: the store
  forgets nothing, the index is behind it only where an indexing failed, and a retrieval
  accounts for every hit and falls back on words when vectors are not to be had.
- *Storage and archive.* An object is two files, written, read and deleted one after the
  other by concurrent callers, any operation of which may fail or be cut off. Correct: files that
  no write is parting belong together, and what was announced as stored is stored.
- *Cloudflare.* An answer may be lost after its request was served, or served after the
  client gave up. Correct: a state that is reported is true of the time of the report,
  inputs staged for a command are removed, a gateway without its secret serves nobody.
- *Tools and evaluation.* Every tool is a few calls to a workspace that the processes of
  earlier commands may change in between, any of which may throw. Correct: paths stay inside, what is
  announced has been done, a text that is not marked is whole, a verdict rests on its criteria.
- *Composition.* A signal handler that cleans up while the start or the run is
  still going on.

## 2. Modules

| Module | Models | Kind |
|---|---|---|
| `PlanTasks` | `plan-tasks.ts`: next task, status changes | operators |
| `ModelPlanner` | `planner.ts`: from a proposal to the tasks of a plan | operators |
| `AgentRuntime` | the control loop composed with planner, selector, executor and learner | state machine |
| `AgentRuntimeProperties` | the properties of the control loop | properties |
| `RunLifecycle` | what a run promises its observers | abstract specification |
| `RunTrajectory` | the events each step of the loop emits, and `trajectory.ts` folding them; composes `AgentRuntime` | state machine and property |
| `ResilientModel` | one request through the resilient and the instrumented layer | state machine and properties |
| `ChatWire` | `wire.ts`, and what `provider.ts` and `transport.ts` make of a reply | operators |
| `ModelExchange` | a request whose calls are HTTP exchanges; composes `ResilientModel` and `ChatWire` | state machine and properties |
| `DockerEngine` | the container engine as `docker-cli-runtime.ts` and the scripts of `container-scripts.ts` show it | environment |
| `LocalLinuxEnvironment` | `local-linux-environment.ts`: one environment and concurrent calls on it | state machine |
| `LocalLinuxProperties`, `LocalLinuxClaims` | what the environment keeps; statements it does not keep | properties |
| `LocalDockerRun` | `runLocalDockerAgent` in `scripts/agent.ts`: start, run, SIGINT, cleanup, exit; composes `LocalLinuxEnvironment` | state machine and properties |
| `RecordMemory` | what a memory of records promises | abstract specification |
| `MemoryStore` | `sqlite-memory-store.ts`: rows, tags, transactions, queries | state and operations |
| `SemanticIndex` | `sqlite-semantic-index.ts`, `embedding-provider.ts`: vectors and what replies are accepted | operators |
| `Retrieval` | `hybrid-retriever.ts`, `lexical-retriever.ts`: scores, ranks, diversity | operators |
| `IndexedMemory`, `IndexedMemoryProperties` | `indexed-memory-store.ts` over store and index, backfill, retrieval, processes one after the other | state machine; properties |
| `FilesystemStorage` | `filesystem-storage.ts`: file operations of concurrent calls | state machine |
| `ArtifactArchive`, `ArtifactArchiveProperties` | `archive.ts` over the file storage | state machine; properties |
| `GatewayProtocol` | `protocol.ts`, the refusals and error kinds of `gateway.ts` and `sandbox-client.ts` | operators |
| `CloudflareSandbox` | `http-sandbox-client.ts`, `gateway.ts`, `sdk-sandbox-client.ts` and the sandbox behind them | environment |
| `CloudflareEnvironment`, `CloudflareProperties` | `cloudflare-sandbox-environment.ts` under concurrent calls | state machine; properties |
| `ToolInputs` | what the tools make of a proposed input and of the lengths of texts | operators |
| `ToolInvocation` | `invokeTool` and the standard tools, one action per call to the sandbox | state machine |
| `OutcomeEvaluation`, `ToolProperties` | `deterministic-evaluator.ts`, `verdict.ts` in the same workspace | state machine; properties |
| `SortedLists` | a finite set as the list an ORDER BY or a sort makes of it | operators |
| `Subsequences` | the elements of a list at chosen positions, which plan, evaluation and listings filter with | operators |
| `SubsequenceTheorems`, `AgentRuntimeProofs`, `ModelExchangeProofs`, `LocalLinuxProofs`, `MemoryProofs`, `ArtifactArchiveProofs`, `CloudflareProofs`, `ToolProofs` | theorems and their proofs, one module for a component and what composes it | proofs |
| `MCModelExchange`, `MCIndexedMemory`, `MCArtifactArchive`, `MCCloudflare`, `MCTools` | small instances for TLC | instances |

### AgentRuntime

The loop is sequential: while the run is suspended at an `await`, nothing else
writes its state. `pc` names the await, and one action is all the code does from
one await to the next. `constructed`, `head` and `returned` are the points before
`run()`, at the head of the `while`, and after it.

| Variable | Code |
|---|---|
| `status`, `usage` | `RunSession.status`, `RunUsageTracker` (tokens and time left out) |
| `terminal` | the `GOAL_COMPLETED`, `GOAL_FAILED` and `RUN_LIMIT_REACHED` events emitted |
| `plan`, `lastTaskId` | the local `plan` (`version = 0` is undefined), the id generator of the planner |
| `task`, `attempts`, `evaluation` | the locals of `loop` and `iterate` and the map of attempts, flattened in order |
| `observed` | the status of the last tool result |
| `pending`, `written`, `lessons` | the records still to be put, those put, and the `LESSON_CREATED` events |

| Actions | Code |
|---|---|
| `Start`, `RetrieveMemory`, `CreateInitialPlan` | `run`, `retrieveMemory`, `createInitialPlan` |
| `StopAtLimit`, `CompleteWhenNoTaskLeft`, `BeginIteration` | the head of `loop` and the first lines of `iterate` |
| `SelectGiveUp`, `SelectFinish`, `SelectAct`, `Observe` | selection and `ToolExecutor.execute` |
| `Evaluate`, `WriteRecord` | `attempt`: evaluator, learner, `writeRecord` |
| `AcceptClaim`, `RejectClaim` | `verifyFinishClaim` |
| `RevisePlan` | `handleFailure` |
| `ModelRequestThrows`, `EnvironmentThrows` | the catch block of `run`, from each await that can throw |

The environment is as free as its contract lets it be: the model proposes any
non-empty list of known, unknown or repeated task ids, asks for any action,
claims the goal at any time, or throws; the evaluator gives any verdict or
throws; a put succeeds or throws; a tool succeeds or fails (`invokeTool` turns
every failure into a result, so the executor does not throw); a token or time
limit may be found reached at any head of the loop. Event sinks do not throw:
`SubscribableEventSink` swallows the exceptions of its listeners. A request makes
between one and `CallsPerRequest` calls, all counted when they start.
`CallsPerRequest` is `ResilientModel`'s `CallBudget`, which the theorem
`RequestCallsBounded` shows to be the most a request makes: this is how the two
modules compose. With `SemanticIndex`, a search and a put make one embedding
call at most, which the local composition counts as a model call.

Abstracted: texts, provenance and citations, tool inputs and outputs, the
content of records, durations. Task ids are natural numbers in the order they
were drawn, because identity is all the helpers look at. Dependencies between
tasks are kept in `PlanTasks`, although the planner never sets one
(`materialiseTasks` gives every task an empty `dependsOn`).

### ResilientModel

`Resilient(Instrumented(provider))`, as `create-run.ts` composes it. `StartCall` is
`attempts.next()` and the start event, `ProviderAnswers`, `ProviderAnswersInvalid`
and `ProviderFails` are the ways a call ends together with the event that closes it and
what the two loops do next, `WakeUp` is the end of a backoff. The three methods
of the provider differ in how an invalid answer shows (a parse failure in a response
that counts as completed, or an `invalid_response` error) and in what happens
once the re-ask budget is spent (the last answer is returned, or the error
thrown); `kind` says which one was called. Left out: how long a backoff takes and
what the corrective message says.

### DockerEngine and LocalLinuxEnvironment

`DockerEngine` has one container, and for each background process what is left of
it: its leader alive, an exit file written with or without members of the group left
(`lingering`, `finished`), or dead without an exit file (`orphaned`, `gone`). For
every request it gives the set of outcomes: the answer `DockerCliRuntime`
returns together with the state the engine is left in. `Faults` says what may go
wrong: a request refused, done but reported as failed, a `docker run` that fails after
it created the container, an exec whose client is killed by the host-side timeout, and
a container that halts or is removed by someone else. An abandoned request takes
effect before its failure is reported, or never; that it takes effect later still
is left out.

| Variable | Code |
|---|---|
| `phase`, `processCounter`, `processes` | the fields of `LocalLinuxEnvironment`; the map in its insertion order |
| `calls` | for each caller the method it is in, the request it awaits and the answer that waits to be read |

Methods are asynchronous: a method runs to its first request (`StartContainer`,
`RunCommand`, `StartProcess`, `StopProcess`, `GetState`, `Stop`, `Destroy`), the engine
answers (`EngineAnswers`), and the method goes on (`ContainerStarted`,
`ProcessStarted`, `ProcessStopped`, `Inspected`, `StateRefreshed`, `Destroyed`, ...), while
other calls take their own steps in between. The engine's answer and its reading are two
steps, so that what an answer says may be old when it is read. `RunCommand`
stands for the file operations as well, each a single exec that leaves the state here
alone. `Owners` are the callers that start, stop and destroy.

### LocalDockerRun

The process of the command line has one thread; SIGINT arrives while `main` is suspended
at an await (`main`), and from then on `main` and the handler are two callers of the
same environment. `cleaned`, `hasEnvironment` and `store` are the locals cleanup
closes over, `hasCleanup` says that it was registered, `exitCode` ends the
process: `main` ends with one of `MainCodes` (0 or 2 for the outcome, 1 for whatever it threw),
the handler with 130, and a second SIGINT, for which `process.once` leaves no handler, kills
the process without a code (`KilledBySignal`). The agent's run is reduced to what it does to the sandbox: `Act` and
`Observe`, or the time it spends elsewhere; `AgentRuntime` is its inside. A request
that is under way when the process exits may still reach the engine.

### RunTrajectory

Every step of `AgentRuntime` together with the events it emits, in the order of the code, and
`trajectory`, which folds them as `trajectoryFromEvents` does (`Told`, one case per event).
The fold is kept instead of the log, so that the log needs no bound. `runtime_safety`
checks this composition, so the properties of the loop are checked in the same run.

### ChatWire and ModelExchange

`ChatWire` says what each reply of the server becomes, from the HTTP status to the proposal:
`KindForStatus`, `HasJson`, `ParseProposal`, `WireName` (the map `ToolNameMap` builds), `OutcomeOf`. A text is
the form in which a JSON value lies in it (plain, fenced, between brackets, not at all).
`ModelExchange` is `ResilientModel` with this provider in the place of any provider:
`PostRequest`, `ReplyArrives`, `BackoffEnds`. It adds what the request spent (`spent`), what
the records count (`counted`) and the proposal returned. The tool names of the instance collide
after sanitising, and one of them is the numbered variant of another.

### MemoryStore, SemanticIndex, Retrieval, IndexedMemory

| Variable | Code |
|---|---|
| `rows`, `tagRows`, `isOpen` | the tables of `SqliteMemoryStore`; a transaction has no await inside and is one step |
| `vectors`, `model`, `observedDimensions` | the table of `SqliteSemanticIndex`, and the fields of the embedding provider behind it |
| `op` | the call that awaits the embedding server: an index after a put or of a backfill, a search |
| `owed`, `mine`, `returned` | history: records whose last indexing failed, vectors of this process, the last answer |

`Put` and `PutFails`, `VectorArrives` and `EmbeddingFails`, `Backfill`, `BackfillNext`,
`BackfillReturns` and `BackfillThrows`, `Retrieve`, `QueryVectorArrives` and
`QueryEmbeddingFails` are the methods between their awaits. `Close` is the cleanup of an
interrupted run under a pending call, `ProcessEnds` any end of the process, `Open` the next
process, perhaps with another embedding model. The embedding server may send any of `Replies`,
malformed ones and ones of other dimensions included. Texts are sets of words, and `Terms` are
those of them that are no `StopWords`: a query may have a text and no term, and is then answered by
its cosines alone. Cosines are an input of the model (`Similarity`), in hundredths. With the default weights the code adds the share of
the query's terms found to the cosine; the model has that sum times 100 times the number of
terms, which is whole and gives the same order (without terms it has the cosine times 100). A query of the store, the vectors a search
compares and a ranking are each the one list of `SortedList` in the order the code asks for.

`RecordMemory` is what users of the memory are promised; `RemembersRecords` instantiates it with
`content` read from the rows and `order` from their `seq`, and is checked as a property.

### FilesystemStorage and ArtifactArchive

`body` and `metadata` hold for each key the version of the put that wrote the file. A method is
one action per file operation: `WriteBody` and `WriteMetadata` of a put, `RemoveMetadata` and
`RemoveBody` of a delete, `ReadMetadata` and `ReadBody` of a get, `ReadDirectory` and `HeadNext` of a
list; each may fail (`WriteFails`, `ReadFails`) and all are cut off by `StorageCrash`. Writing to a
temporary file and renaming it is one step, since nothing reads temporary files. `history` records, for the properties only, whether writes of a key met.
`ArtifactArchive` runs `archiveArtifacts` as one of the callers (`Archiver`), while the others use
other keys: `next` and `step` are the loop and its place in the try block, `results` and
`announced` what it returned and emitted. After a crash it may be run again.

### GatewayProtocol, CloudflareSandbox, CloudflareEnvironment

A request goes from a method to the client, over the gateway to the SDK, and one answer comes
back. `Refusal` is what the gateway refuses before anything reaches the sandbox; `Serves` is what
the SDK does. The client may learn an answer, or give up (`lost`): the request then joins
`abandoned` and may be served at any later time, or never. The sandbox is external: processes end,
their records are dropped, the container stops with all it holds.

| Variable | Code |
|---|---|
| `known`, `destroyed` | the fields `knownProcesses` and `destroyed` of `CloudflareSandboxEnvironment` |
| `calls` | for each caller the method it is in and where it awaits |
| `processes`, `staged` | the sandbox: its process table, and the stdin files of commands |
| `secrets` | the bearer tokens of gateway and client |
| `observed`, `answer` | history: what ran throughout a `getState`, and what a method returned |

`RunCommand` with `CommandStaged`, `CommandRan` and `CommandUnstaged` is `runCommand`
with the staging of stdin and its `finally`; `GetState`, `StateListed` and `StateInformed` are the
two parallel requests of `getState`, and `Merged` is `mergeProcesses`. The answer to a
`startProcess` carries the status of the record, which need not be `running` any more
(`StartStati`), and `ProcessStarted` files it as `toProcessStatus` says. `writeFile` makes the
directory of the path first, if it names one (`HasParent`).

### ToolInputs, ToolInvocation, OutcomeEvaluation

`ToolInvocation` has one action for the validation of a proposed input (`Invoke`, with the
`parseInput` of each tool in `ToolInputs`) and one for each call a tool then makes to the
sandbox. Each of these calls may throw before or after it took effect (`CallFails`). A command may
change files, write output of any of `OutputLengths`, and leave a process behind that goes on
changing files (`leftover`). A listing is cut at `MaxListEntries`, the 500 of the code. `OutcomeEvaluation` adds the checks of `DeterministicEvaluator` between
tool calls; a key of a JSON value is looked up as `in` does, inherited names (`InheritedKeys`)
included. Paths are sequences of segments, so that `normalisePosix` is the function of the code;
texts have only their length in characters and the width of these, since three caps count them in
different units.

## 3. What is checked

| Run | Question | Bounds |
|---|---|---|
| `runtime_safety` | limits, completion, task identity, memory, lifecycle and event log of every run | 4 iterations, 3 tool calls, 6 model calls, 2 calls per request, proposals of up to 2 tasks, semantic index, verdicts success and failure |
| `runtime_liveness` | does every run end? | 3 iterations, 2 tool calls, 4 model calls, no index, verdicts success and partial |
| `model_request` | is one request bounded, announced, honest, accounted for and settled, and its proposal the one meant? | 2 retries, 1 re-ask (the defaults of `DEFAULT_RESILIENCE`), a reply for each way of answering and failing, three tools whose wire names collide |
| `environment_concurrent` | what holds whatever calls overlap, and does every call return? | 2 callers, one of them the owner, 2 processes, refused requests |
| `environment_sequential` | what holds when one call follows the other | 1 caller, 3 processes, all faults but the killed exec and the half-created container |
| `group_survives_stop` | a statement of the repository that does not hold | 1 caller, 1 process, no fault |
| `command_line_run` | does an interrupted or failing process clean up in order, leave no sandbox, and exit? | SIGINT anywhere, all faults, 3 actions |
| `memory` | does the memory forget nothing, and do index and retrieval tell the truth about it? | 3 puts of 7 versions of records with 3 ids and 2 kinds, one id drawn by two runs and one version invalid, 2 processes, 2 embedding models, a query of nothing but a stop word, replies of 2 and of 3 dimensions and an empty one, searches over 2 vectors |
| `storage` | do the two files of an object stay together, and archived artifacts in storage? | 3 callers, 2 keys, 3 puts, 1 crash, 2 artifacts |
| `cloudflare` | does the environment tell the truth about processes, commands and staged inputs? | 2 callers, 1 id, 1 abandoned request, a path with and one without a directory, an SDK error after which it is not known what was done |
| `tools` | do the tools keep to the workspace, announce what they did, and mark what they cut; do verdicts rest on criteria? | 2 files, 3 contents, 21 inputs, 27 responses, 5 goals, listings of 1 entry |
| `failed_transport_is_ok` | a statement of the repository that does not hold | as `tools` |

Why the bounds are enough. Four iterations let a task fail, be revised away or
echoed, and be brought back twice, with another task's success in between; three
tool calls and six model calls make each of the three counted limits the one
that is hit first in some behaviours. Two calls per request and the index
make the overshoot as large as it can be relative to the limits: the ceiling of
`UsageBounded` is reached (lowering it by one makes the run fail). Two proposals
per plan are the fewest that allow reordering, dropping and repeating. The loop
only distinguishes success from the other verdicts. What the bounds cannot show, larger
limits and longer proposals, is what the theorems are for.

Two callers are what the program has (the tools of a run and the handler), and all races
found are between two; two processes are the fewest whose answers can be swapped or
over which a loop of `getState` can be overtaken. With all five faults the three
invariants of `environment_concurrent` hold as well (a million states); the run keeps
one of them for the sake of `CallsSettle`, and the theorems cover any. The
sequential run leaves out exactly the two faults under which its properties fail, and
`NoSandboxLeft` says which interrupt point and faults leave a container behind (section 4).

In `memory` three puts let a record be put, put again with another text, and collide with another
run's, or three records of two kinds compete for a limit of one or two; two processes let the
model change and a backfill make up for what the first left. In `storage` two callers of one key meet at
every file operation, and a third, the archiver, shares the crash with them; three versions make a
put follow, precede and overtake another. In `cloudflare` one id is enough for what the properties
say, because every step reads and writes the entries of one id, or treats those of all ids alike
(`Merged`), and neither a property nor a method relates two ids, or a process to an input; what two callers and a request served late can do to
this id is all there. The inputs of `tools` have a value on each side of every decision of the
validators, and the responses lengths below, at and above each cap for characters of one, three
and four bytes.

Some of the properties are conjunctions of named parts, each with a mutant of its own:
`MemoryKept` (`LessonsBacked`, `MemoryComplete`), `FailuresHonest`
(`NoCallAfterPermanentFailure`, `OutcomeHonest`), `ReportsMatchContainer`
(`NothingRunsOnceDown`, `ExitedIsDead`, `LiveProcessIsKnown`), `OrderlyExit` (`RunTypeOK`,
`OneOrderlyCleanup`, `InterruptedExit`), `MemoryInv` (`MemoryTypeOK`, `TagsMatchBody`,
`IndexFollowsStore`, `BackfillComplete`, `OwnVectorsComparable`), `SelectionFair`
(`SelectionAccounted`, `KindsRepresented`), `ArchiveInv` (`StorageTypeOK`, `AnnouncedIsKept`,
`EveryArtifactAnswered`), `CloudflareInv` (`CloudflareTypeOK`, `StdinRemoved`, `ExpiredIsTold`)
and `ToolInv` (`ToolTypeOK`, `ChangesAnnounced`, `CommandsClosed`, `ScratchCleared`). The type
invariants `TypeOK` of the runtime, of a request and of the local environment are proved (section
5), and no run repeats them.

The parts, and what would have to go wrong to break them:

- `ImplementsLifecycle`: the run refines `RunLifecycle`. A second terminal event,
  an end without one, or one that does not match the status breaks it.
- `Termination`: a revision or a rejected claim that does not pass the counted
  limit check breaks it.
- `UsageBounded`: an additional request in an iteration, a put or a search that
  calls the model more often, or a check after the work instead of before it.
- `CompletionFollowsSuccess`: a revision that leaves nothing to run would complete
  a failed run, since "no runnable task" is what the loop takes for success.
- `CompletedTasksConfirmed`, `CompletedTasksKept`, `NoAttemptAfterSuccess`: identity
  of tasks through revisions. An echoed id that reopens a completed task, a fresh id
  that collides with an old one, or a status change that hits another task
  of the same id breaks one of them.
- `LessonsBacked`, `MemoryComplete`: the store at every moment a crash may freeze
  it, and at the end of a run that did not fail.
- `CallsBounded`, `CallsClosed`, `NoCallAfterPermanentFailure`, `OutcomeHonest`,
  `RequestSettles`: the two loops of the resilient layer and the events of the
  instrumented one.

- `LogTellsRun`: an event under the wrong step, a retry announced twice, a verdict on a claim
  filed over that of an attempt; the log must tell the run at every moment, also of a run cut short.
- `UsageAccounted`, `ProposalAsMeant`: tokens counted twice or lost, a name on the wire that two
  tools share.

- `ProcessIdsDistinct`, `ExitCodeHonest`, `KilledIsDead`: an id read after the await instead
  of before it, a code taken without an exit file, a stop that failed taken for done; under
  every interleaving of two callers.
- `NothingRunsOnceDown`, `ExitedIsDead`, `LiveProcessIsKnown`, `ReportsAreFinal`: the map
  against what runs in the container; a mark that is missed, an answer filed under the
  wrong process, a process forgotten, a report that is taken back.
- `CallsSettle`: a loop of `getState` that does not advance never returns.
- `OneOrderlyCleanup`, `InterruptedExit`, `ProcessExits`, `NoSandboxLeft`: `main` and the
  handler in each other's way; a store closed under a run that still needs it, an exit
  before the cleanup or none at all, a container left behind.
- `RemembersRecords`: a refinement; a record that is lost, moved to another place or taken over by
  another run breaks it. `TagsMatchBody`: the second table out of step with the first.
- `IndexFollowsStore`, `BackfillComplete`, `OwnVectorsComparable`, `FoundByMeaning`: a vector of an
  old text believed to be current, a backfill that skips what it should not, vectors that
  no query of the process can be compared with.
- `SelectionAccounted`, `KindsRepresented`, `DegradesToLexical`: a hit dropped without a word, a
  kind displaced by a second hit of another, a ranking that a failed search changes.
- `FilesInStep`, `MetadataNeverAhead`: the files in the wrong order, one of them left or skipped.
- `AnnouncedIsKept`, `EveryArtifactAnswered`: an event before the put, a failure that ends the loop.
- `StateTellsProcesses`, `TerminatedNotRefiled`: an answer merged into a table that has changed
  since it was asked for. `StdinRemoved`, `ExpiredIsTold`, `UnauthorizedReachesNothing`: a
  `finally` that is not reached, an exit status missed, an unset secret that lets everybody in.
- `WorkspaceOnly`, `ChangesAnnounced`, `CommandsClosed`, `TruncationTold`, `ScratchCleared`,
  `VerdictJustified`: a path that leaves the workspace, an event of something that did not happen,
  a cap that one of the units misses, a verdict that none of the checks gave.

Deadlock is not checked: a run that has returned, a request that is settled, an
environment that is destroyed, a process that has exited and a model that has used up its
bounds stop.

Fairness is weak fairness of the next-state relation for `Termination` and
`RequestSettles`, of the progress of each pending call for `CallsSettle`, and of the
steps of the living process and of the engine's answers to it for `ProcessExits`; no other
property uses any. It says that a suspended run is resumed: model calls
are aborted by the timeout of the transport, commands by the timeout of the
executor, a request to the engine by the timeout of its client (`spawnCollect`), a backoff is a timer, and the store and the evaluator are local. No
fairness is assumed of any choice: the model may answer in the worst way for ever,
and the run still ends.

For every property of a passing run, `PROJECT.json` names mutants, definitions changed
the way a plausible bug would, under which TLC finds the property
violated. The mutants stand beside the definitions they change (`Name_Change`).

## 4. Findings

Each of these is shown by a run that ends in a counterexample:

1. `group_survives_stop`: the stop script does not get to its SIGKILL when the leader dies of
   SIGTERM (`container-scripts.ts:39`), which a plain `sh` does at once: a command that ignores
   SIGTERM goes on running behind a process reported `killed`. It takes no fault of the engine.
2. `failed_transport_is_ok`: an HTTP request whose transfer is cut short after its status line is an
   `ok` result whose body is incomplete and not marked (`curl-client.ts:159`), while
   `http-request-tool.ts:23` says that a failed transport makes the call fail.

Others were met on the way. No run is kept for them, but unless it says otherwise the models
contain the steps that lead there, and the properties are stated around them.

Control loop and model requests:

- `maxModelCalls` is not a hard limit (`domain/run.ts:4` says it is): the limits are
  read at the head of the loop, and an iteration makes up to two requests of several
  calls each. `UsageBounded` states, and a theorem proves, by how much it is overshot.
- `completed` does not mean that "the evaluator confirmed every planned
  task" (`domain/run.ts:17`): an accepted finish claim skips the remaining tasks and
  completes the run (`AcceptClaim`).
- The next iteration does not always retry the task that failed
  (`agent-runtime.ts:74`): the model may reorder the revised plan or drop the task
  (`RevisePlan`, `NextTask`).
- `maxRetries` bounds the retries of one round (`resilient-provider.ts:36` says of
  transient failures in general): each re-ask starts a new round (`CallBudget`).
- The tokens of an answer that is no tool action are not counted (`Counted`): the limit on tokens
  misses them, which `UsageAccounted` bounds.
- A deadline that passes while the body of a response is read is reported as `server`, not as
  `timeout` (`transport.ts:98`); both are retried.
- `onCall` is called inside the try block of the call (`instrumented-provider.ts:88`, not modelled): a
  hook that throws would report a completed call as failed.

Local environment and composition:

- `destroy()` does not always remove the container (`local-linux-environment.ts:65`): it
  asks for nothing while the phase is `created` (`DestroyNew`), where a `docker run` that
  failed after creating the container leaves it (fault `halfCreated`). In the same
  case the command line leaves its sandbox (`local-docker-run.ts:60`), and so it does when SIGINT
  arrives while the container is being started (`local-docker-run.ts:51`).
- Stopping an exited process does more than refresh its state
  (`tests/sandbox/local-linux-environment.test.ts:304`): if members of its group are left they are
  signalled, and the process becomes `killed` and loses its exit code.
- `exited` is not only reported of a process that ended (`container-scripts.ts:32`): a
  status script whose client was killed has an empty output (fault `hung`), which
  `refreshProcess` takes for an end, and it never looks again.
- A process whose pid arrives after `stop` or `destroy` stays `running`
  (`tests/sandbox/local-linux-environment.test.ts:317`): `ProcessStarted` does not look at the phase.
- When SIGINT arrives during the cleanup of `main`, the handler's cleanup returns at once
  and the process exits; if the removal then fails, nobody repeats it.
- A second SIGINT kills the process with the removal under way (`scripts/agent.ts:78` listens
  once): `NoSandboxLeft` speaks of it only if the engine still answered.
- `destroy()` racing `startContainer()` would leave a container, but no two lifecycle
  calls of this program overlap: cleanup does not see the environment before its start has
  returned.

Memory:

- A record put again keeps its `seq`, but its `created_at` is replaced
  (`sqlite-memory-store.ts:155`), by which queries order first: it may move in a query although
  `store.ts` says that an upsert keeps its position.
- A record put again whose embedding failed is found by its old text, and a backfill skips it,
  because the index has a vector of this record and model (`indexed-memory-store.ts:48`);
  `FoundByMeaning` excludes what is `owed`.
- A vector of other dimensions is skipped in a search (`sqlite-semantic-index.ts:214`), so that a
  search may compare nothing and still count as semantic in `signalsUsed`.
- Candidates of a retrieval are the first `maxCandidates` records of the store
  (`hybrid-retriever.ts:98`): beyond that newer records are never considered.

Storage:

- A crash or failure between the two renames leaves the new body with the old metadata
  (`filesystem-storage.ts:72`); `MetadataNeverAhead` says that only this half is possible.
- A directory that a deleted object `a/b` leaves blocks a later object `a`; keys of this kind are
  excluded, and `archiveKey` makes none.
- The event sink is called inside the try block (`archive.ts:67`): if it throws, a stored artifact
  is reported as failed (`Announce`).

Cloudflare:

- A process that a list read before its start does not show is taken for `exited`, and a killed
  one may be seen `running` again and then `exited` (`cloudflare-sandbox-environment.ts:294`).
- A process that another caller's `getState` has seen and stopped before the answer to its own
  `startProcess` arrives is filed as that answer says, `running` or `exited` instead of `killed`
  (`cloudflare-sandbox-environment.ts:187`); `TerminatedNotRefiled` excepts this answer.
- No method but `getState` asks whether the environment was destroyed: a later call starts the
  sandbox anew.
- A staging of stdin that the client gave up may be served after the file was removed, and stays.

Tools and evaluation:

- `bodyTruncated` compares bytes with UTF-16 units (`curl-client.ts:171`): a whole body of wide
  characters may be marked as cut. `TruncationTold` states the other direction.
- A file that goes between `fileExists` and `readFile` makes the evaluator throw
  (`deterministic-evaluator.ts:135`), which fails the run.

## 5. What is proved

The proofs hold for every value of the constants that satisfies the named assumptions of the
modules. TLC evaluates each assumption on the instance of every run that reaches its module.

| Assumption | Says | Because |
|---|---|---|
| `LimitsAssumption`, `VerdictsAssumption` | natural limits, at least one call per request and one task per proposal; the verdicts of the domain | `domain/run.ts`, the planner's schema |
| `BudgetAssumption`, `ErrorsAssumption` | natural budgets; the error kinds of the domain | `resilience` options |
| `RepliesAssumption`, `MeantAssumption` | a server fails in no way outside `Errors`; the model means the tool whose description it was sent under the name it uses | the transport; what the prompt tells the model |
| `ToolsAssumption`, `NumberedAssumption` of `ChatWire` | every offered tool has a sanitised name; `name_2` and `name_3` differ | strings |
| `FaultsAssumption`, `OwnersAssumption`, `OneOwner` | any callers, processes and faults; one caller starts, stops and destroys | `local-docker-run.ts` |
| `InterruptAssumption`, `CallersAssumption` | the two callers are `main` and the signal handler | `scripts/agent.ts` |
| `RecordsAssumption`, `VectorsAssumption`, `RetrievalAssumption`, `MemoryAssumption` | ids and dates are numbers, texts and queries finite sets of words, limits natural; a cosine is a number; a reply is a list of parts; there is one process at least | ids and dates are compared; `rankHits` and `query` cut a limit down to a natural one |
| `StorageAssumption`, `ArchiveAssumption` | a list of keys; every archived artifact has a key | `archiveKey` |
| `EnvironmentAssumption` | the methods that are one request | the interface of the environment |
| `ToolOptionsAssumption`, `ToolsAssumption` of `ToolInvocation`, `GoalsAssumption` | the workspace root is a clean absolute path; sizes are natural and a character takes one to four bytes; only a JSON object has keys | `DEFAULT_TOOL_OPTIONS`, Unicode, `criteria.ts` |

`EnvironmentReportsAreFinal` and `EnvironmentMatchesContainer` have hypotheses of their own:
`OneCaller`, and `NothingHalfKnown` (neither of the faults `hung` and `halfCreated`).
`environment_sequential` is such an instance. Neither can be dropped: with either fault
`ReportsMatchContainer` has a counterexample, and with a second caller both have one.

| Theorem | States |
|---|---|
| `RunTypes` | `Spec => []TypeOK` of the control loop |
| `RunImplementsLifecycle` | `Spec => ImplementsLifecycle` |
| `RunUsageBounded` | `Spec => []UsageBounded` |
| `RunRunsOut` | `RunStepsLeft`, zero once a run has returned, is a natural number that every step makes smaller |
| `RunCompletionFollowsSuccess` | `Spec => []CompletionFollowsSuccess` |
| `RunCompletedTasksConfirmed` | `Spec => []CompletedTasksConfirmed` |
| `RunNoAttemptAfterSuccess` | `Spec => []NoAttemptAfterSuccess` |
| `RunCompletedTasksKept` | `Spec => CompletedTasksKept` |
| `RunMemoryKept` | `Spec => []MemoryKept` |
| `RunToldByLog` | `TrajectorySpec => []LogTellsRun` |
| `RequestTypes`, `RequestCallsBounded` | the types and `CallsBounded` of a request |
| `RequestRunsOut` | `StepsLeft`, zero once a request is settled, is a natural number that every step makes smaller |
| `RequestCallsClosed`, `RequestFailuresHonest` | `CallsClosed` and `FailuresHonest` of a request |
| `ExchangeImplementsRequest` | `ExchangeSpec => Spec`: a request over the wire is a request of `ResilientModel` |
| `ExchangeCallsBounded`, `ExchangeTold` | so `CallsBounded`, `CallsClosed` and `FailuresHonest` hold of it |
| `ExchangeUsageAccounted`, `ExchangeProposalAsMeant` | `ExchangeSpec => []UsageAccounted`, `[]ProposalAsMeant` |
| `WireNamesDistinct` | no two offered tools share a name on the wire |
| `EnvironmentTypes`, `EnvironmentProcessIdsDistinct`, `EnvironmentExitCodeHonest`, `EnvironmentKilledIsDead` | the types and the three invariants of concurrent calls |
| `EnvironmentReportsAreFinal`, `EnvironmentMatchesContainer` | `ReportsAreFinal` and `ReportsMatchContainer` of sequential calls |
| `RunExitsInOrder`, `RunLeavesNoSandbox` | `RunSpec => []OrderlyExit`, `[]NoSandboxLeft` |
| `MemoryAgrees` | `Spec => []MemoryInv` of the memory |
| `MemoryForgetsNothing` | `Spec => RemembersRecords`: the store refines `RecordMemory` |
| `SelectionKept`, `RetrievalDegrades`, `MeaningIsCurrent` | `SelectionFair`, `DegradesToLexical` and `FoundByMeaning` of every retrieval |
| `StorageFilesInStep`, `StorageMetadataNeverAhead` | the two invariants of the files |
| `ArchiveKeepsItsWord` | `Spec => []ArchiveInv` |
| `CommandsLeaveNothing`, `StateIsTold`, `GatewayFailsClosed`, `TerminationsKept` | `CloudflareInv`, `StateTellsProcesses`, `UnauthorizedReachesNothing` and `TerminatedNotRefiled` |
| `ToolsTellWhatTheyDid`, `ToolsStayInside`, `CutsAreTold`, `VerdictsAreJustified` | `ToolInv`, `WorkspaceOnly`, `TruncationTold` and `VerdictJustified` |
| `SubsequenceContent`, `RevisionFacts` | what filtering a list and revising a plan return |

How they go:

- *Types.* `TypeStep` has one step per action. A suspended `writing` run has a record to
  put, otherwise `Head(pending)` would have no type; this is why the
  conjunct is in `TypeOK`.
- *Lifecycle.* `RunPhase` ties `pc` to `status`. Every step then starts the run, goes
  on with it, or ends it (`StepPhase`), and in the catch block the run is always
  unfinished (`CatchEnds`), so it cannot announce a second end.
- *Limits.* `UsageBounded` is not inductive: it does not say how much of the overshoot
  an iteration has already used. `LimitsInv` does, for every await: strictly
  below all limits before the selection, one request later after it, and while
  records are put, the calls made plus one for every record left stay below the
  sum for the longest list of records. A success writes a fourth record, but
  no revision follows it; this is why the ceiling has three puts.
- *Plan.* `PlanInv` collects what the four plan properties need of each other: ids were
  handed out before (`KnownTasks`), an id stands for one task (`SameTask`, the plan may
  hold it twice), no task waits or is skipped while the run goes on (`OpenTasks`), the task under
  way is of the plan and not completed (`UnderWay`), a success has completed its
  task or is being written (`Credited`), and at the head of the loop something is left
  to do unless the last verdict is success (`HeadOpen`).
- *Memory of a run.* `StoreInv` says of every await which records of the attempts are put and
  which still wait, so that the experience of the latest attempt, which may be pending, is
  counted neither as lost nor twice.
- *Log of a run.* `ToldOneMore` says that the fold over a list of events ends with its last one, for
  any list: two such functions agree up to their common length (`ToldUnique`, from a least
  counterexample). `Tells` is what a step adds to the trajectory, by field, and one lemma for each list
  of events a step emits gets there. `LogTellsRun` alone is not inductive: `TellsInv` adds
  that the step of an action is at its number (`StepForAction` then finds it), that only the last step
  may lack a verdict, and only while its call is under way or if the run failed. So
  the verdict on a finish claim finds a step that has its own (`ClaimToldByNone`), and knowledge
  still to be put was read by a tool that succeeded.
- *Operators.* `SubsequenceContent` (in `SubsequenceTheorems`) says what the recursive filter
  returns, from a least counterexample (`LeastNatural`). `NextTaskRunnable`, `MaterialiseTasks` and
  `RevisedTasksContent` do so for the helpers of the plan, and from them `InitialPlanFacts`,
  `RevisionFacts`, `StatusFacts` and `SkippedFacts`, which the steps of the plan cite.
- *Requests.* `CallsInvariant` bounds the calls of a round by those of the rounds before
  it; `RoundCallsGrow` is its arithmetic. For `CallsClosed` the length of the event list is tied to
  the attempt counter; for `FailuresHonest` each event before the last start is that of a failure
  that was retried or of an answer.
- *What is left.* `RunStepsLeft` counts nine steps for each iteration that may still begin
  and the awaits of this one (`AwaitsFrom`), `StepsLeft` three for each retry that
  the budgets of retries and re-asks allow. Every step makes them smaller (`RunRunsOut`,
  `RequestRunsOut`), so neither a run nor a request goes on for ever, whatever the model, the
  tools and the evaluator answer. That it does not stop half way is left to the fairness of
  `Termination` and `RequestSettles`, and to TLC.
- *Exchange.* Every reply ends a call in one of the ways `ResilientModel` has for it
  (`RepliesAssumption`), so each step of the exchange
  is one of the request, and what is proved of requests carries over. `WireNamesDistinct`
  takes the least tool that shares its name with an earlier one: as many numbered variants as there
  are earlier tools cannot all be taken by them. `ProposalAsMeant` rests on it.
- *Environment.* `EnvironmentInv` says what the engine, the pending calls and the map know of
  each other: processes live only in a running container (`EngineInv`), starts under way
  have drawn different ids that nothing tracks yet (`ScriptsInv`), and what an answer
  says is still so when it is read (`AnswersInv`). The last is the heart: the lemmas
  `Effect` and `Truthful` about outcomes show that nobody but the start script of
  an untracked process makes a process live, and nobody but the owner, who is waiting,
  starts a container. Without `OneOwner` a second start between the answer to a
  `docker stop` and its reading would have live processes marked killed. Each kind of step
  is one lemma (`AnswerStep`, `BeginStep`, `QuietStep`, `ReportStep`, `StartedStep`, ...).
  With one caller, `MatchInv` adds that an answer is read before anything else is asked.
- *Command line.* `RunInv` has one case for each place of `main` while the process lives
  (`AliveInv`) and what is left of it after the exit (`ExitedInv`); `ContainerInv` follows
  the container through start, removal and the requests that were under way.
- *Sorted lists.* A member of a finite set with a strict total order stands at the number of members before
  it (`PositionGrows`), and by the pigeonhole principle every number is taken (`PositionsTaken`): so there
  is a sorted list, only one (`SortedListUnique`), it holds every member at one place, and a member that comes
  after all others is appended (`SortedListAppend`). An order is a set of pairs there, because
  the provers take no operator for an argument.
- *Memory.* `IndexFollowsStore` and `BackfillComplete` say nothing of a call under way. The invariant adds
  that a pending call works on records that are stored as it read them (`OpInv`; nothing is put
  meanwhile), that a backfill that has met no failure has every record behind it with a vector, before
  it, or under way (`Covers`), that rows and vectors are numbered without repetition (`Numbered`), and
  that the last answer is of the state it was given in (`AnswerInv`). There is one lemma for each of these
  and all steps (`StoreStep`, `VectorStep`, `OpStep`, `FollowStep`, `BackfillStep`, `AnswerStep`). A put is
  a step of `RecordMemory` by `OrderKept` where the record is known and `OrderGrows` where it is new; no other step touches
  the rows.
- *Retrieval.* `ChosenSize` counts the two passes of `rankHits`; `NoneOvertaken` and `KindsChosen` are what they
  leave to show of the kinds, `LiftedAndDisplaced` counts what is above the limit and what is missing below
  it. `LexicalOrder` compares two rankings of the same records by scores that are proportional.
- *Storage.* Among writers of a key that never met, each is alone with its files
  (`AloneWrites`), and its versions grow (`InOrder`). `ArchiverInv` says that the archiver is the
  only writer of its keys, so that what it announced is behind it and stays.
- *Cloudflare.* `MethodsInv` ties every method to the request it awaits and says that answers,
  listed tables included, are true of a moment of the call (`ListsAgree`), that ids are given once, and that a
  removal that was served lasts. A request that is served late is one of those which nobody awaits.
- *Tools.* `NormaliseClean` holds for paths of every length: what is left of a path has no
  segment that climbs. `CallInv` and `UnderWayInv` say what each step of a tool knows of the steps before it,
  `OneMoreTold` and `ToldInOne` what one more event does to the announcements; `PageWhole` is the
  arithmetic of the caps on a page, where a character takes up to four bytes and one or two UTF-16
  units; `ChecksInv` says that a check which was made was true of its moment.

The strengthenings were checked with TLC under the bounds of the runs before they were
proved: `LimitsInv`, `RunPhase`, `PlanInv`, `StoreInv`, `TellsInv`, `EnvironmentInv`, `MatchInv`, `RunInv`, the
invariant of the memory with its parts, those of storage and Cloudflare, and `CallInv`, `UnderWayInv`, `EventsInv` and `ChecksInv` of
the tools. Some proofs needed a model corrected: `file_exists` of the workspace root holds
(`FileHolds`; `test -e` is true of a directory), and alternatives of a `CASE` that overlapped
are now nested conditions in the order of the code; and scores of a retrieval in rounded hundredths,
under which `DegradesToLexical` failed for a query of more than a hundred terms, are now whole numbers.

Only model-checked:

- `Termination`, `RequestSettles`, `CallsSettle`, `ProcessExits`: liveness is out of the prover's reach.
  Of the first two it is proved that no behaviour has steps without end (`RunRunsOut`, `RequestRunsOut`).
- That the bound of `UsageBounded` is tight.
- What a recursive definition computes for every input, where it is proved, is proved from a least
  counterexample; the induction theorems of the library take an operator as a parameter,
  which the provers cannot instantiate.

## 6. What is not modelled

- Token and time limits: either may be found reached at any head of the loop. How many tokens
  are counted depends on what the provider reports.
- Prompts, JSON schemas, redaction of secrets, configuration, HTML extraction, the rendering of
  commands, the CLI: conversions of texts without state of their own.
- Floating point, in which the code computes scores and cosines: cosines are given, scores are whole numbers
  in the same order, for the default weights of the two stages.
- What is shown of a retrieved record (applicability, exposure), the suppressed retriever and the
  comparison of two runs: pure reports.
- `SqliteSemanticIndex.remove`, which nothing calls.
- The contents of working memory, which the variables of the loop stand for.
- The search provider, the embedding server, the model's server, Docker, the Cloudflare SDK and the
  file system are external: they appear as the set of answers the code reckons with.
- That a run which SIGINT deprived of its sandbox still evaluates and remembers the
  failures of its tools until the process exits: it follows from `LocalDockerRun`
  (`Act` while the phase is `destroyed`) and nothing in the repository says otherwise.
- More than one process or staged input of a Cloudflare environment in the run: the state space
  of two is beyond what a run can exhaust (section 3 says why one is enough).

## 7. Plan

In the order of importance; 1 to 12 are done.

1. `PlanTasks`, `ModelPlanner`, `AgentRuntime`, `RunLifecycle` and their properties.
2. `ResilientModel`, the requests the loop makes.
3. Proofs of the types, the lifecycle, the limits and the plan.
4. `LocalLinuxEnvironment`: phases and processes under concurrent calls; `LocalDockerRun`,
   which composes it with start, run, SIGINT and cleanup; the proofs about concurrent calls.
5. `MemoryStore`, `SemanticIndex`, `Retrieval` and `IndexedMemory`, against a store that forgets
   nothing.
6. `FilesystemStorage` and `ArtifactArchive`, with failures and crashes.
7. `CloudflareEnvironment` and the gateway: lost answers, requests served late, the merged
   process table.
8. `RunTrajectory`: the event log gives the run's own state back.
9. `ChatWire` and `ModelExchange`, which implements `ResilientModel`; `ToolInvocation` and
   `OutcomeEvaluation`.
10. Proofs of requests and exchanges, of the memory and the log of a run, of sequential calls and the
    command line, of storage and archive, of the Cloudflare environment and of the tools.
11. Proofs of the memory: that rows, tags and vectors agree, that the store implements
    `RecordMemory`, and what a retrieval selects.
12. The part of liveness that is a safety property: a natural number that every step of a request, and
    of a run, makes smaller, from which `RequestSettles` and `Termination` follow under their fairness.
13. The same for a pending call of the container (`CallsSettle`) and for the end of the process
    (`ProcessExits`).
