# Verification of gaal-lib

TLA+ models of gaal-lib, a Go library for building agents (apps, agents with
tools, guardrails and memory, workflows), with TLC configurations that check
them on small instances and TLAPS proofs of the results that matter most. The
models are translated from the Go source; the specifications in `specs/*.md`
(normative, in Portuguese) supply what the properties state. `PROJECT.json`
maps every definition to the lines it models.

Contents: 1 the system, 2 modules, 3 correspondence, 4 runs and bounds,
5 fairness, 6 proofs, 7 divergences, 8 what is not modelled, 9 plan.

## 1. The system

| Part | State | Operations | Interacts with |
| --- | --- | --- | --- |
| App lifecycle (`pkg/app/app.go`) | `state`, `startCh`, `startErr`, frozen registries, `startedServers`, `coldStarted`, under `a.mu` | `Start`, `EnsureStarted`, `Run`, `Shutdown`, `Register*` | Servers, factories and cold-start hooks, called without the lock |
| App registries, `Invoke`, events | ready and factory maps, runtime views | `Resolve`, `List`, `Invoke*` | agents, workflows, hooks |
| Agent (`pkg/agent`) | immutable definition | `New`, `Run`, `Stream`, normalization of a request | engine |
| Engine (`internal/runtime/engine.go`) | locals of `execute`, `emitter.sequence`, the `streamSink` | `Run`, `Stream`, `Recv`, `Close` | model, tools, guardrails, store, reasoning, hooks |
| Reasoning (`internal/runtime/reasoning.go`) | `stepsUsed`, `analyzePasses`, `disabled` per run | `AfterTool`, `BeforeResponse` through think and analyze | run loop |
| Tool registry (`pkg/tool/registry.go`) | two maps under an RWMutex | `Register`, `RegisterToolkits`, `Resolve`, `List*` | toolkits |
| Tool invocation, schemas (`pkg/tool/invoke.go`, `validate.go`) | none | `Invoke` | tools |
| Memory (`pkg/memory`) | session index and nested maps under an RWMutex | `Load`, `Save`, `Delta` | engine |
| Workflow (`pkg/workflow`) | locals of `Run`, a locked state per run | `Run` with retries, transitions, suspension | steps, history, hooks |
| Probes, logger, types | none | | App |
| Demo application, examples | HTTP server around an App | handlers, `Start`, `Shutdown` | App |

What is hard in them, and what makes each correct:

- **App lifecycle.** Any number of goroutines call any method, and the lock is
  released around each call out of the App. Exactly one of them may run the
  startup; the others must neither miss its end nor be told something else than
  it was; a startup that fails part-way stops exactly the servers it started; a
  Shutdown drains them all, even past one that fails.
- **Engine and stream.** A producer, a consumer that may stop receiving or
  close, and a caller whose context may end, with a bounded buffer between them
  and a `select` that picks at random. Events arrive in order, nothing follows a
  terminal event, the consumer learns of an abort exactly when there was one, the
  goroutine always ends, and response, last event and store agree.
- **Reasoning.** Failures degrade to the base loop: no response that must be
  approved may slip out through that fallback, for any combination of options,
  and the budgets are shared by a whole run.
- **Memory.** A snapshot is read at the start of a run and written back at its
  end with no lock in between, and sessions move between scopes.
- **Workflow.** A dozen return paths and a deferred function that may itself
  fail: the history must be complete, in order, and agree with what the caller
  is told; retries stay within the policy that applies.
- **App events, names and the demo server.** Events are composed and delivered
  without the lock, with the state read a second time; a Server serves before the
  App is running and after it has stopped; and a Server's Start and Shutdown are
  themselves several steps, next to a goroutine that serves. Hooks must see one
  lifecycle in order, an accepted request must find the names it asks for, and the
  port must be let go of whenever the App stops.
- **Text of a run.** What the consumer is shown, what a guardrail is given and
  what the answer says are put together in parallel, and must not come apart.
- **Tool registry.** A call registers several candidates, some of which fail:
  all or nothing, whatever races with it.
- **Tool calls.** Which tools a run may use is decided in four places, each with
  its own look at a name, and a suggestion of the reasoning passes fewer of them
  than a call of the model; what goes in and out of a tool must be exactly what
  its schemas stand for.

`PROJECT.json` lists the individual hazards, each at its line, with the
properties that catch it.

## 2. Modules

| Module | Models | Used by |
| --- | --- | --- |
| `AppLifecycle` | App lifecycle, one action per critical section or call out | `MCAppLifecycle` |
| `AppContract` | abstract: what an App promises about its servers | `AppLifecycle`, by refinement |
| `AppLifecycleProofs` | proofs: types, the startup protocol, servers, Shutdown, success, the refinement of `AppContract` | |
| `AppRuntime` | the App's events and names, with one Server | `DemoServer` extends it |
| `AppJournal` | abstract: what the hooks of an App see | `DemoApp`, by refinement |
| `DemoServer` | the demo's HTTP server and its handlers | `DemoApp` extends it |
| `DemoApp` | App and server composed; implements `AppContract` and `AppJournal` | `MCDemoApp` |
| `DemoAppProofs` | proofs: types, drains, names, the refinements of `AppContract` and `AppJournal` | |
| `StreamSink` | the stream between a run and its consumer | `AgentRun` extends it |
| `AgentRun` | `execute`, composed with `StreamSink` | `MCAgentRun` |
| `AgentRunProofs` | proofs: outcome, stream, events | |
| `StreamText` | the text of a run: deltas, stream guardrails, answer, output guardrails | `MCStreamText` |
| `StreamTextProofs` | proofs: the text survives the run | |
| `Reasoning` | think and analyze, with the loop around them | `MCReasoning` |
| `ReasoningProofs` | proofs: approval, budgets | |
| `WorkflowRun` | one run of a chain | `MCWorkflowRun` |
| `WorkflowAudit` | abstract: the history a run promises | `WorkflowRun`, by refinement |
| `WorkflowRunProofs` | proofs: retries, failure, the refinement of `WorkflowAudit` | |
| `MemoryStore` | the store and the runs that use it | `MCMemoryStore` |
| `ConversationLog` | abstract: what a session remembers | `MemoryStore`, by refinement |
| `MemoryStoreProofs` | proofs: index, saves, the refinement of `ConversationLog` | |
| `ToolRegistry` | registration step by step | `MCToolRegistry` |
| `ToolProofs` | proofs: all or nothing, no rebinding; exact validation; permitted and validated calls | |
| `ToolSchema` | schemas, validation of values, and a reference meaning | `MCToolCall` |
| `ToolCall` | agent, request, and one tool call after another | `MCToolCall` |

`ToolCall` extends `ToolSchema`, whose five recursions (validity of a schema, JSON
values, errors, and the two of the reference meaning) go through parameters, since
nothing can be proved in a module that declares a recursive operator: `Errors` names
`PartErrors` where it goes into a part, `ToolCall.cfg` sets `PartErrors` to
`MCErrors`, which is `Errors`, and so on. That each parameter is the operator it stands for, on the schemas and
values of the instance, is `RecursionAssumption`, which TLC evaluates. `ToolProofs`
extends both `ToolRegistry` and `ToolCall`, whose names are kept apart for that
(`CallSpec`, `CallTypeOK`, `agentTools`, `at`).

`AppRuntime` and `DemoServer` are composed by `DemoApp`: a call of
the Server (`startServer`, `drain`, `rollback`) is a place where the App waits
while the Server takes its steps, and its return is a joint step. `AgentRun` and
`StreamSink` are composed: the sink's operations (`Send`, `MarkTerminal`,
`SetPostDrainErr`, `FinishSink`) are conjuncts of the run's actions. `AgentRun`
leaves the decisions of reasoning open (`AfterTool`, `Reconsider`: any of the
branches of the engine's switch), and `Reasoning` says which ones the internal
tools compute; `StreamText` says what text the deltas and guardrails of a run
yield, whose control and delivery are `AgentRun`'s; `MemoryStore` abstracts a
whole run to its `Load` and its `Save`.

Operators marked *mutant* are faulty variants of the definition that follows
them, each the shape of a plausible mistake. No specification uses one:
`PROJECT.json` "mutants" names the property that fails when the mutant takes
the place of the definition.

## 3. State and code

**AppLifecycle.** Each critical section of `a.mu` is one action, and each call
out of the App is one action between two of them. `state`, `startCh`/`closed`,
`startErr`, `started`, `startedServers`, `coldStarted` are the fields; `pc`,
`waitCh`, `local`, `idx` and `err` the locals of each goroutine. The slices of
started servers always are a prefix of `a.servers` and are kept as their length.
`raced` is a history variable: a Shutdown has met a startup in progress. The
Servers (`server`, `starts`) are external: a start or a shutdown may fail.

**AppRuntime.** Same granularity, for one caller of Start and callers of Shutdown.
The registries and the maps of what was started are sets of names (agents and
workflows are numbered in the order of their announcement); a map that is nil is
empty. An event is emitted in two steps: `Emit` composes it, with the state that
`eventMetadata` reads for itself, `Deliver` calls the hooks. `todo` is the list
the announcing loop ranges over. `raced` and `overlapped` are history variables:
a Shutdown has met the startup, or has begun before Start had returned.

**DemoServer, DemoApp.** `startAt` is the progress of `httpServer.Start`, `fields`
stands for `s.runtime`, `s.server` and `s.listener`, which one critical section
sets; `serve` is the goroutine; `req` is one handler per request, forgotten
but for its answer when it returns. `net/http` is external and does what its
documentation promises: `Serve` closes a listener it is given after Shutdown;
Shutdown closes the listeners that Serve has taken, and waits. Its response writers
are all `http.Flusher`s, so that `NoFlusher` is a step only of another writer.

**StreamText.** A text is a sequence of chunks, each with its author, so that
equal texts are equal sequences. `buffered`, `adjusted`, `sawDelta`, `chunkIndex`
are the locals of `collectStreamingModelResponse`; `message` is the response's
message and then the final one; `delta` and `original` are `current` and `delta`
of `applyStreamGuardrails`, `rule` the rule that is asked. `shown`, `candidate` and
`source` observe. A delta is its text and its `tags`, which stand for `RunID` and
`Role`: not given, those of the run, or others (`Default` fills in what is missing).
A rule may transform a chunk to a text of its own, to none, or to what the model
sent; whether that counts as a change is decided as in the code, by comparison.

**StreamSink, AgentRun.** `events` is the channel; `cause` is `context.Cause`;
`postDrainErr`, `terminalSent`, `done` are the fields under the sink's mutex.
`Close` is two actions, as in the code: the fields, then the cancellation. An
event is emitted in three: number and mark (`Emit`), the `select` (`Deliver`),
the hooks (`Hooks`). `pc` names the points of `execute` between its calls out,
each of which may fail with its own error, the context's, or its own timeout
(`CalleeErrors`). `early`, `told` and `hooked` observe the consumer and the
hooks.

**Reasoning.** `raw` is the configuration, `Normalize` is
`normalizeReasoningConfig`, `Decision` and `Verdict` are `thinkTool.Call` and
`analyzeTool.Call`, `Follow` and the CASE of `Analyze` their interpretation, and
`OnFailure` the policy. A candidate is told by what the tools look at: blank,
unfinished, or ready.

**WorkflowRun.** `Emit`, `AppendEntry`, `AppendFails`, `Hooks` are
`emitLifecycle`; `CheckContext` the head of the loop; `StepSucceeds`,
`StepFails`, `Retry`, `GiveUp`, `TryAgain`, `WaitCanceled` the attempts;
`Rejected`, `Suspend`, `Continue`, `Complete` the outcomes of `resolveNext`;
`EndRun` the deferred function with `EndStatus`. `lost` is a history variable:
an append has failed.

**MemoryStore.** `sessions` and `data` are the maps of the store; `Lookup`,
`Stored`, `Delete` are `Load`, `Save` and `deleteSessionLocked`. A snapshot is
the sequence of runs whose messages it holds.

**ToolRegistry.** `Begin` takes the lock and copies the maps, `Accept` and
`Reject` check one candidate against the copy, `Commit` puts it in place.

**ToolSchema, ToolCall.** `ValidSchema` and `Errors` follow `validateSchema` and
`validateValueAgainstSchema` case by case; `Errors` is the set of errors that may
be reported, since the code ranges over maps. `Meaning` is independent of them:
it builds the set of values a schema stands for, from the inside out, for values
nested up to `Depth`. `Nesting` is how deep a schema or a value goes. In
`ToolCall`, `raw` is the request as given, `choice`, `maxSteps`, `offered` what
`normalizeRequest` and `filterTools` make of it; a name is `Written` with or
without space around it, because some places trim and others compare. `Resolve`
is `invokePublicToolCall` up to the call, `Refusal` what `tool.Invoke` checks
before it.

## 4. Runs

Every passing run explores the whole reachable state space of its instance.

| Run | Instance | Shows |
| --- | --- | --- |
| `app_race` | 3 goroutines, 2 servers, 1 component | one startup, no abandoned waiter, agreement of the answers, drains, server protocol, refinement of `AppContract` |
| `app_live` | 3 goroutines, no server | every call returns |
| `demo` | 1 agent, 1 workflow, each ready or made by a factory or both; a starter, a Shutdown, a request | the events' order, names while served, drains, refinement of `AppContract` by a real Server, the port let go of in the end |
| `run` | 2 turns, 1 guardrail per phase, 1 delta, 1 call, reasoning, buffer of 1 | the stream's and the run's outcome; a canceled run ends; a patient reader gets to EOF |
| `stream_text` | 2 turns, 2 events each, 2 stream and 2 output guardrails | the answer is the text shown, the buffer too, and one final text |
| `reasoning` | 3 turns, 2 calls, budgets to 4, every configuration | no unapproved response, budgets, degradation |
| `flow` | 2 steps, 2 retries, every policy and transition | audit, retries, nothing after failure, cancellation |
| `mem` | 4 runs, 2 sessions, 2 users, 2 conversations | index, saves that endure, refinement of `ConversationLog` |
| `registry` | 2 goroutines, 2 names, 2 toolkits, batches to 2 | all or nothing, no rebinding |
| `tool_call` | every request for 2 tools and a reserved one; every schema of nesting 2 with values of all types | what is called is permitted; inputs and outputs are those the schemas stand for |
| `app_stopped_is_final`, `run_closed_completes` | small | the divergences of section 7 |

Why the bounds are enough to meet the interesting cases:

- *App.* Three goroutines give a starter, a waiter and a Shutdown at once, each
  of which may also be any other pair; two servers tell first from last in both
  loops and let the second fail after the first is up; the component makes a
  registration that can race with the snapshot. A goroutine makes one call: a
  caller that calls again behaves as another goroutine. Without servers the
  liveness run keeps every wait, since the channel's protocol does not depend on
  what start does between claiming and finishing.
- *Run.* Two turns reach the limit both before and after another turn, and give
  two calls with an error between them; a buffer of one is full at once,
  where the 32 of the code would need 32 events. One delta and one guardrail per
  phase are enough because the loop state is reset between them.
- *Text.* Two events of a stream tell a chunk that was changed from the last
  one, two rules a rule from its predecessor's result, two turns a text from
  that of the turn before. Each event is any combination of a delta, a tool call,
  a message and the end mark.
- *Demo.* The registries are every combination of ready and factory for an agent
  and a workflow, so names that clash, that only exist once made, and that are not
  registered all occur. One request is enough, since handlers share nothing that
  they write; it may arrive at any moment and stay for ever. Two Shutdowns, and
  any number of callers, are `AppLifecycle`'s.
- *Reasoning.* Budgets up to four exceed the default of two and the steps that a
  run of this size can use, so they are met at, below and above their limit; zero
  means the default.
- *Workflow.* Two steps allow forward, backward and self transitions; two retries
  tell the first from the last; zero and positive delays differ by a branch.
  Steps may lead in a circle: the state space is finite because attempts restart
  at one.
- *Memory.* Four runs let a session move between two scopes and back while
  another stays; runs are not repeated, and a later run is another one.
- *Registry.* Each goroutine has every batch of up to two candidates, so two
  candidates of a call conflict with each other, with an earlier call, or fail
  after one that was accepted.
- *Tool calls.* Two tools tell an allowed one from another; lists of two mix a
  good entry with a bad one. An agent with an unusual schema meets only the plain
  request, and an unusual request only the typical schema (`Typical`), since
  neither part of the code looks at the other's data. Two nestings meet each pair
  of types as outer and inner, and the recursion has no memory of its depth; one
  item suffices because items are judged one by one.

Deadlock is checked wherever `Terminated` stands for a system whose calls have
all ended; `demo` and `stream_text` have no such step and stop when the calls
or the run are over. Symmetry is used by the runs that check no liveness property.

Properties worth a remark:

- `SuccessMeansStarted` ties what one goroutine is told to what another did, and
  to what others are told, through two fields written in separate critical
  sections.
- `ImplementsContract` holds until a Shutdown catches the App starting: `raced`
  makes the contract void from that step on. Shutdown does not wait for a startup
  in progress; section 7 says what follows from it.
- In `DemoApp` the server counts as up while its port is open, except when it has
  been shut down and the Serve goroutine has not run yet (`ServerUp`). In that one
  case the App may be stopped with its port open, and Shutdown have returned nil:
  `Server.Shutdown` closes only listeners that Serve has taken (`server.go:103`,
  `:120`). Every other open port of a stopped App is an error, and that Serve closes
  this one is `ListenerReleased`, which is liveness.
- `KeepsJournal` is void from the step where a Shutdown begins before Start has
  returned; until then no event carries another state than it announces, and every
  component is announced once. `DrainWaits` speaks of the Shutdown that found the
  server: one that came second returns nil at once.
- `ResolvesWhileServed` holds although handlers outlive the startup and the
  drain; the one exception it names is a request that a failed rollback left
  behind.
- `AdjustedTextStays` speaks of text: when the deltas shown are not what the model
  sent in the turn, the answer is what was shown. It looks at `shown`, and not at the
  buffer or at `adjusted`, so that a slip in either is seen. A transform that leaves a
  chunk as it was, or that a later rule undoes, changes no text and no mark; the
  model's own message is then the answer (section 7).
- `RecvProtocol` is exact: a consumer is told `ErrStreamAborted` if and only
  if its Close came before the run's terminal event.
- `OutcomesAgree`: a run completes exactly when its response was saved, and not
  against its `ToolChoice`. `EventProtocol` says what may come after what.
- `KeepsAudit` checks status and order of the history against what the caller is
  told on every return path; once an entry is `lost` only the end may follow.
- `KeepsLog` holds for overlapping runs as well, with the one exception that
  `ConversationLog` names: a run that was overtaken drops what it did not see.
- `ToolContract` holds in both directions: nothing outside the meaning of a
  schema passes and nothing inside it is refused.

## 5. Fairness

- `AppLifecycle`: weak fairness of each goroutine's steps. A goroutine that is
  ready is scheduled, `sync.Mutex` is not starved (Go's mutex has a starvation
  mode), and factories, servers and hooks return. Nobody has to make a call or
  end a context: `EveryCallReturns` asks for `Run` only after its context ended.
- `AgentRun`: weak fairness of the engine's goroutine and of the second half of a
  Close that has begun. The callees return (the engine gives them its context and
  the model, tools and guardrails are assumed to come back). The reader is fair
  only where a property says so: `ReaderReachesEOF` assumes it, `CancelEndsRun`
  must hold without it.
- `WorkflowRun`: weak fairness of the run. Steps, sink and timer return.
- `DemoApp`: weak fairness of the App's goroutines and of the one that serves.
  Every Shutdown of the server has a deadline (`finalizeDefaults` leaves no
  timeout of zero), so it returns, with an error if need be. Handlers and clients
  are not fair: a request may never end.
- The other modules have no liveness property.

## 6. Proofs

Checked by tlapm for every value of the constants. The assumptions are those of the
modules, which TLC evaluates in the runs: `NAssumption` (App); `NamesAssumption`,
`CallersAssumption` (App events and demo); `MaxStepsAssumption`, `BoundsAssumption`,
`CapacityAssumption` (run and stream); `BoundsAssumption` (text); `StepsAssumption`,
`BoundsAssumption` (reasoning); `NAssumption`, `RetriesAssumption` (workflow);
`FreeAssumption`, `BatchAssumption` (registry); `BoundAssumption`,
`SchemaAssumption`, `ValueAssumption`, `RecursionAssumption` (schemas);
`ReservedAssumption`, `StepsAssumption`, `ValuesAssumption`, `TypicalAssumption`,
`ListsAssumption` (tool calls). They say that limits are natural numbers, where need
be positive, that the value of a free lock is no goroutine, that the numbers of
agents precede those of workflows (which stands for the order of the two announcing
loops), that the caller of Start calls no Shutdown, and that some tool is outside the
reserved namespace, none without a name. Those of the schemas say what a schema and a
value are: records of the Go types, whose parts are nested less deep than they are (a
Go value with a cycle has no JSON), with any `Depth` as the deepest; that arrays have
at most `MaxItems` items, `Fields` and `Texts` being all names and texts; and that
what goes in and comes out of a tool is among the values. The store needs none.

Every proof has the same shape: an inductive invariant, a conjunction of named
parts; a lemma for the many steps that touch none of a part, the others taken
action by action; and a last step by temporal logic.

*App lifecycle*, for any number of goroutines, servers and components.

- `TypeCorrect`: the part of `TypeOK` that needs an argument is `LoopTypeOK`. The
  lengths never pass `N` because `StartServer` is reached only through the head of
  the loop, and the local counter does not move in between (`LoopInv`).
- `StartupCorrect` (`SingleStartup`) and `NoWaiterLost` (`NoLostWaiter`): that no
  server is started twice rests on where the one starter is. While the App is
  `created` nobody is inside start and no server was started (`CreatedInv`); the
  field `startCh` is set exactly while somebody is inside start (`ChannelInv`); a
  server past the starter's position has not been started (`FreshInv`); the App has
  left `starting` before the channel is closed (`FinishInv`).
- `ServersProtected` (`ServerProtocol`): each slice of started servers, the field's
  and the locals', holds servers that did come up, whatever became of them since
  (`PrefixInv`), and a reverse loop starts within such a slice (`ReverseInv`).
- `ShutdownComplete` (`ShutdownDrains`): a goroutine in Shutdown has not touched
  its locals before (`CallerInv`), and behind its reverse loop every server is gone
  (`DrainInv`); gone servers stay so by the lemma of the previous theorem.
- `SuccessComplete` (`SuccessMeansStarted`): once the App has run, or somebody was
  told that it does, the startup is complete and nothing of it is undone
  (`LiveInv`); until start returns nobody can have been told that it failed
  (`PendingInv`); the one inside start knows how far it is (`BootInv`).
- `KeepsContract` (`ImplementsContract`): until `raced`, whoever is inside start or
  drains the servers knows exactly which of them are up: the first `local` of them
  on the way up, the first `idx` on the way down (`PlaceInv`), and there is one such
  goroutine at most (`SingleStartup`, `OneDrain`). The others are not at a place
  that its step could falsify (`PlaceOthers`). Its steps map to the actions of
  `AppContract`; all other steps stutter.

*Demo application*, `DemoAppProofs`: the App with its server, for any agents,
workflows, callers of Shutdown and requests. The steps of the three (start, a
Shutdown, the server with its handlers) are first told apart (`JointCases`,
`StarterStays`, `StopperStays`), so that a part of the invariant that speaks of one
of them is shown against its steps only.

- `TypeCorrect` (`TypeOK`).
- `DrainsAll` (`DrainWaits`): a Shutdown that holds the server has found its fields
  set; leaving it without an error leaves it in shutdown, where nothing is
  accepted any more, with nothing in flight (`StopperInv`, `DrainInv`).
- `HandlersResolve` (`ResolvesWhileServed`): what start has built and published
  follows from where it is (`MapInv`), how far the Server's Start is from the
  fields, the listener and the goroutine that serves (`ServingInv`); a handler runs
  only once the server serves (`RequestInv`).
- `KeepsContract` (`ImplementsContract`): until `raced`, the state of the App
  follows from where start is (`StageInv`); one Shutdown at most stops it, and that
  one has the Server (`ActiveInv`); the port is not closed before the App stops, and
  once it has stopped the port is closed or the server has been shut down
  (`PortInv`); and a server that was shut down has an open port only as long as the
  Serve goroutine is spawned and has not run (`HandoverInv`), which is the case that
  `ServerUp` leaves out. The invariant needs the position inside the Server's Start
  and Shutdown, since the abstract step is one of their middle steps.
- `TellsInOrder` (`KeepsJournal`): until `overlapped`, the last event told and the
  one composed follow from where start is (`BootJournal`, `DoneJournal`) or from the
  one Shutdown that stops the App (`HaltJournal`). That the announcing loops leave
  no component out and repeat none rests on the least element of a set of numbers
  (`LeastElement`, from the library's facts on well-founded relations over sets,
  which take no operator) and on what comes after it (`NextInOrder`).

*Run and stream*, for any limits, buffer and number of guardrails.

- `RunTypes` (`TypeOK`).
- `OneOutcome` (`OutcomesAgree`): the invariant says of each point of `execute`
  what has been decided there (`OutcomeInv`), whether a tool was called as the
  `ToolChoice` wants it (`ToolsInv`), and where the run goes on after the event
  being emitted (`EventInv`).
- `RecvContract` (`RecvProtocol`): an early Close owes the consumer exactly one
  `ErrStreamAborted`, which is pending or told (`CloseInv`, `DoneInv`).
- `InOrder` (`StreamInOrder`): the buffer follows the last event received, without
  a gap until the context ends (`OrderInv`, `LastInv`).
- `EventsOrdered` (`EventProtocol`): from `EventInv`. The engine's actions are
  first abstracted to what they do to the stream (`Moves`), so that the sink's
  invariants are shown once per kind of move.

*Text*: `AdjustedTextKept`, `BufferKept`, `FinalTextAgrees`. As long as `adjusted` is
not set, the buffer is what the model has sent in the turn, but for the chunk that is
still in the guardrails (`MarkInv`); so text that differs comes with the mark, and
the answer is the buffer, which is what was shown (`ShownInv`, `AnswerInv`). The final
text begins with the answer, and nothing is saved before the last output guardrail
has passed it (`ResultInv`).

*Reasoning*: `ResponsesApproved`, `BudgetsHold`, `DisabledIsFinal`. With
`require`, reasoning is never disabled, and the run is about to respond only when
approved (`ApprovedInv`); once disabled it neither thinks nor analyzes
(`DisabledInv`). `Normalize` is idempotent and its budgets positive.

*Workflow*: `RetriesBounded`, `FailureIsFinal`, and `KeepsHistory`, the
refinement of `WorkflowAudit`. For each point of `Run`, `Arrives` says what the
last entry may be; for the event on its way, `Follows` says that it may come
after the last entry (`AtInv`) and that the run will be where `Arrives` wants it
(`EmitInv`). After a lost append only the end may come (`LostInv`).

*Memory*: `IndexAgreement`, `SavesEndure`, and `KeepsConversations`, the
refinement of `ConversationLog`. A snapshot is kept exactly where the index says
(`KeptInv`) and no bucket is empty (`StoreInv`), across moves between scopes;
snapshots name only runs that have saved (`KeptSettled`, `LoadedInv`), so that a
run is new where it saves.

*Tool registry*: `TypeCorrect`, `RegistrationAtomic` (`AllOrNothing`),
`NamesNeverRebound` (`NeverRebound`), for any number of concurrent calls and any
batches. A call inside its critical section holds the lock (`LockInv`), has a
result only when done (`ResultInv`), and works on a copy that extends the registry
with tools of its own, among them everything it accepted so far (`CopyInv`).
`Commit` then only adds.

*Tool calls*, for any tools, requests, schemas and values.

- `CallsPermitted` (`OnlyPermitted`, with `CallTypeOK`): the tools of an agent that was
  built are those it was given (`AgentInv`), what a run offers is what the filter
  makes of the caller's own request, choice included (`RequestInv`); hence a name is
  available exactly when it is permitted (`AvailableIffPermitted`), and a call that
  was found available stays so until it ends (`CallInv`).
- `ValidationExact`: validation accepts the values that a schema stands for, and no
  other, however deep both are nested: `Errors` is empty exactly on `Meaning`. The
  proof goes up the nesting. What holds of the values nested up to `n - 1` holds of
  the parts of one nested up to `n` (`ArrayShape`, `ObjectShape`); an object is then
  in the meaning of its schema when each of its fields is in what the schema has for
  it (`ObjectsMeant`), and has no error when none of its fields has one
  (`NoFieldErrors`), and likewise for arrays. Values without a schema come first
  (`JSONExact`), since undeclared fields and items are judged by them. The library's
  induction theorems take an operator and cannot be used; induction over nestings
  (`LevelInduction`) is proved from the least element of a set of numbers
  (`LeastNatural`), and that from the inclusion of finite sets being well-founded.
- In the same way, an accepted schema has a type that is supported in all of its
  parts, so that no value meets another (`ValidIsSupported`), and stands for some
  value (`ValidIsMeant`): its required fields are declared, the schema of each has a
  value by induction, and the object of these is one.
- `ContractKept` (`ToolContract`): a definition is valid wherever one of its tools is
  called, and whatever is at the tool, given to the next turn or refused has been
  judged by validation (`CheckedInv`), which is exact.
- `SettledWhenBuilt` (`DefinitionsSettled`): an agent that has tools was given valid
  definitions (`AgentInv`), and a call in progress has one, so the two results about
  accepted schemas apply to every call.

Every invariant and action property of the passing runs is proved in this way.
Model-checked only: liveness (`EveryCallReturns`, `CancelEndsRun`,
`ReaderReachesEOF`, `ListenerReleased`), which rests on ENABLED and fairness, out of
the prover's reach.

## 7. Where code and documentation differ

Each of these is a run that TLC finds violated:

- `StoppedIsFinal`: `start` sets `running` without looking at the state
  (`app.go:881`), so a Shutdown that finished during startup is undone.
- `ClosedNeverCompletes`: after the last turn nothing checks the context and
  `emit`'s `select` may send although it is done; `agent.completed` can follow a
  Close that has returned.

Seen while modelling, without a run of their own: a history that rejects the last
entry keeps `workflow.ended` from the hooks (`chain.go:463`), where
`specs/070-workflows.md:531` says that its failure must not prevent `onEnd`; when a
Shutdown meets the startup, `app.started` may follow `app.stopping` or
`app.stopped` and carry their state, and the App may end as stopped without a list
of servers while the server is up (`app.go:881`, `:314`); requests in flight at a
Shutdown are waited for and not told to end (`cmd/demo-app/server.go:120`;
`specs/031-app-instance.md` 11.2 has the Shutdown cancel them cooperatively);
a second Shutdown returns nil while the first still drains (`app.go:288`); a
`Server.Shutdown` that comes before the Serve goroutine has run returns nil with
the port still open (`cmd/demo-app/server.go:103`, `:120`), and the App is
stopped until that goroutine closes it; a stream guardrail's transform counts only if
the delta that leaves the last rule differs from what the model sent
(`engine.go:953`): after a transform to the same delta, or one that a second rule
undoes, the answer is the model's own message, if it sent one (`engine.go:486`),
where `specs/060-guardrails.md:403` and `:212` take the approved buffer once a
transform was applied (`:402` allows the model's message when the content was not
altered); the text of `Generate` and of a suggestion by the reasoning passes no stream
guardrail (`engine.go:374`, `:206`); a delta the model sent without `RunID` or
`Role` counts as adjusted (`engine.go:953`), so the answer is then the text of the
deltas and not the model's message; of two overlapping runs of a
session one is lost, though its `Save` returned nil (`in_memory_store.go:97`;
`KeepsLog` excludes runs that were overtaken); `AllowedTools` entries are trimmed
to be validated (`agent.go:586`) and compared untrimmed (`engine.go:1273`), so an
entry with space around it is accepted and allows nothing, where
`specs/030-agent.md:384` makes the request invalid or the tool available; a call
to which the model gave no ID keeps the empty one in the assistant's message,
while the tool's answer carries the generated one (`engine.go:263`, `:301`);
a server whose start ends after
Shutdown's snapshot stays up when the startup then gives up (`app.go:839`,
`specs/031-app-instance.md:544`), and what the factories built stays published
(`:545`); the first event is not `agent.started` when the context is already done
(`engine.go:82`, `specs/030-agent.md:433`), and a canceled stream may lose its
terminal event in the `select` (`engine.go:548`, `:439`); a zero-delay retry
ignores a cancellation (`chain.go:533`, `specs/070-workflows.md:383`); a rejected
transition emits no error event (`chain.go:265`, `:464`); `onFinish` has run when
the append of the last entry fails (`chain.go:126`, `:465`). Reasoning: in
fail_open a cancellation inside think is swallowed as a failure of reasoning
(`reasoning.go:400`), and with the default budgets a guarded run that uses one
tool exhausts its steps before the final answer.

## 8. Abstractions and what is not modelled

- Contents: messages (but for `StreamText`), tool inputs and outputs (but for
  `ToolCall`), usage, metadata. No property depends on them except through what
  the models keep (a session, a scope, a candidate's kind).
- In `AgentRun` the store is always there (`memory == nil` skips two calls), and a
  response has at most `MaxCalls` calls.
- A panic in a hook is recovered by the code and has no effect; panics elsewhere
  are not modelled.
- `ToolCall` has one call per turn and leaves out the failures that `AgentRun`
  has; a registered definition does not change (it is copied); duplicates among
  an agent's tools are a conflict in `ToolRegistry`. Texts, numbers and other Go
  values are told apart only as far as validation does.
- `DemoServer` leaves out the static page, methods and paths that are refused
  before a handler looks at any state, and what an answer says. `StreamText`
  leaves out the delivery of deltas, which `AgentRun` has.
- `Invoke`: `EnsureStarted`, the start hook, the callback and the end hook in the
  caller's goroutine, with no state of its own; what can race in it is
  `EnsureStarted`. The merge of defaults and the options of `agent.New` other than
  tools fill in values before anything runs. The builder of workflows validates a
  value once; the state of a workflow run is a map with a lock, used by one
  goroutine, as is the working memory. The demo's scripted model, tools and
  guardrails are deterministic instances of what `AgentRun` leaves open. Logger,
  types and examples have no state. `PROJECT.json` "components" says so part by
  part.

## 9. Plan

The order followed the weight of the behaviour: (1) App lifecycle, (2) run and
stream, (3) workflow, (4) memory, (5) tool registry, (6) reasoning, (7) tool
calls and schemas, (8) the App's events and names, (9) the demo server composed
with it, (10) the text of a run; with the abstract specification of each where
there is one to state, and the proofs of section 6. Left:

1. *Prove.* The invariants that hold without the exceptions `raced` and `overlapped`
   of the App: what still holds after a Shutdown has met the startup.
2. *Model.* `Invoke` with its hooks, and the builder's validation of chains.
