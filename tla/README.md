# A TLA+ model of cloudy-agent

cloudy-agent is an operations assistant: a language model in a ReAct loop with
read-only tools for Kubernetes, Prometheus, logs and databases, used from a
terminal UI, from one-shot commands, and from Slack, Discord and Telegram
("ChatOps").  This directory holds TLA+ modules for the parts of it whose
correctness depends on order, concurrency, failure or accumulated state, the
TLC configurations that check them on small instances, and TLAPS proofs of the
theorems that matter most.

Paths below are relative to the repository; `chatops/` is `internal/chatops/`,
`core/` is `internal/core/`, and so on.

    tlc -workers 2 -config ChatOps_queue.cfg MCChatOps      # one run
    tlapm ChatOps_proofs.tla                                # the proofs of ChatOps

`PROJECT.json` names, for every definition that models code, the lines it
models; it also lists the runs, a mutant of the code for every property, the
hazards, the divergences found and the theorems.

## Inventory

### Modelled

**ChatOps admission** (`chatops/policy.go`).
State: `Policy.windows`, one fixed window per source, under `Policy.mu`.
Operations: `Authorize` (stateless checks of authentication, text and allowlist, then
`checkRate`), which prunes, evicts at capacity, opens or counts a window.
Hard: the clock is read before the mutex is taken, so decisions happen with
times out of order; eviction hits an arbitrary source, even the asking one;
fixed windows let a burst through on both sides of a border.
Correct when: a source gets at most two limits' worth in any window's length, is
never refused for what somebody else sent, and the map stays bounded.

**ChatOps service and queue** (`chatops/service.go`, `types.go`).
State: `Service.seen` (idempotency keys with the time they were marked),
`Queue.jobs` (buffered channel), `Queue.closed`, one goroutine per worker.
Operations: `Handle` (Authorize, markSeen, Enqueue, unmarkSeen on failure),
`Queue.worker`/`run` (look up the session, run, remember, deliver), `Shutdown`.
Interaction: many HTTP handler goroutines call `Handle`; three different locks
are taken one after the other; workers share the session map and the session
files; the process may end between any two steps.
Hard: the same event delivered to several handlers at once; undo of a mark
after a failed Enqueue while others observe it; a channel that is closed while
handlers send; slow runs between a read and a write of the same file.
Correct when: an event is accepted once while its key lives and never locked
out by a failed attempt; every accepted job is concluded exactly once or lost
only with the process; after a drain nothing is pending.

**Session map, runner, snapshots** (`chatops/session_map.go`,
`core/runner/runner.go`, `session/resume.go`).
State on disk: `sessions.json` (conversation to session) and one
`history.json` per session.
Operations: `Lookup`, `Remember`, load of the snapshot, `SaveHistory` at the end of a
run.  Errors of the last two are only printed or dropped.
Correct when: conversations never mix; what a conversation remembers can be
resumed; a follow-up runs with the turns answered before it.

**Telegram poller** (`chatops/telegram.go`, the loop in `ui/cli/chatops.go`).
State: `TelegramPoller.Offset`, in memory; Telegram keeps every update until a
request with a higher offset confirms it.
Hard: an answer may be lost after the request has confirmed; an update that
`Handle` refuses is asked for again, in front of all others; a restart forgets
offset, keys and jobs.
Correct when: nothing is confirmed that was not dealt with, a process queues a
prompt once and in order, and every prompt gets into the queue.

**Agent loop** (`core/agent/agent.go`, `hook*.go`, `wiring/registry.go`, and
what `ui/tui/run.go` does around a turn).
State: the transcript, the step counter, the duplicate detector, the token
counters, the registry resolved at the start, the live registry, the context.
Operations: `New`, `Run`, stream a turn, dispatch a call through the hooks
(duplicate, limits, approval), run the tool, end by answer, error, cap,
deadline or cancellation.
Interaction: the TUI hands each run the history the run before it returned;
`/setup` replaces the live registry under a running agent; the operator answers
an approval prompt, or does not.
Hard: a run that ends inside a batch of calls leaves a transcript that the next
run replays; the approval hook looks at one registry and the run executes from
another; a deadline that passes while a prompt is open.
Correct when: results sit at their calls, requests are complete, no history is
lost, a high-risk tool never runs without consent, a repeated call is never run
three times in a row, the caps end the run, and every run returns.

**Permission profiles** (`permission`, `core/runner/runner.go`,
`wiring/orchestrator.go`, `cmd/main.go`, `ui/cli/cli.go`, `ui/tui/run.go`).
State: a file of rules per profile, the marker of the active one and
`$CLOUDY_PROFILE`, on disk or in the terminal; in a process the registry that a
profile narrowed, its limits and its masker.
Operations: `cloudy profile` (new, use, none), an edit by hand, `LoadActive` and
`Load`, `Apply` in `Rebuild`, the masks of a turn, of the log and of the snapshot.
Hard: the terminal UI takes tools, limits and masks from three loads at three
times, and commands move the marker in between; the jobs of ChatOps install
their registries side by side, each as the one of the process.
Correct when: a one-shot run calls only what the rules it was given allow, and
nothing that is saved is masked less than what the model saw.

**Correlation** (`core/tools/correlate`, with the sources of
`core/tools/change`).  The tool `correlate.workload` asks its sources one after
the other, merges, sorts and cuts what they return, and ranks the changes
before the earliest symptom.
Hard: sources fail, are silent or return less than they have; the cut comes
before the ranking; ties; a change mirrored by two sources.
Correct when: what the tool says of the events is true of the events.

**LLM fallback and breakers** (`core/llm/fallback.go`, `circuit.go`).
State: per candidate the times of its failures; per request a place in the
chain, a goroutine that forwards chunks, a bounded channel.
Hard: callers side by side; the clock moves under them; a cancelled caller fails
like a broken provider; a reader may stop reading.
Correct when: a breaker looks open exactly while its failures are recent, is
charged only for what its provider did, protects a dead endpoint, and every
request ends.

**Tool calls in a stream** (`core/llm/{anthropic,openai,openai_compat,google}`,
`streamAssistantTurn`).  Correct when each call arrives once, with its own name
and its own, whole arguments, also when the body ends early.

**Database clients and tunnels** (`core/tools/db/client.go`,
`transport/k8sportfwd.go`, `wiring/orchestrator.go`).
State: per build and endpoint a goroutine with a deadline, a port-forward
goroutine behind it, the map of clients, skip reasons; the active registry.
Correct when: a finished build has an answer for each endpoint and leaves no
tunnel that nothing answers for, ends by its deadlines, and is final.

**Incident memory** (`incidentmemory/store.go`): one JSONL file that several
processes rewrite under a lock file, and a cache per process that is valid
while size and time of the file match.
Hard: a clock too coarse to tell two writes apart; a reader between two Stats; a
crash with the lock held.
Correct when: cache and answers are current, decisions stand, no card is lost.

**Secrets** (`secrets/store.go`): `Load` exports the file to the environment,
`Add` reads it, changes a key and renames a new file into place; no lock across
processes.  Correct when no key is lost and no old value comes back, but for
the reasons the code admits.

**Self-update** (`selfupdate/selfupdate.go`): tag, download, digest, check,
rename, in several processes while releases appear.  Correct when there is
always a binary that starts, what is installed was checked, nothing is
downgraded, and failures leave no litter.

**TUI turns** (`ui/tui/app.go`, `agent_runner.go`, `run.go`, `compact.go`).
State: in the Model `running`, `agentCh`, `cancel`, `queuedInputs` and
`playbackActive`, touched by the Update loop alone; in `convoState`, under its
mutex, the history, its version and the session; the snapshots on disk.
Operations: submit, Ctrl+C, Esc, Ctrl+L, `/clear`, `/compact`, `/new`,
`/resume`; the messages of a run (event, done), of playback and of a compaction;
the goroutine of each run and the command of each compaction.
Interaction: a run sends events into a channel of its own, a pump command reads
one at a time and is issued again by the loop on whatever channel is current;
runs and compactions read the conversation, work for a long time, and store it.
Hard: a cancelled run lives on, and its messages and its history arrive later;
a turn is over in several places, by Done or by the end of the typing, and each
of them must start the follow-up that waits; the last send of a run blocks if
nobody drains.
Correct when: turns stay in the session they were begun in and none is stored
over, a compaction replaces what it summarised, inputs run in their order and
none is stranded, no follow-up cancels a turn, every run ends.

**TUI transcript** (`ui/tui/app.go`, `agent_runner.go`, `stream.go`,
`playback.go`): the chip of a question, the buffer of the typewriter, the live
viewport and the scrollback.  Correct when what was asked and answered is on
the screen whole, once and in order, whatever interrupts the typing.

**TUI dialogues** (`ui/tui/loginchat.go`, `setupchat.go`, `arrowpicker.go`,
`scope_picker.go`, and their part of `app.go` and `run.go`): `/login`,
`/setup` and the pickers of `/model`, `/skill` and `/scope` share a prompt, a
picker and a message type; scans, saves and lists of namespaces report without
saying for whom; `/login`, `/model` and `/setup` write `config.yaml`.
Correct when an answer reaches the flow that asked, what is saved belongs
together, and the writers keep each other's settings.

**Setup wizard** (`setup/wizard.go`, `discovery/coordinator.go`,
`wiring/discovery.go`): from the choice of contexts over findings, credentials
and hints to three files.  Correct when the endpoints saved are those chosen,
each with its own credential and name, the files agree, and a dry run writes
nothing.

**Approvals and reviews in the TUI** (`ui/tui/run.go`, `agent_runner.go`,
`app.go`).
State: `pendingApproval`, `pendingMemoryReview`, the picker and the palette in
the Model; a reply channel of one place per approval; the goroutine of the turn
that waits at it or at its context.
Operations: the approver's request, the banner, y, n, Esc and Ctrl+C, with the
order in which `Update` routes a key (picker or palette, review, approval,
prompt); `/memory-review`; pickers that open by themselves when what they list
arrives.
Hard: a turn that gave up at its deadline leaves its banner behind; a review and
an approval may both wait; a picker may cover either.
Correct when the yes to one question counts for that call alone, the loop never
blocks on a reply, and each question comes up.

### Partly or not modelled

| part | what is there, and what is left out |
| --- | --- |
| ChatOps adapters | the Telegram poller in full; of the webhooks, that they call `Handle`, perhaps several times for one event.  Parsing, signatures and the wording of replies keep no state |
| Runner and snapshots | the snapshots as a chat turn or the TUI sees them; the append-only session log is left out |
| Interactive TUI | all that starts, stops, interrupts, asks and answers; the texts of the palette, `/update`'s message, the quit by a second Ctrl+C and the splash are left out |
| TUI views | what is on the screen, as a sequence of items; wrapping, folding, selection, styles and the editing of the prompt are left out |
| LLM providers | the stream parsers with regard to tool calls; building requests and listing models are left out |
| Tool registry and tools | which calls a registry serves, `correlate.workload`, the database clients; the other tools are read-only queries of one external system |
| Configuration | `Save` as the read, change and rename its callers make of it; YAML, defaults and validation are functions of text |
| Discovery and setup | the wizard and the scan it starts; detectors, doctor and recommendations are external calls and functions of their results |
| Wiring, cluster transport | the live registry, the builds of database clients, the tunnels; the other constructors keep no state, the API clients are network I/O |
| Command line | how `serve` and `telegram-poll` start, loop and stop; flags and printing are left out |
| Permission profiles, masking | which rules a run, a turn and a snapshot have; the parsing of the files and what a pattern replaces are functions of text |
| Agent text hooks | not modelled: functions of text, which never refuse a call by themselves |
| Skills, environment memory | not modelled: prompts read at start; one file to which lines are appended |
| Gateway, rendering | not modelled: output of configuration and of results |

Most of the lines that no module models are of these kinds: translation between
wire formats and Go structures, layout, constructors, and read-only queries of
one outside system.  A model of them would repeat them.

## Modules

| module | models |
| --- | --- |
| `ChatPolicy` | the clock and the rate limiter; used by the next two |
| `RateLimiter` | concurrent calls of `checkRate`, with the clock read before the mutex |
| `ChatOps` | the whole path of a chat event: Handle, queue, workers, session map, snapshots, shutdown, restart |
| `JobLedger` | what the queue promises, without its goroutines; implemented by `ChatOps` |
| `TelegramPoll` | the poller, its loop, lost answers, refusals and restarts |
| `AgentLoop` | Agent.Run with its hooks, over the runs of a conversation |
| `ProfileScope` | permission profiles, and the three callers that they narrow |
| `ApprovalGate` | approvals, reviews and overlays of the TUI, and which of them gets a key |
| `Correlate` | the sources, the merge, the cut and the ranking of `correlate.workload` |
| `Fallback` | the chain of providers, the breakers, the forwarding goroutines |
| `ToolStream` | tool calls through the stream parsers of four adapters |
| `DbTunnels` | builds of the database clients and their port-forwards |
| `IncidentMemory` | the incident cards, their lock file and the cache |
| `Secrets` | the credentials file and the environments it is exported to |
| `SelfUpdate` | the update of the binary while releases appear |
| `TuiTurns` | the interactive TUI: Update loop, goroutines of the runs, follow-ups, playback, compaction, `/new` and `/resume` |
| `Transcript` | the same turns as the screen sees them |
| `TuiFlows` | `/login`, `/setup`, pickers and the saves of `config.yaml` |
| `SetupWizard` | the full-screen wizard and the discovery it starts |
| `Ordering` | what a sort returns, stated by places; used by `Correlate` and `SetupWizard` |
| `*_proofs` | theorems about the module of that name; also about `ApprovalGate` and `ProfileScope` in `AgentLoop_proofs`, about `RateLimiter` in `TelegramPoll_proofs`, about `Transcript` in `TuiTurns_proofs`; `Backends_proofs` is about `Fallback`, `DbTunnels` and `ToolStream`, `LocalFiles_proofs` about `SelfUpdate`, `Secrets`, `TuiFlows`, `IncidentMemory` and `SetupWizard` |
| `MC*` | constants of the instances that TLC checks, and what runs side by side |

How they fit together.  `ChatOps` and `RateLimiter` extend `ChatPolicy`
(Authorize calls `CheckRate`); `ChatOps` instantiates `JobLedger` with a
refinement mapping.  The other modules meet at interfaces that each abstracts:
to the queue an agent run is one call that succeeds or fails (`RunSucceeds`,
`RunFails`), and the poller sees a queue that has room or has not; to the TUI a
run emits events and returns a conversation that extends the one it was given
(`HistoryKept` of `AgentLoop`; `EmitEvent` and `Store` of `TuiTurns`); to the agent
loop a tool is its observation, an approval its outcome (`Approve`, `Deny`,
`ApprovalAbandoned`, which `ApprovalGate` opens up), a provider's turn the calls
that arrive (`CallsWhole`), and a registry the calls it serves, whose clients
`DbTunnels` makes and which `ProfileScope` narrows.

`MCAgent`, `MCAgentLoop`, `MCBackends`, `MCChatEdge`, `MCLocalFiles` and `MCTuiTurns` check several
modules that share no variable in one run.  Their variable `part` says which of
them a behaviour is about; it never changes, and the variables of the others keep
an initial value.  So a behaviour of such a run is a behaviour of one module,
each of those occurs, and the properties of the others are looked at in an
initial state only.  Nothing is gained or lost but the number of runs.

### How ChatOps corresponds to the code

An action is the code between two points where another goroutine can interfere:
a lock, a channel operation, a file access, a call into the agent.

| action | code |
| --- | --- |
| `Arrive` | an adapter calls `Handle`; `ReceivedAt` is stamped.  The platform may deliver an event to several handlers |
| `Authorize` | `Policy.Authorize` with the stateless checks first; the time of the limiter lies between arrival and now |
| `MarkSeen` | `markSeen` under `Service.mu`: prune by age, answer duplicate, drop an arbitrary key at capacity, mark |
| `Enqueue` | `Queue.Enqueue` under `closeMu`; also the refusals (closed, full, context done) |
| `Unmark` | `unmarkSeen` after a failed Enqueue |
| `Take`, `WorkerExit` | the range over the channel |
| `Lookup`, `LoadHistory`, `RunFails`, `RunSucceeds`, `Remember`, `Deliver` | `Queue.run`, and `runner.Run` inside it |
| `BeginShutdown`, `ReturnShutdown` | `Queue.Shutdown` and its two ways to return |
| `Restart` | the process ends (a crash, or `main` returning early) and starts again; only files survive |
| `ClockTick` | time |

Data that is abstracted: a job is named by its handler, a session by the job
that created it, a history is the set of turns in it, a reply is an answer or
the failure notice.  `forgotten` and `prior` are history variables: they record
what happened and enable nothing.

### How AgentLoop corresponds to the code

`mode` says where `Run` is: `StartRun` is `agent.New` and the top of `Run`
(system message, history without system messages, user message, live registry resolved);
`RefuseRun` is `Run` returning before it has a transcript; `LoopHead` checks
steps and deadline; `StreamFails` and `StreamEnds` are a streaming turn with
`CostGuardHook.OnUsage`; `Dispatch` is `dispatchTool` through the duplicate,
limit and approval hooks in the order `New` registers them; `Approve`, `Deny`
and `ApprovalAbandoned` are the three ends of the approval prompt; `Execute` is
the tool and the hooks after it.  The environment is `DeadlinePasses`, `Cancel`
and `SwapRegistry`.  A tool call is its fingerprint (tool and arguments), the id
of a call is its place in the transcript.

### How TuiTurns corresponds to the code

An action of the loop is one message handled by `Model.Update`; an action of a
run or of a compaction is the code up to its next channel operation, lock or
file access.

| action | code |
| --- | --- |
| `Submit` | `submitMsg`: behind a turn the input is queued, otherwise `runAgent` |
| `HandleEvent`, `HandleDone` | the pump command and `agentEventMsg` or `agentDoneMsg`; `Rearmed` is `pumpAgentCmd` issued again, on the channel that is `agentCh` by then |
| `PlaybackEnds` | the last `playbackTickMsg` |
| `DispatchQueued`, `RunAgent` | `dispatchQueuedInput`, `runAgent`, as parts of the handlers that call them |
| `Interrupt`, `Clear`, `WriteStream` | Ctrl+C and Esc; Ctrl+L and `/clear`; every command that only prints |
| `New`, `Resume`, `Compact` | the commands, with their check of `running` |
| `Snapshot`, `EmitEvent`, `Store`, `Save`, `Announce`, `Close` | the closure of `makeAgentRunner` and the goroutine in `runAgent` around it; `Announce` may be given up once the run is cancelled, `Close` may not |
| `Take`, `SummaryFails`, `Install`, `SaveSummary`, `Report` | `makeCompactHistory` and `compactDoneMsg` |

A run is named by the number of its input; a conversation is the set of turns in
it, and a summary holds the turns it was made from.  Whether a reply has prose
to type out, whether the context is full enough to compact, whether a run
returns messages, and whether a write succeeds are choices.  What a stored run
or a finished compaction no longer needs is reset, to keep the state space small.

### How the other modules correspond to the code

The head of each module states its abstractions; `map` in `PROJECT.json` leads
from each definition to its lines.

| module | one action is |
| --- | --- |
| `ApprovalGate` | one message of the Update loop (a key, an event, a tick), or one step of a turn's goroutine up to its next channel operation; `TakeAnswer` and `GiveUp` are the two cases of the approver's `select` |
| `ProfileScope` | one load of a profile, one write of a command, or the step of a run between two of them: `BootTools` and `BootLimits` are the two loads of the terminal UI, `TurnLoads` to `TurnEnds` a turn, `ChatLoads`, `AskLoads`, `RunBuilds`, `RunStarts`, `RunCalls` and `RunSaves` are `runner.Run` |
| `Correlate` | one source that answers, then the merge, the cut and the ranking; what a source returns is a choice among what happened |
| `Fallback` | a check of a breaker, a call of a provider, a chunk sent by the parser, taken by the goroutine of `wrapChunks` or read by the caller; a tick |
| `ToolStream` | one entry of a line of the stream read by the adapter, or one call sent of those it kept; how the server cuts calls into lines is chosen at the start among the styles of its API |
| `DbTunnels` | a step of an endpoint's goroutine or of its port-forward, its deadline, the publication of a registry, the end of a run |
| `TelegramPoll` | a getUpdates with its answer or its loss, one update given to `Handle`, a job taken by a worker, a restart |
| `IncidentMemory` | one system call (Stat, read, lock, rename, unlock) with the work up to the next one |
| `Secrets`, `SelfUpdate` | one file operation or download |
| `TuiFlows` | one message of the Update loop, or a scan, list or save that ends |
| `SetupWizard` | one key of the wizard, the end of the scan, one of the writes at the end |
| `Transcript` | one message of the Update loop, with what it prints; a run's send |

## What is checked

Every property of a passing run has a mutant in `PROJECT.json`: a plausible slip
in the code for which TLC finds the property violated.  Many properties are
conjunctions of the named parts in the third column, each commented where it is
defined.

| run | instance | shows |
| --- | --- | --- |
| `ChatOps_admission` | 3 deliveries of 2 events, room for 1 key and 1 job, keys that expire, shutdown, a restart | `AtMostOnce`; `KeysAccounted`: `KeyOwned` (the inductive form), `SeenBounded`, `NoOrphanKey` (a refused event can be delivered again); `TypeOK` |
| `ChatOps_queue` | 3 jobs of 2 conversations, 2 workers, channel of 2, a store that may fail at each access, a restart | `JobsKept`: `JobsConserved`, `ShutdownDrains`; `ConversationsIsolated`; `QueueKeepsLedger`: refinement of `JobLedger` |
| `ChatOps_serial` | 3 deliveries, 1 worker, 2 conversations, rate limiter on, one event rejected, a store that works, a restart, fairness | `FollowUpsResume`: `FollowUpContinues`, `RememberedResumable`; `QueueDrains`: `EveryJobConcluded`, `WorkersEnd` |
| `AgentLoop_gates` | 1 run of 3 steps, a high-risk and an over-limit call, token cap, deadline, registry swaps, fairness; 2 turns of the terminal UI, or 2 one-shot runs, beside one command and one edit, with 2 profiles and 3 kinds of rules | `GatesHold`: `ConsentFirst`, `NeverThrice`, `BudgetEndsRun`; `RunReturns`; `ProfilesHonoured`: `RunsKeepTheirScope`, `RunsSavedMasked`, `TurnsSavedMasked` |
| `Agent_answers` | 2 runs of 2 steps with batches of up to 2 calls out of 3; 3 turns with 2 approvals each, a review, an overlay, deadlines and Ctrl+C; correlation of 5 sources with up to 2 changes each | `TranscriptWellFormed`: types, `ResultsInPlace`, `RequestsComplete`, `StepsBounded`; `HistoryKept`; `ApprovalsReachHer`: `ConsentIsHers`, `ReplyHasRoom`, `QuestionsUp`; `AnswerIsTrue`: `UnexplainedIsSo`, `LeaderIsBest`, `ShownArePlausible`, `SharesNearHundred`, `PartialAnswers` |
| `TuiTurns_turns` | 3 inputs, 1 event per run, a channel of 1, 2 sessions, a compaction, 2 commands, fairness; on the screen 2 long turns or 3 short ones | `SessionKeepsItsTurns`, `NoTurnVanishes`, `CompactionIsFresh`, `SubmittedOrder`, `DispatchSparesTurn`, `TurnEnds`; `ScreenIsTrue`: `QuestionsKept`, `ReplyWhole`, `TurnsInOrder`, `BulletLeads`, `TypewriterRuns`; `FollowUpsStart` |
| `Backends_outages` | 2 callers of 2 providers, threshold 2, a clock that ticks once; up to 3 calls in up to 2 pieces in each of 4 dialects; 3 endpoints, two of one name, two behind tunnels | `BreakersHonest`: types, `OutageBounded`, `OpenIsRecent`; `BlameIsDue`, `RequestEnds`; `CallsWhole`: `CallsArrive`, `CutNeverHalves`; `TunnelsAccounted`: `TunnelsOwned`, `EveryEndpointAccounted`; `BuildsSettle`: `BuildEnds`, `PublishedFrozen` |
| `LocalFiles_writers` | 3 threads in 2 processes, 2 cards, a crash, a clock that stands still once; 2 processes with 2 keys and 2 adds; 2 updates, 2 releases of 2 builds; 2 `/setup` chats with a patient or hasty operator; a scan of 2 contexts | `CacheIsTrue`: `CacheHonest`, `ReadsFresh`; `DecisionsAndCardsStand`: `DecisionsStand`, `CardsStay`; `SecretsKept`: `OthersKept`, `ExportedIsStored`; `BinarySafe`: `BinaryStarts`, `FailureCleans`; `InstallsAreRight`: `NoDowngrade`, `InstalledIsChecked`; `DialoguesKept`: `AnswersHome`, `PickerOnScreen`, `PatientKeyIsPasted`, `SavedFits`, `WiredIsSaved`; `ConfigShared`; `WizardAsTold`: `EndpointsAsChosen` (`ChoiceSaved`, `AuthFollowsAnswers`, `NamesApart`), `FilesAsAnswered` (`SecretIsItsOwn`, `DryRunWritesNothing`, `SavedTogether`) |
| `ChatEdge_gates` | 4 updates of every kind, answers of 2, a queue of 1, lost answers, a restart; 4 calls of `checkRate`, 3 sources, 1 message per window of 2 ticks, room for 1 window, clock skew 1 | `PollerLosesNothing`: `ConfirmedIsHandled`, `OncePerProcess`, `NoneOvertakes`; `PromptQueued`; `LimiterFair`: `BurstBounded`, `RefusedForCause`, `WindowsBounded` |

Three runs end with a counterexample; see below.

### Why the bounds are enough

Two deliveries of one event and one of another are
what it takes for a duplicate, an eviction by a third key, and an undo between
them; capacity 1 makes every limit bite.  Two workers and two conversations
give every race on the stores; a third job is the follow-up that notices.
Three is the number the duplicate detector looks at, and batches of two let
such a sequence cross messages.  In the TUI one input runs, one
waits and one comes late; a channel of 1 blocks a run at each of its sends, which
the 64 places of the code do only to a run with many events; two commands are a
compaction and a `/new` or `/resume` that races it.
One restart lets every step be the last one of
a process and lets the next process meet what it left.

An approval that was given up, the next one of the same turn, and one of a later
turn need two asks in two turns; the third turn is the follow-up behind them.
Two callers at a threshold of two make one that passed the check while the other
opens the breaker, and a clock that ticks once lets failures age in between.  Three calls
are what a parser needs to confuse the first with the last while one is open;
two pieces make an argument that can be cut.  Three endpoints hold a tunnel, one
of the same name and one without a tunnel.  Four updates are one that is
confirmed, one at the head that is refused, one that wants to overtake and one
that comes late.  For the cards, two threads share one cache and a third writes
from another process; two ticks of the file's clock and one write that shares its tick
with the one before tell a change from a copy that looks the same.
Two profiles let the marker move from one to the other, three kinds of rules
allow, deny and fail, and two one-shot runs let one install its registry under
the other; two turns are one before and one after the move.
Two releases of two builds let a download and its digest be of
different ones.  Two `/setup` chats let what the first one started reach the second.

Bounds that are the model's and not the code's: `MaxTime`, `EndOfTime`,
`MaxRestarts`, `MaxRuns`, `MaxBatch`, `MaxSkew`, `MaxInputs`, `MaxEvents`,
`MaxSessions`, `MaxCommands`, `MaxData`, `MaxCalls`, `MaxPieces`, `MaxTicks`,
`MaxRepeats`, `MaxCrashes`, `MaxAdds`, `MaxExits`, `LastRelease`, `LastBuild`,
`MaxKills`, `MaxChats`, `MaxAnswers`, `MaxSaves`, `MaxHints`, `MaxListed`,
`LastTurn`, `MaxItems`, `MaxChrome`, `MaxEdits`, `MaxCommandsRun`, `MaxTurnsRun`, `MaxUpdates`, `MaxTurns`, `MaxAsks`,
`MaxReviews`, `MaxOverlays`, and the finite sets of handlers, callers, events,
calls, threads, processes, endpoints, cards and the like.  `Bounded` in
`MCTuiTurns` cuts the screen's part to two long turns or three short ones.

Handlers, workers and cards are symmetric in the definitions; symmetry is
used only in runs without liveness properties.  Deadlock is checked in the
ChatOps runs: `Quiet` allows stuttering only where all deliveries are answered, the
workers have ended and Shutdown has returned.  The other runs
switch it off, for they stop when calls, runs, inputs or updates are used
up; that nothing is stuck before is what `RunReturns`, `TurnEnds`, `FollowUpsStart`,
`RequestEnds`, `BuildsSettle` and `PromptQueued` say.

### Fairness

`ChatOps!Fairness` is weak fairness of each handler and each worker:
goroutines are scheduled, a run ends at `run_timeout` and a delivery at
`deliveryTimeout` at the latest.  Nothing is assumed about the platform, the
operator, the clock or Shutdown.  `AgentLoop!Fairness` is weak fairness of the loop's own
steps (streams end, tools honour the context) and of the deadline.
Nothing makes the operator answer a prompt, which is why `RunReturns` is
checked with a deadline; without one (`max_conversation_seconds` 0) an
unanswered prompt keeps the run waiting until it is cancelled.

`TuiTurns!Fairness` is weak fairness of each run's
goroutine, of the handling of what a pump command has read, and of the playback
ticks, which re-arm themselves; `TranscriptFairness` is the same, of the tick and of the end of a
run.  Nothing makes the operator act.

`FallbackFairness` is weak fairness of each caller (a call answers, fails or
meets its deadline, and a reader that was not refused reads on), of its parser and
of the forwarding goroutine.  `TunnelFairness` is weak fairness
of each endpoint's goroutine, of its deadline and of the publication; nothing is
assumed of the API server or the databases.  `PollFairness` is weak fairness of
the poller's own steps and of the workers, and strong fairness of getUpdates:
answers may be lost as often as they like, but not for ever.  The remaining modules have
safety properties only.

### Assumptions about who uses it

* With `Overlap = FALSE` the operator who
  interrupts a turn lets it end before the next input or `/new`, `/resume`,
  `/compact` (`Settled`; `NothingLingers` in `ApprovalGate`; `Transcript` likewise).  Without
  it most of what `TuiTurns_turns` shows fails; `TuiTurns_overlap` is the shortest of
  these stories.  The passing run says what holds in the patient use, all
  interleavings of runs, playback, queue and compactions included.
* `TuiFlows` lets the operator be patient or hasty, and its properties say which of
  them they need; the same holds of `tidy` in `SetupWizard`, an operator who
  empties a box before she leaves it.
* In `IncidentMemory` what relates the cache to the file holds while no two
  writes got one modification time (`repeats = 0`); `CardsStay` holds in any case.
* `Fits` in `Correlate` marks the answers whose events fit under the limit, `Keyed`
  in `ToolStream` the servers whose calls an adapter can tell apart.

## Where code and documents differ

Each of these is a run that TLC ends with a counterexample.

* `TuiTurns_overlap`: after Ctrl+C `running` is false while the run still ends;
  `/new` is let through, and the run then stores its history over the blank
  one, so the new session continues the old conversation (`ui/tui/run.go:224-227`
  says that `sess` and `history` are stable for the duration of the turn).
* `ToolStream_parallel`: the OpenAI adapter files a delta under its place in the line
  and not under the `index` it carries; two parallel calls that stream by lines
  of their own become one call with the arguments of both
  (`core/llm/openai/openai.go:301`, `:350`).
* `Setup_misrouted`: the one service proxy of a scan belongs to the first picked
  context, so that an endpoint found in a second one is saved with a URL of the
  first one's API server (`wiring/discovery.go:63-64`).

### Met on the way, without a run of their own

Chat service.

* `core/runner/runner.go:160` only prints an error of `SaveHistory` and returns the
  session id; the queue remembers a session without a snapshot, and each later
  message of the conversation fails with `ErrNoResumeState`.  `FollowUpsResume`
  is therefore checked with a store that works.
* With `max_concurrent_runs` above 1 two turns of one conversation run side by
  side and the later `SaveHistory` or `Remember` wins (`chatops/service.go:234`); an
  answered turn is missing from the next follow-up.  With one worker, the
  default, it cannot happen.
* Two windows of the limiter may lie closer together than their length by the
  time a caller waits for the mutex: `policy.go` reads the clock before it.  The
  double burst of `BurstBounded` is therefore bounded in intervals shorter than
  the window by the skew and one tick more; the proof of `LimiterFair` found the tick.
* Telegram: a full queue or a refused update stops `PollOnce` and is asked for
  again, in front of all others; a chat that is not allowed blocks the poller for
  as long as its update lives, where the webhook ignores the same update
  (`chatops/telegram.go:132`).  `PromptQueued` excepts
  what comes behind a refused update.

Agent.

* A denied approval ends the run (`Dispatch`, `Deny`), where
  `core/agent/hook_approval.go:12` to 15 calls it feedback to the model and not a
  loop-aborting fatal.  `hook_limits.go` says the same of an over-limit
  argument, which takes the same path.
* A deadline that passes at the approval prompt surfaces as a denial
  (`ApprovalAbandoned`), not as `ErrConversationTimeout`.
* Every turn of the TUI makes a new agent with new counters (`StartRun`), so
  `max_tokens_per_session` limits a turn.
* The history `Run` returns begins with the system message, while
  `core/agent/agent.go:420` says it is free of them; it does not accumulate,
  because `Replay` skips it.
* Profiles: `docs/PERMISSION_PROFILES.md:122` has `profile use` apply its
  restrictions to a running TUI at once.  The masks of its next turn follow the
  marker (`ui/tui/run.go:213-215`), tools and namespaces stay those of the start or
  of the last `/setup`, and limits those of the start (`cmd/main.go:132-133`).
* Profiles: `SetActive` empties the marker before it writes it, and who loads
  in between has no profile; every error of `LoadActive` leaves its caller without one
  as well; the terminal UI and `cloudy ask` load twice at the start, and may take
  tools from one profile and limits from another or none.
* `correlate.workload` cuts its timeline to the limit before it ranks, so that "no
  preceding change found in window" may be said of a window that has one;
  `k8s_source.go:41-43` swallows the errors of its lists, so that an outage reads as
  "no changes", against `correlate/tool.go:187`; the logs source drops what Loki found
  when Elasticsearch fails; the query of Loki gives the newest lines, not the first ones.

Backends.

* A caller that is cancelled in the middle of a stream counts as a failure of
  the provider (`core/llm/fallback.go:113`), though 76-77 and 89 keep cancellations
  apart.  `BlameIsDue` says what does hold.
* A reader that a hook refuses (`core/agent/agent.go:509`) stops reading, and the
  parser and the goroutine of `wrapChunks` wait for it (`fallback.go:116`).
* Gemini's calls have no id: the name stands for it (`core/llm/google/google.go:286`), so
  two calls of one tool share it.
* Nobody calls `CloseForwarders`: the tunnels of a registry that was replaced
  stay, against `core/tools/db/client.go:42-43`.  An endpoint that repeats a name replaces
  the client, not the tunnel, of the first one.

Local files.

* `secrets.Add` ignores `scanner.Err()`, so that a line too long to scan loses what
  follows it; `Add`s of two processes side by side lose a key; `Load` reads before it takes the mutex.
* `selfupdate`: an empty `.sha256` makes an index panic (310) and leaves the
  temporary file.

TUI turns.

* With overlap also: the Done of a cancelled run clears `agentCh` and `running`
  of the run after it, which then is read by nobody; a cancelled run stores
  the history it began with over the turns answered since.  `ui/tui/app.go:675`
  to 677 says that a cancelled run returns no messages; `Agent.Run` returns its
  transcript with every error after its start.
* A command that prints while a reply types out, or the report of an automatic
  compaction, ends the typing (`writeStream`, `ui/tui/app.go:1311`) and does not
  dispatch the queue: follow-ups behind the reply stay queued until Ctrl+C or
  `/clear` drops them all.  `FollowUpsStart` leaves such commands out.
* In fullscreen mode `commitTurn` does nothing, so the reply goes on typing beside
  the turn of the next input; when it is typed out, a queued follow-up is
  dispatched and cancels the turn in flight (`ui/tui/app.go:1326`).
* The chip of a queued follow-up goes to the screen with the next event of the
  turn before it, against `app.go:682-684`; Ctrl+C drops `playbackBuf`, against
  `app.go:564-566`; several loops of playback ticks may run; a tool's header tick
  replaces the first occurrence, and a commit in the middle of a tool leaves it stale.
* Prompt: Esc does not leave a Ctrl+R search; edits of a history entry are lost on
  Up and Down; accepting a hit or clearing the prompt leaves the place in the history.

Approvals.

* `agentDoneMsg` does not clear `pendingApproval`: after a deadline the banner stays,
  swallows keys, and its answer goes to nobody.  `ConsentIsHers` shows that it
  never goes to the wrong call.
* After Ctrl+C a late request of the cancelled run may come up beside a review,
  and y or n then goes to the review first, where
  `ui/tui/agent_runner.go:263-266` wants the key to reach the approval.
* The picker of `/scope` opens by itself when its list arrives
  (`scopeNamespacesMsg`), covers an approval and takes its keys.

Dialogues.

* `/login`: a second Enter pressed at once answers the next question, and may be
  saved as the key (`loginchat.go:37`, 72-74; `app.go:457`).  `PatientKeyIsPasted` is about one Enter.
* A namespace list of `/scope` that arrives late takes `/setup`'s answers (`app.go:791-793`); an
  approval or Ctrl+C drops a picker without its mode; a plain line in `/setup` never
  brings its picker back (649-658); the scan and the save of a cancelled `/setup` are taken for the
  next one's; both chats may be open though `app.go:188` says otherwise.
* `persistAndSwap` starts from `config.Default()` and erases what it does not know,
  against `setupchat.go:352-354`; the saves of `/setup` and `/login` race.
* Wizard: Esc leaves the text in the box for the next credential; names of variables ignore
  context and namespace; secrets are written before a later abort;
  Ctrl+C is ignored during scan and save; a hint may take the name of a finding
  and replace its client (`config/config.go:231`); a profile that was saved before `config.Save`
  failed is enough for `EnsureReady`.

## What is proved

Each theorem holds for every value of the constants that satisfies the named
assumptions of its module (`ChatOpsAssumption`, `PolicyAssumption`,
`AgentAssumption`, `ApprovalAssumption`, ...), which TLC evaluates in the runs.  Bounds such as `MaxRestarts`
are constants too, so "any number of restarts" is meant literally.

`ChatOps_proofs`

* `TypeCorrect == Spec => []TypeOK`.  The inductive invariant is
  `TypeInv == TypeOK /\ JobsAccepted`: that a worker has a job exactly while it
  is busy needs to know that what it takes from the channel is an accepted job
  of a handler.
* `AcceptedAtMostOnce == Spec => []AtMostOnce`.  `AtMostOnce` speaks of accepted
  handlers and is not inductive: a handler between `markSeen` and the end of
  `Enqueue` could be about to become the second one.  `KeyOwned` extends
  ownership of the key to the whole stretch from `markSeen` to acceptance or
  `unmarkSeen`, and adds that an owned key is in the map.  `MarkSeen` then
  cannot create a second owner, and `Unmark` cannot take another one's key.
* `KeysAreAccounted == Spec => []KeysAccounted`.  `MapInv` adds that the map is
  finite, without which its capacity says nothing, and that an event without a key
  is never in it.
* `JobsAreKept == Spec => []JobsKept`.  `LedgerInv` says where each accepted job is,
  once: in the channel, with a worker, concluded or lost; `ExitsInv`, that a
  worker leaves only a channel that is closed and empty.
* `QueueImplementsLedger == Spec => QueueKeepsLedger`: from `LedgerInv`, each action is a
  step of `JobLedger` or leaves its state alone.
* `FollowUpsContinue == OneWorker /\ ~StoreFaults => (Spec => []FollowUpsResume)`.
  `FollowInv` says that what the worker holds of a conversation is what the
  stores hold of it (`InStep`), so that a save adds a turn and loses none, and that
  the session remembered has every answered turn (`AnsweredKept`).  One worker is the
  default (`config/config.go:593`), and a store that works is what the run assumes; with two
  workers, or with errors that are only printed, the property fails as told above.
* `IsolationHolds == Spec => []ConversationsIsolated`.  `IsoInv` adds what a
  worker carries between its steps: the session it resumes, and the turns it
  loaded, belong to the conversation of its job.  That a handler's event and acceptance never change
  again (`AcceptedForGood`) is what makes "same conversation" stable.

`AgentLoop_proofs`

* `GatesAlwaysHold == Spec => []GatesHold`.  `GateInv` relates what was executed to the
  state of the hooks: `last` and `count` of the duplicate detector to the end of
  `executed`, the operator's consent to the call under way, and the registry of
  the hook to the one of the run unless it was swapped.
* `TranscriptsAreWellFormed == Spec => []TranscriptWellFormed` and
  `NoRunLosesHistory == Spec => HistoryKept`.  `TalkInv` says that a result stands as far
  behind its message as its call stands in it (`Placed`), that all calls are answered
  when the model is asked (`AllAnswered`) and all up to the next one during a batch
  (`InBatch`), and that the messages with calls of a run are no more than its steps.
  `Placed` says it of aborted batches too, where a user message follows.  `HistoryKept`
  then needs of `Unsystem`, which drops the system message, only that messages
  other than the first one are no system messages (`Shaped`).
* `ProfilesAreHonoured == ProfileSpec => ProfilesHonoured`.  `ScopeInv` carries the rules a
  run was given through its steps: a registry, a limit and a mask derived from
  them before the run starts are still what they say when it calls and saves.
* `ApprovalsAlwaysReachHer == ApprovalSpec => []ApprovalsReachHer`.  A turn that gives up leaves its
  banner, so the invariant follows a question from the channel to the banner and
  the reply: a channel holds at most the turn's last request and the end; a
  request on its way is not shown and not answered (`ChannelInv`); what is shown
  is the last request of a turn that has not gone on, and not answered
  (`ShownInv`); a yes in a reply channel was given to that request (`ReplyInv`); and
  the loop reads the one turn that is not over (`TurnInv`).

`TuiTurns_proofs`; the first three with `Overlap` or without, in both screen modes

* `TypeCorrect == Spec => []TypeOK`; `TypeOK` is inductive.  Its part about the
  event channels, that a send never exceeds the capacity, rests on `Emit`
  and `Close` waiting for room.
* `CompactionReplacesWhatItTook == Spec => CompactionIsFresh`.  `FreshInv` says
  that a compaction at work has a version no newer than the current one, and if
  it is the current one the history is still the one it took.  Every step that
  changes the history bumps the version (`FreshBumped`); every other step leaves
  both alone (`FreshKept`).  The check of the version is
  enough even where the turns themselves do overlap.
* `InputsRunInOrder == Spec => SubmittedOrder`.  `OrderInv` says where inputs
  are: started ones below all queued ones, the queue in order, nothing beyond
  the last one asked.  It needs `Submit` to queue behind a non-empty queue, not
  only behind a running turn, which is what `Busy` says.

* `TurnsAreSpared == ~Overlap /\ ~Fullscreen => (Spec => DispatchSparesTurn)`, and under the
  same assumptions `SessionsKeepTheirTurns` (`SessionKeepsItsTurns`) and `TurnsStay`
  (`NoTurnVanishes`).  `AloneInv` says that the loop reads exactly the channel of
  the one run that may still change the conversation, with one pump on it, and
  that a reply types out only when there is none; `ConvoInv`, that this run works on
  the history and the session that are current, and that history, snapshots and
  what is about to be saved hold turns of their session only.  Without the
  assumptions these are false: in fullscreen mode the typing goes on beside the
  next turn, and its end dispatches over it; with overlap `TuiTurns_overlap` is the counterexample.
* `ScreenStaysTrue == TranscriptSpec => []ScreenIsTrue`, for any number of turns,
  items and commands.  What is printed, what is in the typewriter's buffer and the chips
  that wait are three pieces, of which either of the last two may be printed first:
  `PiecesFit` says that any two items, within a piece or across two, may stand in the order
  they will have.  `NothingLost` finds every question and every item of a reply in a piece;
  `OfTurns` and `QueueInOrder` say whose the items are, and that what is queued is later than
  all of them; `BufferHeld`, whether the run or the typewriter owns the buffer; `Bulleted`, that
  `assistantTurnStarted` tells whether the bullet is there.

`Backends_proofs`, `TelegramPoll_proofs`

* `BreakersStayHonest` and `ChargesAreDue`.  `FallbackInv` counts the failures a breaker has
  together with the callers past its check, who may still add one each, and keeps
  the stamps in the order of the clock, which `pruneLocked` takes for granted.
* `NoTunnelIsLost` and `PublishedIsFrozen`.  `TunnelInv` says what an endpoint has left behind
  at each place of its goroutine, and that a build is published when all are
  done.
* `CallsComeWhole == ToolStreamSpec => []CallsWhole`.  `StreamInv` says, of the streams an
  adapter can tell the calls of apart in, where each call is and how much of it has come:
  what `toolAccum` holds of call k is the pieces up to the place of the wire (`Partial`), every
  call seen is in one place, the map or the turn (`InBlocks`), and an adapter that sends a call at
  once has sent exactly those before the open one (`InSequence`).  That `streamAssistantTurn`
  never joins two calls then follows from their ids (for Gemini, their names), in
  whatever order the range over the Go map comes.
* `NothingIsLost`.  `PollInv` says that all below the offset, below Telegram's
  mark and below each queued prompt is handled, that the rest of an answer has no
  gaps, and that what is at or above the offset was queued by an earlier process
  if at all.
* `LimiterIsFair == LimiterSpec => []LimiterFair`.  A window counts no more than was granted
  since it was opened (`CountsGrants`), so who is refused had the limit.  `WindowsApart`
  says of a source that was not evicted that the calls outside its present window
  which a short interval can reach are one window's worth: an interval
  meets two windows, never three.

`LocalFiles_proofs`

* `CacheIsFaithful` and `DecisionsAreKept`.  `MemoryInv` rests on the file only growing, so that
  equal sizes mean the same cards, and says that a copy with the file's time, in a
  cache or on its way there, is what the file holds as long as no two writes got one time.
* `BinaryIsSafe` and `InstallsAreChecked`.  `UpdateInv` says what each place of `Run` knows
  already: that the digest is one of the release asked for, that a verified file is the
  build of that digest, that the tag is no older than the binary unless another call
  came between, and where there is a temporary file.
* `CredentialsAreKept == SecretsSpec => SecretsKept`.  `SecretsInv` says that what an `Add`
  or a `Load` has read, and no rename has overtaken, is what the file holds now.
* `DialoguesAreKept == FlowsSpec => []DialoguesKept` and `ConfigIsShared == FlowsSpec => ConfigShared`.
  The second rests on reads that are not overtaken, as above, and holds for a hasty operator
  too.  For the first a patient operator is always in one of five situations
  (`InOrder`): nothing open, a swap, a picker of a command, `/login`, `/setup`; each says of every
  shared part (picker, modes, answers, scans, lists, saves) whose it is.
* `WizardKeepsItsWord == WizardSpec => []WizardAsTold`, for any services, contexts, hints and keys.
  `WizardInv` says that the kept findings are the members of the ticked groups, each in one
  place (`SelectionOK`), that the queue has each place that needs an answer once (`QueueOK`), that
  an answer was given to a question that was asked and stands at its place, and every variable
  stands there because of an answer (`AnswersOK`), that the box of a tidy operator holds what she typed
  for the question she is asked (`BoxOwn`), how hints are numbered (`HintsNumbered`), and that
  the file is what the wizard knows at its end (`ConfigIsWritten`).  `FilesAsAnswered` is inductive beside these.  The rest of
  the property is then about one list of endpoints: `NamesApart`, for one, holds since no two findings
  of one prefix have as many of it before them.

`Ordering_proofs`, `Correlate_proofs`

* `ArrangedInOrder`: the members of a finite set, put in a strict total order by
  `Arranged`, stand there once each and in order.  By the theorems on cardinality: the
  ranks of the members are different and at most as many as they are, so that every place is taken.
* `AnswersAreTrue == CorrelateSpec => []AnswerIsTrue`.  The answer is computed in one step, so
  `CorrelateInv` says little: what is collected has its types, an answer is the one computed
  from it (`Computed`).  The work is in the lemmas about one timeline: the merge
  keeps every event and its order, the cut drops only the oldest, the ranking is total (score, then
  recency, then place), its head is as good as any other candidate, and up to
  three shares, each rounded and at least one percent, sum up to 99 to 102.

### What it took from the modules

A theorem may not rest on a recursive definition, and definitions that filter a
sequence, fold it or count its hits are recursive in the library.  Some modules therefore say
the same otherwise.

* `Unsystem` of `AgentLoop` maps each rank to the message that has it
  among those kept, and the parts of `ScreenIsTrue` compare places on the screen by
  quantifiers where they might have counted lines.
* The sorts of `Correlate` and `SetupWizard` are `Arranged`: a stable sort is the total order by
  key and then by place.  The commit of the wizard's groups and its queue are such
  arrangements too; `Total` sums the three shares at most that the tool shows.
* `ToolStream` has a step per entry of a line and per call that is sent, where the code has two
  loops: an end of the body falls between lines only (`BetweenLines`).
* `Secrets` assumes at least one key; `WizardAssumption`, that only databases ask for a
  password, as the detectors do (`core/tools/db/detector.go` is the one that says `AuthPassword`).

### Only model-checked

Liveness, which is out of the prover's reach: `QueueDrains`, `RunReturns`,
`TurnEnds`, `FollowUpsStart`, `RequestEnds`, `PromptQueued`, and `BuildEnds` in `BuildsSettle`
(its other part, `PublishedFrozen`, is the theorem `PublishedIsFrozen`).

Every other property of a passing run, all safety invariants among them, is a theorem above.

## Not modelled, and what could follow

The parts in the table above that keep no state stay out: a model of a parser or of a
layout would be the program again.  What would add most next:

1. An abstract conversation (turns that only their session holds) which `TuiTurns`
   implements under `Overlap = FALSE`.
2. The session log (`session/session.go`): an append-only file whose last line a crash can
   tear, and what `replay.go` makes of it.
3. A larger instance of `DbTunnels` with two builds side by side; the theorems
   cover them, the run has one.
