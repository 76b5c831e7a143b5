# A TLA+ model of pal-mcp-server

pal-mcp-server is an MCP server (Python, asyncio, one process on stdio). It lets a client ask other
models, through provider APIs, through other command line agents ("clink") or through the remote agent
Jules, runs multi-step investigations ("workflow tools"), and keeps conversations across calls. These
modules model the parts that carry state from one step to another, and the tables and arithmetic the
steps depend on. Paths below are relative to `src/`.

Run a model with `tlc -config X.cfg M`, check proofs with `tlapm M_proof.tla`.

## 1. Inventory

All Python code runs on one event loop, so code between two `await`s is atomic with respect to other
requests. What is not: everything across an `await`, the storage's cleanup thread, worker threads used
for directory checks, child processes, remote services, the file system and the clock.

| component | state | operations | correct if |
|---|---|---|---|
| Conversation coordination (`utils/conversation_coordination.py`) | registry `_entries` of asyncio locks with reference counts | enter (waiting or not), leave, cancellation | one invocation per conversation; no lost hand-over; the registry holds exactly those present |
| Conversation storage (`utils/storage_backend.py`) | key → (value, expiry), a thread that sweeps it | setex, get, compare_and_setex, cleanup | a key lives for exactly its TTL; no update is lost; a swap never revives a dead key |
| Conversation memory (`utils/conversation_memory.py`) | threads of turns in the storage | create_thread, add_turn, save_failed_workflow_state, history | turns in order, within the limit; the history shown fits its budget |
| Invocation protocol (`utils/conversation_context.py`, `tools/simple/base.py`) | an invocation per request | admit, save input, prepare, ask, save reply or failed state | an admitted request can save its reply, on its own input; the numbers it reports are true |
| clink conversations (`clink/conversation.py`, `tools/clink.py`) | a snapshot per call | select, inherit, run the CLI, commit | only a CLI's success is saved, onto the snapshot; a follow-up runs where and as the last one did |
| Transcripts (`utils/transcripts.py`, `utils/transcript_reader.py`) | one JSONL file per thread | append, prune, read | whole events, in order, also after crashes; a reader knows what it was not shown |
| CLI runner (`clink/agents/base.py`) | child process, pipes, scratch directory, cleanup task | launch, communicate, time out, kill and reap | child reaped before its directory goes; nothing left; cancellation not swallowed |
| CLI agents and parsers (`clink/agents`, `clink/parsers`) | none | parse, recover | an answer only if the CLI says so |
| CLI registry (`clink/registry.py`, `conf/cli_clients`) | manifests in layers | load, validate, build a command | edit permissions only on request |
| Working directory binding (`clink/working_directory.py`) | a binding in the turn metadata | select, validate | a conversation stays in its project or fails |
| Request progress (`utils/progress.py`) | operations, heartbeat task | report, heartbeat, stop | notifications never fail a request; no task outlives it |
| Server life cycle (`server.py`) | provider instances | configure, serve, shut down | every provider is closed once, the right exception leaves |
| Provider requests (`providers/*.py`) | none | build a request, retry | what is sent is what the model takes; bounded retries |
| Provider registry and restrictions (`providers/registry.py`, `providers/registries`, `utils/model_restrictions.py`) | catalogs, allowlists that learn | resolve, advertise, choose | only permitted models, the same answer whatever was asked before |
| Token budgets and history (`utils/model_context.py`, `utils/file_utils.py`) | none | allocate, expand, read, check | the prompt fits and holds what the request means |
| Consensus (`tools/consensus.py`) | responses in the turns | consult, summarise | the summary says what participants said |
| Workflow state (`tools/workflow/workflow_mixin.py`) | history and configuration in the turns | step, restore, ask an expert, complete | the state restored is the one acknowledged; the expert hears all |
| Workflow tools (`tools/*.py`) | none | per-tool tables | guidance and behaviour agree |
| Simple tools (`tools/chat.py`, `tools/listmodels.py` …) | none | answer, list | what is listed can be called |
| Jules actions (`tools/jules.py`) | a remote session | create, message, approve, archive, read | never "failed" for what was or may be done |
| System prompts | none | text | not modelled |
| Simulator tests, scripts | none | drivers | not modelled |

Interactions. `server.handle_call_tool` resolves the model, then enters the coordinator with the
request's continuation id (or none); the tool runs the invocation protocol, which reads and writes
memory, hence storage, and after each successful write appends to the transcript. clink replaces the
protocol by load/commit and runs the CLI runner in between. Workflow tools and consensus keep their own
state inside the turns. Progress wraps provider and Jules calls. Shutdown drains the calls and closes
the providers of the registry.

Hard behaviours: cancellation (at any `await`, repeatedly) while waiting, executing, reaping a child or
joining a heartbeat; expiry of a thread during a provider call of minutes; a lock that is released but
not yet taken by the waiter it was handed to; CLIs that hang or leave descendants; appends that fail or
crash half way, and a truncation that fails too; requests that fail between their two writes; a remote
service that applies late what the client has given up; policies that change what they answer because
they were asked. `PROJECT.json` lists each at its line under "hazards", with the properties that watch it.

## 2. Modules

### Conversations

`ConversationCoordination` is `coordinate_conversation` together with the `asyncio.Lock` inside an
`_Entry`. Each action is the code between two suspension points: a caller arrives and is turned away
(`RejectBusy`), runs at once (`AcquireNow`) or queues (`Enqueue`); a waiter is cancelled
(`CancelWaiting`: a pending future at once, a resolved one when the task next runs), runs again
(`Resume`) or unwinds (`Unwind`); a holder leaves (`Leave`). `Register` and `Unregister` are the two
halves of the `try/finally`. An `_Entry` object is named after the caller that created it: the hazard is
that two callers of one conversation hold different objects, and this makes object identity visible.
`asyncio.Lock` is external, written from the behaviour this code relies on. `ConversationMutex` is what
the component promises: per conversation a set of those present and at most one holder.

`InMemoryStorage` has the store with expiry times, the clock, the cleanup thread, and its users as their
code calls it: `create_thread` (one write), `add_turn` (get, then setex, with no `await` in between, but
the clock and the cleanup thread may run there), clink (get, a long pause, compare_and_setex). Values
are the sequence of the users that wrote them. `ExpiringStore` is the abstract promise.

`ConversationLifecycle` EXTENDS the coordinator and adds what an invocation does between entering and
leaving it. API tools: `Admit`/`AdmitNew` (the two-slot check and the saved input), `SaveReply`,
`ReplyUnsaved`, `SaveErrorReply`, `SaveFailedState`, `FailUnrecorded`. clink: `Load`/`LoadNew`, `Commit`,
`CommitConflict`, `CLIFails`. For all: `Refuse`, `Unavailable`, `Abandon` (cancellation during the long
`await`), and `Expire` of any thread at any time. `known` are the ids a client can have got hold of;
`ListedThreads` adds those it can read in the transcript index. `ConversationLog` is the abstract
history of a thread.

`TranscriptFile` has the bytes of one transcript: an append writes in any number of pieces and may fail
or crash anywhere; the truncation that undoes it may fail too; retention removes the file; `ReadThread`
is the bounded reader. `AuditLog` is the abstract log that may lose events but not invent, join or
reorder them. (`ConversationLifecycle` has which events are appended, here is what becomes of one.)

### clink

`CLIProcess` is `BaseCLIAgent.run` with `_run_in_directory` and `_kill_and_reap`: the caller's
coroutine, the child, its descendants, the pipes, the cleanup task, and the directory. The child may
exit, hang or start descendants that keep the pipes; cancellations come at every suspension point.
That a cancellation during `create_subprocess_exec` leaves no child is asyncio's own doing.

`ClinkExchange` is a call from its arguments to the saved exchange, with four modules below it:
`CLIRegistry` (layers of manifests, validation, roles, the flags of a command), `WorkingDirectory` (which
directory, over a file system given as links and what is at canonical paths), `CLIOutput` (the four
parsers and the recovery from a bad exit status, over the facts they ask of a text) and the
history rendering. Between its awaits directories change, the conversation expires, other tools add turns.

### Calls and the server

`RequestProgress` is one tool call with three tasks: the request's own, the heartbeat and the task that
stops it; with the provider's retries and the plea for an empty answer. `JulesExchange` adds the actions
of Jules as sequences of HTTP requests with deadlines against an external service that may apply,
reject, delay or lose. `Server` composes calls with configuration, service, its three ends (stdin
closes, interrupt, transport error) and `_close_providers`.

### Models and prompts

`ModelRegistry` reads the manifests of `conf/` into catalogs; `ModelPolicy` says which provider a name
leads to and what allowlists, denials and preferences permit, with the canonical names the restriction
service learns; `ModelAdvice` is what listmodels and the schemas tell. `FileInputs` takes the paths
of a request to the files that are read (directories walked, links resolved, duplicates and prompt.txt
recognised, diagnostics for the rest); `ContextPlan` allots the window, selects files and history, and
checks the assembled prompt; `ProviderRequest` is what each kind of provider then sends. `Preparation`
composes them as the requests of one conversation, interleaved with listings.

### Investigations

`WorkflowTools` holds the tables of the eleven workflow tools, `ExpertBriefing` what an expert is told
and what the reply says of files, `WorkflowState` the state machine of steps over one thread. `Consensus`
replaces that machine's processing by its own, so it is a module of its own.

`MC*` modules give the constants of an instance; `*_proof` modules hold theorems. Operators that no
definition uses and whose comment describes a wrong behaviour (say `LeaveUnjoined`, `OutcomeFirst`,
`NoSeparator`) are the mutants listed in `PROJECT.json`: each property of a passing run fails when the
named definition is replaced by such a one.


How state corresponds to code, where it is not by name: an asyncio task is a program counter (`pc`, `body`,
the fields `at` of a call or a beat) whose values are its suspension points; a conversation is the
sequence of its turns, each a record of what later code reads of it; a token count is a number, a text is
the set of facts that are asked of it; a file system is a table of paths with their canonical places.

## 3. Runs

| run | instance | shows |
|---|---|---|
| `coordination` | 4 waiting callers and one of clink, 2 conversations | `MutualExclusion`, `RegistryIsExact`, `FirstComeFirstServed`; refinement `ImplementsMutex`; liveness `EveryWaiterIsServed` |
| `storage` | 2 users that add turns, 2 that swap, 2 keys, TTL 2, clock to 5 | `NoLostUpdate`, `SwapNeverResurrects`; refinement `ImplementsExpiringStore`; liveness `ExpiredAreRemoved` |
| `lifecycle` | 2 workflow requests and one of clink, an existing and a new thread, 4 turns, transcripts on | `AdmittedReplyFits`, `ExchangesStayTogether`, `TranscriptIsTrue`, `RemainingIsTrue`; refinement `ImplementsLog` |
| `lifecycle_listed` | 2 requests, ids taken from the index | violation of `UpdatesAreSerialized`: the first finding |
| `transcripts` | 4 events of 3 bytes, reads of 8 bytes or 3 records | `StoredIsReadable`, `ReaderIsHonest`; refinement `ImplementsAuditLog` |
| `cli_process` | one call, any number of cancellations, both directory modes | `NothingIsLeft`, `CancellationIsKept`; liveness `EveryCallEnds` |
| `clink` | 3 calls on one conversation of 6 turns, 5 configurations, 2 projects that may be replaced or vanish, and a link that moves | `ProjectIsKept`, `FollowUpInherits`, `HistoryIsTrue` |
| `server` | one call, 2 providers, 2 attempts, Python 3.12 or later | `BeatBelongsToOperation`, `EndIsTrue`, `JulesIsHonest`, `ShutdownIsComplete`; liveness `CancellationPropagates`, `InterruptEndsServer`, `JulesCallsEnd` |
| `server_lossy` | one call, one provider, Python 3.10 or 3.11 | violation of `CancellationPropagates`: the second finding |
| `preparation` | 6 kinds of provider, 15 models and aliases, 16 policies, 19 requests, a tree of 17 paths, 4 turns | `PolicyIsStable`, `AdviceIsSound`, `ChosenIsPermitted`, `SentIsAcceptable`, `FilesAreFitted` |
| `workflow` | each tool with chat, and two pairs of tools, 3 calls, 6 turns | `AcknowledgedIsRestored`, `InvestigationIsWhole`, `ReplyIsHonest`, `GuidanceIsKept` |
| `consensus` | panels of 1 to 3 participants, steps to 4, 5 calls | `SummaryIsTrue` |

What each property says, and of which code, stands above its definition.

**Bounds, and why they are enough.**

* `coordination`: a caller runs once. The smallest bad interleavings need a holder, a waiter that is
  handed the lock, another behind it and a late arrival; four waiting callers give that on one
  conversation, or two pairs on two. The fifth never waits.
* `storage`: TTL 2 separates "just written", "last instant" and "expired at the instant"; a clock to 5
  lets a key live, be extended, expire and be swept. Two writers and two swappers on a key cover each
  pair of protocols.
* `lifecycle`: room for four turns makes the limit bite with 0, 1, 2 or more slots free, because the
  existing thread starts with one to three turns. A workflow request does all that a simple one does,
  so the two stand for both kinds.
* `transcripts`: four events give a torn one with whole ones before and behind it; three bytes separate
  the first, the last and the middle; a limit of 8 bytes cuts inside an event, one of 3 records before the last.
* `cli_process` is finite without bounds.
* `clink`: three calls are a first exchange, one that fails or is refused, and the follow-up that must not
  inherit from it. The five configurations hold a manifest that replaces another, and ones that do not validate; replies lie
  below, at and above the output limit.
* `server`: calls interact only through the drain, so one call with two providers meets each order of
  call, failure, interrupt and closing; two attempts are the first and the last.
* `preparation`: one provider for each branch of the name resolution, catalogs in which an alias, a name
  and a deployment belong to several providers, windows in which nothing, something and all of the files
  fit, and a tree with a subdirectory, own code, hidden and data files, links to a file, to a
  directory and to a protected place, a missing path and prompt.txt.
* `workflow`: three calls are a first step, one that goes wrong and the one that must repair or continue
  it; six turns hold two investigations. `MCWorkflow` explores one team of tools at a time (`OneTeam`), because a
  thread with more than two tools only adds turns that restoring skips anyway.
* `consensus`: five calls can take a panel of three through a repeated, a skipped and a failed step.

**Fairness.** The event loop runs a task that is ready (`Resume`, `Unwind`, `Finish`; in `CLIProcess` the
checks, the launch, the noticing of an exit, the cleanup; in `Server` `Proceed`, `BeatSteps`,
`BeginCleanup`, `Exit`). Deadlines expire (`TimeoutExpires`, `DrainGivesUp`, those of Jules' requests,
of notifications and of closings). A process that was sent SIGKILL dies. In `InMemoryStorage` time passes and the
sweep recurs. `Finish` of the coordinator's caller says that a body ends: that a CLI call does
is `EveryCallEnds`, that an interrupted call does `InterruptEndsServer`, that a Jules call
does `JulesCallsEnd`; a provider's own requests have the timeouts of its HTTP client, which is not modelled. Nothing
is asked of providers, services, clients, users and children. The lifecycle has no liveness run of its own
for that reason: the promise that a request is answered is the sum of these four.

**Mutants.** Every property of a passing run has in `PROJECT.json` a change of one definition, of the kind a bug
would make, under which TLC finds it violated.

### Findings

`lifecycle_listed`: a request without continuation id runs outside the coordinator, yet `create_thread`
saves its thread (and a transcript event) before the provider is awaited
(`utils/conversation_context.py:269`). With transcripts enabled the id is listed by `pal://threads`, so
a client can continue a thread while the request that created it is still in progress; neither waits
for the other. `docs/context-revival.md:28` says that updates to the same continuation id are serialized
through reply persistence, and `utils/conversation_coordination.py:29` that new conversations have
unpublished ids. Without the index (`ListedThreads = FALSE`) the claim holds, and is proved.

`server_lossy`: `stop()` cancels the heartbeat and joins it (`utils/progress.py:145`). `asyncio.wait_for`
before Python 3.12 returns the result of a notification that completes in the same turn of the loop as the
cancellation, so that the heartbeat goes on, the join waits for ever, and later cancellations of
the request are swallowed. `docs/progress.md:18` says that cancellation propagates after the heartbeat is
joined. With 3.12 it does (`server`).

### Observations

Met while modelling; the models follow the code, no run is devoted to them.

* Files. A request whose only file is prompt.txt has it both as prompt and as file
  (`tools/shared/base_tool.py:828-889` returns None for the rest and `utils/conversation_context.py:243` then keeps
  the list, though the docstring says it is removed; `clink/conversation.py:164` corrects this for clink): its tokens count
  twice and may get the request refused. A prompt.txt that is missing or too large yields its diagnostic as the
  prompt. The home directory check inside `expand_paths` is unreachable.
* Budgets. For windows of 300k tokens and more the file allowance equals the history's, and the file
  block counts against the history, so that a full block can leave no turns shown. `_validate_image_limits`
  counts all images of a conversation and refuses; `docs/advanced-usage.md:375` says that old ones are dropped.
* Providers. gemini-2.0-flash declares extended thinking without a control, so every call would be refused;
  Gemini's 429 with "resource exhausted" or "quota" is never retried; only Gemini writes the finish reason
  "STOP" in capitals, so the retry with a plea never happens for others; an Azure deployment whose id equals
  its model's name but for the case makes the model unsupported. A manifest that does not load ends the
  start of the server, even for a provider without credentials.
* Names. Summaries print canonical names: where a name of one provider's alias is in the catalog of
  another of higher priority, the printed name leads there. With an allowlist of unregistered vendor/model
  names only, names are advertised but auto mode finds none eligible. Auto mode may choose a preferred
  alias that is not advertised, because a provider of higher priority registers its canonical name
  (`providers/registry.py:365-373`).
* Workflow tools. tracer's first step asks for a mode even when one is given (`tools/tracer.py:260`);
  precommit does not enforce the three steps of `docs/tools/precommit.md:18`; thinkdeep's actions for
  "exploring" fall into the branch of "certain"; the length of the step history of planner and tracer is one off; analyze
  records issues and never tells the expert; with a null confidence guidance and actions differ, and
  with a null `precommit_type` a continued precommit gets the actions of an external one and the guidance and the
  decision about the expert of a fresh one (`tools/precommit.py:366`, `:515`, `:611`). A final
  step that is retried after a provider failure appears twice in `steps_taken`.
* An expert's error before its files were rendered leaves "fully_embedded" in the reply.
* Memory. `add_turn` writes without looking again, so a thread that expires between its get and its setex lives on.
* clink. `docs/context-revival.md:25` gives the history 20,000 tokens; `clink/constants.py:11` and
  `docs/tools/clink.md:234` say 16,384. A saved role that the newly named CLI lacks makes the follow-up an error. A directory may change
  between its last check and the launch.
* Jules. A 4xx that a gateway sends, such as 408, counts as known not to be applied; the read and the write of
  `approve` are not atomic (`docs/tools/jules.md` leaves the authority with Jules).

## 4. Proofs

What is proved holds for every value of the constants, under the named assumptions of the modules. These
say that `None` and the like are not values, that subsets are subsets, that limits are numbers, and of the
inputs only what they are: panels are sequences of participants without repetition (`ConsensusAssumption`, which
`_validate_and_normalize_models` demands), the requests, manifests, links and outputs of CLIs have the types of their
records (`WorkflowAssumption`, `ClinkAssumption`), and so have policies, requests and token counts
(`PolicyAssumption`, `PreparationAssumption`, `ContextAssumption`); a file system is a tree whose directories list what is in
them, and what a path resolves to resolves to itself (`FileAssumption`). No set needs to be finite, except
that `ImplementsExpiringStore` is stated for a finite set of users, as the bound on values is.

**Coordinator** (`ConversationLifecycle_proof`, Part 1): `TypeOK`, `MutualExclusion`, `RegistryIsExact`,
`HandoverPending`, `ClinkNeverWaits`, `FirstComeFirstServed`. None is inductive: mutual exclusion, for
instance, needs that a running caller's object is the registered one, that its lock is held, and that no
second object of the conversation exists. `IInv` adds: a registered object is held iff one of those present
runs; a waiter's object is registered and has the waiter once in its deque, and a deque holds only waiters of
its conversation; futures are pending, woken or cancelled in accordance with `cancelling`; at most the head
of a deque is woken, and only when the lock is free; unregistered objects are unlocked, empty and unused;
an idle caller has no object. One lemma per action shows it inductive; `RegisterStep` and `DepartStep` carry
what arrivals and departures have in common, `RemoveAtIndex` and `WithoutProperties` what removal does to a
deque. `FirstComeFirstServed` follows: an arrival gets a lock only if every waiter in its deque
has been cancelled, and only the head is ever woken.

**Mutex** (also Part 1): `CoordinationSpec => ImplementsMutex`. `HolderRuns` shows from `IInv` that
the abstract holder is the one caller that runs; then each action is mapped: arrivals to `Arrive`,
`Resume` to `Acquire`, `Leave` and `Unwind` to `Depart`, `RejectBusy` to `Reject`, all others to a stutter.

**Lifecycle** (Part 2), under `~ListedThreads`: `UpdatesAreSerialized`,
`ExchangesStayTogether`, `AdmittedReplyFits`, `RemainingIsTrue`, and the refinement `ImplementsLog`. The
argument is that an asking request has its thread to itself: one with an id by the coordinator's
`MutualExclusion`, one without because nobody knows the new id. So `LInv` holds the coordinator's `IInv`, types, `Placed` (who
asks runs, and whose thread is known or fresh), `StoredFits` (stored histories are sound), and `AskingFits`: while a
request asks, its thread, unless it expired, ends with its input, has the slots it was promised, or is still clink's
snapshot. The refinement maps each action to one extension of one log, or to a stutter. The run `lifecycle_listed` shows that the hypothesis cannot be dropped.

**Transcripts of the lifecycle** (Part 3): `TranscriptIsTrue`, with no hypothesis on where ids come from. `TInv` says
that a transcript is an excerpt of its thread, that a thread that is gone leaves its transcript as it was, and that an
id that was not issued has none (`AuditInv`, `UnwrittenInv`); `RecordKeeps` is the one lemma about an event that is
appended, or lost, behind what is there. Serialization is not needed: an event is written at the turn's own number
with no `await` between.

**Storage** (`InMemoryStorage_proof`): `TypeOK`, `NoLostUpdate`, `SwapNeverResurrects`, `OneWriterPerVersion`, and the
refinement `ImplementsExpiringStore`. `NoLostUpdate` is interesting
because `add_turn` writes without comparing: `IInv` says that only one `add_turn` is between
its get and its setex (`OneReader`), and that the store still holds what it has read unless the clock or the
cleanup thread removed it (`ReaderIsCurrent`). For the refinement `ValuesInv` adds that what is stored or was read is
a sequence in which each user has written once (`Fits`), hence a value of the abstract map; removals by the cleanup
thread and by a late get map to a stutter, because an expired key is already absent there. `VersionInv` says that who saved
from a version is in the value, at the place behind that version, until the key is gone, which is what makes the writer unique.

**Transcript file** (`TranscriptFile_proof`): `StoredIsReadable`, `ReaderIsHonest` and the refinement `ImplementsAuditLog`. Records are
sets of positions in the bytes, so that two facts carry the proof: a file that grows keeps its records and adds later ones
(`RecordsGrow`), and its bytes never go back to an earlier event (`Sound`). `IInv` says of an append in progress which
bytes it has written and which are left, and that truncation goes back to where it began. `ReaderIsHonest` is shown for
every file and all limits (`ReaderTells`): a line is a record, torn, or behind what was read. Where one would argue by
induction on the bytes, there is a least counterexample (`LeastNatural`).

**clink** (`ClinkExchange_proof`, Part 2): `ProjectIsKept`, `FollowUpInherits`, `HistoryIsTrue`. `IInv` relates the conversation, the runs and the
answers told: `Fits` says that turns come in pairs in the order of the answers that announced them, each with the run it
came from and the binding that run had. A call works with the snapshot it loaded, while the saved conversation
can only expire; when it ends, it leaves that conversation, that conversation and its exchange, or none. Lemmas about the
parts: `RegistryIsTyped` (validation and replacement of manifests), `ResolutionKeepsProject` (a directory that was accepted
leads to the bound place), `AnswerIsHonest` with one lemma for each CLI (what is taken for success), `HistoryIsSuffix` and `EmptyHistory` (what
is shown is the longest suffix of whole exchanges that fits the budget).

**Workflow** (`WorkflowState_proof`): `AcknowledgedIsRestored`, `InvestigationIsWhole`, `ReplyIsHonest`, `GuidanceIsKept`, for any requests to the
eleven tools and any other tools in the thread. `ThreadInv`: each state saved in a turn is the state of one
investigation, first step first. `AckInv`: the last state a tool saved holds the steps the client knows of. `CallInv`: a call in progress ends
the thread with its own input, and works on what it restored, prepared or was told by the expert, stage by stage. The tables are
settled by cases over the tools: `GuidanceFacts`, `ConfigFacts`, `BriefingFacts`, `FastTrackFacts`.

**Consensus** (`Consensus_proof`): `SummaryIsTrue`, for any panels. `LedgerInv` ties the saved responses to the outcomes the client was told,
one by one; `GuideInv` says that a client which always calls the step it was asked for has every participant before the next in
the ledger. As no two participants are the same, finding one among the responses is finding its number in the ledger.

**CLI runner** (`ClinkExchange_proof`, Part 1): `NothingIsLeft` and `CancellationIsKept`, by an invariant for each stage of the call:
`EarlyInv`, `TalkInv`, `ReapInv`, `DoneInv`.

**Server** (`Server_proof`, in three parts): `BeatBelongsToOperation`, `EndIsTrue`,
`JulesIsHonest`, `ShutdownIsComplete`, whether or not `wait_for` loses cancellations (that costs liveness only). The
first two parts prove, of a single call's record, what each of its steps preserves: heartbeat and
stop agree, attempts are counted, and what an action of Jules may conclude from the requests it sent. The third lifts these to all
calls (`CallsOK`, `JulesAlwaysOK`) and adds `ShutdownOK`: no call in flight while providers close
(`ClosuresFit`), the first failure remembered (`FailureFits`), the exit made of it (`ExitFits`).

**Models** (`Preparation_proof`): `PolicyIsStable`, `AdviceIsSound`, `ChosenIsPermitted`, for any
manifests, policies and requests. A name that a catalog leads to leads to itself (`ResolveFacts`), because manifests that load give no
name twice; so what the restriction service learns, the canonical name behind an allowed one (`Taught`), allows nothing
that was not allowed before (`AllowlistIsStable`), and each piece of advice is the same as at the start (`AdviceStable`). `IInv`
adds that what was prepared is permitted; a request's choice is eligible (`ChoiceIsEligible`), and what is advertised is served
by the provider it is listed under (`ListingIsServed`, `SummaryIsWhole`).

**Prompts** (also `Preparation_proof`): `SentIsAcceptable` and `FilesAreFitted`, for any tree of files, any capacities a
manifest may state and conversations of any length. `SentInv` holds, besides the two, that a prepared record keeps what a
retry adds to: the text fits, and the answer's limit is what the allocation left. A call's parameters are accepted because the nearest accepted
temperature exists (`CorrectedIsAccepted`) and each provider's branch is gone through once (`ProviderCallFacts`). `PlanFacts` is about
the prompt: `MeantIsAsked` follows a file from the request, through a walk of its directory and two expansions, to the reader's
list; `KeptFacts` says that what the reader takes stays within its limit, the note about omissions included, and is everything unless the files are
too large; `FilesLeaveRoom` that the allowance for files, which deducts margin and reserve, leaves whatever it allows room in the
final check, so that a prompt can only be too large for what is not files; `HistoryGrows` that files displace turns and never cost more than their size.
Folds and walks are defined by recursion. That there is such a function is a lemma for each way of recurring: along a
sequence (`Recursion`), and over sets that refer to one another, links in circles included, the least solution (`LeastSolution`). From
their equations, what they compute is shown place by place: `Climb` stands for induction, by the least place that fails.

**Only model-checked.** Liveness and with it ENABLED (`EveryWaiterIsServed`, `ExpiredAreRemoved`, `EveryCallEnds`,
`CancellationPropagates`, `InterruptEndsServer`, `JulesCallsEnd`): out of the prover's reach. Every safety property of the
passing runs is proved.

## 5. Not modelled

* System prompts, tool schemas' wording, and the formatting of challenge, apilookup and version: text.
* Simulator tests, scripts, the guard script for agents: not part of the server.
* HTTP exchanges of the providers, streaming of usage, credentials: I/O. The lookup of CLIs'
  executables and their environments: the operating system's.
* The artefact files that chat writes, and the rendering of a transcript index and timeline: output nobody reads back.
* Decoding of files and line numbers: text.
* Parent chains of threads: `create_thread` is never given a parent, so `get_thread_chain` and the
  parent's branch of `prepare_history` never run.
* Other code the server does not reach: `reconstruct_thread_context` in `server.py`, `_plan_file_inclusion_by_size`,
  `filter_new_files`, the registry's `clear_cache` and `force_new`, `_process_work_step`,
  `_extract_clean_workflow_content_for_history`, Azure's `deployments` argument (tests alone use it).
* The storage's `shutdown` (it only stops its thread) and the construction of its singleton, which
  happens before requests are served.

What could be added: a composition of `WorkflowState`
with `ConversationLifecycle`, whose product is beyond TLC at useful bounds.
