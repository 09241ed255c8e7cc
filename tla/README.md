# nefor in TLA+

nefor is an engine that runs agent programs as a set of cooperating plugins. The
engine (Rust) spawns plugin processes, reads and writes JSON lines on their
stdio, keeps one event log, and gives every entry to a Lua composition that
routes it. Everything a user sees is made of messages between plugins:
providers answer model requests, tool sources execute tools, the tool gate decides
which tool calls run, the MAG kernel runs workflows of actors.

This directory models the parts whose correctness depends on the order of
events: the path of a line to a plugin, the life and death of a connection, the
event log and its dispatch, the life of a tool call, the turns and credentials of
the model providers, and the runs of the workflow plugin. Line numbers refer to
`src/`; `PROJECT.json` maps every definition to the lines it models, lists the
hazards each property is aimed at, and gives for each property a defect that
breaks it.

## 1. Inventory

### Parts modelled

| Part | State | Operations | Interaction |
|---|---|---|---|
| **Connection writer** `engine/src/ncp/connection.rs` | queue of lines, count of live lines, close-after-drain flag, the line being written; a shared loss counter | accept a message of the channel, evict the oldest live line, write, flush, end, report a fault | fed by the broker over an unbounded channel; the broker swaps the loss counter to 0 from another thread and may abort the task |
| **Broker** `engine/src/ncp/broker.rs`, `spawn.rs`, `main.rs` | `conns_by_id` (closing, transport_failure, pending_exit, close_deadline, terminate), the routing map, shutdown latch and channel, three deadlines | a turn of `Broker::run`: inbound, notices, deadlines, exits, envelopes, return checks, `select!` | reader, writer and watcher tasks send to it; Lua is called from it and may request shutdown or start processes |
| **Event bus and protocol layer** `broker.rs` (log, dispatch, tasks), `lua/core/ncp.lua` | event log, dispatch mark, deferred tasks; ready peers, queued popups | tick, cascade drain of at most 8 rounds, deferred task, `ready` handshake with replay, routing, delivery failure | called by the broker's loop; delivers through the connection writers |
| **Tool gate** `plugins/tool-gate/src` | registry of tools, mode, `pending`, `preparing`, `awaiting_approval` | advertise, invoke, prepared, permission response, cancel, stream, result, set mode, exit | callers, user and operator on one side, tool sources on the other, all asynchronous over the bus |
| **Tool source** `lua/libs/tool/init.lua` | per call a phase: prepare, prepared, execute | receive prepare, invoke, cancel; decide, stream, settle | only talks to the gate |
| **ChatGPT provider, turns** `plugins/chatgpt-provider/src/dispatcher.rs`, `state.rs` | chats with one turn slot each, direct completions and web executions by id, a recovery gate shared by all turns, which options the model lacks | create, restore, delete, complete, compact, interrupt, cancel, completion and web requests; a task per turn: prepare, pass the gate, open, stream, retry, publish, give back | the dispatch loop and the tasks share the chats under locks; cancellation by tokens |
| **ChatGPT provider, histories** `state.rs` | the messages of a chat | append, restore with repair, reset | read by the turns |
| **ChatGPT provider, credentials** `auth/` | tokens, status, source and login lease in memory, a file on disk | login, logout, `auth.set`, refresh under a lock, adopting what the file holds | turns and login flows of this process; other processes share the file |
| **OpenAI provider** `plugins/openai-provider/src` | chats, completion ids, a table of tool waiters, a bounded output queue per invocation | the same chat operations; `prompt` turns that run tools themselves; retry rounds | waits for tool results from the bus; output may be refused or overflow |
| **MAG plugin** `plugins/mag/src`, `lua/mag-kernel` | run contexts with their actors and open capabilities, the executes owed a reply, provider requests, the emission queue | execute, apply, resume, interrupt, kill, answers and observations, session change, shutdown | asks gate, providers and conversation manager for work; its output may be refused in the middle of a handler |

What makes them hard is the same in each: two sides hold records of the same
thing and learn of each other's changes late. A writer dies while the broker
delivers to it; a plugin exits with lines still unread; it becomes ready in the
middle of a dispatch; a caller cancels while the source answers and the user approves;
a turn ends for a chat that was deleted and made again; a refresh comes back after
the logout; a run is killed while an actor's request is half sent.

What correctness means for them:

* writer: order kept, replay lines never lost, live lines lost only when the
  queue is full, and every loss counted;
* broker: the routing map agrees with the records, each process has exactly one
  fact about its end, a requested shutdown ends, nothing is killed that was not
  being closed;
* bus: a plugin that becomes ready at any moment sees each broadcast once and in
  order, nobody sees what is not for it, deferred work is done;
* tool calls: nothing runs without permission, no caller is lost or answered
  twice, a caller told "not run" was told the truth, no source keeps work nobody
  remembers;
* provider turns: a slot is busy exactly while its task runs, each turn answers
  once, for its own asker, a turn that is stopped ends and one that is not ends when
  its endpoint recovers, no tool call of a history stays without a result by the
  provider's fault;
* credentials: late answers never undo what the user did last, concurrent
  refreshes do not spend the session, no caller is stuck on the lock;
* workflow runs: one reply for each execute, after the work the run had asked for
  was answered or cancelled, an answer for every refused invocation, and never a
  success when other output was lost.

### Not modelled

The repository has about 96,000 lines of Rust, of which the MAG compiler (`crates/nefor-mag`), the
terminal interface (`plugins/nefor-tui`) and the tests and wire formats of the
providers are most. They are pure functions over unbounded trees or
texts, or views; a bounded instance of them would say little, and an honest
map of this project therefore stays a small share of all lines, while it
covers most of the code in which the order of events matters.

* The MAG compiler and type checker; firing rules, shapes and typed values
  of the kernel: what an activated actor does is a choice in `MagRuns`.
* The terminal interface: a view of the bus that decides nothing.
* Wire and byte formats (NCP envelopes, Responses and chat-completions JSON, SSE,
  HTTP, web search rendering), model catalogues, the browser login: what they
  yield is a choice of the models (an event, a class of failure, a login that
  returns or not; whether a frame fits).
* File lookup, prompt text, configuration, git worktrees, the tools themselves, build tools,
  mock plugins, examples.
* Parts with state of their own that a further model could take up: the
  lifecycle event bus and plugin registry (unsubscribing while an event is
  dispatched), runtime process callbacks (cancel racing an exit), session replay
  windows and the sessions library, the actor core (re-entrant sends), the
  agentic loop, lead workflow, compositors and startup readiness (interruption
  against late answers, a deadline), the conversation manager (compaction
  against new turns), and the timeout of a basic tool.

## 2. Plan

Done, in this order: `ConnectionWriter` with its abstract specification
`OutboundChannel` (the smallest concurrent part, and the one every message
passes), `Broker`, `NcpBus`, then `ToolWire`, `ToolGate`, `ToolSource` and their
composition `ToolCalls`; then the clients of the
bus with the most concurrency of their own: `ChatgptTurns`, `ChatHistory`,
`ChatgptAuth`, `OpenaiTurns`, `MagRuns`. Proofs for the writer, including that it
implements its abstract specification, for the broker, for tool calls, for the turns of
both providers, for the credentials and for the runs of the workflow plugin.

Next: the parts with state listed above, `SessionReplay` on top of the log of `NcpBus`
first; of proofs, `BusInOrder` (see the end of section 5).

## 3. Modules and the code

**`ConnectionWriter`** models `run_writer_observed`. `pc` is the place in the
task: `drain` (the `try_recv` burst), `pop`, and the awaits `write`, `flush`,
`final`, `wait` and `fault`. The broker's `Deliver`, `DeliverBatch`,
`ForceClose`, `DropSender` and `ObserveLosses` happen between any two steps.
`Abort` models `JoinHandle::abort`, which takes effect at an await point only.
A line is its number in the order of acceptance and whether it may be lost.
**`OutboundChannel`** is the promise: an ordered channel from which only the
oldest live line may be dropped, only when more than `Cap` are pending, each
drop counted. `ImplementsChannel` maps it to `pending <- Queued`,
`handed <- wire \o hand`, `drops <- lost + reported`.

**`Broker`** splits one turn of `Broker::run` where another thread's effect can be
seen: `pre`, `preNotices`, `observe`, `account`, `drain`, `deadline`, `check`,
`select`. Each `select!` arm is an action; the handlers it calls
(`handle_inbound_tick`, `handle_exit`, `handle_transport_failure`,
`begin_shutdown`, ...) are part of the action, including the calls into Lua and
what Lua may do there (`LuaRuns`). Deadlines are counters in ticks, lowered by `Tick`.
`heard`, `dropped` and `closedBy` are history variables. The writer is
reduced to running, aborting or done.

**`NcpBus`** has the same loop reduced to one tick at a time, and in return the
contents: log entries with origin, sender, target and prefix. `HandleReady` is
`ncp.lua`'s handshake with `replay_prior_events`; `DispatchRound` is one round of
`drain_pending_dispatch`, with `default_deliver_for` as `Routes`. `mirrored` is
the dispatch mark up to which entries are known to Lua. Malformed lines are
refused and leave no trace, so there may be any number of them: they keep the loop
busy for ever. A deferred task may publish and may defer the next task, as the
sessions library does with itself.

**`ToolWire`**, **`ToolGate`**, **`ToolSource`**, **`ToolCalls`**: the two channels between
the gate and a source, the gate's handlers, the source's handlers, and
the two interleaved with callers, user, operator and exits. The gate's maps are
sets of inner ids over one sequence `call`, because a value never changes after
its id is minted; `awaiting` is keyed by the outer id as in the code, so that a second
call under one id overwrites the first, as it does there. What a tool's own
functions do is chosen by the environment; `SourceMay` lists behaviours the
library permits and only some tools show: leaving a call undecided, ending a call that is
prepared (both in the runs; `cut` records it), streaming before the call executes (in no run: section 6).

**`ChatgptTurns`**: `chat` and `direct` are the two tables of the dispatch loop,
`turn` the tasks, each with its `TurnToken`. A step of a task is what it does
between two awaits that can really wait. The arms of `spawn_turn`'s `select!` that drop
`run_turn` are `Dropped`; what a dropped task still does is `EndTurn`. The
look whether a completion is still its turn's own and the send after it are two
steps (`Published` to `pc = "publish"`, then `Publish`), because the table's lock is dropped in
between and the runtime has several threads; a withdrawal in that window is recorded in
`late`. `EndTurn` gives slot and id back, and only then does `Fallback` send the error for
output that was refused, as in `spawn_turn`. `chat.compact` holds the dispatch loop, as in the code (`loop`). Web
executions are turns without a chat. **`ChatHistory`** has the pure part: which messages
`chat.append` accepts and what `repair_tool_call_history` makes of a restored history; its
`RepairIsRight` states what a repair must do without saying how. The item lists that
`replace_with_native_history` and `prepend_native_history` install without a repair
(`state.rs:745`, `:761`: what a compaction of that history returned, or a checkpoint of it) are left out.

**`ChatgptAuth`**: a step is a critical section of `AuthStore::inner`; the request to
the token endpoint, made under `refresh_lock`, lies between `EnterRefresh` and `ApplyFresh` or
`ApplyFailure`. The endpoint exchanges a refresh token once. `era`, `cut` and
`who` record what the user asked for last, and the account the endpoint has named since: the
id token of a refresh may carry another account (a workspace switch) or none (`Merged`);
`trouble` marks the losses no code here
can prevent (a lost answer, a failed save, a dropped task).

**`OpenaiTurns`** has the same shape with the differences of that code: a chat in use is not
replaced, a cancelled completion keeps its id until its task ends, a turn's output
goes through a bounded `Publisher` that drops the work when a frame is refused or
the queue is full, and a `prompt` turn invokes tools itself and waits at the
`ToolBroker`. Of a history it keeps the calls without a result (`open`) and those
among them no turn is going to answer (`left`).

**`MagRuns`**: the loop handles one event at a time, but what leaves the process can
be refused one emission at a time, so a handler is a little program: `todo` holds its
remaining steps, `emits` and `batch` what `flush_emits` has drained and not sent. A refused
invocation is answered to its actor as an error, which may make it act again within
the same flush; any other refused emission fails the run's output. What actors do is a
choice (`Reactions`: what they open, `Openings`, any number at once, and what the run signals,
`Signals`); what they produce may be an operation's delta (`Delta`), at most one in an activation.
Tool calls, completions and compactions are work, which is cancelled when its actor dies. Preparing a
provider, reading the context, waiting for writes and the commands about notices are queries, which
the kernel detaches without telling anybody (`Cancellable`). An observation of a completion
may open queries too. A compaction is one capability up to the reading back of its
commit; an interrupt in that last stretch sends a cancellation here that the code does not send,
for something the manager has finished. The
end of the module has the invariants its properties follow from, which section 5 explains.

`MCBroker`, `MCNcpBus` and `MCToolCalls` only declare the model values of the runs;
`MCOpenaiTurns` adds the tool calls of a response, `MCMagRuns` the symmetry of run ids,
sessions and actors (sound: nothing tells them apart and only safety is checked).
A definition introduced as a defect or a mutant is a plausible bug kept beside the
definition it corrupts, and is used by no specification.

## 4. Runs

| Run | Result | What it shows |
|---|---|---|
| `writer` | pass | every interleaving of sends, batches, close, abort, loss observation and pipe faults keeps order, accounts for each line, ends when let go, and implements `OutboundChannel` |
| `broker` | pass | records, routing map, facts and terminations agree, through faults, exits, EOF, deadlines and shutdown |
| `broker_shutdown` | pass | a requested shutdown returns, an observed exit is reported, a closing connection is reclaimed, whatever plugins and runtime processes do |
| `bus` | pass | each ready peer hears each broadcast once, in order, and nothing else; `ready_ok` first; popups once |
| `bus_lua` | pass | the same with entries Lua publishes from the cli function, callbacks and deferred tasks, and with drains cut off at the round cap; tasks, which may defer the next, run and run in order, while peers write without end |
| `tool_call` | pass | one call, two sources, all policies and modes: decided by the table, never lost or stranded, forwarded at most once, "not run" is true, no work forgotten, also when the gate stops; its sources may end what they prepared, and the one way in which a refused call executes is named |
| `tool_same_id` | pass | two calls under one outer id, with rejected streams and sources that end prepared calls: a cancel releases both, no caller gets more answers than it asked for |
| `chatgpt_turns` | pass | a chat's turns, direct completions and web executions against an endpoint that fails, refuses and recovers: slots agree with tasks, each asker is answered by its own turn, a stopped turn ends however often the endpoint fails, and any turn ends once it stops failing unless a dropped probe leaves the recovery gate shut |
| `chatgpt_history` | pass | all histories of up to five entries: append and repair leave no result without its call; repair answers every call before the user speaks, changes nothing else, is idempotent |
| `chatgpt_auth` | pass | logins, refreshes, `auth.set`, logout and restarts race each other and another process: late answers are dropped, the account is the one last chosen or the one the endpoint named since for it, concurrent refreshes keep the session, calls return |
| `openai_turns` | pass | slots, completion ids, tool waiters and open calls are accounted for under interrupts, cancels, refused and overflowing output; a turn that does not end is one whose endpoint is silent |
| `mag_runs` | pass | one reply per execute, no tool call, completion or compaction outliving its run, each capability settled once, lost output other than an invocation never a success, with an emission refused anywhere |

Properties that belong together are stated as conjunctions of named parts:
`LinesAccounted` (writer), `RecordsAgree` and `ReportsInOrder` (broker), `BusInOrder`,
`CallsHeld` (tool calls), `TurnsAccounted` (both providers), `TurnsEnd`, `CredentialsStand`,
`SessionTruthful`, `WaitersMatch`, `RunsAccounted`, `WorkAccounted`, `LossReported`; the parts
carry their own comments.

### Bounds

* `writer`: capacity 1, bursts of 2, four lines, batches of at most 2. A queue with
  one live line already has live lines in front of, between and behind lossless
  ones, an eviction with a lossless line at the head, and two evictions in one burst.
* `broker`: one plugin process and one in-memory connection, one line each, one
  tick per deadline. The two kinds of record are treated differently everywhere, and
  two connections are enough for one to be touched by the other's fault. One tick
  orders each deadline before or after every other event; longer ones
  only add idle turns. The wait after forced termination, which only the end of the
  run follows, is over at once here and lasts a tick in `broker_shutdown`. `broker_shutdown` has one plugin, an interrupt and a
  runtime process, since its three temporal properties are about one
  connection and the window.
* `bus`: two peers (one of them `nefor-tui`), three lines, ticks of at most 2 lines,
  cascades of 2 rounds. Three lines let a peer publish, another become ready and a
  third message arrive inside one tick. `bus_lua` has one well-formed line and
  malformed ones without end, one entry published by Lua and two tasks, the second of
  which the first may defer; its drains have one round, so that what a callback publishes
  is left over for the next drain. The cascade cap of 8 and the burst of 256 are
  constants that only have to be reached.
* `tool_call`: two sources, so a tool can move; two tools, one of them denied; one
  call, because the gate treats distinct outer ids independently. The interaction
  of calls under the same id is `tool_same_id`, with two calls, one source and one stream; its
  operator switches between safe and yolo only and its source advertises no native
  tools (`ModesSet`, `Offers`), which `tool_call` covers in full.

* `chatgpt_turns`: two turns, so that one can take the slot or the id another is
  still giving back, wait behind its probe, or be started under a withdrawn id; one chat,
  one completion id and one web id, because ids only meet in the gate and the loop.
  The endpoint may fail without end, since recovery is unlimited by default.
* `chatgpt_history`: five entries over two ids and the empty id hold a call, its result
  twice, another call, and a message of the user between any of them.
* `chatgpt_auth`: two callers for the lock, two accounts, two acts of the user and
  three tokens: a session, its refresh and a login or the other process's refresh.
* `openai_turns`: the default chat and one completion, two turns; responses ask for two
  calls, the second of which an interrupt can prevent, and two turns collide on the
  ids; the queue holds one message, rounds are two and tool iterations one, each enough to
  be exhausted (the second turn asks for the same ids as a second iteration would).
  Attempts within a round (one here) are counted like rounds. `CallerIds` is empty: the
  calls left to the caller are those of the turns that do not run tools themselves.
* `mag_runs`: two run ids and sessions, so that a new session reaps a run; one actor
  per run, which a delta can kill; two executes, two capabilities and two refusals, at any emission.
  Two capabilities may be opened at once, so a query can be detached beside work that is cancelled.

### Deadlock and fairness

Deadlock is checked for the engine modules, whose legitimate ends are explicit
(`Terminated`, `Ended`), and for histories. The other runs turn it off: a gate, provider
or plugin that stopped, with every call answered and no bound left, is a state where
nothing needs to happen.

* Writer: weak fairness of the task's own steps (the runtime polls runnable
  tasks) and of `Abort` (the broker re-examines closing connections each turn). None
  of the pipe: a plugin may never read its stdin, and `WriterEnds` holds anyway.
* Broker: weak fairness of the loop, whose `select!` always has a sleep; strong
  fairness of the receiving arms, because `select!` without `biased` picks at
  random among ready arms, so one that is ready again and again is taken; weak
  fairness of the clock and of an abort taking effect. None for plugins: killing
  one does not make it exit in this model.
* Bus: weak fairness of the loop and strong fairness of the inbound arm, for the
  same reason.
* Tool calls: weak fairness of a source receiving what the bus holds for it.
  Sources, callers, the user and the gate owe nothing.
* `ChatgptTurns`: weak fairness of each task, of the gate's timer and of the
  loop finishing what it began. The endpoint is part of a task's step because every
  request has a timeout and a stream an idle timeout there. It may fail transiently for ever:
  that is the code's default policy, not something fairness excludes, so `EveryTurnEnds` has
  `EndlessTrouble` as its alternative and `StoppedTurnsEnd` has not. Askers owe nothing.
* `ChatgptAuth`: weak fairness of a call's steps (requests have timeouts) and of a
  login flow (it gives up), strong fairness of taking the lock (tokio's mutex is
  first in, first out). None of the user or of other processes.
* `OpenaiTurns`: weak fairness of what a task does by itself, tool and backoff
  timers included, and none of the endpoint, since this stream has no idle
  timeout: `OnlyTheEndpointStalls` says that this is all a turn can wait for.
* `MagRuns`: safety only.

## 5. What is proved

For every value of the constants, checked by TLAPS.

**`ConnectionWriterProofs`**, from `CapAssumption`, `BurstAssumption` and
`BoundsAssumption` (capacity a natural number, zero included; burst positive):

* `WriterTypeCorrect` (`TypeOK`) and `LiveQueueBounded` (`QueueBounded`: `queued_lossy`
  is the number of live lines in the queue and never exceeds the capacity). The
  count is right only because the channel never carries a lossless line in a
  `Send` or a live one in a batch, so the inductive invariant is
  `QueueInv == TypeOK /\ ChannelShape /\ QueueBounded`. The lemmas relate the set of
  live positions of a queue to that of the queue after an append, a removal at any
  position and a pop.
* `EveryLineAccounted` (`LinesAccounted`). `AccountInv` adds to `QueueInv` what the
  writer's control state says (`ControlInv`: nothing follows `Close` in the channel, who
  ended with lines left has told the broker once, where a line can be in hand) and `Books`
  for everything that was accepted: its numbers increase, none is missing that was not
  dropped, only live lines were dropped, and the counts add up. `ChannelMoves` shows
  that a step of any action does one of four things to the lines: nothing, accept
  lines with the next numbers, hand the first one over, or drop the first live one while more
  than `Cap` are pending. The last is the delicate case, since the line that goes
  may be in the queue or be the arriving one (capacity zero), and the queue is
  followed by what is still in the channel.
* `WriterImplementsChannel` (`ImplementsChannel`): the refinement of `OutboundChannel`.
  The same four cases are its `Accept`, `Hand`, `Drop` and a stutter.

**`SequenceLemmas`** has the facts about `FlattenSeq`, `RemoveAt`, `ToSet`, `SetToSeqs` and `Min`
that these and other proofs rest on, and about relations that hold between any two elements of a
sequence (`Pairwise`). What `FlattenSeq` returns is shown by induction on the length: the library's
induction theorems take a predicate, which the provers cannot instantiate, so
`InductionOnNaturals` is about a set, and follows from the well-foundedness of `<`.

**`BrokerProofs`**, from `WatchedAssumption`, `GraceAssumption` and `BoundAssumption`, for any set
of connections, any of which may have a process, and any windows (zero included):

* `BrokerRecordsAgree` (`RecordsAgree`) and `BrokerReportsInOrder` (`ReportsInOrder`), from one inductive
  invariant `BrokerInv`. A turn acts on what other threads left in the channels some
  time ago, so it says what that can be: an item is from a connection that was attached, an EOF from a
  reader that has ended (`InboundGenuine`), an exit from a process that has (`ExitsGenuine`); a
  local deadline runs only for what is closing, in the shutdown window that is everything, and in the last
  wait everything left was told to end (`DeadlinesArmed`); and the facts given to Lua are a function
  of the record: a fault at most, then the process fact exactly when the record is gone
  (`FactsAgree`). That the run never returns with a process it did not tell to end needs
  the last two: the return check sees no record, and a record goes only after its process, or
  in the last wait. The helpers that several handlers share have one lemma each (`InboundTickKeeps`,
  `TransportFailedKeeps`, `ForceCloseKeeps`), as in the code.

**`ToolCallsProofs`**, from `MaxCallsAssumption`, `MaxUsesAssumption`,
`DeniedAssumption`, `InputsAssumption` and `SourceMayAssumption`, for any sets of sources, tools and
callers and any set of permitted source behaviours:

* `ToolCallsTypeCorrect`: `TypeOK`. The step of interest is `PostCancels`, which
  sends cancels to all sources in an unspecified order.
* `RegistryHasOneOwner`: `OneOwner`, inductive with `TypeOK`.
* `ToolRunsOnlyWhenAllowed`: `RunsOnlyWhenAllowed`. It is not inductive: what runs
  was forwarded earlier, was decided on an answer that travelled, perhaps after
  the mode had changed and the user was asked. `DecisionInv` carries the
  justification along that path: ids are minted before they are used
  (`IdsMinted`); a request on the wire or a call being prepared belongs to its
  source and is unanswered, and a prepare request is there once
  (`RequestsJustified`, `PreparationsJustified`), so a source answers a call once and
  its answer cannot change after the decision; an answer on the wire is the one
  its source gave (`AnswersGenuine`); an undecided call was not forwarded
  (`PreparingUndecided`); the user is asked only about an unsure call of a caller
  with the Default policy (`AskedRightly`); and what was forwarded was allowed
  (`ForwardedAllowed`). The gate's steps are shown to preserve it through what they
  may do to calls, requests and reports (`GateKeepsDecision`), the source's steps
  through what they may drop, add and answer (`SourceKeepsDecision`); one step per
  action then checks that it is of that shape.
* `CallersSettledAtMostOnce` (`SettledAtMostOnce`), `CancellationReleases` (`CancelReleases`) and
  `InvokedOnceAndUnsettled` (`ForwardedOnceAndUnsettled`). The first two hold for every reuse of an
  outer id, the last for ids used once (`MaxUses = 1`). All need `StreamsLate`, that no tool
  streams before it executes: a stream the wire rejects drops the call from `pending` and
  leaves it in `preparing`, so a stream of a call that is still being prepared would settle its
  caller twice (section 6). Sources may end prepared calls. `HoldInv` says that what is prepared and
  what the user is asked about is held, under its own outer id (`HoldingsAgree`), that only
  forwarded calls execute or stream (`StreamsForwarded`), and that results sent and calls held
  are together no more than the calls made (`HeldOrSettled`). `GateMoves` shows that every step of the
  gate is one of seven moves (`Moves`: nothing, refuse, mint, run, ask, settle, leave); each
  move is then shown to keep the accounts, with the cardinality of the set of held
  calls as the measure.
* `NotRunWasNotRun` (`NotRunMeansNotRun`) and `CallsAreHeld` (`CallsHeld`), for ids used once, since
  what a caller is told is told of the id. A source that ends a call it has prepared settles it while the
  invoke may already be on the wire and executes it afterwards (section 6): that call, `Revived`, is the
  one exception of the first, and only to what the source itself said; a denial or a withdrawal
  by the gate is always true. `CutIsAnswered` says that such a call was answered and is not prepared
  again, so it can come back through an invoke only. `LifeInv` follows a call on the wire in both directions: it is at its own
  source only (`AtHome`), forwarded only once answered (`AnsweredFirst`), its invoke is there once and
  before it runs (`InvokedOnce`), a cancel is the last request of a call the gate has forgotten
  (`CancelIsLast`), nothing is left at the source behind a result unless the call was cut off (`ResultsFinal`), a source holds or will
  hold only what the gate holds or had to drop (`WorkTracked`), and what was told agrees with what
  was forwarded and ran (`ToldTruly`). That a held call waits for somebody (`NothingStranded`) depends on
  all of them: each way of taking the last message of a call off the wire has to put the next one there.
  The gate's part goes through the seven moves again; for the sources `SourceMove`
  says what a step about one call may do to requests, phases, reports and history, `SourceKeepsLife`
  that this keeps the invariant and `SourceStepMoves` that every source action is of that shape.

**`ChatgptTurnsProofs`**, from `BoundsAssumption` and `NamesAssumption` (chats, completions and
web executions are separate maps; the marks for "nothing" are no name of anything), for any
sets of chats and ids:

* `ChatgptTurnsAccounted` (`TurnsAccounted`). It is not inductive: a turn may end silently
  because its entry was withdrawn or the loop is going down, and both are decided in other
  steps than the end. `TurnsInv` adds which kind of owner is at which point
  (`OwnerKinds`), that a turn which should still have its entry and has not was withdrawn, that a
  withdrawn completion which still works is the one the loop is about to stop, under an id
  nobody has taken yet, and that a turn at the send without its entry lost it after its look
  (`Withdrawals`), where a result, and what is about to be sent, can be (`ResultsHeld`), and what the
  loop's place says of the turn it serves (`LoopAgrees`).
* `ChatgptOnlyOwnerFinishes` (`OnlyOwnerFinishes`): an action property, from the same invariant.
  It names the two windows the code leaves open: a withdrawal between the look and the
  send, and the error for refused output, sent when the id is free again.

**`OpenaiTurnsProofs`**, from the corresponding assumptions: `OpenaiTurnsAccounted`
(`TurnsAccounted`), `OpenaiWaitersMatch` (`WaitersMatch`), `OpenaiCallsAnswered`
(`CallsAreAnswered`) and the action property `OpenaiSuppressedStaysSilent`
(`SuppressedStaysSilent`). They are proved together: that a cut-off turn cleans up behind itself
at the broker needs to know which turns are registered there, and that its chat is
freed needs the slot. `TurnsInv` is their conjunction with `RestoredVacant` (a restored chat that
nobody has used has no turn), `RepliesTaken` (a reply that is there was taken from
the broker) and `WellTurn` (what a turn's record says of the point it is at: it has calls
exactly in the tool loop, and at the end its terminal message agrees with its output).

**`ChatgptAuthProofs`**, from `AuthBounds` and `NoneAssumption`, for any number of calls, logins,
accounts and tokens: `ChatgptCredentialsStand` (`CredentialsStand`) and
`ChatgptSessionTruthful` (`SessionTruthful`). The second needs to follow a refresh token
through three places. `AuthInv` says who knows which token: the holder of
`refresh_lock` exchanges what it observed, and if that is still in use nothing about it
has changed (`Exchanges`); what this or another process has been given and not applied nobody
else has (`FreshPrivate`, `OtherPrivate`); a spent token in the file is one that another process is
about to replace (`DiskCovered`), and a spent token in memory has its successor in the file
or on its way there (`AuthCovered`). `Leases` orders logins against logout and `auth.set`,
which is what keeps late answers out. An answer is applied only while the
token it was asked for is in use (`Superseded`), so that an account the endpoint names reaches that
session and no other.

**`MagRunsProofs`**, from `BoundsAssumption` and `NoRunAssumption` (the mark for "no run" is no
context), for any finite sets of run ids and actors, any sessions and any number of executes,
capabilities and refusals: `MagRunsAccounted` (`RunsAccounted`), `MagWorkAccounted`
(`WorkAccounted`), the action property `MagSettledOnce` (`SettledOnce`) and `MagLossReported`
(`LossReported`). Most of what they state is about the time between two events, and a handler
can be cut short or made longer at every emission it sends. The invariants therefore read the
rest of the handler, `todo`, as promises, and what is emitted and not sent as one
queue whichever side of a drain it is on (`Queue`). There are three, each
inductive with those before it:

* `RunsInv` is about the program: what step may follow what (`ProgramOrdered`: who is
  settled, started or ended has no later step; behind a step that emits comes none that counts on
  an empty queue), that a flush is there while something is unsent (`QueueWatched`), that a
  step's run is live and a reply it holds is owed (`StepsSound`), that an
  execute without a reply is owed one by a run or else by a step (`RepliesOwed`), and what a
  process that goes down leaves (`EndedIsOver`). `SameSession` needs nothing else, since the
  reaping of another session's runs and the beginning of the new one are one step.
* `WorkInv` relates the queue to the outside: no request follows its own
  cancellation (`AsksFirst`), an unsent request was made by an actor of a live run, which but for a
  query is going to be settled (`AsksPending`), an unsent cancellation is of something unanswered that nobody waits for, or to
  whose actor "interrupted" is about to be delivered (`CancelsPending`), what is open was asked for
  (`OpenIsAsked`), work that is wanted outside is open or its cancellation is under way (`WantedIsOpen`; a
  detached query is wanted by nobody, and is not work).
  `NothingOutlivesItsRun` follows for a reply because it is sent with an empty
  queue, from a run that has been torn down.
* `LossInv` says that a run with lost output is marked until it is reported, that it is
  going to be settled or waits for an answer that will settle it (`Attended`), and that a run with a
  signal is going to be settled.

What an activation does (actors act, a delta spawns and kills, actors act again) is summed
up once (`Acts` in the proofs), so that an answer, a refused
invocation, an interrupt, a delta and a resumed actor are five uses of one lemma; in the same way
there is one lemma for steps that end runs, one for those that take an emission off the
queue, and one for those that only move a promise.

Only model-checked: all liveness properties (fairness is beyond the prover; of the tool
calls this is `StopReleasesSources`, of the broker `ShutdownReturns`, `ExitReported` and
`ClosingReclaimed`), and everything about `NcpBus` and `ChatHistory`. `ChatHistory` is a pure
algorithm over whole histories, checked against its reference over all short ones; what the
bus delivers is computed with `SelectSeq` over the log. Both need induction over data, which has
to be set up by hand as in `SequenceLemmas` for every operator.

## 6. Where the code and its documentation disagree

The models do what the code does. Where a document or a comment says otherwise, or
the behaviour may surprise, a property names the case as its exception or does
not claim it. These were met while modelling.

Engine, bus and tools:

* `handle_exit` marks a record closing, and the lines already read
  from that plugin are then discarded (`broker.rs:810`), although
  `docs/plugin-authoring.md:94` invites a plugin to publish a goodbye before it exits;
* after the cascade cap the warning promises that the rest "will be
  drained on next tick" (`broker.rs:925`), but a turn without traffic drains nothing;
* a stream the wire rejects, of a call not yet forwarded, is
  answered to its caller and the call goes on to be executed and answered again
  (`tool-gate/src/main.rs:1191`, against `main.rs:73-74`); the runs' sources stream only
  while they execute (`SourceMay`);
* when the last plugin leaves while a shutdown request is queued, the run returns
  `AllPluginsGone` and the shutdown subscribers are not called (`broker.rs:692`, `:346`);
* the 2000 ms close grace cuts a longer shutdown window short
  (`broker.rs:1156`, `docs/plugin-authoring.md:89`);
* a writer fault that arrives between the drain of notices and
  `account_finished_exits` is never reported (`broker.rs:1035`, `docs/protocol.md:70`);
* entries published by the cli function wait for the first traffic
  (`broker.rs:573`, `:886`);
* a tool denied with `--deny` still runs for workflow nodes, and in yolo mode
  for a Default caller (`tool-gate/src/main.rs:885`, `:57`); `Allowed` states what the
  code does;
* a source that ends a prepared call while the gate's invoke is under way
  executes it afterwards (`lua/libs/tool/init.lua:537`, `main.rs:25-26`), for nobody: its caller
  was told the source's refusal; `NotRunMeansNotRun`, `CallsHeld` and `StopReleasesSources` name
  this call, `Revived`, as their exception;
* an approved invoke too large for the wire leaves the prepared call at its source
  without a cancel (`main.rs:1103`); `CallsHeld` and `StopReleasesSources` name
  this case, `Abandoned`, as their exception;
* `docs/plugin-authoring.md:74` lists an outcome `transport_failure` that
  `ExitOutcome` does not have.

ChatGPT provider (`dispatcher.rs` unless noted):

* a probe whose turn is hard cancelled, or ends in an error that is not transient,
  leaves `probe_in_flight` set, and every later turn waits behind it (3814-3868; `OrphanedProbe`);
* a turn of a chat that is recreated, restored, or deleted and created again, puts its reply
  into the new chat, against the comment on `recreate` (`state.rs:597-600`: "prevents an old poisoned history from leaking");
* a turn interrupted while it waits at the gate publishes a result without a finish reason
  (`"blank"`);
* `chat.compact` and `models.list` hold the dispatch loop, interrupts included, until the endpoint answers;
* a logout interrupts the chats' turns and not the direct completions;
* the result is published before the slot is given back, so an immediate next
  `chat.complete` may be refused as busy;
* a `web.cancel` between the publication of the result and the release of its entry
  (2199-2225) answers a second time;
* when output is refused, slot and id are given back first and the error is sent afterwards
  (4012-4046): it may reach whoever uses the id next, and a completion just withdrawn;
  `OnlyOwnerFinishes` excepts this message (`"undelivered"`) from ownership;
* between the look at the entry and the send (5010-5017, 5106; web 2206-2207) the request
  can be withdrawn, and its id taken again, so that its result comes late (`late`);
* a duplicate of a live completion or web id is refused with a failure under the live id
  (2505-2518);
* recovery from transient failures is unlimited by default (60-63; the plugin's README,
  104-108): only an interrupt or a cancel ends such a turn;
* the login that finishes after an error or a refresh moved the status is discarded
  without a word (785-790);
* a refresh that is cancelled, cannot be saved, or is discarded after a logout has spent the
  refresh token that the file still holds (`trouble`); logging out of a token set by
  `auth.set` leaves an older file, which the next start loads;
* the file of another account is "ignored" (`auth/mod.rs:415`) and then overwritten by the next
  refresh; an id token without an account claim makes the session one that can no
  longer adopt the file (`auth/refresh.rs:119`).

OpenAI provider (`main.rs` unless noted):

* a turn cut off in its tool loop, by a cancel or by refused output, leaves its calls without
  results in the history, against the comment at 1916-1924, which wants "a matching tool message per call" (`left`);
* a `prompt` to a busy chat puts the user's message between a call and its result;
* `broker.rs:40-43` speaks of fresh ids, but the ids are the model's: two turns may collide,
  and the later one takes the waiter;
* a chat deleted during its turn gives two `chat.error` events;
* the stream has no idle timeout.

MAG plugin (`runtime.rs`):

* a refused emission whose run or request has ended, or a refused cancellation, ends the whole
  process: the rest of the batch is lost and no execute is answered (354-369; `Abort`);
* an execute under a live run id is answered with a failed result that carries the live run's id;
* output lost by an observation is noticed at the run's next answer only (`FailureIsNoticed`);
* a shutdown answers no pending execute;
* a request that was withheld after lost output is still cancelled at the gate when its run ends.

## 7. Running

In this directory: `tlc -config Broker.cfg MCBroker` (likewise the other MC modules with
their configurations, and `ConnectionWriter`, `ChatgptTurns`, `ChatHistory` and `ChatgptAuth`
with the configuration of the same name; `PROJECT.json` lists the pairs), and `tlapm M.tla` for
`SequenceLemmas` and the modules whose names end in `Proofs`.
