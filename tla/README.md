# Codex IM bridge: verification project

TLA+ specifications of the bridge between the Codex app-server and instant
messengers, the TLC runs that check them and the theorems TLAPS proves about
them. Paths are relative to the repository's root; `packages/` is left out of
most of them (`core/src/…` is `packages/core/src/…`).

## 1. Inventory

The program is one Node process, the daemon. It runs the Codex app-server as a
subprocess, speaks JSON-RPC over its standard streams, and is driven from chats.
JavaScript runs to completion between awaits, so everything interleaves at
awaits, timers and stream events, and nowhere else.

| Component | State | Operations | Talks to |
|---|---|---|---|
| Approval broker `core/src/approval-broker.ts` | `#pending`, `#pendingById`, `#actorPolicies`, the dispatch table with its modes, `#transportLostFired`; one completion promise per entry | register/enable/disable a mode, `#handle`, `bindActorPolicy`, `resolve`, `expirePending`, `failPending…`, `pruneTerminalRecords`, `reattach` | client (handler slot), daemon (observers) |
| Client `app-server-client/src/client.ts` | outgoing requests with timers, `closed`, one server-request handler | `request`, `respond`, `reject`, dispatch of messages, `stop` | transport, broker, event normalizer |
| Stdio transport `app-server-client/src/stdio-transport.ts` | the child process, handler sets, `stopped` | `start`, `send`, `stop`, exit | codex, client, supervisor |
| Supervisor `daemon/src/supervisor.ts` | current transport/client/runtime, `#closing`, `#halted`, failure counter, respawn timer | `start`, `stop`, `#spawnFresh`, `#onTransportClose` | transport, broker, runtime |
| Event normalizer `codex-runtime/src/event-normalizer.ts` | one bounded queue, waiters, turns without an end | `#enqueue`, `next`, `return`, `endOfStream`, synthetic ends | client, daemon's event pump |
| Approval cards and clicks `daemon/src/daemon.ts` | card jobs (async functions), `#stuckIssuedApprovalIds`, cards by approval | `#handlePendingCreated`, `#handleInboundAction`, `#finalizeAcceptedApproval`, startup revocation | broker, token table, adapter, policy |
| Callback tokens `storage-sqlite/src/callback-tokens.ts` | one row per button: issued, bound, used, expired, revoked | insert, compare-and-set, prune, revoke | SQLite |
| Prune sweep `daemon/src/prune-sweep.ts` | `#inFlight` | `run`, on a timer and when records pile up | broker, token table |
| Prompts, commands, turns `daemon/src/daemon.ts` | handlers waiting for codex, active turns, the event pump of every runtime | prompts, `/stop`, `/new`, `/switch`, `/use`, `/fork`, `/cu` … | runtime, router, turn output |
| Bindings and threads `core/src/session-router.ts`, `storage-sqlite/src/bindings.ts`, `…/thread-sessions.ts` | the binding of every chat and its cache, the threads every chat has used | bind, switch, `/model`, `/alias`, `/threads --refresh` | SQLite, daemon |
| Turn output `daemon/src/turn-output.ts` | one state per turn, edit throttle | open, handle event, interrupt | adapter |
| Security policy `core/src/security-policy.ts` | lists from the configuration | checks on users, chats, commands, projects | daemon |
| Computer use `core/src/computer-use-*.ts`, `daemon/src/computer-use-wiring.ts` | sessions per thread | `/cu`, the tool gate | broker (tool handler), daemon, the machine |
| Rate limit `daemon/src/rate-limit.ts` | timestamps per actor | consume | daemon commands |
| Adapters `im-*/src`, `cli/src/daemon-run.ts` | connection, subscription, messages in transit | start, pause, stop, inbound messages, send, edit | platforms, daemon |
| Config, render, cli, storage's audit and approval tables, test kit | – | parsing, wording, wiring, records for operators | – |

Where it is hard:

- **Approvals race.** A decision, a tool handler, the expiry sweep, the client's
  own timer and the loss of codex compete for one answer on the wire, and the
  entry is cleaned up by a continuation that runs after others.
- **Names are reused.** Codex numbers its requests from zero in every subprocess
  and the broker calls an approval `approval-<id>`, while its maps, its policies,
  the cards on screens and the rows in SQLite outlive the subprocess, some of
  them the daemon.
- **A card is prepared over several awaits** (chat, tokens, actors, sending,
  binding), each of which may fail, during which the approval may be closed.
- **The daemon crashes** with cards on screens and rows in the table.
- **Codex crashes** with requests open in both directions, and is respawned.
- **Three deadlines** (10 minutes for the sweep, 30 for a decision, 31 for the
  client's timer) have to fit together.
- **Prompts and commands of a chat overlap** while they wait for codex, and write
  back a binding they read earlier; threads are shared between chats.
- **A turn has two ends**, one through `/stop` and one through codex's events, each
  with calls to the platform that may fail or be applied late.
- **Answers come late**: a request that timed out may have done its work.
- **Start and stop are not instants**: adapters connect, drain and fetch while the
  storage opens and closes, and a respawn may be under way.

What makes each component correct: the broker and the client answer every
request of codex at most once, grant only what a user decided for that request,
and lose no accepted decision; cards and tokens let exactly the listed users of
the card's chat decide exactly that request, and die in the end; the supervisor
runs at most one subprocess, tells everybody who waits for a dead one, and stops
when told to; the normalizer keeps order and never loses a lifecycle event below
its cap; a chat is bound to no turn but its own, keeps it until it has ended, and
sees its result once and whole; a caller is given the answer to its own request;
a chat is routed by what a restart would find in the table; nothing is handed to a daemon that
has closed its storage; codex uses the machine only where a user asked for it.

## 2. Modules

| Module | Models |
|---|---|
| `DecisionMapper` | decision tables of the broker |
| `RequestContract` | abstract specification: what codex is promised |
| `ApprovalBroker` | broker, server-request dispatch of the client, connection changes; implements `RequestContract` |
| `ApprovalFlow` | card jobs, tokens, clicks, sweep, restarts; extends `ApprovalBroker` |
| `ChatTurns` | prompts and commands that move a chat, active turns, codex's turns, event pump, restarts |
| `TurnOutput` | what a chat sees of a turn |
| `Supervisor` | spawn sequence, close handling, stop, subprocess and transport |
| `ClientRequests` | outgoing requests: ids, timers, late answers, close |
| `EventNormalizer` | queue, limits, waiters, ends of the stream |
| `ChannelAdapters` | start, pause and stop of the adapters under the daemon, inbound messages |
| `ThreadCatalog` | bindings, their cache, the table of threads |
| `ThreadSelectors` | numbered lists of threads and the commands that take a number |
| `ComputerUse` | sessions of `/cu` and the tool gate |
| `ApprovalBrokerProofs`, `ApprovalFlowProofs`, `ChatTurnsProofs`, `SupervisorProofs` | the theorems about the module named |
| `StreamProofs` | the theorems about `EventNormalizer` and `TurnOutput` |
| `ThreadsProofs` | the theorems about `ThreadCatalog` and `ThreadSelectors` |
| `ServicesProofs` | the theorems about `ClientRequests`, `ChannelAdapters`, `ComputerUse` and `MCServices` |
| `DataLemmas` | lemmas about numbers, sequences and finite sets that these share |
| `MCApprovalBroker`, `MCApprovalFlow` | constants that a `.cfg` cannot write |
| `MCServices` | eight modules side by side, for one run |

How they are composed. `ApprovalFlow` is the broker with cards, tokens and
clicks; the supervisor reaches the broker there as the actions
`TransportCloses`, `GenerationFails`, `Reattach` and `DaemonStops`. `ChatTurns` has
the daemon's handlers, codex's turns, the ends that the normalizer holds for the
pump, and the table of outputs together; `EventNormalizer`, `TurnOutput`,
`ThreadCatalog` and `ClientRequests` are the same parts one at a time and in
detail: `ends` stands for the queue, `output` for the state of a turn from its
listing to its publication, `route` for cache and table in one, an answer for a
settled request. That cache and table route alike is `CacheFollowsTable`, except after
a row that was written and could not be read back; `ChatTurns` leaves that one failure
out: its writes that throw change neither.

`MCServices` explores `Supervisor`, `EventNormalizer`, `TurnOutput`,
`ClientRequests`, `ChannelAdapters`, `ThreadCatalog`, `ThreadSelectors` and
`ComputerUse`. They share no state and do not interact in that module: `part` is
chosen initially and only that module's next-state relation is enabled, so that
every one of the eight is explored in full, with its own variables, under its own bounds, as if it had a run
of its own. `part = "supervisor"` carries the supervisor's fairness.

### How the modules correspond to the code

`ApprovalBroker`. A request is a pair of connection and JSON-RPC id.
`slot[i]` is the entry both `#pending` and `#pendingById` hold for id `i` (they
are always written together). `policy` is `#actorPolicies`. `status`, `created`,
`decidedAt`, `decision` are the record's fields; `outcome` is what the
completion promise was settled with, `unwinding` the entries whose `await` in
`#handle` has not continued; `phase` and `wire` are the client's side: waited
for, answered, or dropped because the connection is gone, and what was sent.
One broker method is one action. `Unwind` is the continuation after
`await entry.completion` (conditional delete, then the answer). Socket events
and timers wait until nothing is left to unwind (`Quiet`), as microtasks run
before macrotasks; decisions may come from other continuations and do not wait.
`TransportCloses`, `GenerationFails`, `Reattach` and `DaemonStops` are what the
supervisor and the daemon do to broker and client. A request codex makes under
an id it has used on the same connection is not modelled: codex counts up.

`ApprovalFlow`. `job[r]` is the point a run of `#handlePendingCreated` has
reached, cut at its awaits: `new` (chat being resolved), `issued` (rows
inserted, actors being resolved), `sending` (policy bound or not, `sendCard`
called). `shown` is what is on screens, which may differ from what the call
reported. `token` is `callback_tokens.status`; `click` the progress of
`#handleAcceptedCallback`. All checks of a click and the call of `resolve` run
without an await in between, so they are one action. `by` is a history variable:
who decided, with which card. `DaemonRestarts` is a crash at any point followed
by a start; `CodexStarts` is the first spawn, and a respawn where `Respawn` says
so.

`Supervisor`. A generation is one call of `#spawnFresh`. `proc[g]` is its
process (none, running, exited with its `close` event due, gone), `stopped` the
transports that were told to stop, `client[g]` its client, `spawn[g]` how far
the call has come: waiting for the handshake, up, or in
`#cleanupFailedGeneration`. `gen` is the latest generation, `current` that of
`#currentClient`, `runtime` that of `#currentRuntime`, `sub` that of
`#currentCloseUnsub`; `closing`, `failures`, `halted` and `timer` are the fields of
those names. `stopping` and `fatal` are the progress of the daemon's stop and
its `onFatal` callback; `lost` and `ended` remember the generations whose loss
reached the broker and whose event stream was ended.
The spawn sequence is cut at its awaits: `Start` or `TimerFires` with
`SpawnFresh` or `SpawnThrows`, then `HandshakeCompletes`, `HandshakeFails` or
`HandshakeRejected`, then `CleanupEnds`. `Exit` is codex, `CloseDelivered` the
`close` event with all its listeners in order. `Stop` and `StopEnds` are
`stop()`. A rejected handshake is cleaned up in the same turn of the event loop
(`Settling`), before the next timer or stream event.

`EventNormalizer`. Its methods have no awaits, so one call is one action.
`buf.queue` is `#queue`, an entry being its class and the number of its event in
the order of arrival; `deltas`, `lostDeltas`, `lostAny` are `#deltaCount`,
`#droppedDeltaCount`, `#droppedLifecycleCount`; `pending` is `#pendingTurns`.
`Enqueue` is `#enqueue` in its four parts, each an operator. `waiting` counts
`#waiters`. `accepted` and `delivered` are history. `next` and `return` may be
called at any time and by several readers.

`ChatTurns`. `route[c]` is the binding of a chat: what it is bound to (nothing, the
default context, a project), thread and active turn. `#handleMessage` waits for
nobody, so a message is a handler of its own: `call[h]` is where the handler waits,
for whose message, and the route it captured; `Await`, `Then` and `Done` move it. An
answer of codex and the continuation that takes it are one action, as the
continuation is one microtask away and the events read after it several.
`Prompt`/`Steered`/`DefaultThread`/`FreshThread`/`TurnStarted`/`TurnRefused` are
`#routePrompt` cut at its awaits; `New…`, `Fork`, `PlaceBound`, `Use`, `Switch`,
`Listed`, `Resumed`, `Stop`, `Interrupted`, `ComputerUse` the commands. `MayMove` is
`#controlPlaneBlockMessage`. `BindActiveTurn` writes a captured route, `Rebound` the
current one, as the code does in the two places. `turn`, `loaded`, `nThread` are
codex; `ends[g]` the ends the event stream of process `g` still holds, synthetic
ones included; `pump[g]` is the loop over it: not started, running, or ended by
an exception. `output` is `TurnOutputManager.#outputs`, `posts` history.
`DaemonRestarts` ends and starts the daemon; `ClearActiveTurns` runs before any
message.

`TurnOutput`. Three callers: `open` (`Open`, `OpenAnswered`), the pump's `handle`
(`Delta`, `ItemCompleted`, `Notice`, `ProgressEdited`, `TurnEnd`) and `/stop`
(`Interrupt`). `opened[t].listed` is membership in `#outputs`, `buffer` the state
kept there, `publication` the progress of `#sendTerminal…`, `screen[t]` the
messages of the turn on the platform. A call to the platform has three outcomes:
done, not done, and done but reported as failed.

`ClientRequests`. `awaited[i]` is `pending`, `outcome[c]` what the call of
`request()` ended with, `answer[c]` whose answer it was given (history), `inbox`
what codex has written and the client not read. `RequestTimer`, `CompletePending`,
`HandleClose` and `StopRequests` are the four ways to settle.

`ChannelAdapters`. `started` and `paused` are `#started` and `#inboundPaused`,
`subscribed` the daemon's handlers, `daemon` the progress of `Daemon.start` and
`stop`. A message is looked at when it arrives (`Arrives`) and handed on when
acknowledgement and attachments are through (`Fetched`). `seen` is DingTalk's
`#seenRobotKeyQueue`; Telegram alone has `pauseInbound`.

`ThreadCatalog`. `row` is `thread_bindings`, `cached` `SessionRouter.#cache`,
`records` `thread_sessions`. The repositories write a row and read it back in two
statements, outside of a transaction, so that a binding ends in one of three ways
(`BindOutcome`): `lost`, nothing written; `unread`, written, but the read-back threw and
the cache keeps what it had; `done`. A record's read-back is used by nobody, so for it
only `recorded` matters; one that throws still ends a `/new` or a `/fork`.
The order is each command's own: `/new` and `/fork` record and then bind
(`NewThreadIn`, `NewInPlace`), so that a failure leaves a record without a binding; a
chat's first prompt and a `/switch` to codex's list bind and then record
(`FirstPrompt`, `SwitchNativeThread`); `FreshThread`, a bound chat's prompt without a
thread, records at best and binds in any case. `SwitchCurrent` does both in one
transaction, and is the one place where the cache is not what the table gave back.
`Route` and `Filled` are `resolve`; `Resolves` stands for every command that asks for
the route and then waits, answers or fails. `Normal` is `normalizeBindingContext`.
`behind` is history: the chats that had an entry in the cache when their row was
written and not read back, until a binding of theirs is done or the daemon restarts.

`ThreadSelectors`. `open` is what codex answers to `thread/list`, `kept` the rows of
`thread_sessions` with the two times they are ordered by. `/switch` and `/fork` keep
nothing of the list the user saw: `listed` is history, what the last list showed for
as long as nothing has changed, and `chosen` compares it with what the command took.
Every write stamps a new time, as commands are milliseconds apart; the rows that one
`/threads --refresh` writes share theirs, and `/alias` and `/rename` stamp the row as
updated and not as used (`Retitled`). A project's thread that is switched to
through codex's list, or imported, loses its project, and `/fork` then refuses it.

`ComputerUse`. `session[s]` is `#sessionsByThread`; `ToolCall` is the gate for one
call of codex, `acting` the calls the provider works on; `sent` remembers whose
`/cu` went into which turn. What the policy says of words is free.

## 3. Runs

TLC checks every run exhaustively with two workers. Deadlock is not checked:
behaviours end where the bounds on time, connections and messages stop them.

| Run | Shows |
|---|---|
| `MCApprovalBroker.cfg` | one id over two connections, all three modes: the inductive invariant, safety, decided means decided, refinement of `RequestContract`; requests end, approvals close |
| `MCApprovalBroker_handler.cfg` | counterexample: an accepted decision loses to a handler |
| `MCApprovalFlow.cfg` | two approvals through cards, clicks and sweeps with failing sends and writes: used tokens tell the decision, sent cards stay usable |
| `MCApprovalFlow_restart.cfg` | two chats, an outsider, a restart with a reused id: every decision is taken with the request's own card, by a member, in its chat; retired tokens stay retired; every token retires |
| `MCApprovalFlow_respawn.cfg` | counterexample: with a respawn in one daemon run, an old card decides a new request |
| `MCApprovalFlow_bindfails.cfg` | counterexample: a SQLite error while binding goes unflagged |
| `MCServices.cfg` | the eight modules named above: see the next table |
| `ThreadSelectors_fork.cfg` | counterexample: `/fork 1` forks another thread than the list just sent shows as 1 |
| `Supervisor_stop.cfg` | counterexample: `stop()` returns while a codex still runs |
| `EventNormalizer_loss.cfg` | counterexample: the report of a lost event is itself lost |
| `ChatTurns.cfg` | two chats, two handlers, a lost codex, a restart: a bound turn is the chat's own, on its thread, kept until it has ended; its result appears once, and in the end |
| `ChatTurns_wedge.cfg` | counterexample: nothing releases a chat from the turn of a `/cu` |

| Part of `MCServices.cfg` | Properties |
|---|---|
| supervisor | `OneCodex`, `NoOrphan`, `LossIsTold`, `RuntimeServes`, `GivingUpIsClean`, `IndInv`; `Recovers`: a lost codex is replaced or the supervisor halts; `StopEndsCodex` |
| normalizer | `NobodyWaitsInVain`, `LimitsHold`, `OrderIsKept`, `LossIsCountedOnce`, `TurnsAreClosed` |
| output | `ResultStands`: a result is in the chat complete and in order, in place of the "working" message or beside the only one |
| requests | `AnswerIsItsOwn` |
| adapters | `RedeliveryIsHandledOnce`; `HandlersFindStorage` |
| catalogue | `CacheFollowsTable`: whichever statements throw, a chat is routed by what a restart would find, except after a row that could not be read back; and that chat is bound in cache and table both |
| selectors | `FreshNumbersHold`: right after a list of all threads, `/switch n` takes what was shown as n |
| computer use | `EveryUseWasAskedFor` |
| all | `ServicesTypeOK`, the conjunction of their type invariants |

Bounds. In the approval modules `MaxTime` and `MaxGen` are the only ones. Time is
scaled so that the order of the deadlines is the daemon's (sweep before decision
before client); the clock reaches the last of them. Two connections are what
reusing a name takes, a third adds nothing new: a request only ever meets its
predecessor under the id. Two ids are what one request disturbing another takes:
they are in the instances of `ApprovalFlow`; those of the broker alone have one, and
pruning by count, which takes two, is covered by the proofs, whose `Id` and
`TerminalCount` are any. One kind of request per run suffices since kinds differ in
the tables only: the runs use a kind with all four actions and one with decline alone.
`Ttl <= HandlerTimeout` is an assumption the proofs need and the daemon's wiring
satisfies (30 and 31 minutes, `cli/src/daemon-run.ts:92`).

`ChatTurns` has two chats, which is what sharing a thread takes; two handlers at a
time, which is what overlapping takes; two threads and two turns, so that there is
another one of each to be confused with; two codex processes, for one loss or one
restart; three messages: a prompt, a command that moves the chat, and a message of
the other chat. In both chats users wait for a reply before they write again
(`Patient`); `BoundTurnIsOurs` and `OnePublication` do not depend on that and are
proved without it. Users who do not wait can bring a chat to a turn on another
thread (two prompts before the first answer): section 5.

In `MCServices`: `MaxGen` 5, so that any two ways of failing follow each other and
the threshold of five failures could be reached (the theorem `NoCascade` says it
is not). The normalizer receives `MaxEvents` 5 notifications with limits of two
deltas and four entries (of 4096 and 16384), which strikes both limits and drops
markers again; two readers, two turns. The output has one turn, results of up to
three messages (of six), both kinds of platform: outputs of two turns meet only in
the pump, which handles one event at a time, and in notices that name no turn.
Three calls of `request()`, so that an id could be reused between two others. Four
platforms, up to two of them configured, two messages, three deliveries and a
memory of one key (of 4096): a key can be forgotten and come again. One chat, one
project and two threads in the catalogue: every command works on its own chat. One
chat, three threads and lists of two for selectors, so that the two lists differ in
order, members and where they are cut; three writes of the store. Two
users on one thread with two turns, and a session that lives for one tick.
Properties that compare counters with contents, or a suffix with a queue, do not
depend on the size of a limit beyond being reached.

Fairness. Continuations are fair because Node runs its queues to the end. The
clock, the prune interval and the client's timers are fair until the daemon is
told to stop. Codex, users, tool handlers, platforms and the supervisor's
respawn are not: liveness does not depend on them. In `Supervisor` the recovery
timer, the continuations and the `close` event of an exited process are fair; a
handshake ends since it has a timeout of its own, and the daemon calls `stop()`
once it has drained its work. An exit of codex and a stop of the daemon are not.
In `ChatTurns` the continuation of a handler is fair, since a request is answered,
times out or is rejected with the connection, and so is the pump, since a call to
a platform ends; codex need not end a turn, a lost codex need not be replaced and
nobody has to write.

## 4. Proofs

`ApprovalBrokerProofs` proves, for any set of ids, kinds, actors, chats and
nonces and any bounds satisfying the assumptions named in `ApprovalBroker`:

- `Invariance`: `IndInv` is inductive. The safety properties are not inductive
  alone. That an accepted decision arrives (`DecisionReachesCodex`) needs to
  know that an unsettled request still has its slot, belongs to the connection
  that is open (`LiveInv`), and that the client's timer has not answered before
  the deadline for decisions passed (`WireInv`). That in turn needs that the
  loss flag is down while a connection is open (`FlagInv`), or a loss would
  leave unsettled requests behind for the next connection. `RecordInv` says
  which fields of a record go together: a pending record that is settled was
  settled by its handler, which is the one window in which a decision is
  accepted and lost.
- `TypeCorrect`, `LiveEntriesFound`, `DecisionsArrive`, `NoGrantWithoutConsent`:
  consequences of the invariant.
- `DecisionsAreFinal`: the action property, from the invariant: only unsettled
  requests are settled and only pending records closed.
- `Refinement`: every step is a step of `RequestContract` or a stutter.

`ApprovalFlowProofs` proves, for any number of respawns and restarts,
`RetiredForever` from `RowInv`: a row is written by one job, once, and only the
write-back touches the row of an accepted click; and `PipelineInvariance`, from
which `FlowTypeCorrect` and `GrantsNeedConsentInFlow` follow. `IndInv` of the
broker is not an invariant here, since the pipeline's clock, its generations and
its restarts are not those of `ApprovalBroker`; what carries over is `Honest(r)`,
about one request at a time: an outcome that grants is the wire form of a decision
taken on that request, and the wire carries the outcome or nothing. A restart
forgets the entries but keeps what has been said.

Assuming `Respawn = FALSE` (the respawn instance has the counterexample without it)
it proves what clicks do, from `ClickInv`:
- `RunInv` says that whatever is alive in a run of the daemon (entries, jobs, live
  rows, clicks being handled) is of the one connection of that run, so that an id
  stands for one request; rows of earlier runs are retired by the start.
- `OwnInv` says of every decision what `ClickDecidesItsOwnRequest` says, and that
  it comes after the card got its chat; `UsedInv` carries it from the accepted
  click to the write-back. `OwnCardDecides` and `UsedTokensTell` follow.
- `ButtonsWork` proves `CardStaysUsable`, also assuming `SweepAge <= Ttl` (10 and 30
  minutes in the code). `UnsentInv` says that nobody else binds the policy of a
  request whose card is not sent, `SentInv` that the rows of an open approval are
  where its job left them. They show more than the property: the flag for stuck
  rows is never up for an open approval unless codex was started again, so that
  the case the sweep handles with it comes from respawns only.
- `GrantsComeFromMembers` joins the two halves. `Honest` leads from the wire to a
  decision, `OwnInv` from the decision to a click: whatever codex is allowed, a
  listed user allowed with that request's own card, in the chat it was sent to, and
  with the very choice that codex is told.

`ChatTurnsProofs` proves, for any number of chats, messages, threads, turns and
processes, `ChatInvariance`: `ChatInv`, the conjunction by groups of variables of
`EnvInv`, `CallInv` (what a waiting handler has captured), `TurnInv` (a turn not
begun is nobody's and has no output), `EventInv`, `RouteInv` and `OutInv`.
`BoundTurnsAreOurs` is `RouteInv`. It is not inductive alone, since a waiting handler
writes a route back that it captured earlier: with a turn begun for its own chat,
or after `/switch` with the route of the selected thread, of which `CallInv` says
that it names no turn. `PublishedOnce` is not inductive alone either: `OutInv` says
that a turn whose result was published has no open output any more, that one whose
end is being published is marked so, and that no two pumps publish the same;
`TurnInv` that opening the output of a new turn takes nothing back.
`ChatTypeCorrect` is the type invariant.

For the chats in `Patient`, `PatientInvariance` proves `PatientInv` on top of it, and
`TurnsAreOnTheirThreads` and `RunningTurnsStay` follow. A message of such a chat comes
only when no handler of the chat waits, so that handlers are alone (`AloneInv`). What
`#controlPlaneBlockMessage` asks once, on arrival, then holds after every await
(`MovingInv`: no turn is active while a handler is about to move the chat), which is
what both properties need of `/new`, `/switch`, a retried prompt and `#bindActiveTurn`.
`EndedInv` says that the pump only releases turns that have ended. Without patience
neither property holds, as section 5 tells.

`SupervisorProofs` proves, for any number of generations and any threshold above
two, `SupervisorInvariance`: `IndInv`, the conjunction of `OrderInv` (older
generations are behind the latest), `RefInv` (what the fields refer to),
`WorkingInv` (what is true while a generation is up or on its way), `HaltedInv`,
`CountInv` (failures only count one by one), `StopInv` and `LossIsTold`. From it
follow `OneAtATime`, `NothingOrphaned`, `LossesAreTold`, `RuntimeIsServing`,
`GivesUpCleanly`, `HaltsForGood` and `NoCascade`: the counter never passes two, so
the halt after five failures and the longer back-offs are unreachable.

`StreamProofs` proves of `EventNormalizer`, for any limits, turns, readers and number
of notifications, `NormInvariance`. The invariant reads what was delivered and what is
queued as one sequence (`Stream`), and says of it, in `Faithful`, that the numbers of
its events rise, that events, the two counts of losses and the history add up, and, as
long as the hard limit took nothing, that it is the history but for markers in the
place of deltas, with all its ends of turns. Each of the four parts of `#enqueue`
keeps it with the event pushed last (`TrackKeeps`, `WalkKeeps`, `PushedKeeps`, `CapKeeps`),
`#drain` and `#dequeue` only move the boundary between the two halves. The end of the
stream enqueues any number of events in one step; `EnqueueAllIsStepwise` and an
induction over them reduce it to one. That the delta counter is right and within its
limit follows from the same count. `NobodyWaits`, `LimitsAreKept`, `OrderOfArrival`,
`LossIsCounted` and `EveryTurnIsClosed` are the properties of the run.

Of `TurnOutput` it proves `OutputInvariance` and, from it, `ResultsStand`: `InStep` says
how far a publication has come for the calls that are under way, `Visible` that the
chat shows exactly the parts sent so far and where the "working" message stands
among them. The second is claimed only for turns whose calls all took effect and
whose `/stop` met no progress edit, the condition of the property itself.

`ThreadsProofs` proves `CacheIsBehindUnreadRowsOnly` (the property
`CacheFollowsTable`) from the type invariant, from that a switch under way is whole
(`SwitchIsWhole`) and that rows are normalised (`RowsAreNormal`). `FilledRoutes` says
that asking for a route changes no route, `BindKeepsAgreement` that a binding keeps the
property in each of its three outcomes, whether the command had filled the cache or
not: an unread row leaves the cache behind only if there was an entry to be behind.
`NormalIsBinding` says that normalising a binding twice is normalising it once, which is
why a restart reads what the cache stood for. `ListedNumbersHold` follows from `ListedIsCurrent`: a
list that is still held is the one a command would draw up now, or codex's list
was empty or not to be had when the store's was shown in its place. That both lists
exist and are sorted rests on `SortedSequence`: a finite set with a strict total order
can be laid out in a sequence in that order.

`ServicesProofs` proves
- `AnswersFindTheirCalls` from `RequestInv`: ids count up with the calls
  (`IdsAreFresh`), and what is under way under an id, waiting, asked or answered, is
  of the call it was given to (`IdsLeadBack`);
- `StorageIsOpenForHandlers`: the handlers are gone from the step on that closes the
  storage (`DeafWhenClosed`), and no step brings them back;
- `RedeliveriesAreDropped`: what the adapter remembers is the tail of what it has
  handed on, without repetition (`SeenAreTheLatest`, `SeenAreDistinct`), so that between
  two times a message is handed on there are as many others as the memory holds;
- `UsesAreAskedFor` from `SessionsAreSent`: a session, the one left on the thread after
  its turn included, was opened by its user's `/cu` at the time its end is counted from;
- `ServicesInvariance`, the eight invariants together for the module that runs the
  components side by side, and with it `ServicesTypeCorrect`.

`DataLemmas` has what these share: how many entries of a sequence are in a set, and
induction. The library's induction theorems take a predicate as a parameter, which
the provers cannot instantiate; `SetInduction` takes a set instead (`WFMin` gives the
least number outside it), and a predicate is passed as the set of numbers that
satisfy it.

The assumptions on constants are those named in the modules. The theorems about clicks
are conditional beyond that, and say so: `OwnCardDecides`, `UsedTokensTell`, `ButtonsWork`
and `GrantsComeFromMembers` assume `Respawn = FALSE`, `ButtonsWork` also
`SweepAge <= Ttl`. A component that is explored as a part of `MCServices` has its theorems
stated for its own specification.

Only model-checked is liveness, since fairness and `ENABLED` are beyond the prover:
`EveryRequestEnds`, `EveryApprovalCloses`, `EveryTokenRetires`, `Recovers`,
`StopEndsCodex` and `PublishedAtLast`. Every invariant and every action property
that the passing runs check is a theorem.

## 5. Findings

1. `MCApprovalFlow_respawn`: approval ids repeat after a respawn of codex while
   policies and cards stay; the old card decides the new request
   (`core/src/approval-broker.ts:759`, `daemon/src/daemon.ts:882`).
2. `MCApprovalBroker_handler`: `resolve` answers `ok` for a decision that lost
   (`core/src/approval-broker.ts:1067`). Only in handler mode, which the daemon
   uses for dynamic tool calls.
3. `MCApprovalFlow_bindfails`: a throwing write skips retries and flag
   (`daemon/src/daemon.ts:1139`).
4. `Supervisor_stop`: `stop()` returns while the cleanup of a failed respawn
   still waits for its codex to exit, and the daemon closes its storage
   (`daemon/src/supervisor.ts:155`).
5. `EventNormalizer_loss`: a round of the hard limit that drops the marker of an
   earlier round and a delta marker puts nothing back; the loss of a lifecycle
   event goes unreported (`codex-runtime/src/event-normalizer.ts:308`).
6. `ChatTurns_wedge`: the turn of a `/cu` has no output, and the pump releases a chat
   only with one: a chat stays bound to a turn that has ended, its prompts go there
   and the commands that would move it are refused (`daemon/src/daemon.ts:2108`).

7. `ThreadSelectors_fork`: `/threads` sends codex's list, `/fork <n>` counts in the
   chat's own records, which are ordered by use: with nothing in between, another
   thread is forked than was shown (`daemon/src/daemon.ts:4124`, against the
   daemon's own answers at lines 4015 and 4029).

Observed without a run, approvals: the result of `bindActorPolicy` is ignored, so a
card is sent although its policy was refused (`daemon/src/daemon.ts:882`, against
phase-3-plan.md:1272); the sweep closes approvals after ten minutes though their
buttons are valid for thirty; cards of approvals that no click decided stay in
`#approvalCardsById`; the card of an approval goes to the first binding on its thread
(`cli/src/daemon-run.ts:609`). Events and supervisor: `codex-runtime/src/types.ts:100`
says that lifecycle events are never dropped, which the hard limit does; five closes
in a row never halt the supervisor, since a failed respawn halts it at once and a
successful one resets the counter.

Prompts and turns: the event pump starts with a prompt and nowhere else
(`daemon/src/daemon.ts:1729`), so that `/new` with a task or `/cu` as the first message
after a start or a respawn runs without one; a SQLite write that throws while the
pump releases a chat ends the pump for that codex; a prompt steered to a turn that
has ended, but is not released yet, is lost without a word; two prompts before the
first answer both start a turn, or end up with a turn and a thread that do not
belong together; a `turn/start` that times out may leave a turn no chat knows, and
the prompt runs again on another thread; a turn that codex accepted, but had not
reported started when it was lost, gets no synthetic end; threads are not resumed
after a respawn; `#bindActiveTurn` writes back the model it captured. Output: a
result that is published while `open` still sends leaves "working" in the chat.

Catalogue: a binding whose row was written and could not be read back is reported to
the user as failed; it takes effect all the same, with the chat's next message if the
router had no entry for it, else at the next restart, unless a `/model` or a new thread
has put the old route back over it (`storage-sqlite/src/bindings.ts:170`, in the model as
`behind`); `/new` and `/fork` may leave the record of a thread the chat was never bound
to. `thread-rename.ts` and `thread-lifecycle.ts` call methods of the runtime
without it, which throws with the real one (the tests pass plain functions:
`daemon/test/thread-lifecycle.test.ts:61`); `/alias` titles are overwritten by
`/threads --refresh`, which also makes the record of a project's thread forget its
project; `/threads <project>` numbers the records of one project, or codex's whole
list, while `/switch` and `/fork` count all records; a number is stale as soon as a
thread is started or used, and no command says so; `/archive` changes nothing as the daemon is wired
(`cli/src/daemon-run.ts:178`). Adapters: only Telegram's can pause; handlers that
still run when the storage closes are not waited for; Slack's adapter installs its
handlers again on every start and sees a mention in a channel under two events;
Telegram's is deaf after a failed start; a cleanup does not stop an adapter that is
still connecting. Computer use: nothing calls `clearThread`, and a second `/cu` takes
over the session of the running turn.

## 6. Not modelled

Wording, cards' layout, audit events and logs; parsing of configuration, of command
lines and of platform payloads; the JSONL decoder; the payload formats and HTTP
clients below the adapters, and what the computer-use provider does on the machine.
The sliding window of the rate limit and the lists of the security policy are
called synchronously and may refuse any command, which changes nothing; only the
membership tests of the policy are in a model (`ApprovalFlow`). Commands that show
something, team operator policies, session hand-off and status read the state of
the others. `/compact` and `/review` start turns no chat is bound to. The `/approve`
command and the DingTalk template lookup use repository methods the shipped daemon
does not provide. The approvals and audit tables are written for operators and read
by nothing that decides. Generated types, lifecycle scripts, smoke programs and test
doubles are no part of the running daemon.

The platforms, codex and SQLite are environment: they may fail or stay silent
wherever the code handles it. `ApprovalBroker` has no reattachment after the daemon
began to stop; that the supervisor is still able to finish a respawn then is part of
`Supervisor`. The class of a notification stands for its method in `EventNormalizer`;
the payloads' checks, which turn a malformed notification into one of unknown type,
only move it to the class of `note`. `ChatTurns` has one table for the cache and the
table of bindings, and publication and release in one step of the pump; the parts of
a publication are in `TurnOutput`.

Most of the implementation's lines are of these kinds: rendering, parsing, platform
clients, operator scripts and tests' drivers, which hold no state that another part
could find changed. What keeps state across an await and is written by more than one
caller is in a model.
