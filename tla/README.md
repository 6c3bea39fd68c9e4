# Cyborg7: models of the relay, its daemons and their agents

This directory holds TLA+ models of Cyborg7, the configurations TLC checks them
with, and proofs that TLAPS checks. Every definition is read off the code under
`src/packages`; the `map` of `PROJECT.json` gives the lines of each. Paths below
are relative to `src/packages/server/src/server/` unless they start with a
package.

## The system

Cyborg7 is a chat in which coding agents ("cybos") take part. Each member runs a
**daemon**, one Node.js process that serves local clients over WebSocket, runs
agents as child processes, and keeps a SQLite cache. Daemons of a workspace meet
at a **relay**, which runs no agents: it numbers and fans out messages, stores
them in **PostgreSQL** (with a Redis list behind it for failures), and serves
browsers. Every process is a single-threaded event loop, so what goes wrong goes
wrong at the `await`s, between processes, and when sockets or PostgreSQL fail.

### Inventory

| Component | State | Operations | Hard behaviour | What makes it correct |
|---|---|---|---|---|
| Relay stream: numbering, storing, catching up (`cyborg/workspace-relay.ts`, `relay-redis.ts`, `daemon-relay-client.ts`) | `workspaceSeqs`, subscribers, Redis list, rows; a daemon's `lastSeqs` and store | forward, fan out, persist, buffer, replay, sync, inject | the insert runs behind the fan-out; relay and daemon crash; sockets break at any frame; PostgreSQL and Redis fail | one order for everybody, one number per message, nothing skipped on a live socket, nothing lost in silence |
| Relay registry (`cyborg/workspace-relay.ts`, `relay-standalone.ts`, `db/pg-sync.ts`) | connections, `workspaceSubscribers`, serving rows | hello, evict, reconcile, toggle, link, targeted forward, close | rows are read before an await and applied after it | one connection per daemon; the two maps agree; the rows decide what is served |
| Control connection (`cyborg/daemon-relay-client.ts`, `workspace-relay.ts`) | socket, timers; registered connection; status row | connect, reconnect, hello, heartbeat, sweep, close, status writes | both ends learn of a close at different moments, or never | the daemon comes back; no second connection; the row heals |
| Agent replies (`cyborg/message-router.ts`, `agent/agent-stream-coalescer.ts`, `workspace-relay.ts`) | turn guard, coalescing window, broadcast chain; accumulated text; stored replies | prompt, tag, accumulate, flush, insert, announce, retry | one session answers many people; tags are read when an event is sent; the idle status goes past the chain | private answers stay private; a reply is announced whole and once, to whoever asked |
| Agent runs (`agent/agent-manager.ts`, `agent/foreground-run-state.ts`, `agent/providers/claude/agent.ts`) | pending run, active turn, waiters, cancellations; the session's turn, the child's pipes | start, replace, cancel, force-cancel, drain, interrupt, pump | interrupts cross results; two-second bounds; the child dies | one run at a time; every turn ends; a replacement is accepted |
| Dual storage (`cyborg/dual-storage.ts`, `storage.ts`) | SQLite and PostgreSQL copies | every write twice, the second without waiting | reordered and lost second writes | the copies converge |
| Router, dispatcher, guests (`cyborg/message-router.ts`, `dispatcher.ts`, `relay-standalone.ts`) | bindings, requests to daemons with timeouts | commands, mentions, chains, administration | an answer that comes after its timeout | an operation takes effect once |
| Schedules, loops (`cyborg/schedule-runner.ts`, `schedule/`, `loop-service.ts`) | SQLite rows, claims in PostgreSQL, `inFlight`, run rows | tick, claim, fire, run now, edit, pause | a tick decides on what it read three awaits ago; claims fail; a restart between claim and run | each occurrence runs once, `max_runs` is kept, the runner always catches up |
| Deliveries (`cyborg/webhook-enqueue.ts`, `webhook-delivery-runner.ts`; `task-outbound.ts`, `slack-outbound.ts`) | an outbox with leases and attempts | enqueue, claim, post, retry, give up | a crash after the POST; a lease that ends under its attempt | at least once, bounded attempts, the owner is told |
| Terminals (`terminal/`, `cyborg/terminal-controller.ts`, `cyborg/pty-host-*.ts`) | ptys, subscribers, snapshots | attach, write, resize, reattach | a host that outlives the daemon | no output lost between snapshot and stream |
| Encrypted channel (`packages/relay/src/encrypted-channel.ts`) | handshake state, pending sends | hello, ready, encrypt | retried and duplicated hellos | both ends agree on a key; order kept |
| Web client's sends (`packages/ui/src/lib/state/app.svelte.ts`, `cache/outbox.ts`) | queue, IndexedDB, bubbles, watchdogs | send, flush, rehydrate, echo, retry | a drop, a reload, a logout or a refusal of the relay at any await | what was written is posted or refused, once unless retried |
| Tasks (`tasks/`) | a dependency graph | order, ready sets | cycles | dependencies come first |
| Chat rooms, voice, provider snapshots, pid lock, licences | waiters; segments; shared probes; a lock file; seats | wait, finish, refresh, claim | timeouts; out-of-order results; dead owners | no lost wake-up; one owner |
| Git, GitHub, CLI, highlighting, docs, observability | caches | calls of external programs | – | mostly sequential or pure I/O |

`PROJECT.json` lists all of them under `components` with their status, and the
hazards of the code under `hazards`, with the properties that are about them.

## The modules

    WorkspaceFeed  <--implements--  RelaySync        RelaySyncProofs
                                    RelayServing     RelayServingProofs
                                    DaemonLink       DaemonLinkProofs
                                    AgentReply       AgentReplyProofs
                                    AgentRun         AgentRunProofs
                                    ScheduleFire     ScheduleFireProofs
    Outbox         <--implements--  WebhookDelivery  WebhookDeliveryProofs
                                    SendOutbox       SendOutboxProofs

Each `MC...` module extends the module of its name and gives constants to TLC.
A `...Proofs` module extends the module of its name and TLAPS. Operators named as
a slip of the code would read (`EvictedNone`, `StillArmed`) are not used by the
specifications: each stands before the operator it is a mutant of, and
`PROJECT.json` says which property notices the exchange.

The components share code but no state that the properties depend on.
`RelaySync` takes a socket to be up or down for both ends at once; `DaemonLink` and
`RelayServing` are about what happens while the ends disagree. `AgentReply` takes
turns that follow each other for granted; `AgentRun` is about that.

### RelaySync and WorkspaceFeed

`RelaySync` is one workspace's stream. `seq`, `subs`, `persisting` and `draining`
are the relay's memory (`workspaceSeqs`, `workspaceSubscribers`, the `persistMessage`
and `persistBufferedMessages` calls that await), `rows` and `buffer` the messages
table and the Redis list, `lastSeq` and `store` the daemon's `lastSeqs` and its SQLite
table, `toRelay` and `toDaemon` the frames on the wire. `Publish` is
`handleForward`: number, fan out to all but the sender, start the insert if the
message is one that is stored. `SyncRead` and `SyncReply` split
`handleSyncRequest` at its await; `PersistFailed` pushes to Redis, `DrainBuffer` and
`PersistBuffered` are the 30-second replay (it takes up to a hundred entries, the model
has fewer; what is pushed between its read and its trim lies behind what it trims, so
they are one step),
`RelayStart` seeds the counter from the highest row. `log`, `recv`, `due` and `owed` are history.

`WorkspaceFeed` is what architecture.md promises of it: one sequence of entries,
that every reader sees without repetition or inversion. `ConsistentFeed` is the
refinement (`Reader <- Daemon, feed <- log, got <- recv`).

### RelayServing

The registry. `daemons` and `workspaceIds` are the relay's map of connections,
`subscribers` is `workspaceSubscribers`, `lookup` the query a hello starts
(`getEnabledWorkspaceIdsForDaemon` reads two tables one after the other, so it has
a state between them), `owned` and `disabled` the rows. `ApplyLookup` applies an
answer whatever has happened since, as the code does. `CommitToggle`/`ApplyToggle`
and `CreateWorkspace`/`LinkNext` split the handlers of the standalone relay at
their awaits. `raced` and `targeted` are history: they mark the (daemon, workspace)
pairs for which a row changed under a handler, or that a targeted forward
subscribed.

### DaemonLink

One daemon's connection at both its ends: `cstate`, `connected`, `timer`, `beating`
are the client's, `rstate`, `registered`, `silent` the relay's, `status` and `writes`
the row and the writes to it under way. `cut` holds the sockets whose path died
without a close. Timers fire at any moment they are armed. `sweepRuns` tells two
wirings apart: `listen` and `attachToServer` start the presence sweep,
`attachToWss`, which the standalone relay uses, does not.

### AgentReply

One session bound to a channel that several people prompt. `guard` is
`dmTurnRecipient`, `window` the open window of the coalescer (60 ms), `chain` is
`broadcastChains`, `pending` is
`pendingAgentMessages`, and `lastFlushedDmEmail`, `inserting`, `buffered` what the
relay keeps of a flush until it is stored and announced. A text is a set of parts
`<<turn, number>>`, so the properties can say whose words went where. `Prompt` is
`routeDmTurn` and the start of `routeToAgent`. `Delta` opens or joins a window;
`WindowEnds` puts what it holds behind the chain, and `EmitNext` sends the head of the
chain, tagged when it is sent (`emitAgentStream`): nothing of a text is ever sent
synchronously. `EndTurn` closes the window into the chain and, in the same pass, sends
`agent_status` idle past it, which makes the relay flush what it has; the terminal event
follows behind the last part and flushes again. `may.tail` says whether a turn may end
while parts of it are still in the window or the chain; `Insert` reads the recipient after the
await, as `broadcastAgentReply` does.

### AgentRun

The manager's foreground runs over a Claude session in a child process. `run` is
where each run's generator is, `told` what its waiter was called with, `cancel` where
each `cancelAgentRun` is and what it captured before its await, `tail` the session
events to dispatch, `stdin`, `job` and `pipe` the child. Continuations run to the end
before Node.js takes another input: actions that need an input, a timer or a line of
the child wait until all is `Quiet`, the others are `Microtask`s.

### ScheduleFire

The cron runner. A schedule is a SQLite row on every daemon that holds a copy
(`row`), and each daemon advances its own; the right to fire a slot is one row of
`claims` in PostgreSQL, with `localClaims` where PostgreSQL fails. `job` is the tick's
copy of the row and the await it is at: `TickBegins` reads it, `ProcessDue`,
`Authorize`, `License` and `Claim` are what follows each await of `processDue`, and a
run goes on from `StartRun` to `FireSettles`. `RunOnce` and its two continuations are
"Run now", which looks at `inFlight` before its awaits only. Users edit, pause, resume
and delete between any two of these. A cadence is a period, so `NextAfter` is a
division; schedules share nothing but the tick, so one is modelled.

### WebhookDelivery and Outbox

`stored`, `attempts`, `hidden` and `delivered` are what `webhook_outbox` says of an
event, `jobs` the deliveries of each runner's tick and how far they are. `Tick` is
the claim with its lease, `Posted` the POST, and `OnSuccess`, `Reschedule`,
`DeadLetter`, `Deactivate` and `NotifyOwner` the writes that follow, one awaited
statement each; any of them may fail. Time is what `next_retry_at` means, due or
hidden: `BecomesDue` ends a backoff or an orphaned lease. `LeaseExpires` ends a lease
under its attempt, at any point of it: the lease counts from a clock read before the
claim, no statement has a timeout, so after a slow claim it may be over while the POST
is still to be made or under way. `overruns` counts such leases; `OnePostPerLease` says
what they cost.

`Outbox` is the promise: an event is settled only when it was accepted or has been
tried `MaxAttempts` times, and is not tried afterwards. `KeepsPromise` is the
refinement (`tries <- attempts, settled <- delivered`).

### SendOutbox

The web client's channel sends. `sock`, `up`, `down` and `known` are the connection,
seen from both ends; `local` and `shown` the rows on screen, `queue` is `sendOutbox`,
`bubbles` is `pendingOutboxBubbles`, `watch` is `sendWatchdogs`, `stored` and `ops` the
IndexedDB store and the transactions under way. `Reload` aborts those and empties the
page; `Logout` empties it and leaves timers and transactions running.

The relay's side is that of `relay-standalone.ts`: `RelayReads` takes a frame and starts
its handler, which Node.js does not wait for. `posting` counts the `channel_message`
handlers that await their look-ups (role, channel, membership, user), `asking` holds the
`fetch_messages` and `sync` handlers. They end in any order, by `Inject` or `Answer`, or
by `Refuse`: over the rate limit, a viewer, no such channel, not a member, a query that
failed. A dead socket does not stop a `posting` handler. `Inject` sends the echo before
the row is inserted, so an `Answer` may not find the row yet (`rows` are those found
once, which later requests find too). A `sync` from a page that has seen no row is
answered by a snapshot (`blank`, `Sync(cold)`), any other by a delta; the pages
`drainSync` asks for one after the other are taken as one answer.

`Budgets` are per-behaviour bounds on channels, messages, retries and faults (drops,
refusals, reloads, logouts), like the situations below.

### Situations

`AgentReply` and `AgentRun` depend on what people and the child do. Instead of one
configuration per habit, a behaviour is in one *situation*, a record chosen at the
start that never changes (`may`); it bounds prompts and failures and says what may
happen (overlapping prompts, resends, images, a turn that ends before its last parts
are sent, slow inserts, a schedule's session; cancellations that are early, overlap or cross a result). A property that needs a
condition names it (`Patient`, `Orderly`, `Calm`), so one run checks all of them and
a reader sees what each promise costs.

## The runs

| Run | Instance | Distinct states | What it shows |
|---|---|---|---|
| `relay_sync` | 2 daemons with 2 connections each, a restart of each process kind, 2 messages of which 1 is stored, pages of 1 | 2.6M | `OneMessagePerNumber`, `NoSkipOnLiveSocket`, the refinement `ConsistentFeed` |
| `relay_sync_storage` | 1 daemon, 2 stored messages, a PostgreSQL outage, a failed Redis push, a daemon restart, fairness | 379k | `KeptAsNumbered` (stored under the live number, or lost where the code gives up), `Delivered` |
| `relay_serving` | 3 sockets of one daemon, a workspace, a change of the rows | 2.1M | `RegistrySound`, `ServesWhatIsEnabled` |
| `daemon_link` | 3 sockets, a failure, both wirings, fairness | 711k | `LinkSound`, `Recovers`, `StatusHeals` |
| `agent_reply` | 2 people, 8 situations of up to 3 prompts, 2 deltas, a failure, fairness | 1.8M | `PatientStayPrivate`, `OnceInOrder`, `WholeInScope`, `Answered` |
| `agent_run` | 3 prompts, 2 stops, a task, 2 failures; or 2 prompts, 2 stops, a failure with everything allowed; or 2 prompts beside 2 background tasks; fairness | 51k | `OneRun`, `Admits`, `EndsByOwnAnswer`, `NoIdleGap`, `StopsUnwind`, `Replaces` |
| `schedule_fire` | 2 daemons, cadences 1 and 2, recurring and one-shot, two ticks of the clock, any two events, fairness | 1.5M | `OncePerSlot`, `PilesUpByHandOnly`, `CountsAgree`, `CatchesUp` |
| `webhook_delivery` | 2 runners, 2 events, 2 attempts, any two faults or acts of the user, fairness | 343k | `OnePostPerLease`, `GivesUp`, the refinement `KeepsPromise`, `Settles` |
| `send_outbox` | 1 channel with 2 messages and 2 faults, or with 1 message, 2 retries and a fault; 2 channels with 1 message and 2 faults or a retry; fairness | 1.4M | `Accounted`, `TwiceOnlyByRetry`, `FreshBubblesAreRight`, `QueuedIsPosted` |
| `relay_sync_gap` | 3 stored messages, 2 connections | | refutes `NoPermanentGap`: a live message raises the watermark over a gap that the next sync no longer asks for |
| `agent_reply_slow` | two people, a slow insert | | refutes `PrivateToRecipient`: the next flush replaces the address of a reply being inserted |
| `send_outbox_twice` | two channels, a reload | | refutes `NoDoubleRow`: a bubble whose echo came while another channel was open stands beside the delivered message |

Every module has its `TypeOK` in a passing run. Deadlock is not checked: bounded
prompts, sockets and failures come to an end and the system rests.

### Why the bounds are enough

The hazards listed are conflicts of two or three parties. Two sockets of a daemon are
what an eviction needs, and a third shows a late event of the first meeting the
second's; two connections per daemon and a restart of each side give every order of
a gap, a sync and a live message; a page of one message makes a sync answer shorter
than the gap. Two prompts are a conflict, the third shows whether the first one's
clean-up disturbs a stranger. A single failure can hit any step, since failures are
actions enabled throughout. `relay_serving` has one daemon because daemons share
only rows keyed by daemon and owner. `schedule_fire` lets a slot pass while a run
goes on and two daemons meet at a claim; in `webhook_delivery` two attempts of a row
overlap only through a fault (a lease that ends under its attempt, before or after its
POST), and a second fault hits what follows; in `send_outbox` any two of a drop, a
refusal, a reload and a logout can follow each other, so each recovery is itself
interrupted once; a second message shows the order of the queue, a second channel what
is not on screen. The theorems below lift the bounds for the properties they
name.

### Fairness

Weak fairness stands for an event loop that is not stopped, a timer that goes off and
a query that ends: handlers of the relay and the daemon, inserts, and the recovery of
PostgreSQL in `RelaySync`; reconnect timers, heartbeats and TCP's giving up on a dead
path in `DaemonLink`; turns and inserts in `AgentReply`; microtasks, `startTurn` and the
bounds of a cancellation in `AgentRun`; the tick of a minute, the calls it awaits and
the end of an unattended run in `ScheduleFire`; enqueueing, ticks, deliveries and the
passing of backoffs in `WebhookDelivery`; reconnecting, reading frames on both sides, the relay's handlers of
messages and IndexedDB transactions in `SendOutbox` (not its answers to requests, and
any handler may be refused instead). Nothing is assumed of people, of the child
process, of watchdogs, of failures, or of the order in which concurrent queries end.
No strong fairness is used.

## The proofs

Each theorem holds for every value of the constants, under the named assumptions of
its module (types of the constants, model values distinct).

| Theorem | Says | Because |
|---|---|---|
| `RelaySyncProofs!NumberingIsInjective`, `NumberedIsKept` | `OneMessagePerNumber`, `KeptAsNumbered` | `NumberingInv`: the log never runs ahead of the counter of its incarnation, and everything on its way to PostgreSQL is an entry of the log. Without the first the next number might be taken; without the second a replay might carry another one. |
| `RelaySyncProofs!LiveSocketsSkipNothing` | `NoSkipOnLiveSocket` | `SkipInv`: what a daemon posts itself is in its store before and after it is numbered, and only numbered entries are due. |
| `RelaySyncProofs!StreamIsAFeed` | the refinement `ConsistentFeed` | `FeedInv`: the frames on the wire to a daemon are entries of the log, in its order, after all the daemon has received (`InFeedOrder`); and no frame forwards what was numbered before, so a publication is a new entry (`ForwardsFresh`). |
| `RelayServingProofs!RegistryIsSound` | `RegistrySound` | `IInv` adds that only a socket that said hello is registered or looked up for (`ClaimedFirst`), and that one which said hello and is not registered is closing (`GoneIsClosing`); the latter is why a late lookup does no harm. |
| `RelayServingProofs!RowsDecide` | `ServesWhatIsEnabled` | `RowsInv` says what each kind of handler under way still owes the registry: a toggle, a link, a lookup before and after its first table. |
| `DaemonLinkProofs!LinkIsSound` | `LinkSound` | `ClientInv`: sockets are opened in order, and a timer is armed only for a socket and never after `close()`. `RelayInv`: the registry is empty or one socket that is not closed. |
| `AgentReplyProofs!PrivateStaysPrivate` | `PatientStayPrivate` | `PrivacyInv`: nobody has two prompts in hand and the guard knows whoever has one, so all that is sent in a private turn is tagged; a text with a private part has lost its channel, wherever it is; what waits in the chain belongs to a turn that runs or has just ended, whose guard stands until the chain is empty (`ChainSafe`), so a text that idle overtook keeps its tag. |
| `AgentReplyProofs!RepliesOnceInOrder` | `OnceInOrder` | `OrderInv`: no two places (the chain, the wire, the accumulator, the inserts, what was heard) hold a common part, and along the way to the listener the parts of a turn only grow. |
| `AgentReplyProofs!OrderlyRepliesArrive` | `WholeInScope` | `OrderlyInv`: one turn at a time is in hand, a text in the making is that turn's (`Gathered`, `InLine`), a text that left is its turn's, and all of it unless idle went ahead (`Leaving`); every part is in the window, the chain, the accumulator, an insert or was heard by the right person (`Complete`), whether or not the row took it (`Kept`), under the address of its turn (`Scoped`). |
| `AgentRunProofs!OneRunAtATime` | `OneRun` | `RunInv` adds that a run is told only while it streams and that a prompt which still cancels is not a run yet; needed for the force-cancel, which clears another run's entry. |
| `AgentRunProofs!PromptsAreAdmitted` | `Admits` | `BusyInv`: the session's turn belongs to a live run that has not been told, and no end of it is waiting (`ForegroundInv`); an agent shown as running has a turn, a run or a replacement, or the end of an autonomous turn waits behind its beginning (`ShownInv`); where replacements do not overlap there is one, and what is pending is the run it cancels (`ReplacesAlone`). |
| `AgentRunProofs!ReplacingShowsNoIdle` | `NoIdleGap` | `TurnsInv`: the active turn is the session's, or its end is the one event in `tail`; any other end there is an autonomous turn's. |
| `AgentRunProofs!TurnsEndByOwnAnswer` | `EndsByOwnAnswer` | `OrderInv`: the prompts in the child's input and in its hands are the session's, with nothing behind them but their interrupt (`Lines`); and an interrupt on its way will find a prompt to abort (`Aborts`), so that `pendingInterruptAbort` swallows that prompt's error and no other, until the process fails twice. |
| `ScheduleFireProofs!SlotsFireOnce` | `OncePerSlot` | `FireInv`: on one daemon what fired lies behind the row's next slot and behind the tick's; between daemons a slot that fired was claimed, or its claim failed. |
| `ScheduleFireProofs!RunsPileUpByHand` | `PilesUpByHandOnly` | `PileInv`: a tick past the overlap check holds a place; places, runs going and runs asked for by hand together are one more than the requests at most. |
| `ScheduleFireProofs!CountersAgree` | `CountsAgree` | `CountInv`: the `run_count` a tick read is still the row's (only the tick writes it), and an enabled row is below what is allowed, so a stale decision is a right one. |
| `WebhookDeliveryProofs!PostsApart` | `OnePostPerLease` | `OverrunInv`: the attempts of a row that may still post or reschedule, and one more if the row may be claimed, are at most one more than the leases that ended under their attempts. |
| `WebhookDeliveryProofs!OutboxKeepsPromise` | the refinement `KeepsPromise` | `OutboxInv`: an attempt's number is one its row has counted, and no other attempt's; an attempt that succeeded was accepted. |
| `WebhookDeliveryProofs!OutboxGivesUp` | `GivesUp` | `GivesUpInv` charges every attempt beyond the cap, every lost and every overtaken outcome to a fault of its own. |
| `SendOutboxProofs!EveryMessageAccounted` | `Accounted` | `OutboxInv`: of a record that is still to be read nothing else is in the page or on the socket, and only deletions are under way (`ToBeRead`), so reading it back neither loses nor doubles it; two reads have a logout's clear between them (`Separated`). |
| `SendOutboxProofs!PostedTwiceOnlyByRetry` | `TwiceOnlyByRetry` | `Tokens` of the same invariant: the posts made, those under way in the relay and those on the socket, and one more if the message is queued, kept or to be read, are at most one more than the retries. |
| `SendOutboxProofs!FreshBubblesStayRight` | `FreshBubblesAreRight` | the same invariant: only what was posted has been shown, and a row's echo comes before any other frame that has it (`EchoFirst`), so no page or delta settles what is still pending. |
| `SyncTypes`, `ServingTypes`, `LinkTypes`, `ReplyTypes`, `RunTypes`, `FireTypes`, two `OutboxTypes` | `TypeOK` of the eight modules | inductive with the invariants above |

The proofs go: initial state, one lemma per action or group of actions that leaves the
invariant's variables alone, then `PTL`. Cardinalities are handled by the library's
facts about adding and removing an element.

Every safety invariant, action property and refinement of the passing runs has its
theorem. Only model-checked are the liveness properties, because TLAPS does not reason
about fairness: `Delivered`, `Recovers`, `StatusHeals`, `Answered`, `StopsUnwind`,
`Replaces`, `CatchesUp`, `Settles` and `QueuedIsPosted`. Nothing is proved by induction
over data: what IndexedDB will hold after its transactions is said by quantifying over
their positions, not by a fold. `BusyInv`, `TurnsInv` and `OrderInv` were checked by TLC
as invariants in every combination of what a situation allows before they were proved.

## Where the code falls short

Three disagreements have a run and a finding (`relay_sync_gap`, `agent_reply_slow`,
`send_outbox_twice`). While choosing the conditions of the other properties these were
met too. Where a condition or a history variable is named, it excludes the case, and
the property fails without it:

- `cyborg/workspace-relay.ts:176` seeds the counter from the highest *stored* number,
  but every forwarded frame is numbered: numbers sent before a restart are given
  again ("so they stay monotonic across restarts", :172). `OneMessagePerNumber` speaks
  of one life of the relay.
- `:301`: the replay drains the Redis list before it inserts and only logs a failure;
  one flush during an outage loses the list (`replayLost` in `LostOnlyInReplay`).
- `:207`: `attachToWss` starts no presence sweep, so in the standalone relay a silently
  dead daemon that does not return stays registered (`sweepRuns` in
  `DeadSocketDropped`, a part of `Recovers`).
- `:2242`: the offline write of a disconnect is not ordered after the upsert of the
  hello, so a row can say online with no connection; `StatusHeals` promises only the
  other direction.
- `cyborg/message-router.ts:746`: an event whose image is uploaded is tagged when it is
  sent, perhaps after its private turn (`~may.images` in `Patient`).
- `:541`: every event is sent behind the one before it, but `agent_status` idle (:434) is
  sent at once. `agent/agent-manager.ts:2806` flushes the last window of a turn into that
  chain and :2823 sends idle in the same pass, so the relay stores the reply without
  its last parts, and the rest, flushed by the terminal event, has a message id that is
  taken. It is announced, and missing from the history. `cyborg/workspace-relay.ts:802`
  takes the double trigger for harmless (`~may.tail` in `StoredInFull`).
- `:2396`: a private prompt arms the guard while another turn is still answered, and
  that reply goes to the wrong person (`~may.overlap` in `Orderly`, the condition of `HeardInScope`).
- `:1456`: the rejection of a prompt flushes the reply that is being written; the rest
  has the same message id and is not stored (the same condition).
- `cyborg/workspace-relay.ts:959`: a text whose end was lost in an outage is merged into
  the next turn's (`may.faults = 0`); `:618`: after a failed insert Redis keeps only the
  event that triggered the flush (the same).
- `:985`: in a session a schedule opened, private answers are dropped with the
  narration (`~may.autonomous`).
- `agent/providers/claude/agent.ts:3060`: `pendingInterruptAbort` survives the death of
  the process and swallows the failure of the next one (`faults <= 1` in
  `ActiveTurnEnds`); `:2892`: results carry no turn, so a background continuation's
  result ends the prompt that came meanwhile (`tasks = 0`).
- `cyborg/workspace-relay.ts:420`: a hello's lookup that began before a toggle is applied
  after it and undoes it; :2402 says that a toggle takes effect at once (`raced` in
  `ServesWhatIsEnabled`).
- `cyborg/message-router.ts:2400`: when the second of two prompts by one person is
  rejected, the first one's guard is disarmed and its answer goes to the channel;
  `cyborg/workspace-relay.ts:87` says it stays private (`~may.resend` in `Patient`).
- `agent/agent-manager.ts:1619`: a run cancelled before `startTurn` returns gets its turn
  afterwards, and no cancellation; `cyborg/message-router.ts:1505` relies on it to end
  (`~may.early` in `StopsUnwind`).
- `agent/agent-manager.ts:1594`: `streamAgent` ends the hold on the lifecycle before the
  replacement has a turn. A background task that ended while the process was being
  interrupted has begun an autonomous turn, which `startTurn` completes: the agent is
  shown idle between a run and its replacement (`CompletesAutonomous` in `NoIdleGap`;
  found when the proof without it failed).
- `agent/providers/claude/agent.ts:3062`: a result that crossed the interrupt completes
  the next turn, although :3057 is there to suppress it (`~may.late` in `Calm`).
- `cyborg/schedule-runner.ts:259`: a tick that read a schedule before it was edited writes
  the next slot of the old cadence over the one `cyborg/dispatcher.ts:7720` had set.
- `cyborg/schedule-runner.ts:434`: a failing look-up of the creator disables the schedule
  as if access were gone; :406 says that failures let it run (`Refuses`).
- `cyborg/schedule-runner.ts:466`: "Run now" looks at `inFlight` before its awaits and may
  run beside the cron run, which :53 excludes (`used.manual` in `PilesUpByHandOnly`).
- `cyborg/webhook-enqueue.ts:71`: an event id names the message, so a second edit finds the
  first one's row and is never sent; :68 takes the id for unique. `:88` returns a promise
  without awaiting it, so the `catch` around it never sees its failure.
- `cyborg/webhook-delivery-runner.ts:81`: the lease counts from a clock read before the
  claim, which may take longer than the lease: another runner then claims the row and
  both POST it (`overruns` in `OnePostPerLease`).
- `packages/ui/src/lib/state/app.svelte.ts:426`: clearing the watchdogs of rows that are not
  on screen takes those of other channels' messages as well, whose bubbles spin for ever
  when they are re-applied (`bubbles[m] = None` in `FreshBubblesAreRight`).
- `:381`: the flush deletes a record when the frame is handed to the socket, and does
  not ask whether the relay knows this client; a frame that is not read, or read too
  early, is gone (`lost` in `Accounted`). Nor is a frame that the relay takes and refuses:
  `cyborg/relay-standalone.ts:11549` (more than 30 in a minute), :5759 to :5777 (a viewer, a
  channel that is gone, not a member) or a failed query; nothing is left to send it again
  but the failed bubble and the user's tap (`refused`).
- `:3008`: the first channel after a page load is fetched without re-applying bubbles and
  without looking whether the user has moved on. A logout while a rehydrating read is
  under way refills the queue it emptied.

## What is not modelled

The repository is a product of some 360,000 lines. Modelled is what it keeps consistent
between processes: ordering and storing messages, who is connected and served, replies
and who may see them, runs, schedules, webhooks and the client's outbox. Most of the
rest is request handlers that read and write a row each, user interface, and calls of
external programs.

In the modelled components: guests' broadcasts and the Redis presence key
(`DaemonLink`); ephemeral mention sessions, sessions without a channel, attachments
(`AgentReply`); reloading, rewinding, closing, permissions and timelines (`AgentRun`);
`remove_member`, which does not reach the registry, and the agent bindings of a
daemon (`RelayServing`); due tasks, scheduled messages, the loop service and cron
expressions (`ScheduleFire`); delivery counters and logs, signatures (`WebhookDelivery`);
direct messages, which repeat the code over another list, thread replies, which are
not queued, messages of identical text, several tabs, a restart of the relay, which
the page sees as a drop and a lost handler (`SendOutbox`). Message texts,
formatting, authentication tokens and cryptography are data the properties do not
depend on.

Components without a module, with the reason `PROJECT.json` gives each: the dual storage
(two hundred methods of one shape, whose copies the modelled protocols read where it
matters); the dispatcher and the rest of the guests' protocol; timelines; provider
snapshots; incoming webhooks, task synchronisation and Slack; licences; terminals and
the pty host; client sessions; the encrypted channel; chat rooms and voice; tasks; Git
and GitHub; process start; the command line and formatting libraries.

## What would come next

In the order of what it would tell: the pty host that outlives its daemon and is
reattached; `DualWrite`, a register whose SQLite and PostgreSQL copies converge unless
second writes are reordered; the requests of a daemon through the relay with their
eight-second timeout and local fallback, composed with `DaemonLink`; reload, rewind and
close in `AgentRun`; direct messages in `SendOutbox`. Of the
proofs none is open for the present modules; each of these will bring its own.

## Running it

    tlc -workers 2 -config relay_sync.cfg MCRelaySync.tla
    tlapm AgentRunProofs.tla

Each passing run takes one to three minutes with two workers, the largest proof module
about two.
