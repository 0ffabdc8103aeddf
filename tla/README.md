# Formal models of the SiamSiam ecosystem

TLA+ models of the shared packages of the SiamSiam repository
(`src/packages/`), the TLC configurations that check them, and TLAPS proofs of
their most important invariants. Paths below are relative to
`src/packages/shared-utils/src/` unless they begin with `models/`, which is
`src/packages/shared-models/src/`. `PROJECT.json` maps every definition to the
lines it stands for.

## 1. The system

SiamSiam is laid out as a multi-tenant marketplace of many services, but most of
the repository is a directory structure of empty files: `applications`,
`services` (all but the gateway's two entry points), `frontend`, `mobile`,
`infrastructure`, `docs`, `sdk`, `scripts` and others contain no code, nor do
`shared-middleware`, `shared-utils/src/auth` and the SQL migration files. The
program consists of `shared-utils` (92 files, 25,000 lines), `shared-models` (115
files, 28,000 lines) and `shared-config`. Everything runs in Node.js: each
process is one event loop, so code between two `await`s is atomic, and what
interleaves is requests, timers and events of one process, and the processes of a
deployment through PostgreSQL, Redis and RabbitMQ.

| Component | State it keeps | Operations | What is hard |
|---|---|---|---|
| RabbitMQ connection (`messaging/message-queue.js`) | connection, channels, `isConnected`, `isShuttingDown`, attempts, back-off timers | `connect`, handlers of `error` and `close`, reconnection, `shutdown` | two dials at once; late events of an old socket; timers against shutdown |
| Delivery (`message-queue.js`, `dead-letter-handler.js`, `event-bus.js`) | queues, bindings, unacknowledged messages, retry headers | `publish`, `subscribe`, acknowledgement, retry, dead-lettering, `replay`, expiry | lost channels, queues at their limit, concurrent replays |
| Webhooks, retry policy (`messaging/webhook-manager.js`, `retry-policy.js`) | a loop per dispatch, one log of results; a loop per call | `dispatch`, retries, status; `execute`, `shouldRetry`, delays | late answers; dispatches that retry side by side; which errors are worth another try |
| Query builder (`database/query-builder.js`) | clauses and their values | clauses, six build methods, `reset` | numbering of placeholders over several clauses |
| Active record (`models/base-model.js`, `soft-delete-mixin.js`) | rows; per request one instance with its original values | create, find, fill, save, delete, restore | lost updates |
| Domain models (`models/`, 110 classes) | one table each | 700 operations: loads, checks and writes with an `await` between any two, outside any transaction | failures between two writes; records that come back from a final status |
| Limits of foreign exchange (`models/fx-limit.js`) | volumes and positions per client and pair | check, record, settle, daily and monthly reset | check and record are statements apart; resets run beside trades |
| Connection pool, transactions (`database/connection-pool.js`, `base-model.js`) | pooled clients, the shared `connectionPool.query` | two transaction interfaces | requests of one process share one property |
| Migrations (`database/migrations-runner.js`) | advisory lock, migrations table, batches | `migrate`, `rollback` | locks belong to sessions; crashes between script and record |
| Read replicas (`database/read-replica.js`) | health and rest of each replica | `query`, health check, timers that end a rest | two timers and the queries change the same flag |
| WebSocket, SSE, broadcast (`realtime/`) | clients, rooms or channels, connections per user, heartbeat | connect, authenticate, join, leave, send, close, heartbeat, shutdown | two records of each connection; close events after the fact; writes that throw |
| Rooms, presence (`realtime/`) | rooms with members, limits and history; users with status and last activity | create, join, leave, delete, clean-up; status, heartbeat, clean-up | limits; timers against activity |
| Cache (`cache/`) | a memory cache per process, one Redis | read, write and invalidate through both levels | stale reads between awaits; failing commands |
| Referrals (`referral/`) | network, rates, programs, referrals, codes, event logs | relationships, codes, conversions, commissions, expiry | orders of legal calls; bounded logs |
| Refunds (`refunds/`) | policies per category, routing table | eligibility, policy merge, windows, exceptions, amounts, fees, routes | layers of policies; rounding; shared tables |
| Keys and tokens (`crypto/key-rotation.js`, `crypto/tokenization.js`, `security/api-key-manager.js`, `csrf-protection.js`, `request-signing.js`) | versions of a key; API keys with removal timers; one-time tokens; nonces; card tokens | issue, rotate, verify, revoke, expire, clean-up | overlap at an await; grace periods; tables that are cleared while in use |
| Limits and lists (`security/rate-limiter.js`, `ip-whitelist.js`) | token buckets shared by middlewares, calls of wrapped functions that wait for timers; entries and temporary blocks with expiry | check, reset, call, add, remove, clean-up | refills that round; entries removed by whoever meets them expired |
| Risk (`security/fraud-detection.js`, `anomaly-detector.js`, `user-agent-validator.js`) | recent events and a baseline per user | analyses, learning, clean-up | histories read before an await and written after it |
| USSD (`ussd/`) | sessions with their menus, per phone; menus being edited; the screen of a dialog | create, use, navigate, destroy, clean-up; render, answer an input, pages | limits per phone; expiry found out late; menus and lists that change under a phone and while an answer is awaited |
| Alerts, digests, log files (`monitoring/alert-manager.js`, `logging/security-events.js`, `log-rotator.js`) | rules, active alerts, history; a digest timer; files of a directory | evaluate, acknowledge, resolve; log, flush; check, rotate, compress, clean up | a bounded history that decides; overlapping checks; dying between two disk operations |

Components not modelled are listed with their reason in section 8 and in
`PROJECT.json`.

How they interact: the models call `connectionPool` and the query builder for
every statement; migrations use the same pool; the gateway starts the message
queue and Redis before it listens. `BroadcastService` sends over both connection
registries. The message queue carries the event bus and feeds the dead letter
handler. The refund router, the calculators and the policy engine are combined by
their callers, and so are the parts of a trade. Session manager and menu builder
are two views of one dialog, which an application joins. All other
components keep their state in the process and call none of the
others, which is why the runs below may exercise them side by side.

## 2. Modules

| Module | Models | How state and actions correspond to the code |
|---|---|---|
| `MessageQueue` | connection life cycle | one step per segment between awaits; connections are numbered, `open` is the set of live sockets |
| `MessageDelivery` | from `publish()` to a message's end | RabbitMQ is external: direct and topic exchanges, `reject-publish`, dead-lettering, redelivery |
| `Webhooks` | a webhook from `dispatch()` to its status | the endpoint is external: it gets the event or not, and answers in time or not |
| `Resilience` | the retry policy; read replicas | an error is what it says of itself; a delay is drawn anywhere within its jitter; each replica's rest is a timer |
| `QueryBuilder` | statements, as far as placeholders and values go | each placeholder carries the value its caller meant |
| `ActiveRecord` | the life cycle all record classes inherit | each statement is a step; fields are split into those only `save()` writes and those raw `UPDATE`s write too |
| `OptimisticStore` | abstract specification: a table with compare-and-swap | no versions, no dirty marks; `ActiveRecord` implements it (`ImplementsStore`) |
| `Records` | how an operation of a domain model runs | an interpreter of short programs (load, found, absent, check, insert, update, save, raw statement, delete), one step per `await`, over the status of one record per table; any statement may be rejected by the database |
| `MoneyRecords`, `AccountRecords`, `CommerceRecords`, `BusinessRecords` | the programs of every operation of every domain model | one entry per method; a branch is a path of its own; statuses that a raw statement's `WHERE` names are kept |
| `FxLimits` | trading limits beside trades and resets | a check, the record of the trade, its settlement and each reset are statements apart |
| `TransactionScope` | both transaction interfaces | `query` is who `connectionPool.query` points to |
| `Migrations` | `migrate()` and `rollback()` over sessions of a pool | locks belong to sessions, so who gets which client matters |
| `WebSocketManager`, `SSEManager` | connection registries | sockets and streams are external |
| `BroadcastService` | the four ways to send, composing both registries | recipients are compared with the members they should reach |
| `RoomManager`, `PresenceTracker` | rooms; presence with its clean-up timer | times are ages of the last activity |
| `CacheStrategies` | memory cache and Redis under concurrent calls | data of a key is the number of its writes |
| `ReferralNetwork`, `ReferralEngine` | who referred whom and what a level earns; programs, referrals and what a reward pays | amounts are in cents |
| `Refunds`, `RefundAmounts` | eligibility, policies and routes; amounts, fees and dates | policies are functions on the fields they set |
| `KeyRotation`, `SecurityTokens` | versions of a key; API keys, form tokens, nonces and card tokens | clocks count; a removal timer is the time it has left; what properties speak of (`sealed`, `drawn`, `passed`) is recorded in history variables |
| `RateLimiter`, `AccessLists` | token buckets and wrapped functions with waiting calls; address lists | an address is a number of `Width` bits, with the code's arithmetic of ranges |
| `RiskScoring`, `AnomalyDetector` | scores and the history they go by | an analysis that awaits is two steps; scores are in hundredths; what an action leaves out is none or 0 |
| `UssdSession`, `UssdMenus` | sessions of telephone menus; the menus, screens and dialogs | sessions count the ticks since they were used; a text is the lengths of its lines |
| `Alerts`, `LogRotation` | alert rules and digests; one log with the tasks that rotate it | a file is the set of its lines; each disk call is a step, and a restart may come between any two |
| `Collections` | no component | filters, sums and repetitions the models use, defined by recursive functions and as sets, with the lemmas about them (see section 6) |
| `MCMessaging`, `MCDatabase`, `MCRealtime`, `MCCommerce`, `MCPlatform` | instances for TLC | an `MC` module extends several components and chooses in `Init`, by a variable `part`, which one a behaviour exercises: the components share nothing, so state spaces add up instead of multiplying |
| `MessageQueueProofs`, `DatabaseProofs`, `RealtimeProofs`, `CommerceProofs`, `PlatformProofs` | theorems | `ReferralNetwork` and `UssdSession` hold their own, which are few |

Mutants (operators named `<definition>_<What>`, marked "Mutant" in their
comment) are what plausible mistakes would turn a definition into. Each checked
property is violated by the mutant `PROJECT.json` names for it.

## 3. What the runs show

Passing runs (states and times on two workers):

* **messaging** (3 minutes). `ConnectedIsOpen`: `isConnected` is never a stale
  claim although handlers of older connections share the flag. `NeverStranded`:
  whenever the queue is down and attempts are left, a timer or a dial is pending.
  `ReconnectResolves`: it eventually connects, exhausts its attempts or is shut
  down. `LossesExplained`: an accepted message stays in a service queue, among the dead
  letters or with a replayer through retries, copies to all bound queues, concurrent replays,
  backpressure and lost channels; it is lost only when it is discarded on purpose, when it expires
  where no dead letter key is bound (in the shipped topology, everywhere: see the violation below),
  or when a replay goes to a full queue or a key of no service. `RetriesSound`: under the retry policy no call
  is made after the last attempt or after an error whose name or text is permanent, and
  delays keep their bounds up to the jitter. `CallsEnd`: every webhook dispatch and every
  retried call comes to an end; the status of the former stays true to whether the
  endpoint accepted the event, as long as the log holds it. `RecoversAgain`: a
  replica that failed is always used again, although health check, rests and
  queries change its state side by side.
* **database** (800,000 states, 3 minutes). `PlaceholdersBound`: each placeholder of a statement names the value
  passed for it, and every value is used. `VersionIdentifiesContents`: equal
  versions mean equal contents, so `save()` never replaces a value its request has
  not seen, in the columns only `save()` writes; `ImplementsStore` says so by
  refinement. `Atomic`, `Isolated`: units of work are all or nothing when one scope
  runs beside transactions with clients of their own. `MigrationsSound`:
  migrations of racing, failing and dying processes are recorded exactly when their
  script is in effect, and in order. `FailuresChangeNothing`: an operation of a
  domain model that ends early has changed nothing, whatever the database holds or
  rejects and another request does meanwhile. Two lists name the exceptions, and
  `ProgramsAssumption` says that they name no operation too many: fourteen stop halfway
  by themselves (`*Halfway`), and nine write several rows one statement at a time and
  stop halfway when the database rejects one of these (`*Piecemeal`: an order and its
  items, a batch of backup codes, seeds, the sync of offline sales, of profiles and of
  purges, a new default policy). `EndedStays`: no operation brings a record back from a status that its model treats as final.
* **realtime** (1.5 minutes). `BroadcastExact`: a message reaches all members or
  connections it is meant for and no others. `PerUserLimit`, `RoomsBothWays`,
  `CapacityKept`: limits and double book-keeping agree. `AnsweringKept`,
  `VanishedRemoved`: the heartbeat keeps clients that answer and removes the ones
  that do not. `PresenceFresh`, `HeardStaysOnline`: presence is no staler than its
  timeouts, and who is heard in time is not taken off. `QuietlyCoherent`: cache
  calls that follow one another see each other's writes. `EventuallyFresh`:
  whatever races leave behind disappears.
* **commerce** (764,000 states, 2.5 minutes). `Acyclic`: no order of relationships closes a circle in the
  referral network. `PayoutsFair`: a purchase pays nobody twice, never the purchaser and no more than
  the maximum up to half a cent a level, and the network counts the same from above and from
  below. `EngineSound`: the code of an active referral leads to it, however codes are
  drawn, released and drawn again, unless the generator was not told of the code or was told to
  forget it; and the event log never reports more than the counters. `CalculatorsSound`: item by item or at once the
  refund calculators pay back what was paid; proration, fees and processing times keep their
  bounds; a reward keeps its maximum and never falls with the amount; pages lose no line and a
  message that is cut keeps its limit. `RefusalsStand`: an item that has become ineligible does not become
  eligible by waiting, a refund takes the best allowed route, and asking does not change the
  routes (although `sort` works in place). `DialogsSound`: going back always leads to the menu before, no
  phone exceeds its limit, and a number leads where the screen on the phone said, although
  menus are edited and lists change while a screen is made, while it is shown and while
  its answer is awaited. What it was made from may have changed while it was on show; then, and
  only then, the number may lead elsewhere.
  `LiveSessionsKept`: nothing ends the
  session of another phone or one that is in use. `FxLimitsKept`: trades that run at
  the same time exceed a limit by no more than all of them but one, and every row
  keeps count of what is outstanding.
* **platform** (2.2 million states, 2.5 minutes). `KeysReplaced`: data sealed with a key that is replaced can
  be opened for the grace period, an API key that is rotated works through its grace
  period and not beyond, whatever else is called. `LimiterSound`: a bucket lets no
  more pass than its size and rate and always lets a client through that has been silent for a
  window, and no call of a wrapped function is lost. `TokensSound`: a form token passes once and only while it is fresh, a signed request with a nonce
  passes k times only if k - 2 intervals between clearings of the nonces fit into the time it is fresh.
  `VerdictsStable`: asking about an address changes no later
  verdict, time alone only releases, and what happens to one card token changes no other. `RisksSound`: velocities count what had been
  stored, first actions are normal, what is recent has been learnt, and a user agent
  is refused for what it is. `AlertsSound`: notifications of a rule keep their
  cooldown, and the history tells which alerts are active. `LinesSurvive`: no step of
  a rotation, a compression or a clean-up loses a line that was in the log, across restarts.

Runs that exhibit a disagreement between the code and what it says of itself:

* **delivery_shipped**: the dead letter queue is bound with `#` to a *direct*
  exchange, which compares keys literally; an expired message of a service queue reaches no queue
  (`NoSilentLoss`).
* **query_builder_update**: `buildUpdate()` numbers its values from `$1`, which
  the WHERE clause already uses. Every `BaseModel.update()` is such a statement.
* **transaction_scope_leak**: `BaseModel.transaction()` replaces the process-wide
  `connectionPool.query`; a plain statement of another request is caught in it
  and rolled back with it.
* **migrations_lock**: two calls of one process can get the same session, where
  the advisory lock is granted twice.
* **realtime_ghosts**: a client the heartbeat terminates stays in its rooms and
  in its user's connections for good.
* **refund_policy_order**: the platform's default policy overrides all others.
* **key_rotation_active**: a rotated key expires a grace period after its creation
  although it is still the active one.

## 4. Bounds

Every bound is a CONSTANT with the comment "bound" in its module, and is in the
guard of the actions it cuts off.

* messaging: three connections and two reconnection attempts give an old
  socket, a current one and a next one, the most a handler can confuse; two messages
  with one retry and one replay each, published while there are fewer than two others; one service
  whose dead letter key is bound and one whose is not, queues of length one, so that a replay may find
  its queue full, a subscriber with and without a binding, and two replayers that can
  hold dead letters at once; three webhooks over a log of two entries,
  so that one is dropped, with one retry each; two retries of a call, with delays
  that reach their cap, over every class of error; two replicas and two queries, so
  that one is used while the other rests. `delivery_shipped` needs one replayer only.
* database: two requests on two rows, one soft-deleting, and versions up to 2 (a
  third save differs from a second one in nothing the code looks at); two
  transactions beside one scope over two clients, two statements each; three
  migration calls in two processes (so two share one pool) and two migrations, of
  which only the first can be rolled back; statements of up to four clauses and
  six values; all 110 domain models with their 700 operations, two requests on one
  model at a time and at most two saves of a record.
* realtime: pairs of connections of a kind, or one of each, two users, one group;
  a limit of one stream per user, so that the second reaches it; two rooms and members
  with limits of none and one; timeouts of 1, 2 and 3 ticks; in the cache two
  processes with one call each that race for a key, or one process with two keys and
  room for one, and lifetimes of one and two ticks, so that the memory entry expires
  first, as configured.
* commerce: four people, which is a chain as long as `maxDepth` and a fourth
  who could close it; three referrals, one drawable code, which callers choose too and
  which is given back and drawn again, event logs of two entries so that old ones are dropped;
  purchases of nothing, below, at and above the smallest one that earns;
  eighteen days, beyond the shortest windows of the policies in use; two phones with a
  limit of two sessions and three to be created, so that one makes room, over two menus;
  three menus of five shapes (selections with and without a list, a validator and a hidden item,
  texts with and without a handler), two lists, and numbers that a screen shows twice or not
  at all; two traders with amounts that fit a
  limit alone and exceed it together, over a day and a month of one and two ticks.
* platform: four keys of which two are kept; three API keys, so that one is rotated twice;
  a bucket shared by limits of one and three tokens over nine ticks, a wrapped function with four
  calls, one per window of two ticks, so that calls wait for timers of two windows; three form tokens for
  two sessions, with a lifetime of two ticks; two signed requests, with or without a nonce, whose
  timestamps are up to three ticks ahead of or behind the verifier's clock and accepted up to two, with clearings every four,
  so that one with a nonce is accepted three times (one without is counted up to twice);
  actions of one watched user with and without an address, place, amount, currency or record
  count, and amounts and counts far enough apart to be unusual;
  two card tokens; three entries of an access list over addresses of two bits,
  enough for an address in two ranges and one in none; two analyses that overlap; two alert rules
  over two metrics with a history of two entries, so that the other rule's
  entries can push one out; two overlapping tasks of the log rotator, with every limit at zero, so
  that every check acts.

The symmetry sets (`UserSymmetry`: people, and phones; `RequestSymmetry`: requests;
`RotatorSymmetry`: tasks) permute constants that the modules only compare for
equality, and are used in runs without liveness properties. `CHECK_DEADLOCK FALSE`
is set wherever a bounded instance comes to its end, or a component may simply be at rest.

## 5. Fairness

* A timer that is armed fires, and a dial resolves or fails (`MessageQueue!Fairness`):
  Node fires timers, and a TCP connection attempt ends. Nothing is assumed
  of publishers, of the broker or of the application's calls.
* `setInterval` runs the heartbeat, and a socket that has been terminated emits
  `close` (`WSFairness`). Peers need never answer.
* A cache call that has begun makes progress, since each awaited command answers
  or fails, and time passes (`CacheFairness`). New calls are never forced.
* A webhook dispatch makes progress (`WebhooksFairness`): axios settles a request
  within the timeout it is given, and the timer of a delay fires. The endpoint
  need never answer.
* A call under the retry policy makes progress (`RetryFair`): the operation answers
  or throws, and the timer of a delay fires.
* The timer that ends a replica's rest fires, and time passes (`ReplicaFair`). Queries and
  health checks are never forced, and may fail for ever.

## 6. Proofs

Every invariant and every safety property of a passing run is stated by a theorem: the run
shows it on a small instance, the theorem for every value of the constants that satisfies
the modules' named assumptions, which TLC evaluates in the runs. Some theorems assume more,
and say so: no process shares `connectionPool.query` with a scope (`NoSharedScope`), no two
rotations fall into one millisecond, and the
builder's statement is no `UPDATE` with a `WHERE` (`~WhereUpdates`). The first and the last are
just what the violations `transaction_scope_leak` and `query_builder_update` are about.

The provers cannot instantiate an induction theorem for an operator. Where a definition
computes something by recursion over data, the models therefore use `Collections`, whose
operators are recursive functions, and its lemmas do induction as an argument about sets: the lengths up to
which a statement holds are a set that has 0 and successors (`UpTo`), and a least
counterexample is a minimal element of a set of numbers. `PassingAppend`, `TotalStep`,
`IteratedStep` and `SumWith` say what one more element does, and everything else about filters,
sums and repetitions follows from these.

| Theorem | States | Argument |
|---|---|---|
| `MessageQueueProofs!TypeCorrect`, `ConnectedIsOpenHolds`, `NeverStrandedHolds` | the connection's invariants | their conjunction is inductive once `closing` is known to name a connection while `shutdown()` waits. `AfterDisconnect` says what `_handleDisconnect()` leaves behind, for one or two events at once |
| `MessageQueueProofs!LossesExplainedHolds` | an accepted message is lost in three known ways only | for any bindings, limits and keys, those as shipped included. `DeliveryInv`: nothing consumes a service queue, and a replayer holds one message at most; then each step that takes a message out of one place puts it in another (`StepSound`) or is one of the three |
| `MessageQueueProofs!RetriesSoundHolds`, `UnhealthyHasTimerHolds` | the retry policy; replicas | `RetryIInv`: a call has met one error for each attempt that is over, and only the last may be permanent. A replica that is down has a timer that ends its rest, which is what `RecoversAgain` rests on |
| `MessageQueueProofs!ReportsStay` | a webhook that has ended stays ended with a true status: `DispatchesEnd` without the promise that it ends | `WebhookIInv`: the log has one entry per dispatch that ended, and one that is missing was dropped from a log full of others (`Logged`, counted by an injection) |
| `DatabaseProofs!VersionIdentifiesContentsHolds`, `NoLostUpdateHolds`, `TypeCorrect` | optimistic locking | an instance holds a created row and a version the row has had (`HeldIsCreated`, `VersionSeen`), and equal versions mean equal contents. Without the first a new row of version 1 could be confused with what an instance saw of another; without the second a version could be reached twice |
| `DatabaseProofs!RecordsImplementStore` | `ActiveRecord` implements `OptimisticStore` | under `IInv`, each action maps to one of the store's steps or to none: a save whose version matches is a compare-and-swap of the contents the instance last saw |
| `DatabaseProofs!AtomicHolds`, `IsolatedHolds`, `QueryRestoredHolds` | units of work | assuming `NoSharedScope`, that no scope shares the process with another user of `connectionPool.query`. `Holding` (who holds which client), `Scoping` (what `query` points to) and `Placing` (where statements are) are inductive together. `transaction_scope_leak` shows why the assumption is needed |
| `DatabaseProofs!FailedOperationsChangeNothing` | operations of domain models | the table of programs is any that satisfies `ProgramsAssumption` (changes come after everything that can stop the operation, or behind a step that always fails, but for the operations the two lists name), which TLC evaluates on the table of the code; any statement may be rejected. `RecordsIInv`: a task that has changed something has only steps left at which its list excuses it |
| `DatabaseProofs!EndedStaysHolds` | records with a final status | for any table of programs that satisfies `EndingsAssumption`, which speaks of each statement alone: an `UPDATE` of a status names no final status in its `WHERE` or sets the one there is. A request may have read the record long before (`WritesSpare`) |
| `DatabaseProofs!PlaceholdersBoundHolds` | statements | assuming `~WhereUpdates`. `BuilderInv`: each clause's text covers its own values, `HAVING` counting on from `WHERE`, whose values are complete before it begins |
| `DatabaseProofs!MigrationsSoundHolds` | migrations | `MigrationsInv`: at most one call is past the lock (`OneCall`), the table is a prefix of the listing in batches that do not fall (`TableInOrder`), and what a call has still to do is what the table says (`CallInv`). Everything but that what is recorded has run needs that no two calls share a session (`~shared`) |
| `RealtimeProofs!BroadcastExactHolds`, `PerUserLimitHolds`, `AnsweringKeptHolds` | registries and broadcasts | the indexes agree with the records of the connections (`WSIInv`, `SSEIInv`). The limit counts distinct streams, so it rests on the index being exact. A client that is not alive at a tick has been silent since the last one (`Silent`) |
| `RealtimeProofs!RoomsBothWaysHolds`, `CapacityKeptHolds` | rooms | `RoomTypeOK`, both invariants together; rooms that are dropped only shrink (`ShrinkingKeepsCapacity`) |
| `RealtimeProofs!PresenceFreshHolds`, `HeardStaysOnlineHolds` | presence | the timer stamps whom it moves on, so each status bounds how long somebody has been quiet by the sum of the timeouts that led to it (`PresenceIInv`) |
| `RealtimeProofs!QuietlyCoherentHolds` | two cache levels | assuming `Nobody` is no process and there are calls. While calls do not overlap, what Redis holds is the last write or nothing (`RedisHolds`), what the memory of the process that wrote last holds is it or nothing (`MemoryHolds`), and what a call in flight carries is what it will leave behind (`Brings`) |
| `ReferralNetwork!AcyclicHolds` | the referral network | a circle is a nonempty group closed under "referred by". If a new relationship closed one, the walk up from the referrer, which misses the referred user, would have been one before (`AddKeepsAcyclic`) |
| `UssdSession!LiveSessionsKeptHolds` | sessions | `UssdIInv`: no phone has more sessions than its limit, so a phone that opens one at its limit loses exactly one, its oldest, and the loop of `create()` ends there |
| `UssdSession!SessionsCoherentHolds`, `CommerceProofs!DialogsSoundHolds` | sessions, menus, screens | `UssdIInv /\ StacksFit`: the stack of a session leads to its menu. `DialogsInv`: a screen that is not stale was made from the menu object and the list its answer will be read from (`Current`), through each wait of `render()` and `handleInput()` |
| `CommerceProofs!PayoutsFairHolds` | commissions | `NetworkIInv` (the network is acyclic and of its type), and induction over the levels: the earners so far are the first ones of a chain without repetition, and what they earn is what was left up to the rounding of each level. Counting from above is counting from below since a person has one referrer |
| `CommerceProofs!EngineSoundHolds` | referrals, codes and logs | `EngineInv`: the code of an active referral that is not loose is in use, and no other such referral has it (`Owned`, `OwnsCode`); a log shows no more than the counters, and no less while it still begins with the creation (`Tidy`), which the loss of its oldest entry does not disturb |
| `CommerceProofs!FxLimitsKeptHolds` | trading limits | `FxInv`, with sums over traders as cardinalities (`SumOver`): each trade was checked against what was recorded, so what exceeds a limit is at most the other trades that run beside it |
| `CommerceProofs!RefusalsStandHolds` | eligibility and routes | no window that has closed opens on a later day (`EvaluateCloses`, `LaterIsNoBetter`); the answered route is the first of the best ones by priority, which a stable sort by priority leaves first (`RankGrows`, `SortingIsHarmless`) |
| `CommerceProofs!OrderRefundExactHolds`, `CalculatorsAgreeHolds`, `ProratedFairHolds`, `FeesCappedHolds`, `TimelineCloseHolds` | refund calculators | an item's refund is within half a cent of its share for each rounded amount, and errors of sums are at most sums of errors (`TotalOrder`); shares of a discount add up to it; every five business days are a week, so after *k* of them the days passed keep the bound `InTime` |
| `CommerceProofs!CommissionFairHolds` | rewards | each kind rises with the amount: percentages by division, tiers if they do (`Rising`), and bounds keep the order |
| `CommerceProofs!PagesCompleteHolds`, `CutKeepsLimitHolds` | screens | induction over the message: placing a line keeps what the pages are (`PagesOf`); the cut takes the longest beginning that leaves room for the dots |
| `CommerceProofs!CalculatorsSoundHolds` | what the run checks of the calculators | its orders, rewards and messages are among those of the theorems above |
| `PlatformProofs!TokensSoundHolds` | form tokens, nonces | what has passed was drawn, and is never drawn again (`CsrfIInv`); a request with a nonce has been fresh for `Open` ticks; accepted k times, it is remembered and k - 2 intervals between clearings lie within them, or it is not and k - 1 do (`NonceIInv`); of the two intervals nothing is assumed |
| `PlatformProofs!KeysReplacedHolds` | encryption keys, API keys | the stored versions are an unbroken range, and a retired one expires its grace period after it was retired (`KeysIInv`); every rotated API key has its removal timer, and every timer its rotation (`ApiIInv`) |
| `PlatformProofs!LinesSurviveHolds` | log files | assuming no two rotations of one millisecond (`~MayCollide`). `TaskSafe` says for each place a task can wait at which files hold the lines it is about to remove |
| `PlatformProofs!LimiterSoundHolds` | token buckets, wrapped functions | `LimiterIInv`: what a bucket let pass and still holds is at most its first tokens and what *one* of its limits refills in the time since. A refill by another limit keeps that, since one of two limits is at least as fast at every span (`FasterRefillsMore`) and rounding down is superadditive (`RefillsAdd`); both are lemmas about integer division. `WrapIInv`: the queue holds the calls whose timers are armed, in the order in which these are due, so the timer that fires first takes the call that armed it |
| `PlatformProofs!VerdictsStableHolds` | access lists, card tokens | what a clean-up or a question removes has expired, and an expired entry answers for no address; expiry only grows. No step of the vault disturbs two tokens but time (`VaultStep`) |
| `PlatformProofs!AlertsSoundHolds` | alerts | `AlertsInv`: the last entry of a rule tells its state and is no older than its last notification, and the entry of that is in the history or has been cut off it (`RememberedIn`) |
| `PlatformProofs!RisksSoundHolds` | scores and baselines | of any type and within any span no longer than the retention, as many events are stored as analyses have ended (`StoredAgree`), and pruning removes only what is older. A baseline has learnt what is kept of a user (`AnomalyIInv`). The score of a user agent is a sum over its features |

`QueryRestored`, `NoLostUpdate` and the type invariants are proved only: the first is
what a scope owes its process once it has ended, the second follows from
`VersionIdentifiesContents`, and the runs spend their time on properties that
relate more than a variable to its type.

Only model-checked: the liveness properties `ReconnectResolves`, `CallsEnd`, `RecoversAgain`,
`VanishedRemoved` and `EventuallyFresh`, since the prover has no rules for liveness under fairness or for
`ENABLED`. Safety they rest on or contain
is proved: `NeverStrandedHolds`, `ReportsStay`, `UnhealthyHasTimerHolds`, `AnsweringKeptHolds`, `QuietlyCoherentHolds`.

## 7. Known disagreements without a run

Modules state some properties the code does not satisfy and no run checks;
others were met while reading. They are kept here because they explain guards and notes.

Messaging. A set-up that fails leaves its socket open (`SingleConnection`); a
back-off timer reconnects after `shutdown()` (`StaysDown`); messages that were
given up are not dead letters, although `message-queue.js:462` says so; a replay into a full
queue loses the message (`ReplaysIntoNothing`), although it is reported as
successful (`dead-letter-handler.js:157`), and one under backpressure sends it and puts it back;
event-bus subscriptions do not bind their queue (`event-bus.js:100`); consumers are not registered again after a reconnection. A
webhook whose host does not resolve is retried like any other network error: the
branch "Webhook DNS resolution failed (not retrying)" (`webhook-manager.js:221`)
comes after one that catches its error code. The retry policy retries statuses
given as numbers (`PermanentNotRetried`), throws on a numeric `error.code`, and its
jitter exceeds `maxDelay` by up to a quarter.

Data layer. Thirty-eight record classes write rows by `UPDATE` statements that
leave the version alone (`NoUpdateLostAtAll`); `softDelete(id)` of the mixin writes
nothing and `restore()` never finds a deleted row (`DeletedIsRestorable`,
`SoftDeleteHides`); `client.query` is wrapped once more at each checkout
(`WrappedOnce`); two overlapping scopes leave `connectionPool.query` bound to
a released client. The health check of a replica keeps its client when the query
fails, and a second failure's timer ends a rest early. The rollback of a migration
without a rollback script removes its record and reverses nothing, as the code warns
(`migrations-runner.js:294`), so the next `migrate()` runs its script once more;
`MigrationsSound` counts runs since the record was last removed.

Domain models. `BaseModel` has no `count` or `raw`, which many models call; models with
`static hooks` of their own lose the kinds they do not list, so six cannot be loaded or
created; conditions that are arrays find nothing (gift cards cannot be redeemed,
`StoreVerification.initiate` never finds one in progress, nor `notification.findByUser` the unread
ones), and `archived_at: null` compares with NULL, so nothing is ever archived. Fees
and limits of deposit methods never apply for want of an `await`. Fourteen operations stop halfway
although the database answers (the `*Halfway` definitions name them), and nine more when
it rejects a later statement (`*Piecemeal`). Checks
before an insert race, so idempotency keys and the sequence numbers of logs and
timelines can be duplicated. `ProxyPurchase.create` calls itself; `recovery-token.js`
overrides the validation `save()` calls; `notification.markAllAsRead` turns
cancelled and failed ones into read; `gov-document.js` is a copy of `live-tracking.js`.
Exchange limits: the general limit of a client is never found, so that a client without one
for the pair cannot trade, and is not checked for a pair that has its own
(`GeneralLimitHolds`); every other daily reset is skipped (`NoDaySkipped`); settling a
trade that opened no position closes another's (`PositionsCounted`); the annual
volume is never reset; `recordBreach` passes three values for four placeholders.

Real-time. Timeouts of presence add up, so a user is offline later than
`presence-tracker.js:33` says (`OfflineInTime`); one session going offline takes the
user offline; the clean-up drops a fresh room that has a password; `shutdown()` of
the SSE manager stops at the first broken stream and its heartbeat never starts again.

Cache. An invalidation before the write lets a reader in between put the old value
back (`FreshWhenIdle`; `EventuallyFresh` shows it expires); a key tagged while its
tag is invalidated is forgotten; an entry of a memory cache with a lifetime of 0 never
expires (`memory-cache.js:75`); `increment` counts and sets its expiry in two commands.

Referrals. `referral/` has no `index.js`, so the package root cannot be loaded; the
fraud check reads fields where they are not stored; a commission is credited at
once and without a conversion, although `referral-engine.js:61` says to wait; codes
a caller chooses are not checked against others, and `releaseCode()` forgets a code that an
active referral still has, so that it is drawn again and leads to one of two referrers; the tracker drops
a second conversion or commission of a referral as a duplicate, so "commission_earned" entries
do not add up to what was earned (`referral-tracker.js:6`, `:59`).

Refunds. Exceptions are consulted after the window and the condition have
refused, so they never extend either; policies name methods the router does not
know, except store credit; a subscription cancelled before it starts is refunded
more than was paid; sorting works on the shared routing table.

Keys, limits, risk. Overlapping key rotations write the same version, and the first keys
are promises; permissions changed during an API key's grace period stay with the old key, and a
second rotation does not extend it; nonces are all cleared at once, not those
"older than 10 minutes" (`request-signing.js:274`), and a timestamp may be as far ahead of the
clock as behind it, so a request with a nonce passes up to three times as configured; one
without a nonce passes as often as it is sent while it is fresh (`:106`). `verifyRequest()`
refuses the header that `signRequest()` returns and `:23` documents: the parser takes `v1=`
off and line 118 splits the rest at another `=`, so only `t=..,v1=v1=<hex>`, composed from the
`signature` field, can pass; that is what the model calls genuine. A bucket polled faster than it
refills never refills, middlewares that use the same key share a bucket, and a
window can admit more than "Max requests per window" (`rate-limiter.js:51`), which
is why `RateKept` bounds a bucket by its size and rate. Calls of a wrapped function that
waited are counted in no window, and a call made after a window's end overtakes those
whose timers are late (`NoOvertaking`). All IPv6 addresses
are 0 to the access lists, and an exported blocklist loses its expiry times. A
fraud score reaches at most 75, so the threshold for a block, 80, is never met
(`WorstIsBlocked`); the "5 logins in 5 minutes" are counted over an hour; the
frequency of logins is frozen at the time of the last one.

USSD. Conditional items are shown but cannot be selected, hidden ones
can, also under the number of a line that is shown; `USSDStateMachine.currentState` is one field for
all dialogs; the error screen's "0. Back" is an error; a page of the default size and its
footer exceed a screen (`PagesFitScreen`); `isValidTransition()` and `transition()`
disagree about input that the guard of a transition refuses or only a default
branch accepts; `getNavigationPath()` does not end when menus are each other's parents.

Operation. The logger goes on writing to the file that was renamed, is compressed and then removed, and
lines written between the rename and the new file are lost (`EveryLineSurvives`); two rotations of one
millisecond overwrite each other; the daily rotation never comes for a log in use;
an unlink that fails ends a clean-up. Digests stop after the first
(`EveryDigestComes`, `security-events.js:580`). A disabled alert rule leaves its alert active, and
trimming the history can forget a cooldown. The timeout of a health check is not used.

## 8. Not modelled

`PROJECT.json` lists each component with its reason. In short:

* text filters, validators, ciphers, hashes and formatting are stateless functions
  of one text around library calls; there is no behaviour over time;
* distances, coverage areas and geofences are arithmetic over real numbers;
* tenants are look-ups in tables that are registered once; health, metrics and
  performance are counters and percentiles over samples;
* the cache of secrets holds values of the environment, which never change, and its
  two operations that would change them call functions that do not exist;
* configuration is read once; the gateway imports modules that are empty files.

Of a domain record, the models keep the status its operations decide by; amounts,
texts and dates are left out, and an operation that decides by them may go either way.
Rows may have been written by services that do not use these classes, so they start
in any status. Within the other modelled components, the notes in `PROJECT.json` say what is left out.

## 9. What is left

* `MessageChannels`: channel and consumer pools across reconnections; request/reply.
* Patterns, tags, locks and publish/subscribe of the cache, with an abstract store of bounded-stale
  reads that `CacheStrategies` implements.
* Amounts in the domain models: balances of wallets and gift cards under the read-then-write
  operations, as `FxLimits` does for volumes.
* Theorems: that `CacheStrategies` implements the abstract store above; how old a value can
  be that a cache still holds, the safety `EventuallyFresh` rests on.
