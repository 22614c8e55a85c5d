# A verification project for webhook-event-router

The router takes webhook events over HTTP, checks and deduplicates them, matches
them against rules, posts them to every target the rules name, retries what
failed, and keeps a record of all of it in SQLite. This directory holds TLA+
models of that behaviour, the TLC runs that check them on small instances, and
proofs of the properties that matter most. The source is
`internal/` and `cmd/server/`; every line number below and in
`PROJECT.json` refers to it.

## 1. Inventory

### How the program runs

One process. `net/http` runs one goroutine per request; `main` starts one
background goroutine that a ticker wakes every second (main.go:54) to call `dispatcher.Retry`.
All of them share:

- one SQLite file behind a `sql.DB` with `SetMaxOpenConns(1)` (db.go:29): there is
  one connection, a statement through the pool takes it for itself, a transaction
  keeps it from `BeginTx` to its end;
- one `rand.Rand` without a lock (backoff.go), one `Metrics` with a lock;
- the request's context, which the middleware ends after 30 s and `net/http` ends
  when the client leaves; the background goroutine has a context that `main`
  cancels after `Shutdown`.

There are no locks around database state and, outside the configuration writes,
no transactions: everything else is a sequence of single statements.

### Components

| component | state | operations | talks to |
|---|---|---|---|
| Event ingestion (`httpapi/events.go`, `webhook/*`, `event_store.go`) | table `events`; per request: plan, `seenTarget`, counters | `handleCreateEvent`: checks, `GetByKey`, `CreateEvent`, `MatchRules`, fan-out, `UpdateStatus` | engine (call), dispatcher (call per target), stores |
| Delivery life cycle (`dispatcher.go`, `deadletter.go`, `retry.go`, `delivery_store.go`, `attempt_store.go`) | tables `deliveries`, `delivery_attempts`; a `*domain.Delivery` per goroutine | `Deliver`, `send`, `markFailed`, `Retry`, `Requeue` | targets (HTTP), backoff, whitelist, stores |
| Backoff (`backoff.go`) | the generator | `Duration` | called by `markFailed` and `Requeue`; its result becomes `next_retry_at`, a text |
| Whitelist (`allow.go`) | none | `Allowed` | called by `Deliver` |
| Configuration store (`source_`, `target_`, `rule_store.go`, `db.go`, handlers) | tables `sources`, `targets`, `rules`, `rule_targets`, `change_logs`; the connection | create, update, delete, `logChange` | SQLite, pool |
| Process (`main.go`) | ticker, contexts | start, signal, shutdown, end | all |
| Rule engine (`engine/*`) | none | `MatchRules`, `SelectTargets`, `Eval`, `Lookup` | called by ingestion |
| Metrics (`metrics.go`) | counters, mutex | `CountEvent`, `CountDelivery`, `Snapshot` | called by ingestion |
| Configuration (`config.go`) | none | `Load` | `main` |
| Audit, lists, health | none | reads | pool |

### What is hard

- **Interleaving without transactions.** A handler, the background goroutine and
  manual retries write one delivery row; only the `WHERE` clause of
  `DueDeliveries` keeps the second away from the first. `Requeue` reads, decides
  and overwrites in two statements. So do `GetByKey` and `CreateEvent`.
- **Two contexts.** Some writes use the request's context and are lost when it
  ends; `markFailed` uses the background context and is not. What the tables say
  after a client left depends on which statement it left between.
- **Crashes.** Nothing looks at `events` or at `pending` deliveries at the start.
- **The single connection.** A read through the pool inside a transaction waits for
  the connection the same goroutine holds.
- **A shared generator.** A torn state of `rand.Rand` panics; in a handler the
  panic is recovered, in the background goroutine it ends the process.
- **Counting.** An answered failure counts twice towards `MAX_RETRIES`, and the pause is
  computed from that count.
- **Times as text.** `DueDeliveries` compares RFC3339Nano texts, which drop trailing
  zeros, with a time cut to whole seconds. Ticks that fall due during a batch are dropped.
- **Widths.** `RETRY_BASE_MS` is not validated; products of durations wrap around.
- **Order of maps.** A wildcard in a path ranges over a Go map, in a new order each time.
- **Two ways to compare.** `compare` takes numbers where both sides have one and texts
  otherwise, from pair to pair.

`PROJECT.json` lists each of them at its line under `hazards`, with the properties
that would notice it going wrong.

### What makes each component correct

- *Delivery*: a row's columns agree; a delivery is never posted by two goroutines
  at once; "delivered" has its 2xx on record and is final; posts are bounded; every
  accepted delivery is settled.
- *Ingestion*: one delivery per event and target whatever overlaps or is repeated;
  "delivered" means all targets; 202 means that the enabled targets got their deliveries
  in turn, all of them unless the request's context ended before (a client that still waits
  after the middleware's 30 s may read such a 202); every answer tells whose event is
  stored; a matched event is concluded.
- *Retry schedule*: no retry before its time by a second or more; pauses grow as promised;
  no setting that fits the width makes the generator panic; no due row waits longer than
  the other rows can make it wait, not counting the time its statements wait for the
  connection (an update or delete of the configuration may hold that for 30 s).
- *Rule engine*: a rule applies exactly when its conditions mean what is the case in the
  payload, whatever the order of maps; the operators agree with one another; every
  target of overlapping rules is selected once.
- *Whole*: handlers and deliveries over the same tables keep what each promises alone;
  what the counters claim the tables show; a stored event is concluded and its targets
  are served to the end.
- *Configuration*: the change log is the history of the tables; the answer to the
  client and the log agree; a rule is never half written; requests return and the
  connection comes back.

## 2. Modules

| module | models | lines |
|---|---|---|
| `DeliveryContract` | what the router promises of a delivery, abstractly | 65 |
| `Dispatcher` | the delivery life cycle, with process and clock | 566 |
| `DispatcherProofs` | its invariant, its theorems and its refinement of the contract | 924 |
| `DispatcherEffortProofs` | how counts, trails and manual retries bound one another | 1004 |
| `Ingest` | `POST /api/v1/events` | 454 |
| `IngestProofs` | no target gets two deliveries of an event | 356 |
| `IngestOutcomeProofs` | what answers and statuses say of the tables | 1060 |
| `ConfigStore` | sources, targets, rules, change log, connection | 432 |
| `ConfigStoreProofs` | its invariant and theorems | 960 |
| `RetrySchedule` | backoff, settings, times as text, due rows, the ticker | 375 |
| `RetryScheduleProofs` | its theorems, for every width, resolution and setting | 2308 |
| `Comparison` | the leaf operators of conditions | 137 |
| `Engine` | paths, conditions, matching, selection; a reference semantics | 395 |
| `EngineProofs` | that the one means the other, for all payloads, conditions and rules | 3424 |
| `Router` | `Ingest` and `Dispatcher` over the same tables, with the metrics | 281 |
| `RouterProofs` | that it implements both, and what follows for statuses and counters | 2012 |
| `MCDispatcher`, `MCIngest`, `MCConfigStore`, `MCRetrySchedule`, `MCEngine`, `MCRouter` | instances for TLC | |

Each specification starts with its abstractions. A section "Slips" in each of them
holds definitions that no action uses: what a definition of the model would be
after a plausible mistake in the code behind it (a dropped condition, a reset
forgotten, a constraint missing). Putting a slip in the place of the definition
makes a run fail, which shows that the property depends on that piece of code;
`PROJECT.json` pairs every property of a passing run with such a slip under
`mutants`.

### Dispatcher

| model | code |
|---|---|
| `rows`, `trail` | tables `deliveries`, `delivery_attempts` (a trail is its answers in id order) |
| `pc`, `dv`, `answer` | where `Deliver`/`send` is, the `*domain.Delivery`, what `client.Do` gave, per delivery and kind of goroutine |
| `canceled` | requests whose context has ended |
| `req` | a manual retry between its read and its write |
| `phase` | the process: running, context cancelled, ended |
| `Create`, `CheckRefuse`, `CheckAllow` | `Deliver` (dispatcher.go:35-61) |
| `Post`, `Record`, `Write` | `send`: `client.Do`, `CreateDeliveryAttempt`, `UpdateDelivery` of either branch, with `Outcome`/`MarkFailed` for what is written |
| `Scan`, `Fetch`, `Skip` | `Retry` and `DueDeliveries` |
| `RequeueLoad`, `RequeueWrite`, `RequeueDrop` | `Requeue` and the handler around it |
| `JitterPanic` | two draws from the unlocked generator at once |
| `Cancel`, `Stop`, `Crash`, `Restart`, `Elapse` | client or middleware, signal, end, start, clock |

Every SQL statement is one step, and so is the POST; nothing spans two statements.
`UpdateDelivery` overwrites all columns from the goroutine's own copy, which is
what makes a stale copy dangerous. A requester may lose its request between the
read and the write (`RequeueDrop`).

`DeliveryContract` knows a status and an acknowledgement per delivery and six
transitions. `Contract == INSTANCE DeliveryContract WITH status <- ..., acknowledged
<- ...` maps a row to its status and a trail to whether it holds a 2xx; `ContractKept`
is the contract under that mapping. It holds while manual retries do not overlap:
`delivery_core` checks it with one requester, `ContractImplemented` proves it for
every instance with one requester at a time. With two, `doc_only_dead_retried` shows
the step the contract does not have: a delivered row becomes retrying again.

### Ingest

| model | code |
|---|---|
| `status`, `by` | table `events`: status, and which request inserted the row |
| `deliveries` | table `deliveries` as far as the fan-out and the event's status see it |
| `plan`, `pos`, `seen`, `tally` | matched rules' targets in order, loop position, `seenTarget`, `delivered`/`failed` |
| `Screen` with `Checks` | everything up to `GetByKey` (events.go:24-86), each check with the code of its error and in its order |
| `Lookup`, `Insert` | `GetByKey`, `CreateEvent` with the UNIQUE constraint |
| `Match` | `ListEnabledRules` and `MatchRules`, any plan of the constant `Plans` |
| `Pass`, `Take`, `CreateDelivery`, `Sent` | one round of the fan-out |
| `Conclude` | `UpdateStatus` and the answer |
| `Background` | retries, by the worker and by hand, which change deliveries but never the event; of two manual ones the later may take back what the first led to (`WasDead`) |
| `JitterPanic`, `End`, `Crash` | recovered panic, end of a context, end of the process |

`Sent` may end with any outcome that `Dispatcher` allows for a first attempt; what
`Deliver` returns and what the row says differ once the context has ended.

### ConfigStore

| model | code |
|---|---|
| `db`, `scratch` | committed tables, AUTOINCREMENT counters and log; the same in the open transaction |
| `conn` | the pool's only connection |
| `held`, `before` | the row to write, as the handler made it of the request (and, for an update, of the row it read); the snapshot for the log |
| `Load`, `Begin`, `Snapshot` | the read of `handleUpdateX`, `BeginTx`, the read for the log |
| `Apply`, `Link`, `Log`, `Commit` | the statement on the row, `persistTargets`, `logChange`, the end of the transaction |
| `ApplyRefused`, `LinkRefused`, `TooLate` | a constraint, or an ended context, stops it between two of these |
| `Rollback`, `End`, `GiveUp` | `database/sql` watching the context of a transaction, the timeout, a call without connection |
| `Read` | every other statement through the pool |

`Snapshot` is the statement of `UpdateX` and `DeleteX` that asks the pool for the
row while the transaction holds the connection. It returns only when the context
has ended, and the transaction is then rolled back.

A rule's row, its links and its log entry are statements of their own, and each may be
refused when those before it have been done: a rule can name one target and list another that
does not exist. That the table never shows the half of it is what `RulesWhole` is about; `LinkErrorDropped`
is the slip that would show it.

### RetrySchedule

| model | code |
|---|---|
| `cfg`, `Load`, `Valid`, `Start` | `config.Load`, with the width of `time.Duration`; main's refusal |
| `now`, `Second`, `Milli`, `IntMax` | the clock in parts of a second; the width of int64 |
| `rows` | `status`, `attempts` and `next_retry_at` of table `deliveries` |
| `Doublings`, `Mul`, `Draws`, `Duration` | `Backoff.Duration`: doubling up to sixteen, `Int63n(base + 1)` |
| `Text`, `Before` | `formatTime` (RFC3339Nano without trailing zeros) and SQLite's order of texts |
| `IsDue`, `Batches` | the query of `DueDeliveries`: condition, order, limit |
| `FirstAttempt`, `Requeue`, `Sent`, `Failed`, `Succeeded` | `markFailed` and `Requeue` as far as they set a time |
| `FirstAttemptPanics`, `WorkerPanics` | `Int63n` without a value to draw |
| `queue`, `since`, `tick`, `tickAt`, `Wake`, `Advance` | the loop of main.go:53-64, the channel of the ticker with room for one tick, `Retry` posting one row after the other |

`Dispatcher` knows a retry time only as later or due; this module knows nothing of contexts
and crashes. The count that both share (`Outcome` there, `Counted` here) is the code's:
an answered POST counts twice.

### Comparison and Engine

| model | code |
|---|---|
| `Normalize`, `ToFloat`, `Equal`, `Compare` | `normalize`, `toFloat`, `equal`, `compare` |
| `EvalCompare`, `In`, `RegexMatch`, `Leaf` | `evalCompare`, `in` with `asList`, `regexMatch`, `evalLeaf` |
| `Segment`, `ParsePath` | `ParsePath` |
| `Step`, `Wildcard`, `StepAll`, `Lookup` | `step`, `wildcard`, `Lookup`: every sequence they may return |
| `Verdicts`, `EvalLeaf`, `Exists` | `Eval`: every answer it may give |
| `Match`, `ResolveTargets`, `SelectTargets` | the same names in engine.go |
| `Consider`, `Select` | the loops of `MatchRules` and `SelectTargets` |

Every loop is a recursive function of the rounds it has made: `segs` in `ParsePath`, `next`
and `cur` in `StepAll` and `Lookup`, `sum` and `out` in `AddNew` and `SelectTargets`. `Eval`, which calls
itself for the children of a group, is the function `answers` over `Conditions`, a constant: the
conditions with all their parts, where `Depth` falls from a group to each child.

The reference semantics speaks of places instead: `Places` are the places of a payload, `Suits`
says what a part of a path, as it is written, asks of a step (without `ParsePath` and its segments), `Fits`
when a path names a place, `Found` are the values there, `Says` gives each operator its
meaning as a quantifier over them, `Holds` each group. The right side of `in` is what expression.go:100
says: a list, or a text as a list of one (`Items`). `LookupFindsPlaces` and `MatchesExact` compare the
translation of the code with it, the latter but for rules where `exists` meets a null (not
`Clear`) or `in` has a text on its right (not `Listed`); what becomes of those is
`doc_in_text`. Text functions of Go's library are constants.
`SelectTargets` has no caller outside the tests; the handler's two loops with
`seenTarget` do the same and are in `Ingest`.

### Router

`D == INSTANCE Dispatcher` takes as deliveries the pairs of a request and a target,
`I == INSTANCE Ingest` as its table the rows of `D` in the order of their ids (`Table`).
`Handle` is a step of `I` alone, `Open`, `Proceed` and `Close` are `Deliver` called by the
handler (steps of `D`, the first and last of which move the handler too), `Panic`, `End` and
`Crash` are one event in both, and `Work`, `Requeue`, `Elapse`, `Stop`, `Restart` are steps
of `D` that the handlers do not see. `counters` are those of `metrics.Registry`, raised
where events.go calls `CountEvent` and `CountDelivery`, and zero after a crash.

`Ingest` abstracts `Deliver` to its outcomes and the retries to what they may do to a row.
That this is a true description is the refinement `IngestKept == I!Spec`: every step of
the composition is a step of `Ingest` or leaves its variables alone. So what is proved of `Ingest`
holds of the handlers as they run with the real deliveries. The steps of `Dispatcher` are
used as they are, and what is proved of it holds here (`ImplementsDispatcher`). Both
refinements are proved (section 4), for any number of requests, targets and rules.

## 3. Runs

### What holds

| run | distinct states | shows |
|---|---|---|
| `delivery_core` | 1,181,238 | two deliveries, one to a refused target, two manual retries in turn, a crash, panics, clients that leave: `TypeOK`, `RowConsistent`, `NoConcurrentSend`, `DeliveredHasEvidence`, `BoundedEffort`, `AcknowledgementCounts`, `RefusedPostedByHand`, `TrailCoversAttempts`, `DeliveredIsFinal`, and the refinement `ContractKept` |
| `ingest_core` | 2,083,472 | two requests of every acceptable and refused kind, for one key or two, overlapping rules, a disabled target, ends of contexts, panics, a crash: `TypeOK`, `OneDeliveryPerTarget`, `DeliveredMeansAll`, `AcceptedMeansRouted`, `AnswerTellsTable` |
| `config` | 215,597 | three concurrent writes, statement by statement, with refused rows and refused links: `TypeOK`, `LogIsHistory`, `AnswersMatchLog`, `RulesWhole`; `RequestsReturn` and `ConnectionReturns` in spite of the wait for the own connection |
| `retry_schedule` | 1,652,216 | two rows, a clock of quarter seconds, eight settings: `TypeOK`, `EarlyByLessThanASecond`, `OldestSecondsFirst`, `PausesGrow`, `FittingBaseNeverPanics`, `Punctual` |
| `engine` | 87,320 | every operator on every path and right side, groups and overlapping rules, over eighteen payloads: `TypeOK`, `LookupFindsPlaces`, `MatchesExact`, `OneAnswer`, `OperatorsAgree`, `TargetsOnce` |
| `router` | 537,739 | the composition, through a crash and two manual retries that may overlap: `DeliveredIsAcked`, `CountersBacked`, the refinement `IngestKept`, and `EveryTargetSettles` under fairness |

### What the documents say and the code does not do

Each of these runs checks one sentence of the documentation or a comment and
ends with a behaviour of the code that contradicts it. The sentence is quoted in
`PROJECT.json` under `findings` and named at the property.

| run | contradicted | behaviour |
|---|---|---|
| `doc_max_retries` | README.md:41 | an answering target is given up after two posts with `MAX_RETRIES` = 3 |
| `doc_only_dead_retried` | deadletter.go:12, PROJECT_SPEC.md:42 | of two overlapping manual retries the later overwrites a row that was delivered meanwhile |
| `doc_crash_recovery` | PROJECT_SPEC.md:4 | a row left pending is never taken up |
| `doc_changes_logged` | PROJECT_SPEC.md:53 | requests come one at a time, and the update waits for its own connection until it is rolled back |
| `doc_every_target` | PROJECT_SPEC.md:12 | targets passed over after the context ended, and 202 |
| `doc_in_text` | expression.go:100 | `in` with a text on its right matches nothing, so its rule is not matched where it applies |

Further differences between documents and code show up in the models as an exception
in a property that holds, or as a step of their own. They have no run:

- PROJECT_SPEC.md:28 calls a delivery delivered when the target returned 2xx; when the
  request's context ends between the insert of the attempt and the update, the row stays
  pending (the exception in `AcknowledgementCounts`).
- PROJECT_SPEC.md:42 wants every failure traced; a failure after the context has ended is
  counted by `markFailed` but has no attempt row (the exception in `TrailCoversAttempts`).
- PROJECT_SPEC.md:28 wants targets to pass the whitelist; `Retry` does not ask it, so a
  refused delivery is posted after a manual retry (`RefusedPostedByHand`).
- PROJECT_SPEC.md:74 wants shared state locked or owned by one goroutine; `rand.Rand` in
  backoff.go is neither (`JitterPanic` in `Dispatcher` and `Ingest`).
- PROJECT_SPEC.md:10 and events_test.go:60 answer a repeated event with 409; the request
  that loses the race for the UNIQUE constraint gets 500 (`Insert`; `AnswerTellsTable` says
  that the event is in the table all the same).
- PROJECT_SPEC.md:27 calls an event failed when all targets are dead; `Conclude` calls it so
  when none was delivered at the first attempt, and nothing updates it later.
- PROJECT_SPEC.md:4 calls the flow recoverable; an event in the table whose handler died
  before the fan-out is never routed (`Crash` in `Ingest`).
- PROJECT_SPEC.md:33 answers a body over the limit with 413; it is cut off and fails to
  parse, 400 (`Checks`).
- domain.go:71 says that `TargetIDs` contains `TargetID`; with both given in a request they
  are stored as given (`NewRows` in `ConfigStore`).
- README.md:12 gives the pauses as 1, 2, 4, 8 and 16 s; as answered failures count twice
  (dispatcher.go:97 and 108), a
  target that answers with errors is waited for 2 and then 8 bases (`PausesGrow` gives the
  bounds that hold), and the comparison of texts makes any of them up to a second shorter
  (`EarlyByLessThanASecond`).
- PROJECT_SPEC.md:79 wants every variable checked at the start; `RETRY_BASE_MS` is not: a
  negative or overflowing one makes the generator panic (`FirstAttemptPanics`,
  `WorkerPanics`; `FittingBaseNeverPanics` says for which values nothing happens).
- metrics.go:39 says that the outcome of every attempt is counted; retries are not
  (`Work` in `Router` leaves `counters` alone).

And what may surprise without contradicting anything that is written: `compare` is no order, as 9
is less than 10 as a number, 10 less than "5x" and "5x" less than 9 as texts; NaN compares
equal to every number; a negative index in a path addresses the empty key of an object, and
numeric keys are out of reach (`Segment`); `exists` with a wildcard over an object that
holds nulls depends on the order of the map (the exception `Clear` in `MatchesExact` and
`OneAnswer`).

### Bounds

All of them are constants, and each names what it bounds.

- `MaxRequeues`, `MaxCrashes`: manual retries that pass the test of the status, and ends
  of the process, in one behaviour. One requeue is enough for the counts to start
  again and for the row to be sent once more; two are needed for a lost update. One
  crash in between leaves every kind of remains; what a second finds is what the
  first left.
- `MaxRetries` = 3 is the smallest value at which an answered failure (two counts)
  and an unanswered one (one count) both leave an attempt and then exhaust it; the
  liveness counterexamples use 2 to stay short.
- Two deliveries: the properties relate a row to itself and to at most one other
  (the worker's serial sending, the batch). In `router` and `retry_schedule` the batch is
  one row with more due, the case of a batch that leaves some behind.
- Requesters of manual retries that overlap are in `router`, in `doc_only_dead_retried` and in
  the proofs (any number of them, except where a theorem says "one requester").
- `Ingest` has three targets, of which two are enabled, and a plan that names one of
  them twice with the disabled one in between: repetition, passing over and success
  all occur in one fan-out. Two requests suffice for the race of lookup and insert and
  for a repetition after a crash.
- `ConfigStore`: `MaxId` = 2 bounds the ids requests name; three writes are a create, the
  write that depends on it and a rival. Updates and deletes arrive and are tried, but as none
  ever commits (`OnlyCreatesCommit`), what `LogIsHistory` says of their entries is not exercised.
- `RetrySchedule`: a second has four units, so that fractions with one and two decimals
  occur and a time may lie before, in and after the second of the query; a millisecond
  stands for two units (`Milli`), and `IntMax` = 63 lets a base, its multiple and the
  product in `Load` each overflow on its own. `Jitters` are none, one, two and the largest
  draw of the base that overflows `Duration`. The eight settings are a base of half a
  second, the same with the default of `MAX_RETRIES`, a base that is zero, one that is
  negative, one that overflows in `Load` and one in `Duration`, and two that are refused.
  `Horizon` = 19 units is more than the longest wait (`MaxLate`) after a first failure.
  `Limit` = 1 with two rows.
- `Engine`: a dozen and a half payloads, with scalars of each kind, lists, objects, both
  nested, null, empty and numeric keys; twelve paths, with the root, indices (a negative
  one), wildcards one and two deep; twelve right sides and twelve operators, in all
  combinations; groups nested twice. `Conditions` are those of these rules and their
  parts, `Depth` is how deep they are nested. Texts are opaque and are given by `MCEngine` with
  their order, their numbers and the parts that occur; as they stand for Go's
  results, the run says nothing of the library.
- `Router`: one request (two multiply the interleavings without a new relation between
  handler and worker: what relates requests is the key, in `ingest_core`; so no
  duplicate is counted here), two targets, one of which the whitelist refuses, and two
  plans: one target named twice, and the refused one before the other, so that manual
  retries may set it going while the handler is at the next. Two manual retries, which may
  overlap, `MaxRetries` = 2, one crash. That an event called delivered has several targets
  occurs in `ingest_core`, and in the proof of `DeliveredIsTrue`, not here.

Symmetry is used in `ingest_core` only, among requests, which occur nowhere but as indices, and for
invariants.

The models stop when no request is left to arrive, so deadlock is not checked:
a server without requests may stand still. That nothing else stands still is what
the liveness properties of `config` and `router` are for.

### Fairness

Weak fairness of the steps of handlers and of the background goroutine: the Go
scheduler runs every goroutine, and `client.Do` ends after `ForwardTimeout`. Of
`Scan`: the ticker of main.go. Of `Elapse`: the clock. Of `Crash` once stopping and of
`Restart`: `Shutdown` has a limit of ten seconds, and the service is run under a
supervisor (without that, nothing after a crash can be promised at all). Of a waiting
request's `End` in `ConfigStore`: the middleware's 30 s. Of `Rollback`: the goroutine
`database/sql` starts per transaction to watch its context. Not fair: arrivals,
departing clients, manual retries, crashes, panics.

`Router` asks for less than `Dispatcher`: one condition on the steps of all requests that
have begun, one on the worker's, one on the passing of time, one on manual retries that
hold a row, one on the end and start of a process that stops. `EveryTargetSettles` holds
through a crash, a restart, two manual retries and a batch smaller than the number of due
rows, with two exceptions: a request whose context ended, and a handler that died
(`doc_crash_recovery` shows why), before the answer. Its time is one action,
and a non-empty batch is any set of due rows of the allowed size, which is weaker
than the order of the query; how late a row may be in that order is
`Punctual` of `RetrySchedule`.

## 4. Proofs

Proved by TLAPS for all values of the constants under the modules' assumptions, which TLC
evaluates on every run: `ConstantsAssumption` (`MaxRetries` >= 1, which `config.Load`
enforces; sets of deliveries, requesters and so on arbitrary, also infinite),
`IngestAssumption`, `ConfigAssumption` (operations as the handlers let them through),
`ScheduleAssumption` (finitely many rows; any length of a second, any decimals, any width
of integers, any settings), `RouterAssumption` (those of `Ingest` and `Dispatcher` for the
constants they share) `ComparisonAssumption` (what Go's library functions
promise: a number survives being printed in full and read again, texts are ordered) and
`EngineAssumption` (payloads and conditions come out of `json.Unmarshal`: objects have finitely many
fields, what is part of a value is a value, nesting ends; rules are as `CreateRule` lets them through).

| module | theorem | statement |
|---|---|---|
| `DispatcherProofs` | `TypeCorrect` | `Spec => []TypeOK` |
| | `RowsConsistent` | `Spec => []RowConsistent` |
| | `SendsExclude` | `Spec => []NoConcurrentSend` |
| | `DeliveredIsEvident` | `Spec => []DeliveredHasEvidence` |
| | `DeliveredStays` | with one requester, `Spec => DeliveredIsFinal` |
| | `ContractImplemented` | with one requester, `Spec => ContractKept` |
| | `RefusedNeverPosted` | `Spec => []RefusedPostedByHand` |
| | `AcknowledgementsCount` | with one requester, `Spec => []AcknowledgementCounts` |
| `DispatcherEffortProofs` | `AttemptsCovered` | `Spec => []TrailCoversAttempts` |
| | `EffortBounded` | `Spec => []BoundedEffort` |
| `IngestProofs` | `Idempotent` | `Spec => []OneDeliveryPerTarget` |
| `IngestOutcomeProofs` | `TypeCorrect` | `Spec => []TypeOK` |
| | `AnswersTell` | `Spec => []AnswerTellsTable` |
| | `AcceptedIsRouted` | `Spec => []AcceptedMeansRouted` |
| | `DeliveredIsAll` | `Spec => []DeliveredMeansAll` |
| `ConfigStoreProofs` | `TypeCorrect` | `Spec => []TypeOK` |
| | `RulesAreWhole` | `Spec => []RulesWhole` |
| | `LogTellsHistory` | `Spec => []LogIsHistory` |
| | `AnswersAreLogged` | `Spec => []AnswersMatchLog` |
| | `OnlyCreatesCommit` | no update and no delete is ever reported as done |
| `RetryScheduleProofs` | `TypeCorrect` | `Spec => []TypeOK` |
| | `NeverASecondEarly` | `Spec => []EarlyByLessThanASecond` |
| | `LaterSecondsWait` | `Spec => OldestSecondsFirst` |
| | `PausesCorrect` | `Spec => []PausesGrow` |
| | `FittingBaseIsSafe` | `Spec => []FittingBaseNeverPanics` |
| | `RetriesPunctual` | `Spec => []Punctual` |
| `RouterProofs` | `ImplementsDispatcher` | `Spec => D!Spec` |
| | `ImplementsIngest` | `Spec => IngestKept` |
| | `DeliveredIsTrue` | `Spec => []DeliveredIsAcked` |
| | `CountersTrue` | `Spec => []CountersBacked` |
| `EngineProofs` | `TypeCorrect` | `Spec => []TypeOK` |
| | `LookupExact` | `Spec => []LookupFindsPlaces` |
| | `RulesMatchExactly` | `Spec => []MatchesExact` |
| | `AnswersAgree` | `Spec => []OneAnswer` |
| | `OperatorsAgreeAlways` | `Spec => []OperatorsAgree` |
| | `TargetsSelectedOnce` | `Spec => []TargetsOnce` |
| | `Antisymmetric` | `compare(a, b) = -compare(b, a)`, NaN included |
| | `EqualComparesEqual` | what `equal` calls equal compares as 0 |
| | `OperatorsAlwaysAgree` | `Agreement` for all lists of values and right sides |

**Dispatcher.** None of the safety properties is inductive. Why can handler and
worker not meet? Because a row that its handler still works on is `pending`
(`HandlerOwns`), `DueDeliveries` takes `retrying` rows with a time only, and a row the
worker has taken stays `retrying` until the worker itself writes it (`WorkerOwns`):
`Requeue` writes dead rows, and those become `retrying` again, never pending.
That a delivered row has its 2xx on record needs the order of the two
statements (`EvidenceFirst`): the attempt is on record when the update is due, or the
context has ended and the update will fail. `DownIsQuiet` and `RequesterAfterHandler`
close the gaps around restarts and manual retries. `IInv` conjoins these with the
properties; `SafeInit` and `SafeStep` show that it is inductive, one step of the proof
per action. `RequesterOwns` (what a manual retry will overwrite is still dead) is
inductive relative to `IInv` only under `OneRequester`, and it is what `DeliveredStays`
and the refinement need. The refinement is shown per action by `ContractMove` (one
status changes in a way the contract knows) and `ContractRecord` (a 2xx is recorded).
Two invariants come on top of `IInv`: before any manual retry a refused
delivery is with its handler or dead, so the worker never sees it (`RefusedAside`); and a
delivery that a goroutine is at work on is not delivered and has no other goroutine about
to write (`AloneAtWork`), so a recorded 2xx is either written or about to be
(`AckInv`).

`DispatcherEffortProofs` needs more than safety of the moment. Up to the first manual retry
or stop (`Quiet`) the count of a row lies between the length of its trail and twice that,
with one more or less where the goroutine is between its statements (`Tracked`). For the
bound of `BoundedEffort` each delivery has an allowance of posts: its count as far as
`MaxRetries`, one while the worker's post is recorded and not written (`Slack`), and
`MaxRetries` per manual retry that has been written (`Spent`, which leaves out the
requesters that still hold the row: `Holders`), and one per crash. A post uses the
allowance, and the write after it raises the count; a requeue resets the count and pays
`MaxRetries`. That a stale requester may write over a row that has been sent since is no
harm, as it pays the same (`EffortInv`).

**Ingest.** A key belongs to the request whose insert passed the constraint
(`KeyOwned`, `RoutesOwnKey`), so all rows of a key were made by one run of the loop;
that run puts a target in `seenTarget` before it makes the row and never takes it out
(`SeenFromRules`, `TakenIsSeen`, `RowsOwned`), so it makes it once.

`IngestOutcomeProofs` builds on it. `AnswerInv`: before its insert a request owns no key, and
what it has answered matches who owns the key; it answers 500 about an event of its own only
when its context has ended with nothing in `seenTarget`. `RouteInv`: the targets in
`seenTarget` are the enabled ones among those the plan has named so far (`Named`), and the
served rows of the key are theirs; at the end of the plan that is `Due`. An ended context stops
the rows from being added but leaves no gap: those served are the enabled targets of a
beginning of the plan (`ServedInOrder`), and that is what a 202 tells a client that still reads it.
`ProgressInv`: while a row is being sent it is pending, with `failed` = 0 the rows before it are
delivered, and an event called delivered has all its rows delivered and no failed first attempt,
for good: what a manual retry may take back (`WasDead`) is never a row of it.

**ConfigStore.** `CInv` has four parts: `Types`, which says that the committed tables are `Sound`
(types, one log entry per row ever made, whole rules); `TaskOf`, what a handler is at work on;
`TransactionOf`, what the open transaction holds; and `Counted`, one entry per write reported as done.
`TransactionOf` follows a create through its statements: the row (a rule still without links),
its links, the log entry, after which the scratch tables are `Sound` again. It also has the key to
the rest: an update or a delete that has got past `Snapshot` has lost its context, as it waited
for the connection it held, so it cannot commit. Hence only creates commit
(`OnlyCreatesCommit`), and `LogIsHistory` holds with entries of creation alone: the theorem
rests on the very wait that `doc_changes_logged` shows, and would need a proof of its own
for updates and deletes if the wait were removed.

**RetrySchedule.** `WorkInv` holds the rows of a batch to be retrying and distinct, and none
early by a second: that a row is due means that its second is not past the clock's, as text
order agrees with the order of seconds whatever the decimals (`DueSeconds`,
`TextOrdersSeconds`). `PauseInv` says that the count, with which `Duration` is called, is
never behind the failed posts of history, and relates a row's time to when it was given
(`Spaced`); under `Sane`, 17 bases within the width, no product wraps.

For `Punctual` a row needs a bound on how often others go first (`TurnInv`). `NextQuery` is
the latest time of the next query: when the batch in hand is done, at a timeout for each
post, and a tick is there, which is at most one `Round` from now (`Clocked`). Each query that
leaves a due row out returns a full batch of rows that are not of a later second
(`BatchFull`, `AheadTaken`), which then leave the set `Ahead` of rows that can go first:
so the number of full batches still possible falls with each query (`InTurn`). A row can enter
`Ahead` only as long as the clock is in the second of the row that waits, as a
failed row gets a time that is not in the past (`FailedLater`); that second is the first term of
`MaxLate`, and where the others cannot fill a batch it is not needed. A row in a batch waits for
the posts before it (`Turns`). All other steps leave the bound alone or lower it
(`TurnsUntouched`, `ClockKept`).

**Router.** Every step of the composition is a step of `Dispatcher` or leaves its variables
alone (`DispatcherStep`); what has to be known is only that the fan-out names deliveries that exist
(`FanOutInPlan`). For `Ingest` more is needed, as its `Background` and `Sent` restrict what may happen to
rows, and the invariant `Good` has four parts: that of `Dispatcher`, `IInv`; that of `Ingest`,
`ProgressInv`, about the table as the handlers see it; `Joined`, which ties the two
together: a handler is sending exactly when its delivery is between the first and
the last statement of `Deliver`, and that delivery is the one its fan-out is at
(`SendersAgree`); both modules see the same contexts end (`ContextsAgree`); a delivery has
one place in the order of ids, from its creation on (`OrderIsTable`); and its event is that of the request
that made it (`MadeByOwner`); and `FailedFirst`: a row that is retrying or dead, or that a
manual retry has read as dead and not yet written, was counted as failed by its handler. With these,
a write by the worker or a manual retry is a `Background` step of `Ingest`, for any number of manual
retries at once. The later of two that overlap may take back "delivered"
(`doc_only_dead_retried`): in `Ingest` that row `WasDead`, and by `FailedFirst` its event has a failed
first attempt, so it is not an event called delivered. `DeliveredIsAcked` follows: `Ingest` says that all rows of
the event are delivered, `Dispatcher` that such rows have their 2xx on record. `CountersBacked` needs
an account of which deliveries can have been counted in the life of this process
(`CountInv`): those that `Deliver` has returned for, each once, the ones counted as delivered among those that
have a 2xx on record, which nothing takes away, or whose request has ended (`Vouched`, `Settled`);
and one event per request that answered.

**Engine.** Loops and recursion come first. `Least` (a set of numbers has a least one) gives
`Rounds` (what holds at the start and is kept by each round holds at the end), `Descent` (the
same along `Depth`), `Loop` and `Recursion` (a function defined by rounds, or by what is less deep, exists and
satisfies its equation). These are facts about sets and functions, so no theorem with an operator for a
parameter is needed.

`Lists(t, val)` says that the sequence `t` lists the values of `val`, a function on a set of places, by a
bijection between indices and places. `step` lists the places one step beneath a value, for a wildcard in
whatever order the keys come (`StepLists`); a round of `Lookup` puts together what lies beneath each
value, and the places beneath different ones differ (`StepAllLists`, `BeneathPlaces`); so
`Lookup` lists the places that fit (`LookupLists`). That the segments `ParsePath` makes of a path ask
of each step what the path as written asks (`StepsOf`, `Suits`) is `ParsePathParsed` and `FittingParsed`. Each value occurs as often as it has places
(`LookupCounts`). `LookupExact` is that.

`LeafSays` replaces the loop of each operator by its quantifier; `compare` enters through
`CompareMeans` (its sign is that of `Above`). `OperatorsAlwaysAgree` needs `EqualComparesEqual`, and that
in turn that a number survives printing and reading, for a number against its text. `exists`
looks the path up twice and tests the first value of one of them, so it needs that no null is found
(`EvalLeafSays`). By `Descent` there is then one answer (`VerdictsDecided`, for `AnswersAgree`), and
it is the meaning of the condition if, besides, no `in` has a text on its right (`VerdictsExact`,
for the invariant).

`IInv` holds `MatchesExact`, which each round extends by the rule it looks at, and `Collected`: what
is in `matches` are rules already passed, with `ResolveTargets` of each. `AddNewAdds` and
`SelectTargetsSelects` show the loops of `SelectTargets` to keep `Selects` (no target twice, those of
the matches so far and no others, in the order of the first match that names each), from which
`TargetsSelectedOnce` follows at the end.

**Model-checked only.** Liveness (`RequestsReturn`, `ConnectionReturns`, `EveryTargetSettles`), as
fairness and `ENABLED` are out of the prover's reach. `DeliveredIsFinal`, `ContractKept` and
`AcknowledgementCounts` are proved for manual retries that do not overlap; with two that do, `doc_only_dead_retried` shows `DeliveredIsFinal` to fail.

## 5. Not modelled

- Errors of the database other than an ended context and violated constraints (disk,
  corruption): the code ignores most of them, and a model in which every statement may
  fail would promise nothing.
- A due row whose event or target cannot be read (`Retry` passes it over): needs such an error.
- Regular expressions, the printing and parsing of numbers, `fmt.Sprint`: constants of
  `Comparison`, with assumptions.
- The width of `MAX_PAYLOAD`; a body is within the limit or beyond it. Which of two
  applicable errors a client is shown follows from `Checks` and is no property.
- Name lookups of the whitelist, whose result may change between the check and the POST.
- Paths, addresses and booleans of the configuration: nothing depends on them here.
- Paging and filters of the read handlers, `/healthz`, the text of `/metrics`, logging.
- `CreateRuleTargets`, `DeleteRuleTargets` and `CreateChangeLog` have no caller.
- Overlapping requests in `Router`: they are in `Ingest`, which `Router` implements.

## 6. Plan

Done: the delivery life cycle with its contract, ingestion, the configuration store, the retry
schedule, the rule engine, the composition with the metrics, and the proofs of section 4.
What is left, in order of importance:

1. `Router` with two overlapping requests, in a smaller instance (one target, no manual
   retry), for `CountersBacked` and `IngestKept`.
2. Runs for the pauses of README.md:12 and the checked variables of PROJECT_SPEC.md:79, which
   section 3 names without one; both need settings of `RetrySchedule` of their own.
3. A second store model in which single statements fail, for `Retry` passing over rows it
   cannot read.
