# A verification project for samsara-components

TLA+ models of the components in this repository, model-checked with TLC on small
instances, and theorems about them proved with TLAPS for every value of the constants.

samsara-components is nine independent Go modules. Each wraps one driver or server
(RabbitMQ, Redis, PostgreSQL, SQLite, S3, gRPC client, gRPC server, Fiber, Prometheus)
as a *component* that the samsara supervisor runs: `Start(ctx, ready)` blocks until it is
asked to end, `Stop(ctx)` asks it and releases what it holds, `Health(ctx)` reports.
What can go wrong lies in how these calls, the goroutines they leave behind, the
operations that run meanwhile and the outside world interleave. That is what is modelled.

## 1. Inventory

| Component | State it keeps | Operations | Hard behaviour |
|---|---|---|---|
| `rabbitmq` lifecycle | `conn`/`ch`, `stopCh`, `runCtx`/`runCancel` under `mu`; `subs`, `exchanges`, `deadConsumers` under three further locks | Start, Stop, Health, DeclareExchange, Subscribe; a dial goroutine, a drain goroutine, a consumer goroutine per subscription, a closing goroutine per Stop | a registration races the Start that re-applies registrations; Stop at any point of a long Start; dial abandoned on cancellation or time-out; consumers dying while `deadConsumers` is reset; restart after a crash |
| `rabbitmq` retry pipeline | none of its own; the retry count is in a header, the delay in the expiration, the wait in a queue of the broker | handleFailure, republish, publish, `RetryPolicy` | copy and acknowledgement are two frames, perhaps on two channels; redelivery duplicates; boundaries of counts and delays |
| `redis`, `postgresql`, `sqlite`, `s3`, `grpcclient` lifecycles | one driver handle and `stopCh` under `mu` | Start, Stop, Health | Stop before, during and after the connectivity check; Stop's closing goroutine outliving it and overlapping the next run |
| `grpc` server | `server`, `serving`, `stopCh` under `mu` | Start, its context watcher, Stop, Health, (Register, AddOption) | two goroutines shut one server down; drain with RPCs in flight and a deadline; Serve failing by itself; watchers that outlive their run |
| `fiber` server | `app`, `stopCh`, `listening` under `mu` | Start, its watcher, OnListen hook, Stop, Health, App | shutdown before Listen took the socket; Listen failing after OnListen; watchers and drains that outlive their run |
| `prometheus` server | `server`, `stopCh` under `mu` | Start, the goroutine that serves, Stop, Health | a cancelled context leaves the server listening, so a restart meets its own port; Serve failing; concurrent Stops |
| operations of `redis`, `postgresql`, `sqlite`, `s3`; `rabbitmq` Publish | none; they read the handle | KV, DB, CommitTx, Storage, Publish, Health | the handle is closed or replaced during the call; pages, cursors, keys that come and go; a delete that is served in part |
| operation metrics | an optional sink | one report per operation | operations that call operations; errors that look like a missing handle |
| `prometheus` observer | collectors of the client library | observations | none: one atomic update each |
| configuration, TLS, fiber routes, errors, swagger | options | defaults, formatting, routing | none that a state machine shows |

**How they interact.** Components never call each other; each meets the *supervisor*,
a module of another repository. What the models assume of it, from how this repository's
code, documents and tests use it:

* it calls Start again only when the previous call has returned and its context is
  cancelled (`rabbitmq/README.md:236-245`);
* a nil return means the run ended as asked, anything else is a crash
  (`rabbitmq/rabbitmq.go:321`);
* it may cancel the context before, after or without calling Stop, and Stop may be
  called by several goroutines, before Start, or during it. The tests do each of these.

Inside a component, its operations meet Start and Stop over the handle: `HandleSlot` is
what the one promises the other.

**What makes each component correct.** Start ends when asked and returns nil only then
(all). No channel is closed twice (all). A handle an operation finds is open, and every
open handle has an owner (handles). Every registration is applied by exactly the right
run, and dead consumers are reported (rabbitmq). A message is kept until accepted,
dead-lettered only when earned, retried as often as allowed (retry). One graceful stop
per server, the port free afterwards, no RPC outliving the drain (grpc). The run that
serves is the one Stop, App and Health find, and Start leaves no app behind (fiber); a
bound port always has somebody to close it (prometheus). An iteration misses no key, a
call says ErrNotReady only of what it did not try, and it returns (operations). The hazards are listed line by line under `hazards` in `PROJECT.json`, with
the properties that guard against each, or a note where none does.

## 2. Modules

| Module | Models | Uses |
|---|---|---|
| `ComponentRuns` | the calls of Stop and the numbered runs of Start, common to the lifecycle models | |
| `SupervisedComponent` | the abstract contract with the supervisor: three phases, a request to end, an outcome | |
| `RabbitLifecycle` | `rabbitmq/rabbitmq.go` Start, Stop, Health; `rabbitmq/messaging.go` registration and consumers | `INSTANCE SupervisedComponent` |
| `RetryPipeline` | `rabbitmq/messaging.go` from the delivery to the republish, with the broker's queues | |
| `HandleSlot` | abstractly, what Start and Stop do to the one handle operations read | |
| `HandleLifecycle` | the five one-handle components, as profiles | `EXTENDS ComponentRuns`; `INSTANCE SupervisedComponent`, `HandleSlot` |
| `Operations` | calls of the operations of redis, postgresql, sqlite, s3 and of Publish, and their metrics | `EXTENDS HandleSlot` |
| `GrpcServer` | `grpc/grpc.go` Start, watcher, Stop, Health | `EXTENDS ComponentRuns`, `INSTANCE SupervisedComponent` |
| `FiberServer` | `fiber/fiber.go` Start, watcher, Stop, Health | the same |
| `PrometheusServer` | `prometheus/prometheus.go` Start, serving goroutine, Stop, Health | the same |
| `MCRetryPipeline` | the policies `RetryPipeline` is checked with | `EXTENDS` it |
| `MCHandles` | `HandleLifecycle` and `Operations` side by side | `EXTENDS HandleLifecycle`, `INSTANCE OperationsProofs` |
| `MCServers` | the three servers side by side | `EXTENDS GrpcServer`, `INSTANCE FiberServerProofs`, `PrometheusServerProofs` |
| `RabbitLifecycleProofs`, `RabbitConsumerProofs`, `RetryPipelineProofs`, `HandleLifecycleProofs`, `GrpcServerProofs`, `FiberServerProofs`, `PrometheusServerProofs`, `OperationsProofs` | theorems about the module each is named after | `EXTENDS` it and `TLAPS`; `HandleLifecycleProofs` and `GrpcServerProofs` by way of `MCHandles` and `MCServers` |

`MCHandles` holds one of five lifecycles or the calls of the operations, `MCServers` one
of the three servers: `kind` says which, and the others stay at their initial states. They
are put side by side because components do not interact, and the question of a run is
the same for all it holds. The state spaces add up and do not multiply. What `MCHandles`
and `MCServers` name of the modules they instantiate (`NothingMissed`, `PortOwned`, ...)
is their property under a renaming of variables; they instantiate the module with its
theorems, so that the last section of `HandleLifecycleProofs` and of `GrpcServerProofs`
can cite these for the composed behaviours. `GrpcStops` is a bound of the composition:
the calls of Stop that reach the gRPC server.

### State and actions against code

**One number for a run.** Run r of Start allocates `stopCh` r and context r and opens
connection, channel, handle, listener, app or server r. So `stopCh = 2` in a model reads
"the component holds the stop channel of run 2", and 0 is nil. `PreClosed` is the closed
channel Stop leaves behind (`stopCh = MaxRuns + 1`).

**One action per atomic step.** A step is one critical section, one blocking call, or
one select. The `select { case <-ch: default: close(ch) }` of Stop is two steps, the
test and the close, because nothing holds a lock over it (fiber's Stop does hold its
lock, and it is one). `start` is where the goroutine running Start is, `stop[p]` (in
`GrpcServer` and `FiberServer` `at[a]`) where a call of Stop is, `took[p]` what it took
out of the component in its critical section.

**RabbitLifecycle.** `StartBegins` is 291-313; `DialReturns`, `StartCancelledInDial`,
`StartDialTimesOut`, `StartDialDone`, `DrainDial` are the dial goroutine and the select
over it; `StartInstalls` opens the channel and publishes both; `StartCopiesExchanges`,
`StartDeclares`, `StartCopiesSubs`, `StartResetsDead`, `StartBinds` and their failures
are the rest up to `ready()`; `StartWakes` and `StartEnds` the end. A registering call
is `Register` (append to the slice), `ReadsHandle` (read `ch` and `runCtx`), then one of
`DefersToStart`, `AppliesLive`, `RejectedLive`. A consumer is a record: the
subscription, the channel it consumes on, the context it watches, who bound it.
`conn` and `chan` are the broker's view, which it may change at any time
(`BrokerDrops`, `BrokerCancelsConsumer`).

**RetryPipeline.** A message has copies, each in a queue, at a consumer, or on the wire
of a channel. `wire[r]` is the sequence of frames sent on channel r and not read yet:
the broker reads one channel's frames in order and different channels in any order,
which is what AMQP promises. A closing channel loses its wire and returns its
unacknowledged deliveries. The consumer goroutine's steps are `Takes`, the three
outcomes of the handler, `ReadsChannel` (publish reads `c.ch`), `Republishes`, `Answers`.
Durations are whole ticks, `Tick` of them to a millisecond; `Expiration` cuts a delay to
whole milliseconds, as republish does, so a delay below one is sent as 0. `Stamps` are
the counts a message may already carry when it is published: retryCount takes any
number, negative ones too.

**HandleLifecycle.** A profile says how many checks a handle has to pass before it is
published, whether Start closes one that fails, whether Stop closes anything (an S3
client holds nothing), and whether a check that the context cut short counts as a stop
(only `grpcclient` looks; the other four return the check's error). TLC chooses the
profile in the initial state.

**HandleSlot and Operations.** An operation is a record: its *form* (a single command, a
listing, a scan with a callback, list-and-delete, a transaction, a publish, something
local), its *gate*, where the missing handle is seen, which decides what the metrics
say, and the errors it may answer with. `tried` are the calls that have reached the driver. `Fetches` is `getClient` and its like; from then
on the call works with the handle it read, which `SlotNext` may meanwhile close or
replace. `Page`, `CallsBack` and `BatchEnds` are the loops of Scan, ScanFunc and
listKeys, `Deletes` and `DeleteFails` the request of deleteByPrefix, `Returns` the
deferred report. `store` is the set of keys the server holds, which others change.
`stayed` is history: the keys that were there all the time.

**GrpcServer.** Stop and the watcher of run r are both *closers*: they take what the
component holds, test and close a `stopCh`, and stop the server they took. The watcher
closes the channel of its own run, but takes whatever server the component holds.
Closing a closed channel sets `panicked`, after which nothing happens.

**FiberServer.** Closers again, with the difference that a watcher shuts down the app of
its own run, and Stop the one it finds. `StartBinds`, `StartAnnounces` and `StartAccepts`
are what happens inside Listen: the socket, the OnListen hook with `ready()`, and the
server's taking the listener. `ServeFails` ends Serve and Start and leaves the listener
open (`srv` is then `"broken"`). `ShutsDown` closes a listener only if the server has
taken it, be it still serving or broken; otherwise the closer is `missed`.

**PrometheusServer.** `ServeBegins`, `ServeEnds` and `ServeFails` are the goroutine that
calls Serve and tells Start through `errCh`; `StartWakes` is the select over `errCh`,
`stopCh` and the context, which for a cancelled context leaves the server as it is.
A port is free for a restart only when its listener is closed.

### What is assumed of libraries

From how the code uses them, and marked external or stated where it is used:

* fasthttp's ShutdownWithContext on a server that has taken no listener returns nil and
  does nothing; Listen returns as soon as the listener is closed, also while requests
  are drained. Its Serve returns a permanent error of Accept and does not close the
  listener it was given, while ShutdownWithContext on such a server still closes it.
* The Serve of net/http and of gRPC close their listener when they return.
* net/http's Shutdown closes the listeners that Serve has taken; a Serve that begins
  after Shutdown closes its listener and returns ErrServerClosed.
* gRPC's Serve on a stopped server closes its listener and returns an error; GracefulStop
  waits for RPCs in flight, Stop does not.
* DeleteObjects takes at most 1000 keys (`MaxDelete`), and a SCAN cursor or a truncated
  page leads to keys that were not passed yet. An S3 server that said a page is truncated
  and gave no token would make listKeys start over, for ever (`operations.go:192`).
* AMQP keeps the order of the frames of one channel and of nothing else.

### Left out

* Formatting, logging and the wrapping of errors, everywhere.
* Values of options; what matters of them is a choice (a check passes or fails).
* Register, AddOption and Use of the servers, which append under a lock to slices Start
  copies while it builds the server; the `serving` flag of the gRPC server, which changes
  together with `server`.
* The waiting of Stop for its closing goroutine: the goroutine goes on when Stop gives
  up, and nothing in a component waits for Stop. That goroutine's end is the end of Stop
  in the models.
* Time: a timer is a step that may be taken.

## 3. Runs

Every run finishes in minutes with two workers. `CHECK_DEADLOCK FALSE` is set
throughout: a component whose supervisor does nothing more has really stopped.

| Run | Question | Bounds, and why they are enough |
|---|---|---|
| `rabbit_restart` | Are topology and death reports right over a restart, with a Stop and a Subscribe at any point and a broker that drops connections, cancels consumers and rejects? | two runs, one Stop, one subscription: every race on `subs`, `ch` and `deadConsumers` is between one call, one run and the run before it |
| `rabbit_stops` | Does the protocol over `stopCh` keep the contract, end every run that is asked to, and never close a channel twice? | two Stops and two runs, no registrations: they do not touch `stopCh` |
| `rabbit_calls` | Is a Subscribe or DeclareExchange applied by somebody, and do consumers end? | one of each against one run and one Stop |
| `rabbit_dial_leak` | *fails*: a dial that succeeds after the time-out is never closed | one run |
| `rabbit_silent_death` | *fails*: the reset of `deadConsumers` erases the death of a consumer bound in the same run | one run, one subscription |
| `retry` | Where can a message be lost, when is it dead-lettered, how often retried, does it settle? | one message and five policies: two retries of growing delay, the first after half a millisecond (sent as 0); the zero policy, with three retries and all the defaults; one retry, its delay above the cap; no retries; no policy. Stamps from -1 up to the limit and above, so that a message has between none and four retries left. The first two run once (`Starts`): what they are for, counts and delays, needs many retries but no restart. The others run twice, so that a restart meets a retry and a dead-letter copy. Four copies: the message and three duplicates, enough for a redelivery to meet both at once; a publish that finds no free copy waits. The count of failures saturates one above what any property compares it with (`MaxFails`) |
| `retry_loss` | *fails*: a restart during a handler sends copy and acknowledgement over different channels | six copies |
| `handles` | Lifecycles: is the published handle open, every open handle owned, the contract kept, the slot implemented, for each of the five components? Operations: is ErrNotReady said only of what was not tried, does a listing miss no key, does a call return? | two Stops and three runs: a Stop's closing goroutine may span a whole run. One call of every operation over a slot of two handles, so that its handle may be closed and replaced; three keys, of which a request deletes at most two, so that a listing has several pages, pages may be empty, and a deletion may exceed the limit. What other calls do to the keys is what other clients do |
| `handles_after_stop` | *fails*: a Stop during the connectivity check leaves an open handle behind | two Stops, three runs |
| `servers` | Who shuts a server down, who owns its port, what does Health say, is the contract kept, do runs that are asked to end, end? | two runs with their watchers, one Stop for grpc (`GrpcStops`), two for fiber and prometheus: every closer meets another of its run and one of the other run |
| `grpc_double_close` | *fails*: Stop and the watcher close one channel twice | one run, one Stop |
| `grpc_lost_stop` | *fails*: a Stop that comes before the server is published is lost | the same |

What the passing runs show, property by property, is in the comment above each one in
its module. Some that need a word:

* `TopologyRestored` speaks of calls that returned nil. A rejected registration stays in
  the slice and makes later Starts fail, which the model does too. It says that a
  registration was applied to this run, not that its consumer is still alive.
* `StartBoundDeathVisible` is the part of the documented promise that holds: deaths of
  consumers that Start itself bound, all after the reset. `DeathVisible`, which also
  speaks of consumers Subscribe bound, fails in `rabbit_silent_death`.
* `KeptOnOneChannel` names the one case in which a message may be lost (`lost`, or
  `Crossing` while it is still on the wire); `NothingLost`, without it, fails in
  `retry_loss`. So the loss found there is the only one.
* `Settles` excludes a message of which a copy is lost; without that it is false, and
  `retry_loss` shows why.
* `RetriesBounded` is for undisturbed runs. With redeliveries AMQP delivers more often.
  It counts from the stamp: a message published with a count of -1 fails once more.
* `RetryCopiesDelayed` allows an expiration of 0 where a duration of the policy is below
  a millisecond: such a retry is made at once.
* `CancelledRunsEnd` (grpc) excludes a Stop that came before the server was published;
  that case is `grpc_lost_stop`.
* `HttpRunsEnd` is `AskedRunsEnd` of fiber and of prometheus. Fiber's excludes, by the
  name `Missed`, a shutdown that came before the server took its listener: it has no
  effect and nobody repeats it.
* `ServingIsPublished` (fiber) excludes the `listening` flag after Serve broke, which
  stays; Health then fails at its probe. The socket stays bound then, too, and the
  property says for how long: until the run's watcher, or a Stop that took the app, has
  shut the server down (`Attended`). In two cases nobody will: the shutdown came too
  early (`Missed`), or a Stop after Serve broke found no app and released the watcher.
  `HealthyIsBound` (prometheus) excludes Health after Serve broke, which answers nil.
* `PortOwned` (prometheus) says that a port left bound keeps an owner, not that it is
  free: a restart after a context that was cancelled without a Stop fails to bind.
* `OpenHandlesOwned` allows one handle to stay open by name: a restart without Stop
  publishes a handle over that of the previous run.
* `NothingMissed` says of DeleteByPrefix that what it leaves the server refused
  (`refused`): the code does not look at the errors of single keys, and no property
  does. With more than `MaxDelete` keys the request can only fail, which the property
  allows: it speaks of calls that end well.
* `NotReadyUntried` is about handles that go away in the middle of a call: DeleteByPrefix
  of `s3` reads the client a second time, a Stop may come between the two reads, and
  whatever is read again must be read before the first request. `"foreign"` is the
  ErrNotReady of a caller's own callback, body or cause, which it excludes.

`KeepsContract` is a refinement: each lifecycle module maps its state to phase, asked and
outcome and implements `SupervisedComponent!Spec` step by step, with `MayCrash` true for
the servers, whose listener may fail after `ready()`, and `MayInterrupt` true for the
handle components: except in `grpcclient`, a connectivity check that the cancelled
context cut short makes Start return its error, the outcome `"interrupted"`, where the
contract has nil. `KeepsSlot` is the second one:
`HandleLifecycle` implements `HandleSlot`, over which `Operations` runs, so that what is
shown of the operations holds over any of the five lifecycles.

### Fairness

Weak fairness of each goroutine (Start, each Stop, each watcher, each serving goroutine,
each call, the consumers of each run): the Go scheduler runs what can run. It rests on
every blocking call ending: a dial and every connectivity check run under
`ConnectTimeout`, a drain ends at its deadline, a request ends with its context, handlers
and callbacks return. Fair too are, for `Settles`, the broker's reading, delivering and
expiring. Nobody is obliged to call Start, Stop or Subscribe, to cancel, to publish, or
to break anything, and an accepting handler is never required. `Settles` assumes that in
the end one run goes on undisturbed, as its formula says: under endless restarts a
message may be redelivered for ever.

### Findings

The violation runs show behaviour that the code has and a document, comment or test of
the repository rules out; `findings` in `PROJECT.json` quotes both sides. In short:

1. `rabbitmq.go:331`: the time-out branch does not drain the dial goroutine; a late
   connection stays open.
2. `rabbitmq.go:379`: resetting `deadConsumers` in the middle of Start hides a death.
3. `messaging.go:336`: after a restart the copy and the acknowledgement travel on
   different channels, and a message can be lost.
4. `redis.go:297`, and the same line in four other components: a handle is published
   after Stop is done.
5. `grpc.go:307`: Stop and the watcher can both close `stopCh`, a panic.
6. `grpc.go:269`: a Stop before the server is published is lost, and a later
   cancellation too.

More disagreements have no run of their own. A property of a passing run excludes each
by name, but for the last, of which no property speaks:

* `fiber.go:418`: a shutdown that arrives before the server has its listener is lost,
  while the comments at 403-404 and 413-415 expect it to end the run (`Missed`).
* `prometheus.go:246`: after Serve failed, Start returns with `server` set and Health
  answers nil (`HealthyIsBound`).
* `redis.go:84-87`, `postgresql.go:65-68`: the sink is told that ErrNotReady comes with a
  zero duration; one that a ScanFunc callback or the cause of CommitTx returns does not
  (`"foreign"`).
* `redis.go:292`, and the same check in `postgresql`, `sqlite` and `s3`: when the context
  is cancelled during the connectivity check, Start returns the error of the check, while
  `sqlite_internal_test.go:211-214` says that a cancelled context must produce nil because
  the supervisor takes anything else for a crash (`MayInterrupt` of `KeepsContract`).
* `fiber.go:441`: after Serve failed Start returns and closes nothing, so the socket stays
  bound until the watcher's shutdown, or for ever (`Attended` of `ServingIsPublished`).
* `grpc.go:348`: after Serve failed Start returns with `server` and `serving` set, and
  Health answers nil, against `grpc.go:407-408`, "returns a non-nil error if the server
  is not currently serving".

## 4. Proofs

All theorems hold for any set of `Stoppers` (finite or not) and any `MaxRuns` in
`Nat \ {0}`; those about RabbitMQ also for any disjoint sets `Subs` and `Exchs`, those
about the operations for any `Callers`, `Keys` and `MaxDelete`. These are the modules'
`Assumption`, and nothing else is assumed; `OperationsProofs!TypeCorrect` states its one
assumption, `MaxRuns \in Nat`, itself. Those about the retry pipeline hold for any `Msgs`,
any `Policies` (fields of zero and below, which the code replaces, included), any bounds,
and any `Stamps` that fit the int32 republish writes, negative ones included. Those are
`PolicyAssumption`; a stamp or a limit beyond int32 would wrap in the header, and is left
out.

Each module proves `TypeCorrect`, `Spec => []TypeOK`, first, with a lemma per group of
actions, then one or two strengthened invariants, and from these the properties. The
strengthenings were checked with TLC on the instances of section 3 before they were
proved. The refinements take each action to one of the contract's: `AsideStep` for
everything Start does not notice, `ReturnsStep` for every return.

**`RabbitLifecycleProofs`**: `StopIsConcurrencySafe` (`NoDoubleClose`), `NilIsAnAnswer`
(`NilOnlyWhenAsked`), `ImplementsContract` (`KeepsContract`), from

    StopInv == TypeOK /\ StopChannels /\ NoDoubleClose /\ EndingAsked /\ NilOnlyWhenAsked

`NoDoubleClose` is not inductive: from it alone, nothing keeps two Stops from holding
one channel, both about to close it. `StopChannels` supplies what the critical section
of Stop guarantees: a stop channel is in the component or was taken by exactly one Stop;
what is closed was taken; and channels of runs to come (`> run`) are in nobody's hands,
so the fresh channel of the next Start is open. `NilOnlyWhenAsked` needs `EndingAsked`:
between waking and returning, Start remembers only that it is ending, and the reason has
to be carried along. Steps that leave the protocol alone are one lemma, `StopInvFrame`.

**`RabbitConsumerProofs`**: `ShutdownIsSilent` (`StopNeverMarksDead`), from `DeathInv`;
`DeathsAreReported` (`StartBoundDeathVisible`) and `RegistrationsAreApplied`
(`TopologyRestored`).
The comment at `rabbitmq.go:438-441` gives the one-run argument: Stop cancels, then
closes, so a consumer that sees its deliveries end finds its context done. It is not
enough over restarts: when a run crashes without Stop, `ch` still holds the old channel
while `runCtx` is already the next run's, so a Subscribe may consume on channel 1 under
context 2, and a Stop cancels only the one context it found. `DeathInv` says why this is
still safe: every context but the current one is done (`RunContext`), so whatever Stop
finds covers all consumers on the channel it took, and all that a call in progress may
still start there (`StopCancels`). The proof first states what a step may do to each part
of the state (`Effects`, one lemma per group of actions), then derives each part of the
invariant from those effects alone.

`DeathsAreReported` adds `Reported`: while Start sets up, nothing it bound watches this
run's context; from the reset of `deadConsumers` on, nothing forgets a death. Consumers
that `Subscribe` bound are outside it, and finding 2 is why.

`RegistrationsAreApplied` adds `Restored`. The two sides of the race look at different
times: Start copies the slices long before `ready()`, a call appends first and reads
`ch` and `runCtx` later. While the run is up (channel installed and open, context not
done), a call that is over is applied, or is in what Start has still to copy or to go
through; a call in progress is one of these, or read the channel and context of this
very run, and then it cannot defer. A call that read anything else did so before the
channel was installed, hence appended before Start copied.

**`RetryPipelineProofs`**: `TypeCorrect`; `DelaysKept` (`RetryCopiesDelayed`),
`DeadLettersAreEarned` (`DeadLettersEarned`), `MessagesKept` (`KeptOnOneChannel`),
`RetriesAreBounded` (`RetriesBounded`).

* *Delays.* `Rounds` is the loop of `RetryPolicy.backoff` as a recursive function. What
  is proved is that a delay never exceeds the cap, is never 0, is not below a millisecond
  when backoff and cap are not, and is never shorter than the one before, for every
  policy and every number of rounds.
  The library's induction theorems take an operator and cannot be cited; the least
  element of a set of numbers (`LeastNatural`, from the well-foundedness of `<`) gives
  induction over sets (`InductiveSet`) and with it that the recursive function exists
  (`Recursion`). `DelaysAreGeometric` says what the loop computes, for every policy and
  every retry: the growth the fields of `RetryPolicy` document, Backoff scaled once for
  each subsequent retry and capped. The loop leaves at the first delay that reaches the
  cap, which is right only because no multiplier is below 1 (`GrowthStaysAbove`).
* *Bookkeeping.* `BaseInv` says what may speak of what: a frame is on the wire of an open
  channel, and is the only one there that names its copy; a publish names a copy on its
  way over this channel, an answer one that is held on it; and what a goroutine works on
  is held, as it was delivered, and not answered, unless its channel closed meanwhile.
  All the rest builds on it: reading a frame changes the one copy it names.
* *Dead letters.* `EarnedInv` carries the count along: what a copy, or the delivery a
  goroutine works on, counts is no more than the stamp and the failures of its message;
  whatever is on its way to the dead-letter queue was given up by the handler or failed
  too often.
* *Keeping.* `KeptInv`: a sent message is finished or lost, or crosses between channels,
  or has a copy that no frame makes an end of (`Safe`), or one whose replacement is
  published ahead of the answer on the same wire (`Backed`). That order on one wire is
  what `handleFailure` gets by publishing before it acknowledges; when a restart puts the
  two on different channels only `Crossing` is left, which is finding 3.
* *Bound.* `OnceInv`: in an undisturbed run a message has at most one copy that no frame
  and no goroutine has answered, nothing is requeued, and a message has not failed more
  often than this copy counts above its stamp, nor more often than it has retries left
  (`RetriesLeft`) before its next failure.

**`HandleLifecycleProofs`**, for the five components at once: `StopIsConcurrencySafe`;
`PublishedIsOpen`, `ServingIsConnected` and `OpenIsOwned` from `HandleInv`;
`ImplementsContract` and `ImplementsSlot`. The three handle properties depend on each
other and on `Fresh`: until a run publishes its handle, the component does not hold it
and no Stop took it. So the closing goroutine of an earlier Stop, however late, cannot
close or clear the handle of a later run. `ImplementsSlot` needs besides that what a Stop
is about to close is open.

**`GrpcServerProofs`**: `ServersStopOnce` (`OneGracefulStop`) from `ServerInv`, whose
`Numbered` says that servers of runs to come are in nobody's hands; `StartReleasesPorts`
(`PortReleased`) and `StopLeavesQuiet` (`StoppedIsQuiet`) from `PortInv`, which adds who
watches which run, what is installed, and that a server a closer is done with has
drained; `ImplementsContract` from `ChannelInv`. The watcher of a failed run may take and
stop the server of a later one, so a server that was stopped proves nothing; but Start
then waits for its own `stopCh` or context, and `ChannelInv` says that a channel which is
closed belongs to a run that its context or a Stop asked to end.

**`FiberServerProofs`**: `ServingStaysPublished` (`ServingIsPublished`), from `ServerInv`
and `Guarded`, and `ImplementsContract`, from `ServerInv`:

    ServerInv == TypeOK /\ Taken /\ Held /\ Bound /\ Served /\ Answered

`Taken` says that a watcher has only ever the app of its own run, and only when its
context is cancelled; `Answered` that whoever drains the server of the serving run was
asked to, which makes a nil of Listen an answer. `Bound` and `Served` say which server
has a bound port: the one that serves, or one that broke in a run that returned an error.
That somebody attends to the latter needs who watches what and which `stopCh` is closed:
`Guarded` says that as long as its server is not shut down a run's watcher waits, is
shutting down, has missed it, or found `stopCh` closed, and that what closed it was a
Stop that took the app or found none.

**`PrometheusServerProofs`**: `StopIsConcurrencySafe` from `StopInv`, as for RabbitMQ,
but `stopCh` is replaced only once the port is bound, so a run that has not published
has none; `PortsAreOwned` and `HealthTells` from `ServerInv`, which pairs a server with
its stop channel (`Paired`), so that a Serve ended by a Stop is the answer to a Stop of
this run; `ImplementsContract` from both.

**`OperationsProofs`**: `ListingsMissNothing` (`NothingMissed`) and `NotReadyIsUntried`
(`NotReadyUntried`), from `OperationInv`: for each call, the keys that stayed are in what
it found, in its batch or still to come (`Kept`), and until its last read of the handle
it has not called the driver (`Untried`). `Beside` shows that other calls and clients disturb
neither, so the theorems cover any number of concurrent calls, where TLC runs one.

**The compositions.** `EachPartBehaves` (in `HandleLifecycleProofs`) and
`EachServerBehaves` (in `GrpcServerProofs`) are refinements: every behaviour of
`MCHandles!MCSpec` is one of `HandleLifecycle` and one of `Operations`, and every
behaviour of `MCServers!MCSpec` one of each of the three servers, because a step of one
leaves the variables of the others unchanged. So the theorems above hold of what TLC
runs. Those about properties that `MCHandles` and `MCServers` name are stated for
`MCSpec` too: `ComposedListingsMissNothing`, `ComposedNotReadyIsUntried`,
`ComposedServingIsPublished`, `ComposedPortsAreOwned`, `ComposedHealthTells`,
`ComposedStopIsConcurrencySafe` and `HttpImplementsContract`.

## 5. Model-checked only

* Liveness (`AskedRunsEnd`, `ConsumersEnd`, `AbandonedDialClosed`, `CancelledRunsEnd`,
  `HttpRunsEnd`, `CallsReturn`, `Settles`): fairness and `ENABLED` are out of the prover's
  reach.
* That the powers of `DelaysAreGeometric`, which are multiplied up one by one, are those
  of `^`, of which the provers know nothing: TLC evaluates `BackoffIsGeometric`, the same
  statement with `^`, on the policies `Shapes`.

Every invariant and every action property of the passing runs is thus a theorem, for
every value of the constants, of the specification its run checks or of one which that
specification implements.

## 6. Not modelled

* Configuration and TLS: defaults applied where an option is read, and the building of
  driver options; no state.
* Fiber's routes, middleware, error handler, helpers and swagger: stateless handling of
  one request at a time.
* The prometheus observer: each observation is one atomic update in the client library.
* The transfer manager behind `s3` uploads: parts, concurrency and retries are the SDK's;
  `Upload` hands it the whole body and reports what it says.
* The inside of a transaction: CommitTx decides between commit and rollback and passes on
  an error; the state it acts on is the driver's.
