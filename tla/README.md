# Verification of the ModSecurity inspector

TLA+ models of the inspector in `src/` (a Go process that evaluates HTTP calls
with Coraza/CRS on behalf of a web application firewall), the TLC runs that check
them on small instances, and TLAPS proofs of the central properties for every
instance.

Run a model with `tlc -workers 2 -config X.cfg M` and a proof module with
`tlapm M.tla`, both in this directory; `PROJECT.json` lists the runs, the source
lines every definition stands for, and a mutation of the code for every property.

## The system

A call (request, response or WebSocket frame) arrives on a bus subscription, is
queued, evaluated by a worker against a compiled rule profile, and answered with
allow, score, deny, redirect or error.

| Part | State it keeps | Operations | Talks to |
|---|---|---|---|
| Work queue, `internal/queue` | a bounded FIFO, closed flag, counters; one mutex, one condition variable | Submit (drop or wait when full), pop, sweep, Close | called by the subscriptions' goroutines; calls the handler |
| Call handlers, `cmd/modsec` (`handler.go`, `response.go`, `frame.go`, `lists.go`) | none of their own | receive, evaluate, inspect, inspectResponse, inspectFrame, send | read the rule registry several times per call; use the body store, the engine, the geo service, the list writer |
| Kept transactions, `internal/sticky`, `resume.go` | transactions parked under a token, with an expiry | Park, Take, Drop, Sweep, Close | workers park and take, a subscription drops, a janitor sweeps |
| Transaction lifecycle, `internal/engine/apply.go` | an open Coraza transaction | Apply, ApplyKeep, Resume, Discard, ApplyResponse | Coraza |
| Rule generations, `internal/desired` | the Applied record, a pack waiting for a retry, three directories on disk | the select loop of Watch, FetchBlobs, Expand, Apply | the controller's KV bucket, the blob store, the rule registry |
| Rule registry, `internal/rules` | one atomic pointer to the compiled set | New, ReloadFrom, Select, PriorRules, Outcomes | written by the watcher, read by the workers |
| Neighbour asks and outcome rows, `internal/prior`, `internal/overload` | none | Evaluate, Fire, FireOverload, validation of `policy.yaml` | called by the handlers |
| Verdict, `internal/verdict` | none | From, Calibrate, ScaleScore | called by the handlers |
| Audit sink, `internal/audit` | a bounded buffer of events, a wake-up channel of one | Add, loop, flush, Close | filled by whoever answers a call; publishes on the bus |
| Body loader, `internal/body` | none | Load, LoadMany, finish | the body store |
| Engine adapter, `internal/engine/coraza` | none | convert, the lookup of the anomaly score, rule id ranges | Coraza |
| Start and shutdown, `main.go` | the order of it all | run | everything |
| Bus protocol, `internal/protocol` | none | Parse, the replies, Marshal | called by the handlers |
| Configuration, status map, probe | read once, or none | parsing and conversion | |

What is hard in it: the queue's one condition variable is shared by two kinds of
waiters and every path of the queue answers outside the lock; the transactions
that outlive a call are raced for by four kinds of goroutines and must be closed
exactly once (Coraza recycles them); a rollout is a sequence of file operations
during which the process may stop or an operation may fail; deadlines, expiry and
retries run against all of this; a generation may change between two reads of one
call; events are lost by design when the audit buffer is full; and a panic may
come before, between and behind the steps that answer. What must
hold, part by part, is the list of properties below; `PROJECT.json` ("hazards")
gives the line where each difficulty lies.

## Modules

| Module | Models | Checked by | Proved in |
|---|---|---|---|
| `Pool` | the work queue | `MCPool` | `PoolProofs`, `QueueProofs` |
| `Answering` | what the queue promises of a message; abstract | refined by `Pool` | `QueueProofs` |
| `Resume` | kept transactions: registry, handlers, releases, janitor, shutdown | `MCResume` | `ResumeProofs`, `SessionProofs` |
| `Sessions` | what the kept transactions promise; abstract | refined by `Resume` | `SessionProofs` |
| `Generations` | watcher, rollout on disk, start and stop of the process | `MCGenerations` | `GenerationsProofs` |
| `Packs` | what is in a rollout: profiles, blobs, files, load order | `MCPacks` | `PacksProofs` |
| `Judge` | one message from receive to its reply and audit event, with the registry changing under it | `MCJudge` | `JudgeProofs` |
| `Loader` | the objects of a call, as operators of `Judge` | | `JudgeProofs` |
| `Phases` | what a call reports of an engine transaction, as operators of `Judge` | | `JudgeProofs` |
| `AuditSink` | the audit buffer, its loop and their place in the shutdown | `MCAuditSink` | `AuditSinkProofs` |

The state machines share no variables; where two of them meet, each has the other
as a choice. `Resume` and `Judge` describe the same handlers from two sides:
`Resume` keeps what happens to the transaction and leaves the verdict to a choice,
`Judge` keeps the verdict and has the state of the transaction (live, lost,
rebuilt) as a form of the call. `Pool` sees both as a handler that is called, and
`Judge!Begin` takes what `Pool` hands over: a fill, and whether the call was
refused. `Judge!Swap` is what `Generations!ReloadOK` does to the registry. `Packs`
is the inside of what `Generations` has as `Fetch`, `hollow` and a written tree.
`Judge!AddEvent` is `AuditSink!Add`.

**Pool.** A section the code runs under `p.mu` is one action; what a goroutine
took out of the queue and has not answered yet is in `dead[p]`, the task it works
on in `cur[p]`. The queue is a set, and `ticket` (the value of `Accepted` at the
append) is the position. `left[t]` is what `waitLeft(t)` would return now; `Tick`
lets time pass for all tasks in flight. `cond.Wait` and its wake-ups are the set
`waiters`: a Signal removes any one of them, a Broadcast all. A timer is `armed`,
then `firing` (its callback has started, Stop comes too late), then `off`. The
entry check of Submit and the first locked section after it, the waiting loop,
pop, the budget check of work, the sweeper, and the three parts of Close (stop
channel, flag, Wait) are actions of their own. Submit's second look at the clock
is `AdmitTooLate`.

**Answering** has a place per message (new, waiting, queued, taken, running, late,
refused, and the three answers) and nothing of the machinery. It says what could
be argued about: room is refused only by a full queue that drops, an answer has a
true reason, a queue that is shut down has nothing left to evaluate. `Pool!Place`
reads the place off the goroutines.

**Resume.** A call opens at most one transaction, so a call is also the name of
its transaction. `item` and `life` are the registry, `live[w]` is the transaction
a worker owns, `todo[p]` what a goroutine still has to discard after it left the
registry's lock. The engine, the body store and the geo service answer as they
like. `Panics` is a panic of the handler at any point, in the engine or outside it:
the call is answered out of `recoverInto`, what is parked stays parked,
`Live.Resume` and the evaluations that close their own transaction do so by a
`defer`, and what else the handler had in hand (in `begin`, between `ApplyKeep` and
the Park, between Take and Resume) is `leaked`, because nobody holds it any more.
A call the pool sheds takes nothing.
`Terminate`, `Drained` and `CloseRegistry` are the shutdown of `main`: the pool's
Close first, the janitor's stop channel when `run` returns.

**Sessions** has a slot per token and a place per transaction: open, kept, taken,
resumed, forgotten, closed, leaked. Expiry, releases, replacement and shutdown are all one
freedom, to forget, and `Lose` is what a panic may do to a transaction that is in
somebody's hands; a transaction is handed on only from its token's slot, to a
response with that token.

**Generations.** A pack is sound, broken (written, does not compile) or hollow
(refused by Expand), and has settings or not (`Silent`); a directory holds a
pack's tree, nothing, or the remains of one (`Partial`). Each file operation of
`Apply` is an action with its failure, a removal may fail half-way, and `Stop` may
come between any two: a signal ends `main` without waiting for the watcher.
`Boot...` is `rules.New`, which prefers the data directory when it has a default
profile. A rename wants its target absent: Go's `os.Rename` refuses an existing
directory, an empty one too. `Faulty` says which kinds of file operations may fail, `faults` which
have.

**Packs.** Blobs are addressed by content, so a content is its own hash; the store
may answer with nothing or with another blob. File names are sequences of numbers
in the order of their characters, because the order of the names decides the order
in which the engine reads the rules; `Digits` writes the `%02d` in front of them in
base `Base` with `Width` digits at least, the remainders of the `Quotients` of
repeated division. An id is one character. `RuntimeProfiles` is a set of maps, one for
each order in which Go may walk the profiles.

**Judge.** Messages that are refused (`Receive`), and calls from the pool to their
reply. The registry is read where the code reads it and `Swap` may replace the
generation before every read. Objects come from `Loader`, which models Load,
LoadMany and finish against a store in which keys are missing, replaced or sealed
and in which GET, MGET or both fail. Outcomes come from `Phases`, which takes the
first interruption of the call's two phases, the matches of these phases and the
anomaly score under its several names from a transaction the engine may have left.
The score is integer arithmetic: `Calibrate` is exact, `ScaleScore` yields both
neighbours of a tie because the factor `1 + percent/100` is not exact in floating
point. Every policy comes from a constant set; `ValidPolicy` keeps out what
`loadFile` refuses. The loops over rows and asks are recursive functions over the
sequence (`Picked`, `Total`), one place at a time as the code goes. A list write
fails when its subject cannot be resolved; a failed `AddMany` is only logged by the
code, and without a list service nothing is written, so both are successes here.
`Recover` is a panic at any step, the one behind the publish included.

**AuditSink.** An event is its number. A section under `Sink.mu` is one action;
the wake-up comes after it (`Kick`), as in the code. `select` takes any case that
is ready. Workers leave before the sink is closed; the subscriptions' goroutines
are not waited for by anybody. `SizeOf` counts the bytes of the buffered events as
a set of (event, byte) pairs, which is what `sizeOf` adds up.

Times are abstract ticks, names and payloads are model values. Logging, wording,
audit details, and the registry's statistics are left out.

## What the runs check

| Run | Instance | Shows | Time |
|---|---|---|---|
| `pool_drop` | 3 tasks, 1 submitter, 1 worker, depth 2, drop, hung engine | every message counted once (`CountersAgree`), an honest `Fill` (`FillIsHonest`), FIFO (`ArrivalOrder`); with the engine hung the sweeper still empties the queue of what is late (`LeavesQueue`); the pool implements `Answering` (`KeepsPromise`) | 45 s |
| `pool_wait` | 3 tasks, 2 submitters, 2 workers, depth 1, wait | one owner and one answer per message (`TaskOwned`); the protocol of mutex and condition variable: bound, no lost wake-up, parked submitters face a full queue, a closed pool empties (`WakeProtocol`); `ClosedLeavesOnlySubmitters` | 15 s |
| `pool_live` | 2 tasks, 2 submitters, 1 worker, depth 1, wait | with workers and sweeper hung, Submit still returns (`SubmitReturns`); if they run and the engine returns, every message is answered and Close returns (`Answered`, `CloseReturns`) | 10 s |
| `resume_safe` | 3 calls, 2 tokens, 2 workers, limit 2 | one owner per open transaction and one Close (`TransactionOwned`); a response is judged on the state of its own request, once, or on nothing (`ResumesItsOwn`); apart from panics no transaction open or lost behind a reply without an offer, and none lost but by a panic that was answered (`NoOffersNoState`); nothing left after the stop (`StoppedRegistryIsEmpty`); the whole implements `Sessions` (`KeepsPromise`) | 110 s |
| `resume_live` | 2 calls, 2 tokens, limit 1 | the registry's bound; nothing stays parked or open, only a panic loses a transaction instead of closing it (`OpenCloses`) | 12 s |
| `gen` | 4 packs, 1 undelivered update, 1 stop, every kind of file operation fails | only compiled sets are served (`ServedCompiles`); the heartbeat names the one that is, and a late retry never overtakes a newer pack (`HeartbeatHonest`); the served tree is never lost (`LastGoodKept`); a published sound generation comes into service (`Converges`) | 95 s |
| `packs` | several hundred packs, lists of up to 4, digits of base 3 | what the engine reads is what was published, in the order of the lists (`ServedAsPublished`); FetchBlobs and Expand agree on what is needed (`FetchCoversExpand`); a well-formed pack is served in the end (`WellFormedIsServed`) | 6 s |
| `judge` | 3 phases, up to 2 asks of 5, 3 fills, 25 transactions, 10 stores, 3 policies that load | the score's scale (`ScoreScale`); asks that add up (`AsksAddUp`); list writes whose subject cannot be resolved are errors (`FailedWriteIsError`); rows fire where and on what they are meant to (`RowsAsMeant`); the batch read gives what single reads would, and only data with the recorded digest reaches the engine (`ObjectsFaithful`); one reply and one event (`OneReply`) | 75 s |
| `sink` | 4 events, 2 subjects, buffer of 3, batches of 2, 1 worker, 1 subscription | no event is lost uncounted and each subject keeps its order (`Conserved`); a full buffer never waits for the ticker, and what workers added is out before the end (`Flushes`); the buffer drains and Close returns (`Drains`) | 30 s |

The violations `pool_shutdown`, `resume_lost` and `gen_broken` are described below.
Deadlock is not checked: all these systems stop for good, a closed pool, a stopped
process, an answered call.

**Bounds.** Three tasks over two submitters and two workers give a queue with two
ends, a waiter and a racer, and a Signal that has somebody else to go to; a task in
excess of the depth finds the queue full. Deadlines give a task that is late at
once, one that a tick makes late, and one that survives it. Three calls over
two tokens and two places allow a replacement of a token, a refusal at the
limit, or a request and two responses that want the same state. Two sound packs
let one overtake the other, one of them without settings; the stop may come behind
any fault. The packs of `packs` mix a default, a volume, short and long names of
one profile, lists that are empty, name an unknown file or outgrow one digit, data
files called like a rule, a policy or an unsafe name. The transactions of `judge`
lie around the threshold (4, 5, 9, 10 for 5), with a missing threshold and one that
does not divide 100, and are interrupted in each phase; the asks reach past both
ends of the factor. Four events on a buffer of three are one to drop, two batches
and two subjects within a batch. Symmetry is used over interchangeable model
values, and never in a run with a liveness property.

**Fairness.** `Pool`: goroutines that can run do run, the mutex starves nobody and
time passes (weak fairness of each). `SubmitSpec` grants this only to the
submitters, their timers and time, and `pool_live` states what more it takes as a
premise of the property (`Scheduling`: workers, sweeper and Close; `Evaluating`:
the engine's return); `HungEngineSpec` grants everything but the engine's return.
Nobody is obliged to call Submit or Close. `Resume`: goroutines run, the engine
returns, the janitor's ticker ticks; nobody is obliged to send a call, a release,
or the stop. `Generations`: a stopped process is started again, the watcher runs,
`select` chooses at random among what is ready (strong fairness of `Receive`
against a retry that is always ready), and of infinitely many fetches one succeeds
(strong fairness of `Fetch`); nobody is obliged to publish. `Packs`: the same of
each of the two rounds of a fetch. `AuditSink`: goroutines run, the ticker ticks,
and `select` sees the stop in the end although the ticker may be ready every time
(strong fairness of that case).

Properties with a condition in their statement: `ScoreScale` has 50 at the
threshold for thresholds below 100, where rounding to a percent hides no whole
point of anomaly (CRS uses 5 and 4). `Converges` excepts a failed file operation,
which the watcher does not retry, and what a stop in the middle of a rollback
leaves behind, the finding below. `LastGoodKept` excepts the failure of a rename
that puts a tree back, and remains of a removal; `HeartbeatHonest` and
`ServedCompiles` except remains that a failed removal left, which a reload then
takes for a generation. `ServedAsPublished` has the order of a list for lists of at
most `Numbers` files (`Base` to the power of `Width`), 100 in the code: the 101st
file, "100-", sorts between "10-" and "11-". `FailedWriteIsError` is about subjects
that cannot be resolved. `NoOffersNoState` and `OpenCloses` hold apart from panics,
which may lose a transaction, and say that nothing else does.

### Where the code and its documents disagree

- `pool_shutdown`: `inspector.conf` says that every path answers. `Close` does not
  wait for a goroutine inside `Submit` that has collected expired messages, and
  nothing in `main` does, so these are not answered when the process ends there.
  `ClosedLeavesOnlySubmitters` says that this is the only way.
- `resume_lost`: a required resume whose state is gone is answered with `deny`,
  README.md says `error`.
- `gen_broken`: README.md says that a generation that does not compile is not
  applied. It is compiled after it became the live tree; a process stopped between
  the two finds it at its next start, prefers it to the image's profiles and does
  not come up.

Seen without a run of their own: README.md gives `at` of an overload row a range up
to 100, and at 100 `overload.Fires` does not look at the fill, so in wait mode a
request that saw a full queue is evaluated without such a row firing. A response
that is rebuilt evaluates its request's headers and arguments without the
request's body (`response.go:131`).

## What is proved

Every safety property and both refinements that the runs check are proved for
every value of the constants. The assumptions are the named ones of the modules:

- `PoolAssumption`: finite sets of tasks and workers, at least one worker, distinct
  goroutines, a positive depth, times that are numbers;
- `ResumeAssumption`: distinct goroutines, finitely many tokens, and `None` is
  neither a call nor a token;
- `GenerationsAssumption`: a pack is of one kind, and none of the values that stand
  for the image's profiles, remains or nothing;
- `SinkAssumption`: finitely many goroutines, positive limits, and an event of two
  bytes or more (its separator);
- `PacksAssumption`: at least two digits and one place, lists are sequences of ids,
  names of data files are sequences of characters and finitely many in a pack, a
  profile's name is a pair of how often the prefix stands in front and the rest,
  hashes are those of contents, the default profile is no volume;
- `JudgeAssumption`: rules and rows are sequences, an ask's delta and the TX
  variables are integers, a locator has one of the four forms of `Loader`.

**Pool.** `PoolProofs`:

- `TypeCorrect`: `TypeOK` with `ControlOK`, which says who has a task in hand at
  which label, who may be parked where and how far Close has come. It is inductive
  by itself. `FillRange` bounds the percentage.
- `OneAnswer`: `TaskOwned`, which is `OneOwner` and `AnsweredOnce` together. Neither
  is inductive alone: a task is answered once because it has one owner, and it keeps
  one owner because an answered task is nowhere.
- `NoWakeupLost`: `WakeProtocol`, which is `QueueBounded`, `ParkedMeansFull`,
  `ClosedDrains` and `NoLostWakeup`. One Signal per enqueue is enough only because
  submitters and workers are never parked at the same time with room in the queue: a
  submitter is parked only at a full queue, at which nothing is enqueued, so the
  Signal reaches a worker. With every queued task goes one awake worker; that count
  is what is inductive.
- `CloseDrains`: `ClosedLeavesOnlySubmitters`, from the three above.

`QueueProofs`, on top of these:

- `FirstInFirstOut`: `ArrivalOrder`, from `Tickets` (the accepted tasks have tickets of
  their own, none above the number accepted).
- `CountersExact`: `CountersAgree`. A counter is the number of tasks that have a
  status, and a step changes one task's status and one counter.
- `FillTellsTheTruth`: `FillIsHonest`, strengthened by `Filled`: a task that is
  about to be refused carries 100, and only the wait mode reaches the wait loop.
- `PoolImplementsAnswering`: `KeepsPromise`. By `TaskOwned` a pending task has one
  owner, so its `Place` is determined (`PlaceDetermined`); a step of the pool then
  moves one task, or several from one owner's hands, as an action of `Answering`
  does, or none.

**Resume.** `ResumeProofs!TypeCorrect`, `TransactionsOwned` (`TransactionOwned`:
`OneOwner`, `OpenIsOwned`, `ClosedOnce`) and `ShutdownEmpties`
(`StoppedRegistryIsEmpty`), all from one inductive invariant: types, `ControlOK`
(per worker, which call it evaluates and which transaction it owns at each label)
and the ownership, which is proved through four lemmas on what a step may do to it:
close or lose an owned transaction, pass one on, take some out of the registry, or
leave it alone. `SessionProofs`, on top:

- `ResumeIsFaithful` (`ResumesItsOwn`), `NothingKeptWithoutOffer`
  (`NoOffersNoState`) and `RegistryWithinLimit` (`RegistryBounded`). The invariant
  is `History`: whatever is parked, taken or still to be discarded was kept by a
  request that has offered it, or panicked behind its Park, under the token it stands
  under, and was handed to at most one response. `Lost` adds that a transaction is
  lost only by a call with its token that is answered out of a panic: no step but
  `Panics` loses one (`OnlyPanicsLose`), and an answer stays (`AnswerStays`).
- `ResumeImplementsSessions`: `KeepsPromise`, with the same argument as the queue's:
  ownership determines the place of a transaction, and every step moves places as
  `Sessions` allows.

**Generations.** `GenerationsProofs`: `TypeCorrect`, `WholeGenerationServed`
(`ServedCompiles`), `HeartbeatTellsTruth` (`HeartbeatHonest`) and
`RollbackKeepsLastGood` (`LastGoodKept`). Between two file operations of `Apply` the
tree to go back to is the live one, the previous one or none; `Former` says which,
for each step, and the invariant says that the set in service is the one of that tree
(`FormerServed`), that the directories hold what the step implies (`DiskOK`,
`JobOK`), and that the Applied record names the set in service (`AppliedServed`).

**AuditSink.** `AuditSinkProofs`: `TypeCorrect`, `NothingLostUncounted`
(`Conserved`) and `CloseFlushesWorkers` (`Flushes`). The batch in the loop's hands
is older than everything buffered (`BatchFirst`), a full buffer has a wake-up
pending, a goroutine about to send one, or a loop that is not waiting (`FullSeen`),
and the stages of the shutdown say who may still add (`Stopping`).

**Packs.** `PacksProofs`: `TypeCorrect`, `NothingLeftToFetch` (`FetchCoversExpand`)
and `PackServed` (`ServedAsPublished`). The invariant is that blobs are what they are
called (`BlobsOK`), that what a round of fetches needs is there behind it
(`Fetched`), and that manifest and trees are what Expand and writeTree make of it
(`Made`). `RuntimeProfiles` is one map whatever the order of the walk, because no two
names it keeps have one destination (`DestInjective`). That the engine reads the
rules of the list in its order is the longest argument, in four parts:

- a number below `Numbers` is written with `Width` digits, and of two such numbers
  the smaller one has the smaller digit in the first place where they differ
  (`DigitsOrder`, by induction over the divisions);
- `Before` is a strict total order on names (`BeforeIrreflexive`,
  `BeforeTransitive`, `BeforeTotal`), and the names of rule files sort like their
  numbers (`RuleFileOrder`);
- in a finite set of names the ranks are exactly the numbers below its size
  (`RankGrows`, `RankInjective`, `RankOnto`), so what `Loaded` chooses for each place
  exists, and is sorted (`LoadedSorted`);
- a rule file's name gives its id away (`SameRule`), so no other file of the profile
  is written over it with another text (`RuleText`), and the policy is no `*.conf`
  file (`FilesOf`).

`Quotients` and `Numbers` are recursive functions; that such a definition has a
solution is `Recursion`, proved by `SetInduction`.

**Judge.** `JudgeProofs` proves all of the run's invariants: `TypeCorrect`,
`ScoreOnScale` (`ScoreScale`), `AsksAddedUp` (`AsksAddUp`), `FailedWritesReported`
(`FailedWriteIsError`), `RowsMeanWhatTheySay` (`RowsAsMeant`), `ObjectsChecked`
(`ObjectsFaithful`) and `AnsweredOnce` (`OneReply`). One inductive invariant, in
parts: what each stage says of call and reply (`Control`), the objects in hand
(`Objects`), the running sum of the asks, cut once behind the last (`Asked`), the
score as the anomaly and the factor give it (`Scored`), the rows that fired with the
reason each has, of a policy that loaded (`Fired`), and what was published
(`Published`). The lemmas below it are about the operators: `CalibrateScale`,
`ScaleMoves`, `FromForm`, `ReportedForm`, `Checked`, `Loaded`, `AxisTaken`. `Total`
and `Picked` are recursive functions over sequences of any length; the induction
they need is `SetInduction`, which follows from `Least` (a set of numbers has a
least element), and that from the well-foundedness of inclusion among finite sets,
because the library's own induction theorems take an operator no installed prover
instantiates.

The invariants were checked with TLC, on the instances of the runs, before they were
proved.

Model-checked only: liveness (`Answered`, `CloseReturns`, `SubmitReturns`,
`LeavesQueue`, `OpenCloses`, `Converges`, `Drains`, `WellFormedIsServed`), because
the prover does not handle fairness.

## What is not modelled

The status map (a table read at the start), the configuration and its files
(decoding without later state; what `validate` demands are the assumptions on the
constants), the probe (a manual test client), the heartbeat's message, log
shipping, the details an audit event carries and the classification of targets for
it. Coraza itself: what its rules find is a choice. Of the outcome rows, what an
ask carries besides its verb and axis is one flag, whether it fits the verb. The
NATS client's own buffer, which drops messages when it overflows, is outside the
code. A panic inside a transaction's own Close and one of the release handler are
left out. An event
that a subscription's goroutine adds after the final flush is never sent; `Flushes`
says that it is the only kind.

## Plan

1. Done: the modules above, their runs, two refinements, and the proofs listed.
2. Left: nothing of what the runs check but liveness is without a proof. The parts
   that are only partly modelled are named above.
