# percentes: TLA+ models, model-checking runs and proofs

percentes measures hosted large-language-model endpoints. A *release* runs a
ladder of request rates against every route of every model over a window of
scheduled cells, under spending caps, and publishes what it saw. The value of
the result rests on a protocol: nothing is sent without a reservation, nothing
that was sent is forgotten, no attempt runs twice, a run that was disturbed
never counts, and what is published is what the records say and what every
provider was told. This directory holds models of that protocol, the TLC runs
that check them, and TLAPS proofs.

## Inventory

| part | state it keeps | operations | what is hard | what makes it correct |
|---|---|---|---|---|
| admission ledger (`internal/admission`) | an append-only file of hash-chained lines, shared by all processes; an exclusive `flock` during an update | Create, State, RecordPrice, RecordHosting, Admit, AdmitAt, Settle | several processes, crashes inside a write, failed syncs, power loss, stale prices | caps hold at every admission; every request sent is charged; the file stays readable |
| ceiling rule and ceiling check (`admission/ceiling.go`, `probe/release.go`) | records of the checks sent to each host | CeilingRule, Covers, CheckPublished; CheckCeiling, ChooseCeiling, Verify | boundary arithmetic on limits and caps; checks sent again, blocked or stopped half-way | admitted steps are a prefix within half of every limit; a host runs at a ceiling on its own evidence |
| schedule (`internal/schedule`) | a derived table, frozen in a file | New, Load, Runs, Rerun | seeded draws, spacing of routes | slots distinct, spaced and inside the window |
| configuration (`internal/config`) | none | Parse, validation, published form | rules over several fields, NaN, header patterns that overlap | an accepted file gives the runner what it takes for granted; no confidential value in its published form |
| route start (`route.go`, `ledger.go`, `schedule.go` of `cmd/percentes-release`) | configuration, key, ledger, schedule | create, price, schedule, newRoute, limitsStop | edits and prices between two starts; a price command that dies between its two lines | a route's steps stay those of one verdict; a cell runs only where it is priced |
| load generator (`internal/loadgen`) | requests, tripwire atomics, ladder record, the stop's time | pacer, one goroutine per request, step verdicts, safety stop, report | goroutine interleavings, compare-and-swap loops, a stop racing a dispatch and a drain | nothing dispatched after the stop; verdicts complete; tripwires exact; the run returns |
| stream client and scoring (`sse`, `sse_client.go`, `evidence/attempts.go`, `score`) | one response | Events, execute, the attempt's record, Score | streams cut after any event, errors in the band, two adapters | the class and the score follow from what the body held |
| release route process (`route.go`, `cell.go`, `stops.go`, `close.go`) | nothing in memory: cell records, manifests and attempts files on disk | loop, state, runCell, retain, labelCell, windowClose | crashes and restarts anywhere, errors after partial writes, re-runs recomputed at each turn, two causes cancelling one ladder | no attempt runs twice; re-runs bounded and stable; pages accept what is left; the window closes |
| start records (`evidence` clock, refresh, operator, balance; `cell.go`, `close.go`) | withheld values in memory; clock, refresh and operator records | cellStart, refresh, balance, windowClose, retainedReads | prices that move while a command runs, files rewritten between two readings, restarts | a cell starts on records of its own; nothing withheld is published |
| cell evidence (`internal/evidence`, `report/replay.go`) | frames, attempts, manifest and record of a cell | retain, labelCell, WriteHostedPair, Check | a death or failure between any two files | a manifest says what its files hold |
| dispatch series (`dispatch.go`) | a file per cell, rewritten every second while it runs | start, dispatched, flush, stop, wait for others, aggregate | processes of several routes reading each other's files | the host's sum misses no dispatch silently |
| publication (`pages.go`, `pack.go`, `publish.go`, `evidence/publication.go`) | pages, packs, notices, the publication record | pages, pack, publish-check | pages built again after a notice; working days | a route is published as its provider was told, in time |
| pilot session (`internal/pilot`, `cmd/percentes-pilot`) | a record per session, development attempts | plan, session, replace, abort, finish, dev | several commands waiting for one slot | a session is never run again; its record is of the process that ran |
| orchestrator and injectors (`internal/orchestrator`) | an armed fault, its observed fire and expiry | Arm, Observed, Execute | polling, ssh and kubectl failing, superseded arms | what is reported fired and expired really did |
| run and campaign (`internal/run`, `internal/campaign`) | results of runs, halts | run once, run a variant, write partial reports | injector and generator in parallel, halts | no run is scored that the validity gates refuse |
| detector (`internal/detect`) | none | recovery detection | off-by-one at window edges | agreement with its definition |
| mock server (`internal/mock`) | armed faults, in-flight streams | arm, fire, expire, serve | timers racing requests | a fault window affects exactly its streams |
| collect and validity, calibrate | none | incidence, gates, a capacity ramp | floating-point thresholds | not modelled |
| reports, statistics, support | none | rendering, numeric summaries | numerics, text | outside TLC's reach |

Parts interact through files and calls: the route process calls the ledger
(AdmitAt, Settle), the probe and the generator (Run, with callbacks OnEpoch,
OnDispatch, OnDone), and other route processes read its records and dispatch
series; the ledger file is shared by every command; the pages command reads
what all of them left, and publish-check what pages made and what was mailed.

## Modules

| module | models | state and actions |
|---|---|---|
| `RequestBudget` | what an admission ledger promises: a number of requests charged, never above a cap, never below what was sent | `Reserve`, `Spend`, `Release` |
| `AdmissionLedger` | `internal/admission/ledger.go` | the file's whole lines (`file`), an incomplete last line (`torn`), the synced prefix (`durable`), the flock (`lock`), each process's place, request, bytes read, admission and checked price; one action for each step of `update` and `append`, each of which may fail, plus `Crash` and `PowerLoss`; `wire` counts what was really sent |
| `AdmissionLedgerProofs`, `LoadGenProofs`, `ReleaseRouteProofs`, `ProcessKillProofs`, `MockFaultsProofs`, `PilotSessionProofs` | proofs about the module each is named after | the inductive invariant, the lemmas and the theorems |
| `SetUpProofs`, `EvidenceProofs` | proofs about `SetUp` and `Evidence` | a section for each component, then the theorems about the composition |
| `LoadGen` | `internal/loadgen/loadgen.go`, `execute` of `sse_client.go` | the pacer (`pc`, `step`, `next`), one program counter per worker (`w`), the tripwire's atomics one by one, the stop (`cancelled`, `stopNs`), verdicts; one action per atomic operation |
| `ReleaseRoute` | `route.go`, `cell.go`, `stops.go`, `close.go` | cell records (`rec`, `began`), attempts files, manifests, admissions, the price revision, the close record, and the process (`pc`, `cell`) that any crash resets; one action per file written or decision taken |
| `ProcessKill` | the process-kill campaign: `processkill.go` and `main.go` of `cmd/percentes-campaign`, `campaign.RunWith`, `run.Execute`, `orchestrator.Execute`, `ProcessKillInjector`, `KillInit`, `ProbeRecovery` | the container (`container`, external), the runner (`pc`, `run`, `before`, `prevAfter`, `invalid`), the goroutines of one run (`load`, `orch`, `inj`, `probe`) on one clock (`now`), the report (`rows`, `status`); one action per command, poll, probe attempt and error return |
| `MockFaults` | the mock's fault engine (`faults.go`), `handleStream` of `sse.go` and the admin endpoint | fault records (`rec`), the active fault, the number of changes for the channel closed at each, and one program counter per stream; one action per lock section or wait |
| `CeilingRule` | `admission/ceiling.go` | operators: the demands and costs of a step, the verdict, its published form (a demand as a `float64`) and what `CheckPublished` reports of it (`Problems`) |
| `CeilingCheck` | `probe/release.go`, `ceiling.go`, `readCeilingProbes`, `sameCeiling` | the records on disk (`recs`) and what each host's process started with (`ran`); `CheckCeiling` sends a host's requests and writes a record, `StartRoute` reads records and chooses |
| `Schedule` | `internal/schedule/schedule.go` | operators: the window, attempts, offsets and the checks of New, Load and Rerun |
| `ReleaseStart` | `ledger.go`, `schedule.go`, `newRoute`, `limitsStop` | configurations, key, ledger, schedule file, processes and cells; an action for each command, for each edit the operator may make between commands, and `PriceDies` between a price command's two lines |
| `Configuration` | `internal/config` | operators: the validators, the response headers that are recorded, the published form |
| `PilotSession` | `internal/pilot/schedule.go`, `cmd/percentes-pilot` | any number of session commands (`procs`) that meet in the output directory (`out`), development attempts (`dev`); an action per check, wait, window, abort and death |
| `StreamClient` | `internal/sse`, `execute` of `sse_client.go`, `evidence/attempts.go`, `internal/score` | operators on a response: events, adapters, class, record, score |
| `DispatchSeries` | `dispatch.go`; `retain`, `labelCell`, `concurrent` of `cell.go` | the cell of each route: process, record and series file; an action for each count, flush, reading of another's file, and `Crash` |
| `CellEvidence` | `runCell`'s files, `retain`, `labelCell`, `evidence` manifest, frames, gaps and release check, `report/replay.go` | each file of a cell's directory, the frame store with the copies beside it (`frames`), and the process (`mem`); a step writes one file, and may fail or be the last |
| `Publication` | `pages.go`, `pack.go`, `publish.go`, `evidence/publication.go`, `pack.go` | days, cells and closes of a route, pages, mail, the publication; an action per command and per thing sent |
| `StartRecords` | `cell.go` (start checks), `close.go`, `evidence` command, clock, refresh, operator, balance | the operator file, the process with what it withholds (`proc`), the retained store (`disk`); an action per host command, per record, and `Crash` |
| `Detector` | `detectFrom` and `entryVerdict` of `internal/detect/detect.go` | the input and the detection of one call; the algorithm as recursive functions |
| `Sums` | the sum loops of `dispatch.go`, `gaps.go` and `State.Total` of the ledger | operator: the sum of a stretch of a function, as a recursive function |
| `SetUp` | composes `CeilingRule`, `Schedule`, `Configuration`, `CeilingCheck`, `ReleaseStart`, `PilotSession` | the initial state picks one *subject*, a rule with its input or a machine, and only that subject moves |
| `Evidence` | composes `StreamClient`, `DispatchSeries`, `CellEvidence`, `Publication`, `Detector`, `StartRecords` | the same |
| `MCPilotLedger`, `MCReleaseLedger`, `MCLoadGen`, `MCReleaseRoute`, `MCSetUp`, `MCEvidence` | values of the constants for TLC | |

The subjects of `SetUp` and `Evidence` share no state; each property is about
one subject. They are put together so that a small number of runs gives every
component its model-checked instance, and so that the properties a run checks
are the ones the theorems are about.

### Abstractions

* *Digests.* SHA-256 and HMAC are taken as injective: a file's digest is its
  content, and with a key the pair. In the ledger a digest of the preceding
  bytes is the sequence of preceding bodies.
* *Texts.* A text is the set of confidential values it carries. That the code
  finds a value in each form a number may be written in is not modelled.
* *Numbers.* Prices, limits and rates are integers (rates in quarters of a
  request per second, which makes the pinned ladder exact). `Detector` compares
  ratios of integers where the code divides floating-point numbers. A
  configuration's float may be NaN. `CeilingRule` compares exactly, as the
  code does with `big.Rat`, and publishes through `Float64`, a parameter: the
  proofs ask of it only that it does not round a demand across its limit or
  half of it (a limit is a `float64` itself, and so is its half), and the run
  has floats of eight bits.
* *Draws.* The numbers a schedule's seed gives are any numbers, so the
  properties hold for every seed.
* *Ledger.* The traffic classes of a count are one total. In `ReleaseRoute`
  the ledger is each cell's admission and the route's price revision
  (`AdmissionLedger` says why that is enough); in `PilotSession` its answers
  are any.
* *Generator.* The clock is a counter advanced by every reading, a response is
  one of `Classes`, and the skew, processor and garbage-collection gates pass
  or fail freely while the gate on unsent requests is computed.
* *Cells.* `ReleaseRoute` keeps of a record what later decisions read and lets
  the checks before an admission pass or fail; `StartRecords` computes those
  checks, `CellEvidence` what the files of one cell hold and `DispatchSeries`
  what it reads of other routes.
* *Start.* `ReleaseStart` has two steps and a stand-in for the ceiling rule,
  which `CeilingRule` has in full.
* *Cell files.* What `NewManifest` is given from outside the cell's directory,
  an operator file without confidential values and what the route gives
  `checkCell` (run, schedule, ceiling, probes and `CheckPublished` of the
  verdict), holds or not (`Terms`). Which value is confidential is in
  `StartRecords`.
* *Publication.* A page is what it is generated from. A cell that ends counted
  has its manifest; that a manifest passes `CheckRelease` is `CellEvidence`'s
  subject, and one that fails it, which stops `pages`, is left out here.
* *Pilot.* The `--local` mode of a session (`session.go:369-372` and `395`),
  which drops the slot's tolerance and the wait for endpoints on a loopback
  address, is for tests and left out.
* *Start records.* Prices move and the operator file is rewritten in the phases
  in which some later step reads them; the clock advances where a start, a
  request or a rewritten file is dated. A clock that is set back is left out.
* *Process kill.* A process is the number of the container's start, times are
  ticks with the order of the code's constants (the fire, the kill's timeout
  of 10 s and its wait delay of 1 s, the orchestrator's 5 s of slack, the
  probe round and the injection tolerance, of which nothing is assumed, the
  fault window, the run's end), a fire's time is kept doubled so that a
  midpoint is a number, and the pins,
  the fingerprint, the later reads and the gates G1 and G2 pass or fail
  freely. The fire a run reports is not the signal's time: it is the midpoint
  of two stamps that the script takes before and after the kill, at any times
  before and after it, converted by a clock offset that is off by up to
  `MaxSkew` (`RemoteFire`), or the local midpoint when a stamp is missing
  (`LocalFire`). A run that is reported publishes an uncertainty
  (`FireUncertainty2`): half the bracket, and what the offsets measured before
  and after the run give, which is at least the error when the true offset
  moved one way between the two (`ClockBound`). `hits` is history: the
  processes that died while a kill command aimed at them was under way.
* *Mock.* The number of changes stands for the channel, each timer is late by
  at most `Late`, and the pacing of a stream is a sleep or none.

## Runs

| run | checks | bounds |
|---|---|---|
| `pilot_ledger` | readability of the file, reservations held while sending, no append after a torn line, refinement of `RequestBudget` | two processes, two routes, five lines: two priced routes and two competing admissions, of which one must be refused |
| `release_ledger` | liability caps, every request charged, admissions at the price that was checked, with two prices, hosting costs and an overrun of one | two processes, one route, five lines: a price may rise between a snapshot and its admission, and an overrun settle before the next admission |
| `ladder` | the generator's stop, verdicts, tripwires, report and termination | two steps of two requests (one a warm-up), limits 1 and 2, one further connection per request, goroutines starved past the drain's timer |
| `route_window` | never twice, re-runs stable, pages accept, records final, the window closes | two cells with second attempts, one re-run, two price lines, one fault anywhere |
| `route_cell` | what counts, what a credential stop rests on | three attempts, probes ok or 401, ladders with 401, EMFILE and mismatches, one fault |
| `route_billing` | (violated) `runCell`'s comment on billing refusals | one cell |
| `process_kill` | no crash passes for the kill, restart counts chain, replica_ready is the new process's where the published fire and its uncertainty allow no other, no kill outlives its run (and the orchestrator outwaits it), the campaign ends | two runs, halting or not, one crash of the container anywhere, every command failing or not, a clock offset one tick off either way, a probe round no longer than the tolerance |
| `mock_faults` | handlers see what the records say, one piece escapes a window at most, admitted streams run their own count, no lost wake-up | one stream of three pieces (handlers share nothing but the engine), two windows of every pair of modes, adjacent or not, timers one tick late |
| `set_up` | `VerdictSound`, `ScheduleSound`, `ConfigurationSound`, `ChoiceSound`, `StartSound`, `SessionsSound` | ceiling rule: limits of every dimension at the float nearest to what each of the five steps demands and at the one below, caps at and one below it, two prices, two sets of ladders, floats of eight bits; schedules of 3 to 15 days and 1 to 19 routes, so one more than fits of each; pilot dates with draws that collide; header lists of up to two entries and every pair of pilot parameters; two hosts with up to four ceiling records; one route with three ledger lines, three edits and two starts; one session, its reserve and two commands, beside two development attempts of three configurations |
| `evidence` | `AttemptsSound`, `SeriesSound`, `EvidenceSound`, `PublishedWasNoticed`, `DetectionSound`, `RecordsSound` | every response of up to three events for both adapters; two routes, one dispatch each, one death; five results of a ladder with two deaths or failures at any step, a copy beside the frames included, on a target with a confidential limit; one route over five days with a day off, two cells and two mailings; every series of six buckets of load 0 or 2, windows 1 and 2, holds 0 and 2; two cells and two processes of a route with three prices, five refresh outcomes and four operator files |
| `concurrent_runs` | (violated) the comment of the test of concurrent runs | two routes, one death |
| `label_crash` | (violated) the architecture document on an interrupted cell | one cell, one death |

In the route runs a fault is a crash of the process, or an input/output error
of any of its steps. One is enough for each property to be violated by the
mutants of the code listed in `PROJECT.json`; two were also checked for
`AuthStopsAreRepeats`. A billing refusal is in `route_billing` only, since the
four ladder events together are too many states for `route_cell`: that a counted
cell saw none rests on the theorem `CountedAlwaysSound`, and on a run of
`route_cell` with a billing refusal in place of the mismatch, which also passes.
In the ledger runs faults are unbounded. Deadlock is
not checked in the ledger runs, where a ledger whose disk is full (`MaxLines`)
or torn stops for good, and in `set_up` and `evidence` with the two violated
runs of the latter, whose subjects end: a rule with its result, a machine at
its bounds.

Several properties are conjunctions of what used to be said separately, and
their comments name the parts: `KillInItsRun` includes that the orchestrator
outwaits the kill command, `VerdictComplete` that a passed step was not
tripped, `DetectionSound` the first held entry, the finality of a
non-recovery and the count of episodes, `RecordsSound` the start on own
records, the search of what is published and the acceptance of the close.

Fairness. `LoadGen!FairSpec` assumes that goroutines run, that the stop's
goroutine runs once the context ends, and that every request ends (each has
its own deadline, `execute`); nobody need cancel. `ReleaseRoute!FairSpec`
assumes that the clock and the process run and that an operator starts the
process again when it ended: the code leaves that to the operator
(`windowClose`: "the process's next run tries again"). `ProcessKill!FairSpec`
assumes that the runner, the orchestrator, the load generator, the injector
and the clock go on, which their timeouts give; nothing is assumed of the
container or of the probe, which the run leaves after 10 s. `MockFaults!Spec`
assumes that timers and handlers run; a client need not leave. The other
machines are checked for safety only.

### What the violated runs show

* `route_billing`: the cell's context keeps its first cause; a documented
  billing refusal that arrives after an EMFILE error does not stop the route,
  against the comment of `runCell` (`cell.go:58-60`).
* `concurrent_runs`: the record of a cell whose process died never gets an end,
  and `concurrent` takes the asking cell's end for it, so every later cell of
  another route lists it, against the comment at `route_test.go:225`.
* `label_crash`: `WriteHostedPair` writes the manifest before and after the
  report pair; a process that dies in between leaves a cell that `state` does
  not label again (it has a manifest) and that `pages` refuses, against
  `docs/ARCHITECTURE.md:1414`.

### What the properties leave open

Behaviours that modelling met, that a comment of the code could be read
against, and that no property of a run claims either way:

* `runLadder` looks at its context while it paces and drains; a stop that
  arrives while it waits for the step's last requests leaves the step with a
  verdict, against the comment of `StepRecord` (`loadgen.go:249-250`).
* Two dispatches over the in-flight limit may store their time in the opposite
  order (`loadgen.go:354`), so the one reported need not be the first
  (`loadgen.go:215-216`).
* A window's expiry timer starts at its fire and planned windows are what `arm`
  compares, so of two adjacent fault windows the second may fire while the
  first is active (`faults.go:55-56`). `EngineAgrees` shows what happens then:
  the newer window rules the handlers and the late expiry leaves it alone.
* "A pilot has at most one replacement" (`session.go:266-267` of `cmd/percentes-pilot`) is checked before
  the wait for the slot: two reserves that both wait both run.
* A verdict's demands are compared exactly and published as `float64`
  (`ceiling.go:349-352`); `CheckPublished` compares the published number
  (`ceiling.go:281-284`), so it refuses the row of a failed confidential test
  whose demand was rounded down to the bound (a `spend_window` limit of 0.3
  and a demand of exactly 0.15, which is above half of the `float64` 0.3).
  `VerdictSound` says that this is the only row of the rule it refuses, and
  the model reaches it.
* A copy beside the frames that fails leaves the store in the manifest
  (`cell.go:366-381`), which the completeness check then refuses for the copy
  (`release.go:273-295`), and `pages` with it. `EvidenceSound` says that
  such a cell's record is never counted, and the model reaches it.
* The architecture document asks for operator records "rewritten after the
  command started" (`ARCHITECTURE.md:522`); the code compares seconds, and takes
  one rewritten in the second the command started (`operator.go:217`).
* What a cell's refresh command read is kept with the cell's manifest. When the
  process dies before that, the next one does not know the value and cannot
  withhold it (`retainedReads`); `RecordsSound` speaks of retained cells.
* A cell that died counts as running to the end of the second of its last
  request (`pages.go:382`). A window close begun within that second is refused
  and never written again; `RecordsSound` excepts this case.
* The validity gate compares the reported fire with the tolerance of 500 ms,
  not with the fire's uncertainty, and the probe's second attempt comes 500 ms
  and a request after the planned fire. A valid run whose fire, with its
  uncertainty, reaches that attempt can record an inference of the old process
  when a probe failed for another reason before the kill; the model reaches
  it. `ReadyIsNew` is about the other runs, and which they are can be read
  from what a run publishes.
* `RestartsChain` does not cover a run whose predecessor could not be inspected
  afterwards: the runner then has no count to compare with.
* A load generator's error ends the run with the kill still armed; it may fire
  until the process exits. `KillInItsRun` shows that no other run is then under
  way, because the error ends the campaign.
* A crash inside `Create` leaves an empty file that no operation accepts and
  that `Create` does not replace (`ledger.go:448`).
* The lateness of a run is checked before the wait and not after it
  (`route.go:763`), so a host suspended meanwhile starts a cell late.
* Each poll of the mock admin injector's status overwrites the observed fire
  (`orchestrator.go:82`); that injector is not modelled.

## Proofs

Eight modules hold proofs. For each of `AdmissionLedger`, `LoadGen`,
`ReleaseRoute`, `ProcessKill` and `MockFaults` every invariant that a run checks
is a theorem of the specification, for every value of the constants that the
module's assumption allows, and so are the two action properties
(`TornStopsLedger`, `RecordsFinal`) and type correctness. Each module states an
inductive invariant `IInv` and proves `Init => IInv`, one lemma for each part of
`IInv` that every step preserves it, `Spec => []IInv` (`Inductive`), and the
results from that. TLC checked every `IInv` on small instances before it was
proved.

`SetUpProofs` and `EvidenceProofs` are about the subjects of the runs `set_up`
and `evidence`: of their twelve invariants ten are theorems of `SetUpSpec` and
`EvidenceSpec`. A machine has an inductive invariant as above, with one lemma
for each action, which the composition keeps because only the chosen subject
moves (`SetUpStep`, `EvidenceStep`); a rule has a lemma about every input
(`VerdictHolds`, `ConfigurationHolds`, `ScheduleHolds`), and the composition
keeps that the result is the rule's (`RulesGive`). `PilotSession` has a proof
module of its own, of which `SetUpProofs` cites an instance. What a part asks of
its constants or inputs is a definition of its module (`SessionConstants`,
`RuleInput`, ...); `SetUp` and `Evidence` assume all of them (`Hypotheses`), and
TLC evaluates that assumption on every run.

These theorems reach over recursive functions without an induction theorem of
the library: `MinIs` picks the least element of a set of numbers by
well-foundedness, `Climb` and `Descend` are induction up to and down from a bound
on the *set* of numbers reached, and `Recursion` shows that the function a
recursive definition chooses exists, which its equations then describe.

### The admission ledger

`AdmissionLedgerProofs` covers any number of processes, routes, prices, caps and
lines: `TypeOK`, `Readable`, `AdmittedWithinCaps`, `SendersHoldReservations`,
`SentIsCharged`, `AdmittedAtCheckedPrice`, `TornStopsLedger` and
`ImplementsBudget`. The assumptions
are those of `checkCaps` and the types of the bounds (`CapsAssumption`,
`BoundsAssumption`). `IInv` adds

* `ProtocolInv`: a process that has read the file holds the lock alone and its
  buffer *is* the file, so what it decides on the buffer applies to the file
  it appends to (`WriteFacts`); the file of a process in Create is empty;
* `ReservationInv`: a process's admission is open and its own, and synced once
  it sends, so a power loss never takes it; a pending settlement carries the
  count that was sent;
* `WireInv`: requests were sent only under synced admit lines, and every settle
  line carries its admission's count;
* `SnapInv`: the price a caller checked is the file's for as long as the
  revision it read is, and a revision that moved on never comes back
  (`PriceAppend`).

The argument is: `DecideApplies` (a callback's line may follow the lines it
was decided on, and is within the caps), `AppendKeeps`/`AppendChecks`
(appending leaves every earlier line's check alone) and `PrefixChecks` (so does
cutting).

The refinement of `RequestBudget` (`LedgerImplementsBudget`) is of ledgers with
a request cap whose runs keep within their reservations (`Budgeted`: an overrun
is charged when it is settled, so what was sent passes the charge until then).
The charge and what was sent are sums over the file's lines; `BudgetInv` says
that *every prefix* of the file is within the cap, because a power loss may
leave any prefix that was synced. `StepRefines` maps each step: an append
reserves or releases, a request sent spends, everything else stutters.

### The load generator

`LoadGenProofs` covers any number of requests and steps, any limits, any number
of further connections and any interleaving of the pacer, the workers' atomic
operations and the stop, ladder or pilot window (`ScheduleAssumption`: requests
are numbered in the order of their steps and warm-ups belong to the first):
`TypeOK`, `NoDispatchAfterStop`, `VerdictComplete`, `TripwireExact`,
`UnsentExplained`. `IInv` adds

* `StopInv`: every reading of the clock is one dispatch or the stop, a request
  has its time from the moment it leaves the read lock, and nobody is inside
  after a stop;
* `PacerInv`: the pacer has spawned all of the earlier steps and none of the
  later ones;
* `CountInv`: the counter is the number of workers that are up, and when the
  maximum is below the peak, the worker that made the peak is still raising it:
  this is what a lost compare-and-swap would break;
* `WireInv`: what passed a limit is recorded or has a worker about to record
  it, and what is recorded happened;
* `VerdictInv`, `EndInv`: what an ended step and an ended pacer leave behind.

### The release route

`ReleaseRouteProofs` covers any number of cells, any second attempts, any bound
on re-runs, any number of faults and price lines (`WindowAssumption`: a route's
runs start at different times, its cells in order, a second attempt after the
first, as `schedule.New` builds them): `TypeOK`, `NeverTwice`,
`RerunsStand`, `PagesAccept`, `CountedIsSound`, `AuthStopsAreRepeats` and
`RecordsFinal`. The process keeps nothing over a restart, so everything has to
follow from the records:

* `LogInv`: the records that began are the ones there are, each once, with one
  probe at most;
* `CellInv`, `PathInv`, `RetainInv`, `LadderInv`: the cell in progress is the
  last record, and what it has written at each place;
* `RerunInv`: a re-run is begun only when it is taken and every first attempt
  before it is final. A later record can then not displace it (`TakenStays`),
  because a first attempt that ends now comes after it (`FirstComesLast`);
* `ProbeInv`: probes went out in the order in which the records began, and only
  an interrupted record omits its probe;
* `AuthInv`: a stop for a status has behind it a probe whose predecessor saw it
  too. The code reads the predecessor from the records; `AuthFaultIsRepeat`
  shows that what it finds there is the probe that was sent before.

The steps are first grouped by what they do to the records and the cell
(`Steps`), so that a part of the invariant has one case per group rather than
per action.

### The process-kill campaign

`ProcessKillProofs` covers any number of runs and crashes, any error of the
clock offset and any times with `TimesAssumption`: the kill command's wait
delay is shorter than the orchestrator's slack, as the code's constants are.
`TypeOK`, `KillIsTheFault`, `RestartsChain`, `ReadyIsNew`, `KillInItsRun`. For
`ReadyIsNew`, the signal is within the published uncertainty of the published
fire, so a fire that ends before the second attempt had killed its target by
then. `ClockBound` is the arithmetic behind the uncertainty. The properties are about rows already reported;
`IInv` says what the parts of a run know of each other meanwhile: where the
runner is and that only its run has an injector (`PhaseInv`), how far the kill
has come, by when, and what became of its target (`KillInv`), what the probe may
have seen by which time (`ProbeInv`), the restart count the run is measured
against (`ChainInv`), and the rows (`RowsInv`).

### The mock's faults

`MockFaultsProofs` covers any number of windows and streams, any modes and
delays, and timers late by less than half a window (`WindowsAssumption`; the
mock's windows last seconds, its timers are late by scheduling): `TypeOK`,
`EngineAgrees`, `OnePieceEscapes`, `ExemptRunsItsCount`. `IInv` adds

* `RecordInv`: records are armed in order and each fires and expires once;
* `WindowInv`: planned windows that are not over do not overlap, timers are
  late by at most `Late`, and of two active records the later is the engine's.
  The earlier one then expires before the later one can;
* `StreamInv`: where a handler is when the window fires bounds what it still
  writes (`Piece`), and its plan and its own count what it wrote (`Count`).

### The pilot's sessions

`PilotSessionProofs` covers any labels, slots, processes and `MaxGap`:
`SessionsSound` (which `SetUpProofs` states of the composition), and the action
property `NeverRerun` (no step takes a session's record from the process that
created it or changes one that exited 0). `IInv`
says that the record of a process that runs names it (`Owned`), which the
exclusive create gives and only the owner's replace could break; that the times
of its windows are in the order of the clock (`Timed`); that a session that
exited 0 left the record it had, and its process runs it no more (`Exited`).
`DatesFit` is about `NewSchedule`: for any freeze, last date, excluded dates
and numbers drawn the dates are distinct, eligible and before their reserves.
Its core is `NthIs`: the k-th of a pool of dates is one of them and no two k
give the same, by counting the dates below.

### What is settled before traffic

`SetUpProofs`:

* `StartIsSound` (`StartConstants`: prices, dates, limits and tokens are
  integers). A process's verdict is a function of what the schedule froze
  (`Decided`), and the ledger the schedule names only grows, so it covers that
  verdict for ever (`Covered`, `CoversGrows`); another ledger has another open
  line.
* `ChoiceIsSound` (`CheckConstants`: the two ceilings differ, a response with
  a stream has a status). Every record agrees with its requests and every host
  that ran did so on records that are still there.
* `VerdictIsSound` (`RuleInput`: counts, tokens and prices are natural
  numbers, and rounding does not cross a limit). `ceiling.go` says that "every demand rises with the step"; this is
  `CostsRise` and `DemandRises`, and with it an admitted step has every lower one
  admitted (`AdmittedBelow`), so the steps a route runs are the ones judged. Of each
  row that is published, `RowsAgree` compares the rounded demand with the exact
  one.
* `ConfigurationIsSound` (`Decoded`: what decoding a file may give, with NaN
  where the file has a float). Of a mock's fault windows the rule compares
  neighbours in an order by start; `LaterStartsAfter` and `OneFaultAtATime`
  show that then no two of them overlap.
* `ScheduleIsSound` (`ScheduleInput`). The shuffle is a permutation of the
  offsets (`ExchangeKeeps`, `ShuffleIs`), an attempt's slot is inside its date,
  and the offset with the run's length and tolerance is inside the slot. The
  part about the pilot's dates is `DatesFit`.

### What a run leaves behind

`EvidenceProofs`:

* `RecordsAreSound` (`RecordConstants`). A cell starts on records read in its own
  phases (`StartInv`); the process that publishes withholds every value the
  cells retained (`Knows`), and a cell without a manifest retained nothing
  (`Unread`); the close comes after every cell (`TimeInv`, `ClosedInv`). The
  hypothesis that a value names its limit (no public limit has the value of a
  confidential one) is needed: the code searches texts for values.
* `PublicationIsNoticed` (`PublicationConstants`: days are integers). What was
  mailed is dated (`MailInv`), and the check itself compares the pack with what
  was sent; the proof is that days and windows leave no gap between them.
* `SeriesIsSound` (`SeriesConstants`: the routes are finite, a second has a
  tick; and `NoneIsNoRecord`, below). `HostInv` has three parts. `CellInv` is
  about each cell alone: what it has at each stage (`StageInv`), that it sends
  between its start and its end and counts at most `Lag` late (`SentInv`), and
  that its file counts every dispatch before the time the file says it is
  complete to, and only dispatches (`SeriesOf`). `Listing` says that a route
  missing from a cell's list sent nothing while the cell ran. `SumInv` says
  what a finished sum holds. The arithmetic is that a sum over routes of sums over seconds is the
  sum over seconds of sums over routes (`SumsExchange`), so the check's total
  agrees with its sources.
* `EvidenceIsSound` (`EvidenceConstants`, and `NoneIsNoRecord`: the value that
  stands for a missing record has no fields, which TLC cannot evaluate of a
  model value). `ResultAgrees` is what the load generator promises of a result,
  and TLC evaluates it on the run's five results. That a gap histogram passes
  `CheckGaps` against the attempts file is proved from one part of it, that a
  completed request keeps one gap per content event but the first (`GapsCheck`:
  every gap falls in exactly one bin, `PartitionSum`). The invariant follows
  the files a process has written at each place (`FreshInv` to `ManInv`), the
  copies among them, and an error of any of these until the record is written;
  `CountedGates` and `StepGates` show that the gates a manifest carries are the
  ones the release check recomputes.
* `DetectionIsSound` (`DetectorConstants`: a window is a second or more), for a
  series of any length. The scan exists (`ScanExists`, from the last bucket
  down) and, by induction down from the last bucket, finds the first held entry
  of those at or after i (`ScanFindsFirst`): a dip at j rules out every entry
  from the candidate to j, so resuming after j skips none (`DipEnds`). For the
  finality of a non-recovery, `ExtendedIs` gives the sums of a window of the
  run gone on, and `BestCase` shows that entryVerdict's bound, at the mean load
  seen, is that window when the load is constant. `EpisodesAre` gives the
  loop's flag a closed form (`EpisodeOn`), from which the count follows.

### What is model-checked only

* Liveness (`RunReturns`, `WindowCloses`, `CampaignEnds`, `StreamsEnd`): it
  rests on fairness, which is outside the prover.
* `AttemptsSound`: it is about folds over the events of a response, which need
  induction over data.
* That the instances are not empty: a proof says nothing of whether a state is
  reached. The runs' mutants do.

## Not modelled

`PROJECT.json` lists every component with its status. Left out:

* text: flag parsing, YAML decoding, the forms of a number in a text, page
  rendering and wording;
* numerics: floating-point statistics, the values of the generator's gates,
  incidence and validity, the calibration ramp;
* input and output proper: HTTP, key files, ssh and host queries, the canary,
  the shape findings of a probe, the open-file limit;
* the rehearsal, which runs the route's code against the mock, the
  stand-alone tool `naivesweep`, the dry kill, the clean-delete runner and an
  interrupt's cancellation of a campaign;
* the pilot-window mode of `LoadGen` (`IsLadder = FALSE`), which the module has
  and the proofs cover, and which no run exercises.

That a route has one process at a time is assumed (`README.md:295` of the
repository asks for it; nothing enforces it).

## Plan

1. The rest of the Phase 0/1 instrument: the mock admin, pod-deletion and
   partition injectors and the clean-delete runner; equilibrium and deficit,
   incidence and validity rules, the calibration ramp.
2. The proof that is left: the responses of `StreamClient`, whose events are
   read by a recursive function (`ReadEvents`) through five definitions each.
