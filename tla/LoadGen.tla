------------------------------ MODULE LoadGen ------------------------------
(***************************************************************************)
(* One run of the open-loop load generator (internal/loadgen): the pacer   *)
(* that spawns one worker per scheduled request and, for a release run,    *)
(* climbs the ladder step by step; the workers, each of which takes its    *)
(* dispatch time under stopMu, counts itself in the tripwire's atomics and *)
(* ends; and the goroutine that stamps a safety stop.                      *)
(*                                                                         *)
(* Clock readings are ranks: clock is the number taken so far.  Waits end  *)
(* at any time, which covers every delay of the scheduler.  A response is  *)
(* its class: a completion, a 429 or another error.  The tripwire's two    *)
(* times are set alike; only OverInFlightNs is kept.                       *)
(***************************************************************************)
EXTENDS Integers, FiniteSets

CONSTANTS
    N,            \* scheduled requests, 1..N in dispatch order
    K,            \* ladder steps; 1 for a run with no ladder
    StepOf,       \* request |-> its step, ascending
    Warmups,      \* the warm-up requests, all of step 1
    Limit,        \* step |-> its in-flight limit
    IsLadder,     \* a release run
    Starved,      \* goroutines may be held up past a step's drain
    Classes,      \* how requests may end
    MaxFurther    \* further connections one request may take

Reqs == 1..N
Steps == 1..K

ASSUME ScheduleAssumption ==
    /\ N \in Nat \ {0} /\ K \in Nat \ {0} /\ MaxFurther \in Nat
    /\ StepOf \in [Reqs -> Steps] /\ Limit \in [Steps -> Nat]
    /\ \A i, j \in Reqs : i <= j => StepOf[i] <= StepOf[j]
    /\ Warmups \subseteq {i \in Reqs : StepOf[i] = 1}
    /\ Classes \subseteq {"completed", "429", "errored"}
    /\ Starved \in BOOLEAN
    /\ IsLadder \in BOOLEAN /\ (IsLadder \/ K = 1)

VARIABLES
    pc,          \* the pacer: pace, drain, wait, join, reported
    step,        \* the step it is in
    next,        \* the next request to spawn
    w,           \* where each request's worker is
    at,          \* DispatchNs, 0 until dispatched
    class,       \* how each request ended
    further,     \* further connections each request took
    n, m,        \* start's locals: the count it made, the maximum it loaded
    clock,
    cancelled,   \* the context has ended
    stopNs,      \* 0 until the stop is stamped
    dispatches, inFlight, maxInFlight, extra, over, overNs,
    verdict,     \* each step's verdict
    count429,    \* each step's Status429
    interrupted, \* Result.Interrupted is set
    peak,        \* history: the most requests ever in flight at once
    firstOver    \* history: DispatchNs of the first to exceed its limit

pacer == <<pc, step, next>>
counts == <<dispatches, inFlight, maxInFlight, extra, over, overNs>>
record == <<verdict, count429, interrupted>>
history == <<peak, firstOver>>
vars == <<pacer, w, at, class, further, n, m, clock, cancelled, stopNs, counts,
          record, history>>

InStep(k) == {i \in Reqs : StepOf[i] = k}
Measured(k) == InStep(k) \ Warmups
Status429(k) == {i \in Measured(k) : class[i] = "429"}

\* Workers that hold a WaitGroup count.
Running == {i \in Reqs : w[i] \notin {"unspawned", "skipped", "done"}}

\* Requests between dispatch and terminal state.
Flying == {i \in Running : at[i] # 0}

\* Mutant: the stop is stamped without the write lock.
ReadersIgnored == {}

\* Workers that hold stopMu's read lock.
Readers == {i \in Reqs : w[i] = "admitted"}

\* Mutant: the in-flight limit is left out of fired.
FiredExtra == extra

Fired == extra \/ over

Init ==
    /\ pc = "pace" /\ step = 1 /\ next = 1
    /\ w = [i \in Reqs |-> "unspawned"]
    /\ at = [i \in Reqs |-> 0]
    /\ class = [i \in Reqs |-> "none"]
    /\ further = [i \in Reqs |-> 0]
    /\ n = [i \in Reqs |-> 0] /\ m = [i \in Reqs |-> 0]
    /\ clock = 0 /\ cancelled = FALSE /\ stopNs = 0
    /\ dispatches = [k \in Steps |-> 0]
    /\ inFlight = 0 /\ maxInFlight = 0
    /\ extra = FALSE /\ over = FALSE /\ overNs = 0
    /\ verdict = [k \in Steps |-> "none"]
    /\ count429 = [k \in Steps |-> 0]
    /\ interrupted = FALSE
    /\ peak = 0 /\ firstOver = 0

----------------------------------------------------------------------------
(* The safety stop: a caller cancels the context at any time; the AfterFunc *)
(* goroutine then stamps stopNs under the write lock.                       *)

Cancel ==
    /\ ~cancelled /\ pc # "reported"
    /\ cancelled' = TRUE
    /\ UNCHANGED <<pacer, w, at, class, further, n, m, clock, stopNs, counts,
                   record, history>>

StampStop ==
    /\ cancelled /\ stopNs = 0 /\ Readers = {}
    /\ clock' = clock + 1 /\ stopNs' = clock + 1
    /\ UNCHANGED <<pacer, w, at, class, further, n, m, cancelled, counts,
                   record, history>>

----------------------------------------------------------------------------
(* A worker.  Goto moves it and leaves the rest of the run alone.           *)

Goto(i, s) == w' = [w EXCEPT ![i] = s]
world == <<pacer, cancelled, stopNs, record>>

\* The wait ends because the context did, or execute finds the stop closed.
Skip(i) ==
    /\ w[i] = "waiting" /\ cancelled
    /\ Goto(i, "skipped")
    /\ UNCHANGED <<world, at, class, further, n, m, clock, counts, history>>

\* execute takes the read lock and finds the stop open ...
EnterDispatch(i) ==
    /\ w[i] = "waiting" /\ ~cancelled
    /\ Goto(i, "admitted")
    /\ UNCHANGED <<world, at, class, further, n, m, clock, counts, history>>

\* ... then reads the clock and unlocks.
Dispatch(i) ==
    /\ w[i] = "admitted"
    /\ clock' = clock + 1 /\ at' = [at EXCEPT ![i] = clock + 1]
    /\ Goto(i, "stamped")
    /\ UNCHANGED <<world, class, further, n, m, counts, history>>

\* send: count the request sent; the first beyond the schedule is recorded.
CountSend(i, then) ==
    /\ dispatches' = [dispatches EXCEPT ![StepOf[i]] = @ + 1]
    /\ Goto(i, IF dispatches'[StepOf[i]] > Cardinality(InStep(StepOf[i]))
               THEN "extra" ELSE then)
    /\ UNCHANGED <<inFlight, maxInFlight, extra, over, overNs>>

Send(i) ==
    /\ w[i] = "stamped"
    /\ CountSend(i, "counted")
    /\ UNCHANGED <<world, at, class, further, n, m, clock, history>>

\* The transport takes another connection for a request already in flight.
SendAgain(i) ==
    /\ w[i] = "flying" /\ further[i] < MaxFurther
    /\ further' = [further EXCEPT ![i] = @ + 1]
    /\ CountSend(i, "flying")
    /\ UNCHANGED <<world, at, class, n, m, clock, history>>

RecordExtra(i) ==
    /\ w[i] = "extra"
    /\ extra' = TRUE
    /\ Goto(i, IF n[i] = 0 THEN "counted" ELSE "flying")
    /\ UNCHANGED <<world, at, class, further, n, m, clock, dispatches, inFlight,
                   maxInFlight, over, overNs, history>>

\* start: count the request in flight ...
CountInFlight(i) ==
    /\ w[i] = "counted"
    /\ inFlight' = inFlight + 1 /\ n' = [n EXCEPT ![i] = inFlight + 1]
    /\ Goto(i, "raise")
    /\ peak' = IF inFlight + 1 > peak THEN inFlight + 1 ELSE peak
    /\ firstOver' = IF firstOver = 0 /\ inFlight + 1 > Limit[StepOf[i]]
                    THEN at[i] ELSE firstOver
    /\ UNCHANGED <<world, at, class, further, m, clock, dispatches, maxInFlight,
                   extra, over, overNs>>

\* ... raise the maximum by compare-and-swap, loading it anew when it moved ...
LoadMax(i) ==
    /\ w[i] = "raise"
    /\ m' = [m EXCEPT ![i] = maxInFlight]
    /\ Goto(i, IF n[i] > maxInFlight THEN "swap" ELSE "limit")
    /\ UNCHANGED <<world, at, class, further, n, clock, counts, history>>

\* Mutant: the maximum is stored without comparing it again.
SwapMaxBlind(i) ==
    /\ w[i] = "swap"
    /\ maxInFlight' = n[i] /\ Goto(i, "limit")
    /\ UNCHANGED <<world, at, class, further, n, m, clock, dispatches, inFlight,
                   extra, over, overNs, history>>

SwapMax(i) ==
    /\ w[i] = "swap"
    /\ IF maxInFlight = m[i]
       THEN maxInFlight' = n[i] /\ Goto(i, "limit")
       ELSE Goto(i, "raise") /\ UNCHANGED maxInFlight
    /\ UNCHANGED <<world, at, class, further, n, m, clock, dispatches, inFlight,
                   extra, over, overNs, history>>

\* ... and compare its count with its step's limit.
CheckLimit(i) ==
    /\ w[i] = "limit"
    /\ IF n[i] > Limit[StepOf[i]]
       THEN /\ over' = TRUE
            /\ overNs' = IF overNs = 0 THEN at[i] ELSE overNs
       ELSE UNCHANGED <<over, overNs>>
    /\ Goto(i, "flying")
    /\ UNCHANGED <<world, at, class, further, n, m, clock, dispatches, inFlight,
                   maxInFlight, extra, history>>

\* The request is terminal: by its response or by its own deadline.
Finish(i) ==
    /\ w[i] = "flying"
    /\ \E c \in Classes : class' = [class EXCEPT ![i] = c]
    /\ inFlight' = inFlight - 1
    /\ Goto(i, "done")
    /\ UNCHANGED <<world, at, further, n, m, clock, dispatches, maxInFlight,
                   extra, over, overNs, history>>

----------------------------------------------------------------------------
(* The pacer.                                                               *)

workers == <<w, at, class, further, n, m, clock, cancelled, stopNs, counts,
             history>>
Spawned(k) == \A i \in InStep(k) : i < next

\* pace finds the context alive and spawns the next worker.
Spawn ==
    /\ pc = "pace" /\ ~Spawned(step) /\ ~cancelled
    /\ Goto(next, "waiting") /\ next' = next + 1
    /\ UNCHANGED <<pc, step, at, class, further, n, m, clock, cancelled, stopNs,
                   counts, record, history>>

\* pace, or the drain's sleep, is ended by the context.
Abort ==
    /\ cancelled
    /\ \/ pc = "pace" /\ ~Spawned(step)
       \/ pc = "drain"
    /\ pc' = "join"
    /\ UNCHANGED <<step, next, workers, record>>

PacedAll ==
    /\ pc = "pace" /\ Spawned(step)
    /\ pc' = IF IsLadder THEN "drain" ELSE "join"
    /\ UNCHANGED <<step, next, workers, record>>

\* The drain's timer fires, 90 s past the last intended dispatch.  Only a
\* starved worker can still be waiting then, and only a starved pacer finds
\* both its timer and an earlier stop: sleep's select takes either.
DrainEnds ==
    /\ pc = "drain"
    /\ \/ Starved
       \/ ~cancelled /\ \A i \in InStep(step) : w[i] \in {"flying", "done"}
    /\ pc' = "wait"
    /\ UNCHANGED <<step, next, workers, record>>

\* evaluateGates fails a step with an unsent request; the skew, processor and
\* garbage-collection gates pass or fail.
GateOutcomes(k) ==
    IF \E i \in Measured(k) : at[i] = 0 THEN {FALSE} ELSE BOOLEAN

\* stepEnd.
StepEnd(gatePass, fired, k) ==
    CASE ~gatePass -> "client_validity"
      [] gatePass /\ fired -> "tripwire"
      [] gatePass /\ ~fired
           /\ 2 * Cardinality(Status429(k)) > Cardinality(Measured(k)) ->
            "backoff"
      [] OTHER -> "pass"

\* Mutant: the verdict waits for the measured requests only.
StepDoneMeasured(k) == Measured(k) \cap Running = {}

\* step.Wait returns once every worker of the step is done, then the verdict.
StepDone(k) == InStep(k) \cap Running = {}

Verdict ==
    /\ pc = "wait" /\ StepDone(step)
    /\ \E g \in GateOutcomes(step) :
          verdict' = [verdict EXCEPT ![step] = StepEnd(g, Fired, step)]
    /\ count429' = [count429 EXCEPT ![step] = Cardinality(Status429(step))]
    /\ IF verdict'[step] = "pass" /\ step < K
       THEN pc' = "pace" /\ step' = step + 1
       ELSE pc' = "join" /\ UNCHANGED step
    /\ UNCHANGED <<next, workers, interrupted>>

\* Mutants: only a stop that the pacer met is reported; an unstopped run waits
\* for a stop too.
ReportPacerOnly ==
    /\ pc = "join" /\ Running = {}
    /\ cancelled => stopNs # 0
    /\ interrupted' = (cancelled /\ ~Spawned(step))
    /\ pc' = "reported"
    /\ UNCHANGED <<step, next, workers, verdict, count429>>

ReportStopped ==
    /\ pc = "join" /\ Running = {} /\ stopNs # 0
    /\ interrupted' = cancelled
    /\ pc' = "reported"
    /\ UNCHANGED <<step, next, workers, verdict, count429>>

\* wg.Wait, then the report; a stopped run waits for its stop to be stamped.
Report ==
    /\ pc = "join" /\ Running = {}
    /\ cancelled => stopNs # 0
    /\ interrupted' = cancelled
    /\ pc' = "reported"
    /\ UNCHANGED <<step, next, workers, verdict, count429>>

Worker(i) ==
    \/ Skip(i) \/ EnterDispatch(i) \/ Dispatch(i)
    \/ Send(i) \/ RecordExtra(i) \/ CountInFlight(i)
    \/ LoadMax(i) \/ SwapMax(i) \/ CheckLimit(i)
    \/ Finish(i)

Done == pc = "reported" /\ UNCHANGED vars

Pacer ==
    Spawn \/ Abort \/ PacedAll \/ DrainEnds \/ Verdict \/ Report

Next ==
    \/ Pacer \/ StampStop \/ Cancel
    \/ \E i \in Reqs : Worker(i) \/ SendAgain(i)
    \/ Done

Spec == Init /\ [][Next]_vars

\* Goroutines are scheduled, timers fire, and every request ends at the latest
\* at its own client deadline; nobody need cancel the run.
FairSpec ==
    Spec /\ WF_vars(Pacer) /\ WF_vars(StampStop)
         /\ \A i \in Reqs : WF_vars(Worker(i))

----------------------------------------------------------------------------
WorkerStates ==
    {"unspawned", "waiting", "admitted", "stamped", "extra", "counted",
     "raise", "swap", "limit", "flying", "done", "skipped"}

\* Every variable has its type.
TypeOK ==
    /\ pc \in {"pace", "drain", "wait", "join", "reported"}
    /\ step \in Steps /\ next \in 1..(N + 1)
    /\ w \in [Reqs -> WorkerStates]
    /\ at \in [Reqs -> 0..(N + 1)] /\ stopNs \in 0..(N + 1)
    /\ inFlight \in 0..N /\ maxInFlight \in 0..N
    /\ verdict \in [Steps -> {"none", "pass", "client_validity", "tripwire",
                              "backoff"}]

\* "no request sent has a dispatch time after" the stop (gen.stopMu): whoever
\* is between the check of the stop and the clock holds the stop's stamp up.
NoDispatchAfterStop ==
    stopNs # 0 => \A i \in Reqs : at[i] < stopNs

\* A step's verdict is final: it was taken with nothing of the step running,
\* and counts every 429 the step ever gets; and a step that passed had no
\* tripwire fired by any request up to its own last.
VerdictComplete ==
    \A k \in Steps : verdict[k] # "none" =>
       /\ InStep(k) \cap Running = {}
       /\ count429[k] = Cardinality(Status429(k))
       /\ verdict[k] = "pass" =>
            \A j \in 1..k :
               /\ dispatches[j] <= Cardinality(InStep(j))
               /\ \A i \in InStep(j) : n[i] <= Limit[j]
               /\ \A i \in Measured(j) : at[i] # 0

\* What the atomics hold at the end is what happened: the maximum is the peak,
\* and the wire fired exactly if a step sent too many or a dispatch took the
\* count above its limit.
TripwireExact ==
    pc = "reported" =>
       /\ maxInFlight = peak /\ inFlight = 0
       /\ over <=> firstOver # 0
       /\ extra <=> \E k \in Steps : dispatches[k] > Cardinality(InStep(k))

\* No request is left unsent without a reason in the result: a safety stop
\* with its time, or the verdict that ended the ladder before its step.
UnsentExplained ==
    pc = "reported" =>
       \A i \in Reqs : at[i] = 0 =>
          \/ interrupted /\ stopNs # 0
          \/ \E k \in 1..(StepOf[i] - 1) :
                verdict[k] \in {"client_validity", "tripwire", "backoff"}

\* Run returns.
RunReturns == <>(pc = "reported")
=============================================================================
