---------------------------- MODULE ProcessKill ----------------------------
(***************************************************************************)
(* A process-kill campaign (cmd/percentes-campaign, internal/campaign,     *)
(* internal/run, internal/orchestrator): runs in sequence, each of which   *)
(* waits for the container, inspects it, arms a kill of the process it     *)
(* found, drives load while the orchestrator, the injector's goroutine and *)
(* the replica_ready probe run beside it, inspects the container again and *)
(* judges the run.  The container and its runtime are external: the        *)
(* process may crash by itself at any time and is started again later.     *)
(*                                                                         *)
(* now is the time since the run's epoch, in ticks.  A waiting goroutine   *)
(* may be scheduled late but the kill's own timer, its command's timeout   *)
(* and the orchestrator's poll keep up with the clock.  A process is its   *)
(* generation: the number of starts of the container.  Fire times are      *)
(* kept doubled, so that the midpoint of two ticks is a number.  The       *)
(* host's clock differs from the client's by an offset that moves; the     *)
(* reading before the run converts the host's stamps, off by some ticks.   *)
(***************************************************************************)
EXTENDS Integers, Sequences

CONSTANTS
    Repetitions,         \* runs of the campaign
    TInject,             \* planned fire, after the epoch
    ContainerOpTimeout,  \* when one kill command is told to end
    WaitDelay,           \* how long it may take to end after that
    Slack,               \* how long Execute polls past the planned expiry
    Tolerance,           \* injection tolerance
    ProbeRound,          \* the least time from one probe attempt to the next
    FaultEnd,            \* end of the fault window, the probe's deadline
    RunEnd,              \* the load generator's last request has ended
    MaxCrashes,          \* bound: crashes that are not the kill's
    MaxSkew              \* bound: error of the clock offset, and of what is recorded of it

ASSUME TimesAssumption ==
    /\ Repetitions \in Nat \ {0} /\ MaxCrashes \in Nat
    /\ {TInject, ContainerOpTimeout, Slack, FaultEnd, RunEnd} \subseteq Nat \ {0}
    /\ WaitDelay \in Nat /\ WaitDelay < Slack
    /\ Tolerance \in Nat /\ ProbeRound \in Nat
    /\ MaxSkew \in Nat
    /\ TInject < FaultEnd /\ FaultEnd <= RunEnd

Runs == 1..Repetitions
None == 0

VARIABLES
    container,  \* [phase, gen, restarts] of the container
    crashes,    \* crashes so far that are not the kill's
    pc,         \* the runner: waitReady, inspect, offset, execute, after, reports, exited
    halts,      \* HaltAfterInvalidRun, the campaign's policy
    run,        \* index of the run in progress
    before,     \* [gen, running, restarts] inspected before it
    prevAfter,  \* restart count inspected after the last run, or -1
    invalid,    \* some reason of this run is recorded
    now,
    load,       \* the load generator: running, passed, gated
    orch,       \* orchestrator.Execute: arm, poll, polled, ok, failed
    inj,        \* each run's injector goroutine and its record
    probe,      \* the replica_ready probe
    rows,       \* Report.PerRun
    status,     \* of the campaign: running, done, halted, failed
    hits        \* history: generations that died under a kill aimed at them

docker == <<container, crashes>>
runner == <<pc, halts, run, before, prevAfter, invalid>>
report == <<rows, status>>
vars == <<docker, runner, now, load, orch, inj, probe, report, hits>>

NoInjector == [pc |-> "none", sent |-> 0, signalled |-> 0, fired |-> FALSE, fired2 |-> 0,
               spread |-> 0, skew |-> 0, err |-> FALSE]
NoProbe == [pc |-> "asleep", next |-> 0, gen |-> None]

Mine == inj[run]
Serving == container.phase = "serving"
Alive(g) == container.phase # "down" /\ container.gen = g
KillRuns(k) == inj[k].pc \in {"checked", "signalled"}

Init ==
    /\ container = [phase |-> "serving", gen |-> 1, restarts |-> 0]
    /\ crashes = 0
    /\ pc = "waitReady" /\ halts \in BOOLEAN /\ run = 1
    /\ before = [gen |-> 1, running |-> FALSE, restarts |-> 0]
    /\ prevAfter = -1 /\ invalid = FALSE
    /\ now = 0 /\ load = "running" /\ orch = "arm"
    /\ inj = [k \in Runs |-> NoInjector] /\ probe = NoProbe
    /\ rows = <<>> /\ status = "running"
    /\ hits = {}

----------------------------------------------------------------------------
(* The container and its runtime.                                          *)

Dies(g) ==
    /\ container' = [container EXCEPT !.phase = "down"]
    /\ hits' = IF g = before.gen /\ \E k \in Runs : KillRuns(k) THEN hits \cup {g} ELSE hits

Crash ==
    /\ pc # "exited" /\ container.phase # "down" /\ crashes < MaxCrashes
    /\ crashes' = crashes + 1
    /\ Dies(container.gen)
    /\ UNCHANGED <<runner, now, load, orch, inj, probe, report>>

\* The restart policy starts the same container again.
Restart ==
    /\ pc # "exited" /\ container.phase = "down"
    /\ container' = [phase |-> "starting", gen |-> container.gen + 1,
                     restarts |-> container.restarts + 1]
    /\ UNCHANGED <<crashes, runner, now, load, orch, inj, probe, report, hits>>

Serves ==
    /\ pc # "exited" /\ container.phase = "starting"
    /\ container' = [container EXCEPT !.phase = "serving"]
    /\ UNCHANGED <<crashes, runner, now, load, orch, inj, probe, report, hits>>

----------------------------------------------------------------------------
(* processKillRunner before the run.                                       *)

\* Mutant: a failed run is skipped and the campaign goes on.
SkipFailedRun ==
    IF run < Repetitions
    THEN run' = run + 1 /\ pc' = "waitReady" /\ UNCHANGED status
    ELSE pc' = "reports" /\ status' = "failed" /\ UNCHANGED run

\* The runner returned an error: the campaign ends with the rows so far.
RunFails == pc' = "reports" /\ status' = "failed" /\ UNCHANGED run

FailNow ==
    /\ RunFails
    /\ UNCHANGED <<docker, halts, before, prevAfter, invalid, now, load, orch, inj, probe,
                   rows, hits>>

\* The container runs, /health answers and one inference is served; the
\* state seen here is not the one the run keeps.
WaitReady ==
    /\ pc = "waitReady" /\ Serving
    /\ pc' = "inspect"
    /\ UNCHANGED <<docker, halts, run, before, prevAfter, invalid, now, load, orch, inj, probe,
                   report, hits>>

WaitReadyFails == pc = "waitReady" /\ FailNow

\* Mutant: a restart between two runs goes unnoticed.
BetweenRunsUnchecked == FALSE

RestartedBetweenRuns == prevAfter # -1 /\ container.restarts # prevAfter

\* A pin that does not match or a failed fingerprint makes the run invalid.
InspectBefore ==
    /\ pc = "inspect"
    /\ before' = [gen |-> container.gen, running |-> container.phase # "down",
                  restarts |-> container.restarts]
    /\ \E ok \in BOOLEAN : invalid' = (RestartedBetweenRuns \/ ~ok)
    /\ prevAfter' = -1
    /\ pc' = "offset"
    /\ UNCHANGED <<docker, halts, run, now, load, orch, inj, probe, report, hits>>

InspectBeforeFails == pc = "inspect" /\ FailNow

\* The clock offset is read and run.Execute reaches its epoch: the
\* orchestrator and the probe are released together with the load.
Start ==
    /\ pc = "offset"
    /\ pc' = "execute"
    /\ UNCHANGED <<docker, halts, run, before, prevAfter, invalid, now, load, orch, inj, probe,
                   report, hits>>

ClockOffsetFails == pc = "offset" /\ FailNow

----------------------------------------------------------------------------
(* orchestrator.Execute.                                                   *)

Killable == before.running

\* Mutant: an arm that is refused is tried again.
ArmAgain ==
    /\ pc = "execute" /\ orch = "arm"
    /\ IF now < TInject /\ Killable
       THEN orch' = "poll" /\ inj' = [inj EXCEPT ![run].pc = "timer"]
       ELSE UNCHANGED <<orch, inj>>
    /\ UNCHANGED <<docker, runner, now, load, probe, report, hits>>

Arm ==
    /\ pc = "execute" /\ orch = "arm"
    /\ IF now < TInject /\ Killable
       THEN orch' = "poll" /\ inj' = [inj EXCEPT ![run].pc = "timer"]
       ELSE orch' = "failed" /\ UNCHANGED inj
    /\ UNCHANGED <<docker, runner, now, load, probe, report, hits>>

\* Mutant: the fault is said to last no time.
PointDuration == 0

\* Execute waits out the kill call's own timeout.
InjectDurationS == ContainerOpTimeout

Deadline == TInject + InjectDurationS + Slack

Poll ==
    /\ pc = "execute" /\ orch = "poll" /\ now < Deadline
    /\ orch' = CASE Mine.err -> "failed"
                 [] Mine.fired -> "ok"
                 [] OTHER -> "polled"
    /\ UNCHANGED <<docker, runner, now, load, inj, probe, report, hits>>

DeadlinePasses ==
    /\ pc = "execute" /\ orch = "poll" /\ now >= Deadline
    /\ orch' = "failed"
    /\ UNCHANGED <<docker, runner, now, load, inj, probe, report, hits>>

----------------------------------------------------------------------------
(* The injector's goroutine: ProcessKillInjector.Arm and KillInit.         *)

\* Mutant: the signal is sent to a process ID nobody looked up again.
Unchecked(g) == TRUE

\* The kill script finds the container's id in /proc/pid/cgroup.
StillInContainer(g) == Alive(g)

\* The target of each injector is the process its run inspected; a run's
\* injector outlives the run only when the run failed.
FireTimer(k) ==
    /\ pc # "exited" /\ inj[k].pc = "timer" /\ now >= TInject
    /\ inj' = [inj EXCEPT
                 ![k].sent = now,
                 ![k].pc = IF StillInContainer(before.gen) THEN "checked" ELSE "done",
                 ![k].err = ~StillInContainer(before.gen)]
    /\ UNCHANGED <<docker, runner, now, load, orch, probe, report, hits>>

\* kill -9: its exit status is not the script's.
Signal(k) ==
    /\ pc # "exited" /\ inj[k].pc = "checked"
    /\ IF Alive(before.gen) THEN Dies(before.gen) ELSE UNCHANGED <<container, hits>>
    /\ inj' = [inj EXCEPT ![k].pc = "signalled", ![k].signalled = now]
    /\ UNCHANGED <<crashes, runner, now, load, orch, probe, report>>

\* observedFire: the midpoint of the host's stamps, converted by an offset
\* that is skew ticks off at the kill.  The script takes the first stamp after
\* its check and the last one after the kill.
RemoteFire(r, first, last, skew) ==
    [r EXCEPT !.fired2 = first + last + 2 * skew, !.spread = last - first, !.skew = skew]

\* Without the stamps, the local midpoint.
LocalFire(r) == [r EXCEPT !.fired2 = r.sent + now, !.spread = now - r.sent]

\* The command returned and the outcome is recorded.
KillReturns(k) ==
    /\ pc # "exited" /\ inj[k].pc = "signalled"
    /\ LET r == [inj[k] EXCEPT !.pc = "done", !.fired = TRUE]
       IN  \/ inj' = [inj EXCEPT ![k] = LocalFire(r)]
           \/ \E first \in r.sent..r.signalled, last \in r.signalled..now,
                 skew \in -MaxSkew..MaxSkew :
                inj' = [inj EXCEPT ![k] = RemoteFire(r, first, last, skew)]
    /\ UNCHANGED <<docker, runner, now, load, orch, probe, report, hits>>

\* The command failed or timed out, the signal sent or not.
KillErrs(k) ==
    /\ pc # "exited" /\ KillRuns(k)
    /\ inj' = [inj EXCEPT ![k].pc = "done", ![k].err = TRUE]
    /\ UNCHANGED <<docker, runner, now, load, orch, probe, report, hits>>

----------------------------------------------------------------------------
(* detect.ProbeRecovery, from the planned fire to the end of the window.   *)

\* Mutant: the first success counts, the fault seen or not.
OnePhase == TRUE

FaultSeen == probe.pc = "faultSeen"

ProbeAttempt ==
    /\ pc = "execute" /\ probe.pc \in {"asleep", "faultSeen"}
    /\ now >= TInject /\ now >= probe.next /\ now < FaultEnd
    /\ \E success \in BOOLEAN :
         /\ success => Serving
         /\ probe' = CASE FaultSeen /\ success ->
                            [probe EXCEPT !.pc = "recovered", !.gen = container.gen]
                       [] ~FaultSeen /\ ~success ->
                            [probe EXCEPT !.pc = "faultSeen", !.next = now + ProbeRound]
                       [] OTHER -> [probe EXCEPT !.next = now + ProbeRound]
    /\ UNCHANGED <<docker, runner, now, load, orch, inj, report, hits>>

ProbeExpires ==
    /\ pc = "execute" /\ probe.pc \in {"asleep", "faultSeen"} /\ now >= FaultEnd
    /\ probe' = [probe EXCEPT !.pc = "unmeasured"]
    /\ UNCHANGED <<docker, runner, now, load, orch, inj, report, hits>>

----------------------------------------------------------------------------
(* run.Execute and the runner after it.                                    *)

LoadEnds ==
    /\ pc = "execute" /\ load = "running" /\ now >= RunEnd
    /\ load' \in {"passed", "gated"}
    /\ UNCHANGED <<docker, runner, now, orch, inj, probe, report, hits>>

\* loadgen.Run returned an error: nothing waits for the armed kill.
LoadFails == pc = "execute" /\ load = "running" /\ FailNow

OrchestratorFailed ==
    /\ pc = "execute" /\ load # "running" /\ orch = "failed"
    /\ FailNow

FireInTolerance ==
    /\ Mine.fired2 - 2 * TInject <= 2 * Tolerance
    /\ 2 * TInject - Mine.fired2 <= 2 * Tolerance

\* analyze and validity; a probe that has not ended is left after 10 s.
Analyze ==
    /\ pc = "execute" /\ load # "running" /\ orch = "ok"
    /\ invalid' = (invalid \/ load = "gated" \/ ~FireInTolerance)
    /\ pc' = "after"
    /\ UNCHANGED <<docker, halts, run, before, prevAfter, now, load, orch, inj, probe,
                   report, hits>>

\* FireUncertaintyOf, doubled: half the bracket and, of the two clock
\* offsets of the run, the larger bound plus the change.  These last two
\* together are at least the skew (ClockBound in ProcessKillProofs).
FireUncertainty2(bound) == Mine.spread + 2 * bound

\* A run publishes the fire, its uncertainty and replica_ready; early says
\* of a measured replica_ready that the fire, by its uncertainty, came
\* before a second probe attempt could begin.
Row(valid, after, bound) ==
    [valid |-> valid, gen |-> before.gen, before |-> before.restarts, after |-> after,
     ready |-> probe.gen,
     early |-> /\ probe.gen # None
               /\ Mine.fired2 + FireUncertainty2(bound) < 2 * (TInject + ProbeRound)]

RestartedOnce == container.restarts - before.restarts = 1

\* campaign.RunWith after a run that returned artifacts.  The run's
\* goroutines are gone and what they left is not read again.
NextRun(row) ==
    /\ rows' = Append(rows, row)
    /\ now' = 0 /\ load' = "running" /\ orch' = "arm" /\ probe' = NoProbe
    /\ inj' = [inj EXCEPT ![run] = NoInjector] /\ invalid' = FALSE
    /\ IF (~row.valid /\ halts) \/ run = Repetitions
       THEN /\ pc' = "reports" /\ UNCHANGED run
            /\ status' = IF ~row.valid /\ halts THEN "halted" ELSE "done"
       ELSE pc' = "waitReady" /\ run' = run + 1 /\ UNCHANGED status

\* The reads after the run: inspect, fingerprint, clock offset, events and
\* log, the gates G1 and G2.  Any of them may add a reason; only the
\* inspection gives the next run its restart count, and the bound holds only
\* when the clock offset was read again.
InspectAfter ==
    /\ pc = "after"
    /\ \E inspected, ok \in BOOLEAN, bound \in 0..MaxSkew :
         LET after == IF inspected THEN container.restarts ELSE -1
         IN  /\ ok => -bound <= Mine.skew /\ Mine.skew <= bound
             /\ prevAfter' = after
             /\ NextRun(Row(~invalid /\ ok /\ inspected /\ RestartedOnce, after, bound))
    /\ UNCHANGED <<docker, halts, before, hits>>

\* The run's report could not be written.
WriteRunFails == pc = "after" /\ FailNow

\* The reports are written and the process ends, its goroutines with it.
Exit ==
    /\ pc = "reports"
    /\ pc' = "exited"
    /\ inj' = [k \in Runs |-> NoInjector]
    /\ UNCHANGED <<docker, halts, run, before, prevAfter, invalid, now, load, orch, probe,
                   report, hits>>

----------------------------------------------------------------------------
\* Timers that are due, a command past its timeout and an orchestrator that
\* has not polled hold the clock back.
Tick ==
    /\ pc \in {"execute", "reports"}
    /\ now < RunEnd \/ now < Deadline
    /\ \A k \in Runs :
         /\ inj[k].pc = "timer" => now < TInject
         /\ KillRuns(k) => now < inj[k].sent + ContainerOpTimeout + WaitDelay
    /\ orch # "poll"
    /\ now' = now + 1
    /\ orch' = IF orch = "polled" THEN "poll" ELSE orch
    /\ UNCHANGED <<docker, runner, load, inj, probe, report, hits>>

Terminated == pc = "exited" /\ UNCHANGED vars

Docker == Crash \/ Restart \/ Serves
Prepare == WaitReady \/ WaitReadyFails \/ InspectBefore \/ InspectBeforeFails \/ Start
              \/ ClockOffsetFails
Orchestrate == Arm \/ Poll \/ DeadlinePasses
Inject(k) == FireTimer(k) \/ Signal(k) \/ KillReturns(k) \/ KillErrs(k)
Probe == ProbeAttempt \/ ProbeExpires
Load == LoadEnds \/ LoadFails
Finish == OrchestratorFailed \/ Analyze \/ InspectAfter \/ WriteRunFails \/ Exit

Next ==
    \/ Docker \/ Prepare \/ Orchestrate \/ Probe \/ Load \/ Finish \/ Tick
    \/ \E k \in Runs : Inject(k)
    \/ Terminated

Spec == Init /\ [][Next]_vars

\* The scheduler runs every goroutine; commands and requests have timeouts.
FairSpec ==
    /\ Spec
    /\ WF_vars(Prepare) /\ WF_vars(Orchestrate) /\ WF_vars(Load) /\ WF_vars(Finish)
    /\ WF_vars(Tick) /\ \A k \in Runs : WF_vars(Inject(k))

----------------------------------------------------------------------------
\* The types; a recorded uncertainty is never negative, whichever stamps the
\* fire is taken from.
TypeOK ==
    /\ container \in [phase : {"down", "starting", "serving"},
                      gen : Nat, restarts : Nat]
    /\ crashes \in 0..MaxCrashes
    /\ pc \in {"waitReady", "inspect", "offset", "execute", "after", "reports", "exited"}
    /\ halts \in BOOLEAN
    /\ run \in Runs /\ prevAfter \in Nat \cup {-1} /\ invalid \in BOOLEAN
    /\ before \in [gen : Nat, running : BOOLEAN, restarts : Nat]
    /\ now \in Nat /\ load \in {"running", "passed", "gated"}
    /\ orch \in {"arm", "poll", "polled", "ok", "failed"}
    /\ inj \in [Runs -> [pc : {"none", "timer", "checked", "signalled", "done"},
                         sent : Nat, signalled : Nat, fired : BOOLEAN, fired2 : Int,
                         spread : Nat, skew : Int, err : BOOLEAN]]
    /\ probe \in [pc : {"asleep", "faultSeen", "recovered", "unmeasured"},
                  next : Nat, gen : Nat]
    /\ \A i \in 1..Len(rows) :
         rows[i] \in [valid : BOOLEAN, gen : Nat, before : Nat,
                      after : Nat \cup {-1}, ready : Nat, early : BOOLEAN]
    /\ status \in {"running", "done", "halted", "failed"}
    /\ hits \subseteq Nat

\* A valid run's fault is its kill: the process inspected before the run
\* died while the run's kill command was under way, and no crash earlier
\* in the run passes for it.
KillIsTheFault ==
    \A i \in 1..Len(rows) : rows[i].valid => rows[i].gen \in hits

\* The restart counts of valid runs form one chain: each run's container is
\* the one its predecessor left, and each run restarted it once.  A run
\* whose predecessor could not be inspected is not covered.
RestartsChain ==
    \A i \in 1..Len(rows) :
        rows[i].valid =>
            /\ rows[i].after = rows[i].before + 1
            /\ i > 1 /\ rows[i-1].after # -1 => rows[i].before = rows[i-1].after

\* A replica_ready measurement of a valid run is an inference served by a
\* process started after the kill, however the probe raced the fire, when
\* the fire that the run publishes and its uncertainty end before the
\* earliest second probe attempt.  A fire within the tolerance may be
\* later than that: nothing compares the two.
ReadyIsNew ==
    \A i \in 1..Len(rows) :
        rows[i].valid /\ rows[i].early => rows[i].ready > rows[i].gen

\* No kill command runs during a run other than its own: a run that
\* returns leaves no kill behind, also when Execute gives up at its
\* deadline, and one that fails ends the campaign.
KillInItsRun ==
    /\ \A k \in Runs : inj[k].pc \in {"timer", "checked", "signalled"} =>
                          (k = run /\ pc = "execute") \/ status = "failed"
    /\ pc = "execute" /\ orch = "failed" => ~KillRuns(run)

\* The campaign ends, whatever the container does.
CampaignEnds == <>(pc = "exited")
=============================================================================
