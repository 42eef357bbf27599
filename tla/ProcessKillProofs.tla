------------------------- MODULE ProcessKillProofs -------------------------
(***************************************************************************)
(* Proofs about ProcessKill, for any number of runs and crashes and any    *)
(* times that satisfy TimesAssumption.                                     *)
(*                                                                         *)
(* The properties are about rows already reported.  What makes them true   *)
(* is what the parts of one run know of each other meanwhile: where the    *)
(* runner is (PhaseInv), how far the kill has come and what became of its  *)
(* target (KillInv), what the probe may have seen by which time            *)
(* (ProbeInv), and which restart count the run is measured against         *)
(* (ChainInv).                                                             *)
(***************************************************************************)
EXTENDS ProcessKill, SequenceTheorems, TLAPS

\* What campaign.RunWith keeps of a run.
RowType == [valid : BOOLEAN, gen : Nat, before : Nat, after : Nat \cup {-1}, ready : Nat,
            early : BOOLEAN]

\* Where an injector is until its command has ended.
Busy == {"timer", "checked", "signalled"}

\* Only the run in progress has an injector, and none before it armed one;
\* what a run starts from is what NextRun or Init left.
PhaseInv ==
    /\ \A k \in Runs : k # run => inj[k] = NoInjector
    /\ orch = "arm" => inj[run] = NoInjector
    /\ pc \in {"waitReady", "inspect", "offset"} =>
         orch = "arm" /\ now = 0 /\ probe = NoProbe
    /\ pc \notin {"reports", "exited"} => status = "running"
    /\ pc = "after" => orch = "ok"
    /\ pc \in {"reports", "exited"} => status = "failed" \/ inj[run].pc \notin Busy

\* The kill of the run in progress.
KillInv ==
    /\ container.gen >= before.gen
    /\ inj[run].pc \in {"none", "timer", "checked"} => inj[run].signalled = 0
    /\ inj[run].pc \in {"none"} \cup Busy =>
         ~inj[run].fired /\ inj[run].skew = 0 /\ ~inj[run].err
    /\ inj[run].pc = "timer" => now <= TInject
    /\ KillRuns(run) =>
         /\ inj[run].sent = TInject
         /\ TInject <= now /\ now <= TInject + ContainerOpTimeout + WaitDelay
    /\ inj[run].pc = "checked" => Alive(before.gen) \/ before.gen \in hits
    /\ inj[run].pc = "signalled" => inj[run].signalled # 0 /\ inj[run].signalled <= now
    /\ inj[run].signalled # 0 => before.gen \in hits /\ ~Alive(before.gen)
    /\ inj[run].err => ~inj[run].fired
    /\ inj[run].fired =>
         /\ inj[run].signalled # 0
         /\ 2 * inj[run].signalled + 2 * inj[run].skew <= inj[run].fired2 + inj[run].spread
    /\ orch = "ok" /\ pc \in {"execute", "after"} =>
         inj[run].fired /\ inj[run].pc = "done"
    /\ orch = "failed" => inj[run].pc \notin Busy

\* A success after a failure comes at least one round after the planned fire:
\* it is a later process's, or the kill was as late.
ProbeInv ==
    /\ probe.pc = "faultSeen" => probe.next >= TInject + ProbeRound
    /\ probe.gen # None =>
         \/ probe.gen > before.gen
         \/ /\ now >= TInject + ProbeRound
            /\ inj[run].signalled = 0 \/ inj[run].signalled >= TInject + ProbeRound

\* What a run that is still valid was measured against.
ChainInv ==
    /\ pc \in {"waitReady", "inspect"} =>
         prevAfter = IF rows = <<>> THEN -1 ELSE rows[Len(rows)].after
    /\ pc \in {"offset", "execute", "after"} /\ ~invalid
         /\ rows # <<>> /\ rows[Len(rows)].after # -1 =>
            before.restarts = rows[Len(rows)].after

\* The rows, as sequences and as the properties have them.
RowsInv ==
    /\ rows \in Seq(RowType)
    /\ KillIsTheFault /\ RestartsChain /\ ReadyIsNew

\* The inductive invariant.
IInv ==
    TypeOK /\ PhaseInv /\ KillInv /\ ProbeInv /\ ChainInv /\ RowsInv

(***************************************************************************)
(* The constants and the initial state.                                    *)
(***************************************************************************)

\* What the constants give the proofs.
LEMMA Times ==
    /\ Repetitions \in Nat /\ 1 \in Runs /\ Runs \subseteq Nat /\ MaxCrashes \in Nat
    /\ TInject \in Nat /\ TInject > 0 /\ ContainerOpTimeout \in Nat /\ Slack \in Nat
    /\ FaultEnd \in Nat /\ RunEnd \in Nat
    /\ WaitDelay \in Nat /\ WaitDelay < Slack
    /\ Tolerance \in Nat /\ ProbeRound \in Nat /\ MaxSkew \in Nat
BY TimesAssumption DEF Runs

\* Sets of records that TypeOK is made of.
ContainerType == [phase : {"down", "starting", "serving"}, gen : Nat, restarts : Nat]
BeforeType == [gen : Nat, running : BOOLEAN, restarts : Nat]
InjectorType == [pc : {"none", "timer", "checked", "signalled", "done"},
                 sent : Nat, signalled : Nat, fired : BOOLEAN, fired2 : Int,
                 spread : Nat, skew : Int, err : BOOLEAN]
ProbeType == [pc : {"asleep", "faultSeen", "recovered", "unmeasured"}, next : Nat, gen : Nat]

\* The records a run starts from.
LEMMA EmptyRecords ==
    /\ NoInjector \in InjectorType /\ NoProbe \in ProbeType
    /\ NoInjector.pc = "none" /\ NoInjector.signalled = 0 /\ ~NoInjector.fired
    /\ NoInjector.skew = 0 /\ ~NoInjector.err
    /\ NoProbe.pc = "asleep" /\ NoProbe.gen = None
BY DEF NoInjector, NoProbe, InjectorType, ProbeType, None

\* The initial state satisfies the invariant.
LEMMA InitInv == Init => IInv
<1> SUFFICES ASSUME Init PROVE IInv
  OBVIOUS
<1> USE Times, EmptyRecords DEF Init
<1>1. TypeOK
  <2>1. container \in ContainerType
    BY DEF ContainerType
  <2>2. before \in BeforeType
    BY DEF BeforeType
  <2>3. inj \in [Runs -> InjectorType] /\ probe \in ProbeType
    OBVIOUS
  <2>4. invalid \in BOOLEAN /\ halts \in BOOLEAN
    OBVIOUS
  <2>5. /\ crashes \in 0..MaxCrashes /\ run \in Runs /\ prevAfter \in Nat \cup {-1}
        /\ now \in Nat /\ hits \subseteq Nat /\ Len(rows) = 0
    OBVIOUS
  <2> QED
    BY <2>1, <2>2, <2>3, <2>4, <2>5
       DEF TypeOK, ContainerType, BeforeType, InjectorType, ProbeType
<1>2. PhaseInv
  BY DEF PhaseInv
<1>3. KillInv
  BY DEF KillInv, KillRuns, Busy
<1>4. ProbeInv
  BY DEF ProbeInv
<1>5. ChainInv
  BY DEF ChainInv
<1>6. RowsInv
  BY DEF RowsInv, KillIsTheFault, RestartsChain, ReadyIsNew
<1> QED
  BY <1>1, <1>2, <1>3, <1>4, <1>5, <1>6 DEF IInv

(***************************************************************************)
(* Each part of the invariant is preserved, action by action.              *)
(***************************************************************************)

\* A run that fails changes where the runner is and nothing else.
LEMMA FailMoves ==
    ASSUME \/ WaitReadyFails \/ InspectBeforeFails \/ ClockOffsetFails \/ LoadFails
           \/ OrchestratorFailed \/ WriteRunFails
    PROVE  /\ pc' = "reports" /\ status' = "failed" /\ UNCHANGED run
           /\ UNCHANGED <<container, crashes, halts, before, prevAfter, invalid, now, load,
                          orch, inj, probe, rows, hits>>
BY DEF WaitReadyFails, InspectBeforeFails, ClockOffsetFails, LoadFails,
       OrchestratorFailed, WriteRunFails, FailNow, RunFails, docker

\* Every step keeps the types.
LEMMA TypeStep == IInv /\ [Next]_vars => TypeOK'
<1> SUFFICES ASSUME IInv, [Next]_vars PROVE TypeOK'
  OBVIOUS
<1> USE Times, EmptyRecords
<1>0. TypeOK /\ KillInv /\ PhaseInv
  BY DEF IInv
<1>a. /\ container \in ContainerType /\ before \in BeforeType
      /\ inj \in [Runs -> InjectorType] /\ probe \in ProbeType /\ now \in Nat
      /\ run \in Runs /\ hits \subseteq Nat
      /\ \A i \in 1..Len(rows) : rows[i] \in RowType
  BY <1>0 DEF TypeOK, ContainerType, BeforeType, InjectorType, ProbeType, RowType
<1>b. ASSUME NEW k \in Runs, NEW r \in InjectorType
      PROVE  [inj EXCEPT ![k] = r] \in [Runs -> InjectorType]
  BY <1>a
<1> DEFINE T ==
      /\ container' \in ContainerType /\ before' \in BeforeType
      /\ inj' \in [Runs -> InjectorType] /\ probe' \in ProbeType
      /\ now' \in Nat /\ run' \in Runs /\ hits' \subseteq Nat
      /\ crashes' \in 0..MaxCrashes /\ prevAfter' \in Nat \cup {-1}
      /\ \A i \in 1..Len(rows') : rows'[i] \in RowType
      /\ pc' \in {"waitReady", "inspect", "offset", "execute", "after", "reports", "exited"}
      /\ load' \in {"running", "passed", "gated"}
      /\ orch' \in {"arm", "poll", "polled", "ok", "failed"}
      /\ status' \in {"running", "done", "halted", "failed"}
<1>c. (halts \in BOOLEAN /\ invalid \in BOOLEAN) => (halts' \in BOOLEAN /\ invalid' \in BOOLEAN)
  BY Zenon DEF Next, vars, Docker, Prepare, Orchestrate, Probe, Load, Finish, Inject,
     Terminated, Crash, Restart, Serves, WaitReady, WaitReadyFails, InspectBefore,
     InspectBeforeFails, Start, ClockOffsetFails, Arm, Poll, DeadlinePasses,
     ProbeAttempt, ProbeExpires, LoadEnds, LoadFails, OrchestratorFailed, Analyze,
     InspectAfter, WriteRunFails, Exit, Tick, FireTimer, Signal, KillReturns, KillErrs,
     FailNow, NextRun, runner
<1>d. SUFFICES T
  BY <1>0, <1>c DEF TypeOK, ContainerType, BeforeType, InjectorType, ProbeType, RowType
<1>1. CASE UNCHANGED vars \/ Terminated
  BY <1>0, <1>a, <1>1, ZenonT(40) DEF TypeOK, Terminated, vars, docker, runner, report
<1>2. CASE Docker
  <2>1. UNCHANGED <<pc, run, before, prevAfter, now, load, orch, inj, probe, rows, status>>
    BY <1>2 DEF Docker, Crash, Restart, Serves, runner, report
  <2>2. container' \in ContainerType
    BY <1>a, <1>2, SMTT(30) DEF Docker, Crash, Dies, Restart, Serves, ContainerType
  <2>3. hits' \subseteq Nat
    <3>1. container.gen \in Nat
      BY <1>a DEF ContainerType
    <3> QED
      BY <1>a, <1>2, <3>1 DEF Docker, Crash, Dies, Restart, Serves
  <2>4. crashes' \in 0..MaxCrashes
    <3>1. crashes \in 0..MaxCrashes
      BY <1>0 DEF TypeOK
    <3>2. crashes' = crashes \/ (crashes' = crashes + 1 /\ crashes < MaxCrashes)
      BY <1>2 DEF Docker, Crash, Restart, Serves
    <3> QED
      BY <3>1, <3>2
  <2> QED
    BY <1>0, <1>a, <2>1, <2>2, <2>3, <2>4 DEF TypeOK
<1>4. CASE \/ WaitReadyFails \/ InspectBeforeFails \/ ClockOffsetFails \/ LoadFails
           \/ OrchestratorFailed \/ WriteRunFails
  BY <1>0, <1>a, <1>4, FailMoves DEF TypeOK
<1>5. CASE WaitReady \/ Start
  BY <1>0, <1>a, <1>5 DEF TypeOK, WaitReady, Start, docker, report
<1>6. CASE InspectBefore
  <2>1. /\ before' = [gen |-> container.gen, running |-> container.phase # "down",
                      restarts |-> container.restarts]
        /\ prevAfter' = -1 /\ pc' = "offset"
        /\ UNCHANGED <<container, crashes, run, now, load, orch, inj, probe, rows, status, hits>>
    BY <1>6 DEF InspectBefore, docker, report
  <2>2. before' \in BeforeType
    BY <1>a, <2>1 DEF ContainerType, BeforeType
  <2> QED
    BY <1>0, <1>a, <2>1, <2>2 DEF TypeOK
<1>7. CASE Arm
  <2>1. [inj[run] EXCEPT !.pc = "timer"] \in InjectorType
    BY <1>a DEF InjectorType
  <2>2. /\ orch' \in {"poll", "failed"}
        /\ inj' = inj \/ inj' = [inj EXCEPT ![run] = [inj[run] EXCEPT !.pc = "timer"]]
        /\ UNCHANGED <<container, crashes, pc, run, before, prevAfter, now, load, probe,
                       rows, status, hits>>
    BY <1>7 DEF Arm, docker, runner, report
  <2>3. inj' \in [Runs -> InjectorType]
    BY <1>a, <1>b, <2>1, <2>2
  <2> QED
    BY <1>0, <1>a, <2>2, <2>3 DEF TypeOK
<1>8. CASE Poll \/ DeadlinePasses
  <2>1. /\ orch' \in {"failed", "ok", "polled"}
        /\ UNCHANGED <<container, crashes, pc, run, before, prevAfter, now, load, inj, probe,
                       rows, status, hits>>
    BY <1>8 DEF Poll, DeadlinePasses, docker, runner, report
  <2> QED
    BY <1>0, <1>a, <2>1 DEF TypeOK
<1>9. CASE ProbeAttempt \/ ProbeExpires
  <2>1. UNCHANGED <<container, crashes, pc, run, before, prevAfter, now, load, orch, inj,
                    rows, status, hits>>
    BY <1>9 DEF ProbeAttempt, ProbeExpires, docker, runner, report
  <2>2. \/ probe' = [probe EXCEPT !.pc = "recovered", !.gen = container.gen]
        \/ probe' = [probe EXCEPT !.pc = "faultSeen", !.next = now + ProbeRound]
        \/ probe' = [probe EXCEPT !.next = now + ProbeRound]
        \/ probe' = [probe EXCEPT !.pc = "unmeasured"]
    BY <1>9 DEF ProbeAttempt, ProbeExpires
  <2>3. container.gen \in Nat /\ now + ProbeRound \in Nat
    BY <1>a DEF ContainerType
  <2>4. probe' \in ProbeType
    BY <1>a, <2>2, <2>3 DEF ProbeType
  <2> QED
    BY <1>0, <1>a, <2>1, <2>4 DEF TypeOK
<1>10. CASE LoadEnds
  BY <1>0, <1>a, <1>10 DEF TypeOK, LoadEnds, docker, runner, report
<1>11. CASE Analyze
  BY <1>0, <1>a, <1>11 DEF TypeOK, Analyze, docker, report
<1>12. CASE InspectAfter
  <2>1. PICK inspected \in BOOLEAN, ok \in BOOLEAN, bound \in 0..MaxSkew :
          /\ prevAfter' = IF inspected THEN container.restarts ELSE -1
          /\ NextRun(Row(~invalid /\ ok /\ inspected /\ RestartedOnce,
                         IF inspected THEN container.restarts ELSE -1, bound))
    BY <1>12 DEF InspectAfter
  <2> DEFINE v == ~invalid /\ ok /\ inspected /\ RestartedOnce
             a == IF inspected THEN container.restarts ELSE -1
  <2>2. a \in Nat \cup {-1} /\ v \in BOOLEAN
    BY <1>a DEF ContainerType
  <2> HIDE DEF v, a
  <2>3. Row(v, a, bound) \in RowType
    BY <1>a, <2>2 DEF Row, RowType, BeforeType, ProbeType
  <2>4. rows' = Append(rows, Row(v, a, bound))
    BY <2>1 DEF NextRun, v, a
  <2>5. \A i \in 1..Len(rows') : rows'[i] \in RowType
    <3>1. rows \in Seq(RowType)
      BY DEF IInv, RowsInv
    <3>2. rows' \in Seq(RowType)
      BY <2>3, <2>4, <3>1, AppendProperties
    <3> QED
      BY <3>2, ElementOfSeq
  <2>6. /\ now' = 0 /\ load' = "running" /\ orch' = "arm" /\ probe' = NoProbe
        /\ inj' = [inj EXCEPT ![run] = NoInjector]
        /\ pc' \in {"reports", "waitReady"} /\ status' \in {status, "halted", "done"}
        /\ run' = run \/ (run' = run + 1 /\ run # Repetitions)
    BY <2>1 DEF NextRun
  <2>7. run' \in Runs
    BY <1>a, <2>6 DEF Runs
  <2>8. /\ UNCHANGED <<container, crashes, before, hits>>
        /\ prevAfter' = a
    BY <1>12, <2>1 DEF InspectAfter, docker, a
  <2> QED
    BY <1>0, <1>a, <1>b, <2>2, <2>5, <2>6, <2>7, <2>8 DEF TypeOK
<1>13. CASE Exit
  BY <1>0, <1>a, <1>13 DEF TypeOK, Exit, docker, report
<1>14. CASE Tick
  <2>1. /\ now' = now + 1 /\ orch' \in {orch, "poll"}
        /\ UNCHANGED <<container, crashes, pc, run, before, prevAfter, load, inj, probe,
                       rows, status, hits>>
    BY <1>14 DEF Tick, docker, runner, report
  <2>2. now' \in Nat
    BY <1>a, <2>1
  <2>3. orch' \in {"arm", "poll", "polled", "ok", "failed"}
    BY <1>0, <2>1 DEF TypeOK
  <2>4. /\ crashes' \in 0..MaxCrashes /\ prevAfter' \in Nat \cup {-1}
        /\ pc' \in {"waitReady", "inspect", "offset", "execute", "after", "reports", "exited"}
        /\ load' \in {"running", "passed", "gated"}
        /\ status' \in {"running", "done", "halted", "failed"}
    BY <1>0, <2>1, Zenon DEF TypeOK
  <2> QED
    BY <1>a, <2>1, <2>2, <2>3, <2>4, Zenon
<1>15. ASSUME NEW k \in Runs, Inject(k) PROVE T
  <2>1. /\ UNCHANGED <<crashes, pc, run, before, prevAfter, now, load, orch, probe,
                       rows, status>>
        /\ container' \in ContainerType /\ hits' \subseteq Nat
    <3>1. CASE Signal(k)
      BY <1>a, <3>1 DEF Signal, Dies, runner, report, ContainerType, BeforeType
    <3>2. CASE FireTimer(k) \/ KillReturns(k) \/ KillErrs(k)
      BY <1>a, <3>2 DEF FireTimer, KillReturns, KillErrs, docker, runner, report
    <3> QED
      BY <1>15, <3>1, <3>2 DEF Inject
  <2>2. inj' \in [Runs -> InjectorType]
    <3>1. inj[k] \in InjectorType
      BY <1>a
    <3>2. CASE FireTimer(k)
      BY <1>a, <3>1, <3>2 DEF FireTimer, InjectorType
    <3>3. CASE Signal(k)
      BY <1>a, <3>1, <3>3 DEF Signal, InjectorType
    <3>4. CASE KillReturns(k)
      <4> DEFINE r == [inj[k] EXCEPT !.pc = "done", !.fired = TRUE]
      <4>1. r \in InjectorType /\ r.sent = inj[k].sent /\ r.signalled = inj[k].signalled
        BY <3>1 DEF InjectorType
      <4> HIDE DEF r
      <4>2. inj[k].sent \in Nat /\ inj[k].signalled \in Nat
        BY <3>1 DEF InjectorType
      <4>3. CASE inj' = [inj EXCEPT ![k] = LocalFire(r)]
        <5>1. k = run
          BY <1>0, <3>4 DEF PhaseInv, KillReturns
        <5>2. inj[k].sent = TInject /\ TInject <= now
          BY <1>0, <3>4, <5>1 DEF KillInv, KillRuns, KillReturns
        <5>3. r.sent + now \in Int /\ now - r.sent \in Nat
          BY <1>a, <4>1, <4>2, <5>2
        <5>4. LocalFire(r) \in InjectorType
          BY <4>1, <5>3 DEF LocalFire, InjectorType
        <5> QED
          BY <1>b, <4>3, <5>4
      <4>4. ASSUME NEW first \in r.sent..r.signalled, NEW last \in r.signalled..now,
                   NEW skew \in -MaxSkew..MaxSkew,
                   inj' = [inj EXCEPT ![k] = RemoteFire(r, first, last, skew)]
            PROVE  inj' \in [Runs -> InjectorType]
        <5>1. first + last + 2 * skew \in Int /\ last - first \in Nat /\ skew \in Int
          BY <1>a, <4>1, <4>2
        <5>2. RemoteFire(r, first, last, skew) \in InjectorType
          BY <4>1, <5>1 DEF RemoteFire, InjectorType
        <5> QED
          BY <1>b, <4>4, <5>2
      <4> QED
        BY <3>4, <4>3, <4>4 DEF KillReturns, r
    <3>5. CASE KillErrs(k)
      BY <1>a, <3>1, <3>5 DEF KillErrs, InjectorType
    <3> QED
      BY <1>15, <3>2, <3>3, <3>4, <3>5 DEF Inject
  <2> QED
    BY <1>0, <1>a, <2>1, <2>2 DEF TypeOK
<1> QED
  BY <1>1, <1>2, <1>4, <1>5, <1>6, <1>7, <1>8, <1>9, <1>10, <1>11, <1>12, <1>13,
     <1>14, <1>15 DEF Next, Prepare, Orchestrate, Probe, Load, Finish

\* The container only gets older: a process that died stays dead, the one a
\* command is after dies as its hit, and nothing else moves.
LEMMA DockerMoves ==
    ASSUME IInv, Docker
    PROVE  /\ UNCHANGED <<pc, run, before, prevAfter, invalid, now, load, orch, inj, probe, rows,
                          status>>
           /\ hits \subseteq hits' /\ container'.gen >= container.gen
           /\ Alive(before.gen)' => Alive(before.gen)
           /\ KillRuns(run) /\ Alive(before.gen) =>
                Alive(before.gen)' \/ before.gen \in hits'
<1> USE Times DEF Docker
<1>1. UNCHANGED <<pc, run, before, prevAfter, invalid, now, load, orch, inj, probe, rows, status>>
  BY DEF Crash, Restart, Serves, runner, report
<1>2. /\ container \in ContainerType /\ container.gen \in Nat /\ before.gen \in Nat
      /\ container.gen >= before.gen /\ run \in Runs
  BY DEF IInv, TypeOK, KillInv, ContainerType
<1>3. CASE Crash
  <2>1. container' = [container EXCEPT !.phase = "down"]
    BY <1>3 DEF Crash, Dies
  <2>2. container'.gen = container.gen /\ container'.phase = "down"
    BY <1>2, <2>1 DEF ContainerType
  <2>3. hits \subseteq hits'
    BY <1>3 DEF Crash, Dies
  <2>4. KillRuns(run) /\ Alive(before.gen) => before.gen \in hits'
    BY <1>2, <1>3 DEF Crash, Dies, Alive
  <2> QED
    BY <1>1, <1>2, <2>2, <2>3, <2>4 DEF Alive
<1>4. CASE Restart
  <2>1. container'.gen = container.gen + 1 /\ container.phase = "down" /\ hits' = hits
    BY <1>4 DEF Restart
  <2> QED
    BY <1>1, <1>2, <2>1 DEF Alive
<1>5. CASE Serves
  <2>1. /\ container'.gen = container.gen /\ container'.phase = "serving"
        /\ container.phase = "starting" /\ hits' = hits
    BY <1>2, <1>5 DEF Serves, ContainerType
  <2> QED
    BY <1>1, <1>2, <2>1 DEF Alive
<1> QED
  BY <1>3, <1>4, <1>5

\* A step of an injector is one of the run in progress, and touches nothing of
\* the run but its record.
LEMMA InjectMoves ==
    ASSUME IInv, NEW k \in Runs, Inject(k)
    PROVE  /\ k = run /\ inj[run].pc \in Busy
           /\ UNCHANGED <<pc, run, before, prevAfter, invalid, now, load, orch, probe, rows,
                          status>>
           /\ \A j \in Runs : j # run => inj'[j] = inj[j]
           /\ hits \subseteq hits' /\ container'.gen = container.gen
<1>1. inj[k].pc \in Busy
  BY DEF Inject, FireTimer, Signal, KillReturns, KillErrs, KillRuns, Busy
<1>2. k = run
  BY <1>1, EmptyRecords DEF IInv, PhaseInv, Busy
<1>3. UNCHANGED <<pc, run, before, prevAfter, invalid, now, load, orch, probe, rows, status>>
  BY DEF Inject, FireTimer, Signal, KillReturns, KillErrs, runner, report
<1>4. inj \in [Runs -> InjectorType] /\ container \in ContainerType
  BY DEF IInv, TypeOK, InjectorType, ContainerType
<1>5. \A j \in Runs : j # run => inj'[j] = inj[j]
  BY <1>2, <1>4 DEF Inject, FireTimer, Signal, KillReturns, KillErrs
<1>6. hits \subseteq hits'
  BY DEF Inject, FireTimer, Signal, KillReturns, KillErrs, Dies, docker
<1>7. container'.gen = container.gen
  BY <1>4 DEF Inject, FireTimer, Signal, KillReturns, KillErrs, Dies, docker, ContainerType
<1> QED
  BY <1>1, <1>2, <1>3, <1>5, <1>6, <1>7

\* What an injector's step makes of its record.
LEMMA InjectRecord ==
    ASSUME IInv, Inject(run)
    PROVE  \/ /\ inj[run].pc = "timer" /\ now >= TInject
              /\ inj'[run].sent = now /\ inj'[run].signalled = inj[run].signalled
              /\ inj'[run].fired = inj[run].fired /\ inj'[run].skew = inj[run].skew
              /\ UNCHANGED <<container, hits>>
              /\ \/ inj'[run].pc = "checked" /\ Alive(before.gen) /\ ~inj'[run].err
                 \/ inj'[run].pc = "done"
           \/ /\ inj[run].pc = "checked" /\ inj'[run].pc = "signalled"
              /\ inj'[run].sent = inj[run].sent /\ inj'[run].signalled = now
              /\ inj'[run].fired = inj[run].fired /\ inj'[run].skew = inj[run].skew
              /\ inj'[run].err = inj[run].err
              /\ ~Alive(before.gen)' /\ (Alive(before.gen) => before.gen \in hits')
           \/ /\ inj[run].pc = "signalled" /\ inj'[run].pc = "done"
              /\ ~inj[run].err => ~inj'[run].err
              /\ inj'[run].signalled = inj[run].signalled
              /\ 2 * inj[run].signalled + 2 * inj'[run].skew <= inj'[run].fired2 + inj'[run].spread
              /\ UNCHANGED <<container, hits>>
           \/ /\ KillRuns(run) /\ inj'[run].pc = "done"
              /\ inj'[run].signalled = inj[run].signalled
              /\ inj'[run].fired = inj[run].fired
              /\ UNCHANGED <<container, hits>>
<1>1. /\ run \in Runs /\ inj \in [Runs -> InjectorType] /\ container \in ContainerType
      /\ inj[run] \in InjectorType
  BY DEF IInv, TypeOK, InjectorType, ContainerType
<1>2. UNCHANGED <<before>>
  BY DEF Inject, FireTimer, Signal, KillReturns, KillErrs, runner
<1>3. CASE FireTimer(run)
  <2>1. inj' = [inj EXCEPT ![run] = [inj[run] EXCEPT !.sent = now,
                 !.pc = IF Alive(before.gen) THEN "checked" ELSE "done",
                 !.err = ~Alive(before.gen)]]
    BY <1>1, <1>3 DEF FireTimer, StillInContainer
  <2>2. inj'[run] = [inj[run] EXCEPT !.sent = now,
                       !.pc = IF Alive(before.gen) THEN "checked" ELSE "done",
                       !.err = ~Alive(before.gen)]
    BY <1>1, <2>1
  <2>3. /\ inj'[run].sent = now /\ inj'[run].signalled = inj[run].signalled
        /\ inj'[run].fired = inj[run].fired /\ inj'[run].skew = inj[run].skew
    BY <1>1, <2>2 DEF InjectorType
  <2>4. \/ inj'[run].pc = "checked" /\ Alive(before.gen) /\ ~inj'[run].err
        \/ inj'[run].pc = "done"
    BY <1>1, <2>2 DEF InjectorType
  <2> QED
    BY <1>3, <2>3, <2>4 DEF FireTimer, docker
<1>4. CASE Signal(run)
  <2>1. inj'[run] = [inj[run] EXCEPT !.pc = "signalled", !.signalled = now]
    BY <1>1, <1>4 DEF Signal
  <2>2. ~Alive(before.gen)' /\ (Alive(before.gen) => before.gen \in hits')
    <3>1. CASE Alive(before.gen)
      <4>1. container'.phase = "down"
        BY <1>1, <1>4, <3>1 DEF Signal, Dies, ContainerType
      <4>2. before.gen \in hits'
        BY <1>1, <1>4, <3>1 DEF Signal, Dies, KillRuns
      <4> QED
        BY <4>1, <4>2 DEF Alive
    <3>2. CASE ~Alive(before.gen)
      BY <1>2, <1>4, <3>2 DEF Signal, Alive
    <3> QED
      BY <3>1, <3>2
  <2>3. /\ inj'[run].pc = "signalled" /\ inj'[run].sent = inj[run].sent
        /\ inj'[run].signalled = now /\ inj'[run].fired = inj[run].fired
        /\ inj'[run].skew = inj[run].skew /\ inj'[run].err = inj[run].err
    BY <1>1, <2>1 DEF InjectorType
  <2> QED
    BY <1>4, <2>2, <2>3 DEF Signal
<1>5. CASE KillReturns(run)
  <2> DEFINE r == [inj[run] EXCEPT !.pc = "done", !.fired = TRUE]
  <2>1. /\ r \in InjectorType /\ r.pc = "done" /\ r.sent = inj[run].sent /\ r.err = inj[run].err
        /\ r.signalled = inj[run].signalled /\ r.skew = inj[run].skew
    BY <1>1 DEF InjectorType
  <2>2. /\ inj[run].pc = "signalled" /\ UNCHANGED <<container, hits>>
        /\ inj[run].signalled \in Nat /\ inj[run].sent \in Nat /\ now \in Nat
        /\ inj[run].signalled <= now /\ inj[run].skew = 0
    BY <1>1, <1>5 DEF IInv, TypeOK, KillInv, Busy, InjectorType, KillReturns, docker
  <2> HIDE DEF r
  <2>3. CASE inj' = [inj EXCEPT ![run] = LocalFire(r)]
    <3>1. inj'[run] = [r EXCEPT !.fired2 = r.sent + now, !.spread = now - r.sent]
      BY <1>1, <2>3 DEF LocalFire
    <3>2. /\ inj'[run].pc = "done" /\ inj'[run].err = inj[run].err
          /\ inj'[run].signalled = inj[run].signalled /\ inj'[run].skew = 0
          /\ inj'[run].fired2 = inj[run].sent + now /\ inj'[run].spread = now - inj[run].sent
      BY <2>1, <2>2, <3>1 DEF InjectorType
    <3>3. 2 * inj[run].signalled + 2 * inj'[run].skew <= inj'[run].fired2 + inj'[run].spread
      BY <2>2, <3>2
    <3> QED
      BY <2>2, <3>2, <3>3
  <2>4. ASSUME NEW first \in r.sent..r.signalled, NEW last \in r.signalled..now,
               NEW skew \in -MaxSkew..MaxSkew,
               inj' = [inj EXCEPT ![run] = RemoteFire(r, first, last, skew)]
        PROVE  /\ inj'[run].pc = "done" /\ inj'[run].err = inj[run].err
               /\ inj'[run].signalled = inj[run].signalled
               /\ 2 * inj[run].signalled + 2 * inj'[run].skew <= inj'[run].fired2 + inj'[run].spread
    <3>1. inj'[run] = [r EXCEPT !.fired2 = first + last + 2 * skew, !.spread = last - first,
                                !.skew = skew]
      BY <1>1, <2>4 DEF RemoteFire
    <3>2. /\ inj'[run].pc = "done" /\ inj'[run].err = inj[run].err
          /\ inj'[run].signalled = inj[run].signalled /\ inj'[run].skew = skew
          /\ inj'[run].fired2 = first + last + 2 * skew /\ inj'[run].spread = last - first
      BY <2>1, <3>1 DEF InjectorType
    <3>3. /\ skew \in Int /\ first \in Int /\ last \in Int /\ inj[run].signalled <= last
      BY <2>1, <2>2, Times
    <3> QED
      BY <2>2, <3>2, <3>3
  <2> QED
    BY <1>5, <2>2, <2>3, <2>4 DEF KillReturns, r
<1>6. CASE KillErrs(run)
  <2>1. inj'[run] = [inj[run] EXCEPT !.pc = "done", !.err = TRUE]
    BY <1>1, <1>6 DEF KillErrs
  <2>2. /\ inj'[run].pc = "done" /\ inj'[run].signalled = inj[run].signalled
        /\ inj'[run].fired = inj[run].fired
    BY <1>1, <2>1 DEF InjectorType
  <2> QED
    BY <1>6, <2>2 DEF KillErrs, docker
<1> QED
  BY <1>3, <1>4, <1>5, <1>6 DEF Inject

\* The steps that leave the clock, the container, the orchestrator and the
\* kill alone, and where they may take the runner.
Quiet ==
    \/ WaitReady \/ Start \/ ProbeAttempt \/ ProbeExpires \/ LoadEnds \/ Analyze
    \/ WaitReadyFails \/ InspectBeforeFails \/ ClockOffsetFails \/ LoadFails
    \/ OrchestratorFailed \/ WriteRunFails \/ Terminated \/ UNCHANGED vars

\* What they change.
LEMMA QuietMoves ==
    ASSUME Quiet
    PROVE  /\ UNCHANGED <<container, run, before, now, orch, inj, rows, prevAfter, hits>>
           /\ \/ pc' = pc /\ status' = status
              \/ pc = "waitReady" /\ pc' = "inspect" /\ status' = status
              \/ pc = "offset" /\ pc' = "execute" /\ status' = status
              \/ pc = "execute" /\ orch = "ok" /\ pc' = "after" /\ status' = status
              \/ pc' = "reports" /\ status' = "failed"
           /\ pc = "execute" \/ probe' = probe
           /\ invalid => invalid'
<1>1. CASE \/ WaitReadyFails \/ InspectBeforeFails \/ ClockOffsetFails \/ LoadFails
           \/ OrchestratorFailed \/ WriteRunFails
  BY <1>1, FailMoves
<1>2. CASE UNCHANGED vars \/ Terminated
  BY <1>2 DEF Terminated, vars, docker, runner, report
<1>3. CASE WaitReady \/ Start
  BY <1>3 DEF WaitReady, Start, docker, report
<1>4. CASE ProbeAttempt \/ ProbeExpires
  BY <1>4 DEF ProbeAttempt, ProbeExpires, docker, runner, report
<1>5. CASE LoadEnds
  BY <1>5 DEF LoadEnds, docker, runner, report
<1>6. CASE Analyze
  BY <1>6 DEF Analyze, docker, report
<1> QED
  BY <1>1, <1>2, <1>3, <1>4, <1>5, <1>6 DEF Quiet

\* A run that ended is a row, and nothing of it is left to the next one but
\* the restart count.
LEMMA AfterMoves ==
    ASSUME IInv, InspectAfter
    PROVE  /\ pc = "after" /\ UNCHANGED <<container, before, hits>>
           /\ now' = 0 /\ orch' = "arm" /\ probe' = NoProbe
           /\ run' \in Runs /\ \A k \in Runs : inj'[k] = NoInjector
           /\ pc' = "reports" \/ (pc' = "waitReady" /\ status' = status)
           /\ \E valid \in BOOLEAN, bound \in 0..MaxSkew :
                /\ rows' = Append(rows, Row(valid, prevAfter', bound))
                /\ prevAfter' \in Nat \cup {-1}
                /\ valid => /\ ~invalid /\ prevAfter' = container.restarts /\ RestartedOnce
                            /\ -bound <= Mine.skew
<1>1. PICK inspected \in BOOLEAN, ok \in BOOLEAN, bound \in 0..MaxSkew :
        /\ prevAfter' = IF inspected THEN container.restarts ELSE -1
        /\ ok => -bound <= Mine.skew /\ Mine.skew <= bound
        /\ NextRun(Row(~invalid /\ ok /\ inspected /\ RestartedOnce,
                       IF inspected THEN container.restarts ELSE -1, bound))
  BY DEF InspectAfter
<1>2. pc = "after" /\ UNCHANGED <<container, before, hits>>
  BY DEF InspectAfter, docker
<1>3. /\ now' = 0 /\ orch' = "arm" /\ probe' = NoProbe
      /\ inj' = [inj EXCEPT ![run] = NoInjector]
      /\ run' = run \/ (run' = run + 1 /\ run # Repetitions)
      /\ pc' = "reports" \/ (pc' = "waitReady" /\ status' = status)
  BY <1>1 DEF NextRun
<1>4. /\ run \in Runs /\ inj \in [Runs -> InjectorType] /\ container.restarts \in Nat
      /\ \A k \in Runs : k # run => inj[k] = NoInjector
  BY DEF IInv, TypeOK, PhaseInv, InjectorType
<1>5. run' \in Runs
  BY <1>3, <1>4, Times DEF Runs
<1>6. \A k \in Runs : inj'[k] = NoInjector
  BY <1>3, <1>4
<1> DEFINE v == ~invalid /\ ok /\ inspected /\ RestartedOnce
<1>7. rows' = Append(rows, Row(v, prevAfter', bound))
  BY <1>1 DEF NextRun
<1>8. prevAfter' \in Nat \cup {-1}
  BY <1>1, <1>4
<1>9. /\ v \in BOOLEAN
      /\ v => /\ ~invalid /\ prevAfter' = container.restarts /\ RestartedOnce
              /\ -bound <= Mine.skew
  BY <1>1
<1> HIDE DEF v
<1> QED
  BY <1>2, <1>3, <1>5, <1>6, <1>7, <1>8, <1>9

\* The steps by what they move.
LEMMA Steps ==
    ASSUME [Next]_vars
    PROVE  \/ Quiet \/ Docker \/ InspectBefore \/ Arm \/ Poll \/ DeadlinePasses
           \/ InspectAfter \/ Exit \/ Tick \/ \E k \in Runs : Inject(k)
BY DEF Next, Quiet, Prepare, Orchestrate, Probe, Load, Finish

\* The orchestrator and the clock move nothing else.
LEMMA ClockMoves ==
    ASSUME Poll \/ DeadlinePasses \/ Tick
    PROVE  UNCHANGED <<container, pc, run, before, prevAfter, invalid, load, inj, probe, rows,
                       status, hits>>
BY DEF Poll, DeadlinePasses, Tick, docker, runner, report

\* Arming is the orchestrator's and starts one injector.
LEMMA ArmMoves ==
    ASSUME IInv, Arm
    PROVE  /\ UNCHANGED <<container, pc, run, before, prevAfter, invalid, now, probe, rows,
                          status, hits>>
           /\ pc = "execute" /\ orch = "arm" /\ orch' \in {"poll", "failed"}
           /\ \A j \in Runs : j # run => inj'[j] = inj[j]
           /\ \/ inj' = inj
              \/ /\ orch' = "poll" /\ now < TInject /\ inj'[run].pc = "timer"
                 /\ inj'[run].signalled = 0 /\ ~inj'[run].fired /\ inj'[run].skew = 0
                 /\ ~inj'[run].err
<1>1. run \in Runs /\ inj \in [Runs -> InjectorType] /\ (orch = "arm" => inj[run] = NoInjector)
  BY DEF IInv, TypeOK, PhaseInv, InjectorType
<1>2. /\ UNCHANGED <<container, pc, run, before, prevAfter, invalid, now, probe, rows,
                     status, hits>>
      /\ pc = "execute" /\ orch = "arm" /\ orch' \in {"poll", "failed"}
  BY DEF Arm, docker, runner, report
<1>3. \A j \in Runs : j # run => inj'[j] = inj[j]
  BY <1>1 DEF Arm
<1>4. \/ inj' = inj
      \/ /\ orch' = "poll" /\ now < TInject
         /\ inj'[run] = [NoInjector EXCEPT !.pc = "timer"]
  BY <1>1 DEF Arm
<1>5. /\ [NoInjector EXCEPT !.pc = "timer"].pc = "timer"
      /\ [NoInjector EXCEPT !.pc = "timer"].signalled = 0
      /\ ~[NoInjector EXCEPT !.pc = "timer"].fired
      /\ [NoInjector EXCEPT !.pc = "timer"].skew = 0
      /\ ~[NoInjector EXCEPT !.pc = "timer"].err
  BY DEF NoInjector
<1> QED
  BY <1>2, <1>3, <1>4, <1>5

\* Where the runner is.
LEMMA PhaseStep == IInv /\ [Next]_vars => PhaseInv'
<1> SUFFICES ASSUME IInv, [Next]_vars PROVE PhaseInv'
  OBVIOUS
<1> USE Times, EmptyRecords
<1>0. /\ \A k \in Runs : k # run => inj[k] = NoInjector
      /\ orch = "arm" => inj[run] = NoInjector
      /\ pc \in {"waitReady", "inspect", "offset"} =>
           orch = "arm" /\ now = 0 /\ probe = NoProbe
      /\ pc \notin {"reports", "exited"} => status = "running"
      /\ pc = "after" => orch = "ok"
      /\ pc \in {"reports", "exited"} => status = "failed" \/ inj[run].pc \notin Busy
      /\ run \in Runs
  BY DEF IInv, PhaseInv, TypeOK
<1>1. CASE Quiet
  BY <1>0, <1>1, QuietMoves DEF PhaseInv
<1>2. CASE Docker
  BY <1>0, <1>2, DockerMoves DEF PhaseInv
<1>3. CASE InspectBefore
  <2>1. /\ pc = "inspect" /\ pc' = "offset"
        /\ UNCHANGED <<run, now, orch, inj, probe, status>>
    BY <1>3 DEF InspectBefore, report
  <2> QED
    BY <1>0, <2>1 DEF PhaseInv
<1>4. CASE Arm
  BY <1>0, <1>4, ArmMoves DEF PhaseInv, Busy
<1>5. CASE Poll \/ DeadlinePasses \/ Tick
  <2>1. /\ pc \in {"execute", "reports"}
        /\ orch' # "arm" \/ orch = "arm"
    BY <1>5 DEF Poll, DeadlinePasses, Tick
  <2> QED
    BY <1>0, <1>5, <2>1, ClockMoves DEF PhaseInv
<1>6. CASE InspectAfter
  BY <1>0, <1>6, AfterMoves DEF PhaseInv, Busy
<1>7. CASE Exit
  <2>1. pc' = "exited" /\ run' = run /\ \A k \in Runs : inj'[k] = NoInjector
    BY <1>7 DEF Exit
  <2> QED
    BY <1>0, <2>1 DEF PhaseInv, Busy
<1>8. ASSUME NEW k \in Runs, Inject(k) PROVE PhaseInv'
  BY <1>0, <1>8, InjectMoves DEF PhaseInv, Busy
<1> QED
  BY <1>1, <1>2, <1>3, <1>4, <1>5, <1>6, <1>7, <1>8, Steps

\* The kill of the run in progress.
LEMMA KillStep == IInv /\ [Next]_vars => KillInv'
<1> SUFFICES ASSUME IInv, [Next]_vars PROVE KillInv'
  OBVIOUS
<1> USE Times, EmptyRecords
<1>0. KillInv /\ PhaseInv
  BY DEF IInv
<1>a. /\ run \in Runs /\ now \in Nat /\ container.gen \in Nat /\ before.gen \in Nat
      /\ inj[run].pc \in {"none", "timer", "checked", "signalled", "done"}
      /\ inj[run].signalled \in Nat /\ inj[run].sent \in Nat /\ inj[run].fired2 \in Int
      /\ inj[run].skew \in Int /\ inj[run].spread \in Nat
  BY DEF IInv, TypeOK
<1>1. CASE Quiet
  BY <1>0, <1>1, QuietMoves DEF KillInv, PhaseInv, KillRuns, Alive
<1>2. CASE Docker
  <2>1. /\ UNCHANGED <<pc, run, before, now, orch, inj>>
        /\ hits \subseteq hits' /\ container'.gen >= container.gen
        /\ Alive(before.gen)' => Alive(before.gen)
        /\ KillRuns(run) /\ Alive(before.gen) => Alive(before.gen)' \/ before.gen \in hits'
    BY <1>2, DockerMoves
  <2>2. container'.gen >= before'.gen
    <3>1. container'.gen \in Nat
      BY TypeStep DEF TypeOK
    <3> QED
      BY <1>0, <1>a, <2>1, <3>1 DEF KillInv
  <2>3. inj[run].pc = "checked" => Alive(before.gen)' \/ before.gen \in hits'
    BY <1>0, <2>1 DEF KillInv, KillRuns
  <2>4. inj[run].signalled # 0 => before.gen \in hits' /\ ~Alive(before.gen)'
    BY <1>0, <2>1 DEF KillInv
  <2> QED
    BY <1>0, <2>1, <2>2, <2>3, <2>4 DEF KillInv, KillRuns
<1>3. CASE InspectBefore
  <2>1. /\ pc = "inspect" /\ pc' = "offset" /\ before'.gen = container.gen
        /\ UNCHANGED <<container, run, now, orch, inj, hits>>
    BY <1>3 DEF InspectBefore, docker
  <2>2. inj[run] = NoInjector /\ orch = "arm"
    BY <1>0, <2>1 DEF PhaseInv
  <2> QED
    BY <1>a, <2>1, <2>2 DEF KillInv, KillRuns, Busy
<1>4. CASE Arm
  <2>1. CASE inj' = inj
    BY <1>0, <1>a, <1>4, <2>1, ArmMoves DEF KillInv, PhaseInv, KillRuns, Busy, Alive
  <2>2. CASE inj' # inj
    BY <1>0, <1>a, <1>4, <2>2, ArmMoves DEF KillInv, KillRuns, Busy
  <2> QED
    BY <2>1, <2>2
<1>5. CASE Poll
  <2>1. /\ orch' \in {"failed", "ok", "polled"} /\ now' = now
        /\ orch' = "failed" => inj[run].err
        /\ orch' = "ok" => inj[run].fired
    BY <1>5 DEF Poll, Mine
  <2>2. orch' = "failed" => inj[run].pc \notin Busy
    BY <1>0, <2>1 DEF KillInv
  <2>3. orch' = "ok" => inj[run].pc = "done"
    BY <1>0, <1>a, <2>1 DEF KillInv, Busy
  <2> QED
    BY <1>0, <1>5, <2>1, <2>2, <2>3, ClockMoves DEF KillInv, KillRuns, Alive
<1>6. CASE DeadlinePasses
  <2>1. now >= TInject + ContainerOpTimeout + Slack /\ orch' = "failed" /\ now' = now
    BY <1>6 DEF DeadlinePasses, Deadline, InjectDurationS
  <2>2. inj[run].pc \notin Busy
    BY <1>0, <1>a, <2>1 DEF KillInv, KillRuns, Busy
  <2> QED
    BY <1>0, <1>6, <2>1, <2>2, ClockMoves DEF KillInv, KillRuns, Alive
<1>7. CASE Tick
  <2>1. /\ now' = now + 1 /\ orch' \in {orch, "poll"}
        /\ inj[run].pc = "timer" => now < TInject
        /\ KillRuns(run) => now < inj[run].sent + ContainerOpTimeout + WaitDelay
    BY <1>a, <1>7 DEF Tick
  <2>2. /\ inj[run].pc = "timer" => now' <= TInject
        /\ KillRuns(run) =>
             TInject <= now' /\ now' <= TInject + ContainerOpTimeout + WaitDelay
        /\ inj[run].pc = "signalled" => inj[run].signalled <= now'
    BY <1>0, <1>a, <2>1 DEF KillInv
  <2> QED
    BY <1>0, <1>7, <2>1, <2>2, ClockMoves DEF KillInv, KillRuns, Alive
<1>8. CASE InspectAfter
  BY <1>0, <1>8, AfterMoves DEF KillInv, KillRuns, Busy
<1>9. CASE Exit
  <2>1. /\ pc' = "exited" /\ \A k \in Runs : inj'[k] = NoInjector
        /\ UNCHANGED <<container, run, before, now, orch, hits>>
    BY <1>9 DEF Exit, docker
  <2> QED
    BY <1>0, <1>a, <2>1 DEF KillInv, KillRuns, Busy
<1>10. ASSUME NEW k \in Runs, Inject(k) PROVE KillInv'
  <2>1. /\ k = run /\ inj[run].pc \in Busy /\ UNCHANGED <<pc, run, before, now, orch>>
        /\ hits \subseteq hits' /\ container'.gen = container.gen
    BY <1>10, InjectMoves
  <2>2. /\ ~inj[run].err /\ ~inj[run].fired /\ inj[run].skew = 0 /\ orch # "failed"
        /\ ~(orch = "ok" /\ pc \in {"execute", "after"})
    BY <1>0, <2>1 DEF KillInv, Busy
  <2>3. CASE /\ inj[run].pc = "timer" /\ now >= TInject
             /\ inj'[run].sent = now /\ inj'[run].signalled = inj[run].signalled
             /\ inj'[run].fired = inj[run].fired /\ inj'[run].skew = inj[run].skew
             /\ UNCHANGED <<container, hits>>
             /\ \/ inj'[run].pc = "checked" /\ Alive(before.gen) /\ ~inj'[run].err
                \/ inj'[run].pc = "done"
    <3>1. now = TInject /\ inj[run].signalled = 0
      BY <1>0, <1>a, <2>3 DEF KillInv
    <3> QED
      BY <1>0, <1>a, <2>1, <2>2, <2>3, <3>1 DEF KillInv, KillRuns, Alive, Busy
  <2>4. CASE /\ inj[run].pc = "checked" /\ inj'[run].pc = "signalled"
             /\ inj'[run].sent = inj[run].sent /\ inj'[run].signalled = now
             /\ inj'[run].fired = inj[run].fired /\ inj'[run].skew = inj[run].skew
             /\ inj'[run].err = inj[run].err
             /\ ~Alive(before.gen)' /\ (Alive(before.gen) => before.gen \in hits')
    <3>1. before.gen \in hits' /\ now # 0
      BY <1>0, <1>a, <2>1, <2>4 DEF KillInv, KillRuns
    <3> QED
      BY <1>0, <1>a, <2>1, <2>2, <2>4, <3>1 DEF KillInv, KillRuns, Busy
  <2>5. CASE /\ inj[run].pc = "signalled" /\ inj'[run].pc = "done"
             /\ ~inj[run].err => ~inj'[run].err
             /\ inj'[run].signalled = inj[run].signalled
             /\ 2 * inj[run].signalled + 2 * inj'[run].skew <= inj'[run].fired2 + inj'[run].spread
             /\ UNCHANGED <<container, hits>>
    BY <1>0, <1>a, <2>1, <2>2, <2>5 DEF KillInv, KillRuns, Busy, Alive
  <2>6. CASE /\ KillRuns(run) /\ inj'[run].pc = "done"
             /\ inj'[run].signalled = inj[run].signalled
             /\ inj'[run].fired = inj[run].fired
             /\ UNCHANGED <<container, hits>>
    BY <1>0, <1>a, <2>1, <2>2, <2>6 DEF KillInv, KillRuns, Busy, Alive
  <2> QED
    BY <1>10, <2>1, <2>3, <2>4, <2>5, <2>6, InjectRecord
<1> QED
  BY <1>1, <1>2, <1>3, <1>4, <1>5, <1>6, <1>7, <1>8, <1>9, <1>10, Steps

\* What the probe may have seen.
LEMMA ProbeStep == IInv /\ [Next]_vars => ProbeInv'
<1> SUFFICES ASSUME IInv, [Next]_vars PROVE ProbeInv'
  OBVIOUS
<1> USE Times, EmptyRecords
<1>0. ProbeInv /\ KillInv /\ PhaseInv
  BY DEF IInv
<1>a. /\ run \in Runs /\ now \in Nat /\ container.gen \in Nat /\ before.gen \in Nat
      /\ probe \in ProbeType /\ probe.next \in Nat /\ probe.gen \in Nat
      /\ inj[run].signalled \in Nat
  BY DEF IInv, TypeOK, ProbeType
<1>1. CASE ProbeAttempt
  <2>1. /\ now >= TInject /\ now >= probe.next /\ pc = "execute"
        /\ \/ /\ probe.pc = "faultSeen" /\ container.phase = "serving"
              /\ probe' = [probe EXCEPT !.pc = "recovered", !.gen = container.gen]
           \/ probe' = [probe EXCEPT !.pc = "faultSeen", !.next = now + ProbeRound]
           \/ probe' = [probe EXCEPT !.next = now + ProbeRound]
    BY <1>1 DEF ProbeAttempt, FaultSeen, Serving
  <2>2. UNCHANGED <<pc, run, before, now, inj>>
    BY <1>1 DEF ProbeAttempt, runner
  <2>3. CASE /\ probe.pc = "faultSeen" /\ container.phase = "serving"
             /\ probe' = [probe EXCEPT !.pc = "recovered", !.gen = container.gen]
    <3>1. probe'.pc = "recovered" /\ probe'.gen = container.gen
      BY <1>a, <2>3 DEF ProbeType
    <3>2. now >= TInject + ProbeRound
      BY <1>0, <1>a, <2>1, <2>3 DEF ProbeInv
    <3>3. container.gen > before.gen \/ inj[run].signalled = 0
      BY <1>0, <1>a, <2>3 DEF KillInv, Alive
    <3> QED
      BY <1>a, <2>1, <2>2, <3>1, <3>2, <3>3 DEF ProbeInv
  <2>4. CASE \/ probe' = [probe EXCEPT !.pc = "faultSeen", !.next = now + ProbeRound]
             \/ probe' = [probe EXCEPT !.next = now + ProbeRound]
    <3>1. probe'.gen = probe.gen /\ probe'.next = now + ProbeRound
      BY <1>a, <2>4 DEF ProbeType
    <3> QED
      BY <1>0, <1>a, <2>1, <2>2, <3>1 DEF ProbeInv
  <2> QED
    BY <2>1, <2>3, <2>4
<1>2. CASE ProbeExpires
  <2>1. /\ pc = "execute" /\ UNCHANGED <<pc, run, before, now, inj>>
        /\ probe' = [probe EXCEPT !.pc = "unmeasured"]
    BY <1>2 DEF ProbeExpires, runner
  <2>2. probe'.pc = "unmeasured" /\ probe'.gen = probe.gen
    BY <1>a, <2>1 DEF ProbeType
  <2> QED
    BY <1>0, <2>1, <2>2 DEF ProbeInv
<1>3. CASE Analyze
  <2>1. UNCHANGED <<run, before, now, inj, probe>>
    BY <1>3 DEF Analyze
  <2> QED
    BY <1>0, <2>1 DEF ProbeInv
<1>4. CASE Quiet /\ ~ProbeAttempt /\ ~ProbeExpires /\ ~Analyze
  <2>1. probe' = probe /\ (pc' = "after" => pc = "after")
    <3>1. CASE \/ WaitReadyFails \/ InspectBeforeFails \/ ClockOffsetFails \/ LoadFails
               \/ OrchestratorFailed \/ WriteRunFails
      BY <3>1, FailMoves
    <3>2. CASE UNCHANGED vars \/ Terminated \/ WaitReady \/ Start \/ LoadEnds
      BY <3>2 DEF Terminated, WaitReady, Start, LoadEnds, vars, runner
    <3> QED
      BY <1>4, <3>1, <3>2 DEF Quiet
  <2> QED
    BY <1>0, <1>4, <2>1, QuietMoves DEF ProbeInv
<1>5. CASE Docker
  BY <1>0, <1>5, DockerMoves DEF ProbeInv
<1>6. CASE InspectBefore
  <2>1. pc' = "offset" /\ probe' = probe /\ probe = NoProbe
    BY <1>0, <1>6 DEF InspectBefore, PhaseInv
  <2> QED
    BY <2>1 DEF ProbeInv
<1>7. CASE Arm
  <2>1. inj'[run].signalled = inj[run].signalled
    BY <1>0, <1>7, ArmMoves DEF PhaseInv
  <2> QED
    BY <1>0, <1>7, <2>1, ArmMoves DEF ProbeInv
<1>8. CASE Poll \/ DeadlinePasses \/ Tick
  <2>1. now' = now \/ now' = now + 1
    BY <1>8 DEF Poll, DeadlinePasses, Tick
  <2> QED
    BY <1>0, <1>a, <1>8, <2>1, ClockMoves DEF ProbeInv
<1>9. CASE InspectAfter
  BY <1>9, AfterMoves DEF ProbeInv
<1>10. CASE Exit
  <2>1. /\ pc' = "exited" /\ \A k \in Runs : inj'[k] = NoInjector
        /\ UNCHANGED <<run, before, now, probe>>
    BY <1>10 DEF Exit
  <2> QED
    BY <1>0, <1>a, <2>1 DEF ProbeInv
<1>11. ASSUME NEW k \in Runs, Inject(k) PROVE ProbeInv'
  <2>1. /\ k = run /\ inj[run].pc \in Busy /\ UNCHANGED <<pc, run, before, now, probe>>
    BY <1>11, InjectMoves
  <2>2. pc # "after"
    BY <1>0, <2>1 DEF PhaseInv, KillInv, Busy
  <2>3. inj'[run].signalled = inj[run].signalled \/ inj'[run].signalled = now
    BY <1>11, <2>1, InjectRecord
  <2> QED
    BY <1>0, <2>1, <2>2, <2>3 DEF ProbeInv
<1> QED
  BY <1>1, <1>2, <1>3, <1>4, <1>5, <1>6, <1>7, <1>8, <1>9, <1>10, <1>11, Steps

\* What the run is measured against.
LEMMA ChainStep == IInv /\ [Next]_vars => ChainInv'
<1> SUFFICES ASSUME IInv, [Next]_vars PROVE ChainInv'
  OBVIOUS
<1>0. ChainInv
  BY DEF IInv
<1>1. CASE Quiet
  BY <1>0, <1>1, QuietMoves DEF ChainInv
<1>2. CASE Docker
  BY <1>0, <1>2, DockerMoves DEF ChainInv
<1>3. CASE InspectBefore
  <2>1. /\ pc = "inspect" /\ pc' = "offset" /\ rows' = rows
        /\ before'.restarts = container.restarts
    BY <1>3 DEF InspectBefore, report
  <2>2. ~invalid' => prevAfter = -1 \/ container.restarts = prevAfter
    BY <1>3 DEF InspectBefore, RestartedBetweenRuns
  <2> QED
    BY <1>0, <2>1, <2>2 DEF ChainInv
<1>4. CASE Arm
  BY <1>0, <1>4, ArmMoves DEF ChainInv
<1>5. CASE Poll \/ DeadlinePasses \/ Tick
  BY <1>0, <1>5, ClockMoves DEF ChainInv
<1>6. CASE InspectAfter
  <2>1. PICK valid \in BOOLEAN, bound \in 0..MaxSkew :
          rows' = Append(rows, Row(valid, prevAfter', bound))
    BY <1>6, AfterMoves
  <2>2. rows \in Seq(RowType)
    BY DEF IInv, RowsInv
  <2>3. rows' # <<>> /\ rows'[Len(rows')] = Row(valid, prevAfter', bound)
    BY <2>1, <2>2
  <2>4. Row(valid, prevAfter', bound).after = prevAfter'
    BY DEF Row
  <2>5. pc' \in {"reports", "waitReady"}
    BY <1>6, AfterMoves
  <2> QED
    BY <2>3, <2>4, <2>5 DEF ChainInv
<1>7. CASE Exit
  BY <1>7 DEF Exit, ChainInv
<1>8. ASSUME NEW k \in Runs, Inject(k) PROVE ChainInv'
  BY <1>0, <1>8, InjectMoves DEF ChainInv
<1> QED
  BY <1>1, <1>2, <1>3, <1>4, <1>5, <1>6, <1>7, <1>8, Steps

\* The row of a run that ended.
LEMMA NewRow ==
    ASSUME IInv, pc = "after", NEW valid \in BOOLEAN, NEW a \in Nat \cup {-1},
           NEW bound \in 0..MaxSkew,
           valid => ~invalid /\ a = container.restarts /\ RestartedOnce /\ -bound <= Mine.skew
    PROVE  LET r == Row(valid, a, bound) IN
           /\ r \in RowType
           /\ r.valid => r.gen \in hits
           /\ r.valid => r.after = r.before + 1
           /\ r.valid /\ rows # <<>> /\ rows[Len(rows)].after # -1 =>
                r.before = rows[Len(rows)].after
           /\ r.valid /\ r.early => r.ready > r.gen
<1> DEFINE r == Row(valid, a, bound)
<1> USE Times
<1>1. /\ before.gen \in Nat /\ before.restarts \in Nat /\ container.restarts \in Nat
      /\ probe.gen \in Nat /\ run \in Runs /\ inj[run].signalled \in Nat
      /\ inj[run].fired2 \in Int /\ inj[run].spread \in Nat /\ inj[run].skew \in Int
  BY DEF IInv, TypeOK
<1>2. /\ r.valid = valid /\ r.gen = before.gen /\ r.before = before.restarts /\ r.after = a
      /\ r.ready = probe.gen
      /\ r.early => /\ probe.gen # None
                    /\ inj[run].fired2 + (inj[run].spread + 2 * bound) < 2 * (TInject + ProbeRound)
  BY DEF Row, Mine, FireUncertainty2
<1>3. r \in RowType
  BY <1>1 DEF Row, RowType
<1>4. before.gen \in hits /\ inj[run].fired /\ inj[run].signalled # 0
  BY DEF IInv, PhaseInv, KillInv
<1>5. valid => a = before.restarts + 1
  BY <1>1 DEF RestartedOnce
<1>6. valid /\ rows # <<>> /\ rows[Len(rows)].after # -1 =>
        before.restarts = rows[Len(rows)].after
  BY DEF IInv, ChainInv
<1>7. ASSUME valid, r.early PROVE probe.gen > before.gen
  <2>1. 2 * inj[run].signalled + 2 * inj[run].skew <= inj[run].fired2 + inj[run].spread
    BY <1>4 DEF IInv, KillInv
  <2>2. /\ inj[run].fired2 + (inj[run].spread + 2 * bound) < 2 * (TInject + ProbeRound)
        /\ -bound <= inj[run].skew
    BY <1>2, <1>7 DEF Mine
  <2>3. ~(inj[run].signalled >= TInject + ProbeRound)
    <3>1. bound \in Nat
      OBVIOUS
    <3> QED
      BY <1>1, <2>1, <2>2, <3>1
  <2> QED
    BY <1>2, <1>4, <1>7, <2>3 DEF IInv, ProbeInv
<1> HIDE DEF r
<1>8. QED
  <2>1. /\ r \in RowType
        /\ r.valid => r.gen \in hits
        /\ r.valid => r.after = r.before + 1
        /\ r.valid /\ rows # <<>> /\ rows[Len(rows)].after # -1 =>
             r.before = rows[Len(rows)].after
        /\ r.valid /\ r.early => r.ready > r.gen
    BY <1>2, <1>3, <1>4, <1>5, <1>6, <1>7
  <2> QED
    BY <2>1 DEF r

\* The rows.
LEMMA RowsStep == IInv /\ [Next]_vars => RowsInv'
<1> SUFFICES ASSUME IInv, [Next]_vars PROVE RowsInv'
  OBVIOUS
<1>0. rows \in Seq(RowType) /\ KillIsTheFault /\ RestartsChain /\ ReadyIsNew
  BY DEF IInv, RowsInv
<1>1. CASE rows' = rows /\ hits \subseteq hits'
  BY <1>0, <1>1 DEF RowsInv, KillIsTheFault, RestartsChain, ReadyIsNew
<1>2. CASE InspectAfter
  <2>1. PICK valid \in BOOLEAN, bound \in 0..MaxSkew :
          /\ rows' = Append(rows, Row(valid, prevAfter', bound))
          /\ prevAfter' \in Nat \cup {-1}
          /\ valid => ~invalid /\ prevAfter' = container.restarts /\ RestartedOnce
                      /\ -bound <= Mine.skew
    BY <1>2, AfterMoves
  <2>2. pc = "after" /\ hits' = hits
    BY <1>2, AfterMoves
  <2> DEFINE r == Row(valid, prevAfter', bound)
  <2>3. /\ r \in RowType
        /\ r.valid => r.gen \in hits
        /\ r.valid => r.after = r.before + 1
        /\ r.valid /\ rows # <<>> /\ rows[Len(rows)].after # -1 =>
             r.before = rows[Len(rows)].after
        /\ r.valid /\ r.early => r.ready > r.gen
    BY <2>1, <2>2, NewRow
  <2> HIDE DEF r
  <2>4. /\ rows' \in Seq(RowType) /\ Len(rows) \in Nat /\ Len(rows') = Len(rows) + 1
        /\ rows'[Len(rows) + 1] = r
        /\ \A i \in 1..Len(rows) : rows'[i] = rows[i]
    BY <1>0, <2>1, <2>3 DEF r
  <2>5. \A i \in 1..Len(rows') : i \in 1..Len(rows) \/ i = Len(rows) + 1
    BY <2>4
  <2>6. KillIsTheFault'
    BY <1>0, <2>2, <2>3, <2>4, <2>5 DEF KillIsTheFault
  <2>7. ReadyIsNew'
    BY <1>0, <2>3, <2>4, <2>5 DEF ReadyIsNew
  <2>8. RestartsChain'
    <3> SUFFICES ASSUME NEW i \in 1..Len(rows'), rows'[i].valid
                 PROVE  /\ rows'[i].after = rows'[i].before + 1
                        /\ i > 1 /\ rows'[i-1].after # -1 => rows'[i].before = rows'[i-1].after
      BY DEF RestartsChain
    <3>1. CASE i \in 1..Len(rows)
      <4>1. i > 1 => i - 1 \in 1..Len(rows)
        BY <2>4, <3>1
      <4> QED
        BY <1>0, <2>4, <3>1, <4>1 DEF RestartsChain
    <3>2. CASE i = Len(rows) + 1
      <4>1. i > 1 => rows # <<>> /\ i - 1 = Len(rows) /\ Len(rows) \in 1..Len(rows)
        BY <2>4, <3>2
      <4> QED
        BY <2>3, <2>4, <3>2, <4>1
    <3> QED
      BY <2>5, <3>1, <3>2
  <2> QED
    BY <2>4, <2>6, <2>7, <2>8 DEF RowsInv
<1>3. CASE InspectBefore \/ Exit
  BY <1>1, <1>3 DEF InspectBefore, Exit, report
<1>4. ASSUME NEW k \in Runs, Inject(k) PROVE rows' = rows /\ hits \subseteq hits'
  BY <1>4, InjectMoves
<1> QED
  BY <1>1, <1>2, <1>3, <1>4, Steps, QuietMoves, DockerMoves, ArmMoves, ClockMoves

(***************************************************************************)
(* The clocks.                                                             *)
(***************************************************************************)

Larger(x, y) == IF x < y THEN y ELSE x

\* What FireUncertaintyOf adds for the clocks bounds the error of the fire.
\* Host minus client is o when the run is armed, o + d at the kill and o + e
\* after the run, having moved one way; the two readings are m and n, each off
\* by at most its bound.
LEMMA ClockBound ==
    ASSUME NEW o \in Int, NEW d \in Int, NEW e \in Int, NEW m \in Int, NEW n \in Int,
           NEW bm \in Nat, NEW bn \in Nat,
           (0 <= d /\ d <= e) \/ (e <= d /\ d <= 0),
           -bm <= m - o /\ m - o <= bm,
           -bn <= n - (o + e) /\ n - (o + e) <= bn
    PROVE  LET skew == (o + d) - m
               bound == Larger(bm, bn) + Larger(n - m, m - n)
           IN  -bound <= skew /\ skew <= bound
BY DEF Larger

(***************************************************************************)
(* The theorems.                                                           *)
(***************************************************************************)

\* The invariant holds of every state of every campaign.
THEOREM Inductive == Spec => []IInv
<1>1. IInv /\ [Next]_vars => IInv'
  BY TypeStep, PhaseStep, KillStep, ProbeStep, ChainStep, RowsStep DEF IInv
<1> QED
  BY InitInv, <1>1, PTL DEF Spec

\* The types; no recorded uncertainty is negative.
THEOREM TypeCorrect == Spec => []TypeOK
<1>1. IInv => TypeOK
  BY DEF IInv
<1> QED
  BY Inductive, <1>1, PTL

\* However many runs and crashes a campaign has, a row that is valid is of a
\* run whose kill took the process it was aimed at.
THEOREM KillAlwaysTheFault == Spec => []KillIsTheFault
<1>1. IInv => KillIsTheFault
  BY DEF IInv, RowsInv
<1> QED
  BY Inductive, <1>1, PTL

\* The restart counts of valid rows chain.
THEOREM RestartsAlwaysChain == Spec => []RestartsChain
<1>1. IInv => RestartsChain
  BY DEF IInv, RowsInv
<1> QED
  BY Inductive, <1>1, PTL

\* However late the kill and however far off the clocks, a replica_ready time
\* is of a process started after the kill when the fire, by the uncertainty
\* published with it, came before the probe's earliest second attempt.
THEOREM ReadyAlwaysNew == Spec => []ReadyIsNew
<1>1. IInv => ReadyIsNew
  BY DEF IInv, RowsInv
<1> QED
  BY Inductive, <1>1, PTL

\* For any command timeout and any wait after it shorter than the slack, no
\* kill is under way outside its run, or when its orchestrator has given up.
THEOREM KillAlwaysInItsRun == Spec => []KillInItsRun
<1>1. IInv => KillInItsRun
  <2> SUFFICES ASSUME IInv PROVE KillInItsRun
    OBVIOUS
  <2>1. /\ PhaseInv /\ KillInv /\ run \in Runs
        /\ pc \in {"waitReady", "inspect", "offset", "execute", "after", "reports", "exited"}
    BY DEF IInv, TypeOK
  <2>2. ASSUME NEW k \in Runs, inj[k].pc \in Busy
        PROVE  (k = run /\ pc = "execute") \/ status = "failed"
    <3>1. k = run
      BY <2>1, <2>2, EmptyRecords DEF PhaseInv, Busy
    <3>2. pc \notin {"waitReady", "inspect", "offset", "after"}
      BY <2>1, <2>2, <3>1, EmptyRecords DEF PhaseInv, KillInv, Busy
    <3> QED
      BY <2>1, <2>2, <3>1, <3>2 DEF PhaseInv
  <2>3. orch = "failed" => ~KillRuns(run)
    BY <2>1 DEF KillInv, KillRuns, Busy
  <2> QED
    BY <2>2, <2>3 DEF KillInItsRun, Busy
<1> QED
  BY Inductive, <1>1, PTL
=============================================================================
