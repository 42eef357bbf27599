--------------------------- MODULE LoadGenProofs ---------------------------
(***************************************************************************)
(* Proofs about LoadGen, for any schedule, any ladder, any limits and any  *)
(* interleaving of the pacer, the workers and the stop.                    *)
(*                                                                         *)
(* No property of the module is inductive: each speaks of what is final or *)
(* reported, and rests on what the goroutines have in hand meanwhile.      *)
(* IInv adds that: how the workers' places go with their dispatch times    *)
(* and with the count of readings (StopInv), which requests the pacer has  *)
(* spawned (PacerInv), what of the tripwire a worker still has to record   *)
(* (WireInv) and what an ended step, or an ended pacer, leaves behind      *)
(* (VerdictInv, EndInv).                                                   *)
(***************************************************************************)
EXTENDS LoadGen, FiniteSetTheorems, TLAPS

\* Workers between start's Add(1) and the end of the request.
Up == {i \in Reqs : \/ w[i] \in {"raise", "swap", "limit", "flying"}
                    \/ w[i] = "extra" /\ n[i] # 0}

\* Requests that have a dispatch time.
Sent == {i \in Reqs : at[i] # 0}

\* What stepEnd returns, and none before it is called.
Verdicts == {"none", "pass", "client_validity", "tripwire", "backoff"}

\* Types, with the bounds that TypeOK gives left to the other parts.
TypeInv ==
    /\ pc \in {"pace", "drain", "wait", "join", "reported"}
    /\ step \in Steps /\ next \in 1..(N + 1)
    /\ w \in [Reqs -> WorkerStates]
    /\ at \in [Reqs -> Nat]
    /\ n \in [Reqs -> Nat] /\ m \in [Reqs -> Nat]
    /\ clock \in Nat /\ stopNs \in Nat
    /\ dispatches \in [Steps -> Nat]
    /\ inFlight \in Int /\ maxInFlight \in Nat
    /\ verdict \in [Steps -> Verdicts]
    /\ peak \in Nat /\ firstOver \in Nat
    /\ class \in [Reqs -> Classes \cup {"none"}]
    /\ count429 \in [Steps -> Nat]

\* Every reading is one dispatch time or the stop; a request has its dispatch
\* time from the moment it leaves the read lock; nobody is inside after a stop.
StopInv ==
    /\ clock = Cardinality(Sent) + (IF stopNs = 0 THEN 0 ELSE 1)
    /\ stopNs <= clock
    /\ \A i \in Reqs :
         /\ at[i] <= clock
         /\ at[i] = 0 <=> w[i] \in {"unspawned", "waiting", "admitted", "skipped"}
         /\ w[i] = "skipped" => cancelled
    /\ stopNs # 0 => cancelled /\ Readers = {} /\ \A i \in Reqs : at[i] < stopNs

\* The pacer spawns in order: all of the earlier steps, none of the later.
PacerInv ==
    /\ \A i \in Reqs :
         /\ i < next <=> w[i] # "unspawned"
         /\ i < next => StepOf[i] <= step
         /\ StepOf[i] < step => i < next
    /\ pc \in {"drain", "wait"} => Spawned(step)

\* inFlight is the number of workers that are up; if the maximum is below the
\* peak, the worker that made the peak is still raising it.
CountInv ==
    /\ inFlight = Cardinality(Up)
    /\ peak <= N
    /\ \A i \in Reqs :
         /\ w[i] \in {"raise", "swap", "limit", "flying", "done"} => n[i] # 0
         /\ n[i] # 0 => w[i] \in {"raise", "swap", "limit", "flying", "done", "extra"}
         /\ n[i] <= peak
         /\ w[i] = "swap" => m[i] < n[i] /\ m[i] <= maxInFlight
    /\ maxInFlight <= peak
    /\ maxInFlight < peak =>
         \E i \in Reqs : w[i] \in {"raise", "swap"} /\ n[i] = peak

\* A worker above its limit, or a step beyond its schedule, is recorded or has
\* a worker about to record it; and what is recorded happened.
WireInv ==
    /\ \A i \in Reqs : n[i] > Limit[StepOf[i]] =>
         /\ over \/ w[i] \in {"raise", "swap", "limit"}
         /\ firstOver # 0
    /\ over => firstOver # 0
    /\ firstOver # 0 => \E i \in Reqs : n[i] > Limit[StepOf[i]]
    /\ \A k \in Steps : dispatches[k] > Cardinality(InStep(k)) =>
         extra \/ \E i \in InStep(k) : w[i] = "extra"
    /\ \A i \in Reqs : w[i] = "extra" =>
         dispatches[StepOf[i]] > Cardinality(InStep(StepOf[i]))
    /\ extra => \E k \in Steps : dispatches[k] > Cardinality(InStep(k))

\* Steps before the current one passed; a step with a verdict is spawned and
\* final.
VerdictInv ==
    /\ \A k \in Steps : k < step => verdict[k] = "pass"
    /\ \A k \in Steps : verdict[k] # "none" => k <= step /\ Spawned(k)
    /\ VerdictComplete

\* Why the pacer ended, and what holds once it reported.
EndInv ==
    /\ pc \in {"join", "reported"} =>
         \/ cancelled
         \/ ~IsLadder /\ Spawned(step)
         \/ verdict[step] # "none" /\ (verdict[step] = "pass" => step = K)
    /\ pc = "reported" =>
         /\ Running = {}
         /\ interrupted = cancelled /\ (cancelled => stopNs # 0)

\* The inductive invariant.
IInv ==
    /\ TypeInv /\ StopInv /\ PacerInv /\ CountInv /\ WireInv /\ VerdictInv /\ EndInv

(***************************************************************************)
(* The schedule.                                                           *)
(***************************************************************************)

\* What the constants give the proofs, one fact at a time.
LEMMA ScheduleFacts ==
    /\ N \in Nat /\ K \in Nat /\ 1 \in Steps /\ Steps \subseteq Nat
    /\ Reqs \subseteq Nat /\ IsFiniteSet(Reqs) /\ Cardinality(Reqs) = N
    /\ \A i \in Reqs : StepOf[i] \in Steps /\ Limit[StepOf[i]] \in Nat
    /\ \A k \in Steps : Limit[k] \in Nat
<1>1. N \in Nat /\ K \in Nat /\ N # 0 /\ K # 0
  BY ScheduleAssumption
<1>2. IsFiniteSet(Reqs) /\ Cardinality(Reqs) = N
  BY <1>1, FS_Interval DEF Reqs
<1> QED
  BY <1>1, <1>2, ScheduleAssumption DEF Reqs, Steps

\* A set of requests is finite and no larger than the schedule.
LEMMA ReqsSubset ==
    ASSUME NEW S, S \subseteq Reqs
    PROVE  IsFiniteSet(S) /\ Cardinality(S) \in Nat /\ Cardinality(S) <= N
BY ScheduleFacts, FS_Subset, FS_CardinalityType

\* The initial state, where nothing is spawned, satisfies the invariant.
LEMMA InitInv == Init => IInv
<1> SUFFICES ASSUME Init PROVE IInv
  OBVIOUS
<1> USE ScheduleFacts DEF Init
<1>1. TypeInv
  BY DEF TypeInv, WorkerStates, Verdicts, Reqs
<1>2. Sent = {} /\ Up = {} /\ Running = {} /\ Readers = {}
  BY DEF Sent, Up, Running, Readers
<1>3. StopInv
  BY <1>2, FS_EmptySet DEF StopInv
<1>4. PacerInv
  BY DEF PacerInv, Reqs, Steps
<1>5. CountInv
  BY <1>2, FS_EmptySet DEF CountInv
<1>6. WireInv
  <2>1. ASSUME NEW k \in Steps PROVE Cardinality(InStep(k)) \in Nat
    BY ReqsSubset DEF InStep
  <2> QED
    BY <2>1 DEF WireInv, InStep
<1>7. VerdictInv
  BY DEF VerdictInv, VerdictComplete, Steps
<1> QED
  BY <1>1, <1>3, <1>4, <1>5, <1>6, <1>7 DEF IInv, EndInv

(***************************************************************************)
(* Each part of the invariant is preserved, action by action.              *)
(***************************************************************************)

\* Every step keeps the types.
LEMMA TypeStep == IInv /\ [Next]_vars => TypeInv'
<1> SUFFICES ASSUME IInv, [Next]_vars PROVE TypeInv'
  OBVIOUS
<1> USE ScheduleFacts
<1>0. TypeInv
  BY DEF IInv
<1>1. CASE UNCHANGED vars \/ Cancel \/ StampStop \/ Abort \/ PacedAll \/ DrainEnds \/ Report
  BY <1>0, <1>1 DEF TypeInv, Cancel, StampStop, Abort, PacedAll, DrainEnds,
     Report, vars, pacer, counts, record, history, workers
<1>2. CASE Spawn
  <2>1. next \in Reqs
    BY <1>0, <1>2 DEF TypeInv, Spawn, Spawned, InStep, Reqs
  <2>2. next' \in 1..(N + 1)
    BY <1>2, <2>1 DEF Spawn, Reqs
  <2>3. w' \in [Reqs -> WorkerStates]
    BY <1>0, <1>2, <2>1 DEF TypeInv, Spawn, Goto, WorkerStates
  <2> QED
    BY <1>0, <1>2, <2>2, <2>3 DEF TypeInv, Spawn, counts, record, history
<1>3. CASE Verdict
  <2>1. PICK g \in GateOutcomes(step) :
           verdict' = [verdict EXCEPT ![step] = StepEnd(g, Fired, step)]
    BY <1>3 DEF Verdict
  <2>2. StepEnd(g, Fired, step) \in Verdicts
    BY DEF StepEnd, Verdicts
  <2>3. Cardinality(Status429(step)) \in Nat
    BY ReqsSubset DEF Status429, Measured, InStep
  <2>4. step' \in Steps
    BY <1>0, <1>3 DEF Verdict, TypeInv, Steps
  <2> QED
    BY <1>0, <1>3, <2>1, <2>2, <2>3, <2>4 DEF TypeInv, Verdict, workers, counts, history
<1>4. ASSUME NEW i \in Reqs, Worker(i) \/ SendAgain(i) PROVE TypeInv'
  <2> USE <1>0 DEF TypeInv, Goto, WorkerStates, world, pacer, counts, record, history
  <2>1. CASE Skip(i) \/ EnterDispatch(i) \/ Dispatch(i)
    BY <2>1 DEF Skip, EnterDispatch, Dispatch
  <2>2. CASE Send(i) \/ SendAgain(i)
    BY <2>2 DEF Send, SendAgain, CountSend
  <2>3. CASE RecordExtra(i) \/ LoadMax(i) \/ SwapMax(i)
    BY <2>3 DEF RecordExtra, LoadMax, SwapMax
  <2>4. CASE CountInFlight(i)
    <3>1. inFlight + 1 \in Nat
      BY ReqsSubset DEF IInv, CountInv, Up
    <3> QED
      BY <2>4, <3>1 DEF CountInFlight
  <2>5. CASE CheckLimit(i) \/ Finish(i)
    BY <2>5 DEF CheckLimit, Finish
  <2> QED
    BY <1>4, <2>1, <2>2, <2>3, <2>4, <2>5 DEF Worker
<1> QED
  BY <1>1, <1>2, <1>3, <1>4 DEF Next, Pacer, Done

\* A worker's moves after its dispatch: none of them touches the clock, the
\* stop or a dispatch time.
LEMMA LaterMoves ==
    ASSUME NEW i \in Reqs,
           \/ Send(i) \/ SendAgain(i) \/ RecordExtra(i) \/ CountInFlight(i)
           \/ LoadMax(i) \/ SwapMax(i) \/ CheckLimit(i) \/ Finish(i)
    PROVE  /\ UNCHANGED <<at, clock, cancelled, stopNs, pc, step, next,
                          verdict, count429, interrupted>>
           /\ w[i] \in {"stamped", "extra", "counted", "raise", "swap", "limit",
                        "flying"}
           /\ \E s \in {"extra", "counted", "raise", "swap", "limit", "flying",
                        "done"} : w' = [w EXCEPT ![i] = s]
BY DEF Send, SendAgain, CountSend, RecordExtra, CountInFlight, LoadMax, SwapMax,
       CheckLimit, Finish, Goto, world, pacer, record, counts

\* Stamping excludes the readers, and whoever is let in finds no stop: the
\* dispatch times stay below the stop, and each reading is somebody's.
LEMMA StopStep == IInv /\ [Next]_vars => StopInv'
<1> SUFFICES ASSUME IInv, [Next]_vars PROVE StopInv'
  OBVIOUS
<1> USE ScheduleFacts
<1>0. TypeInv /\ StopInv /\ PacerInv
  BY DEF IInv
<1>a. IsFiniteSet(Sent) /\ Cardinality(Sent) \in Nat
  BY ReqsSubset DEF Sent
<1>1. CASE /\ UNCHANGED <<w, at, clock, stopNs>>
           /\ cancelled => cancelled'
  <2>1. Sent' = Sent /\ Readers' = Readers
    BY <1>1 DEF Sent, Readers
  <2> QED
    BY <1>0, <1>1, <2>1 DEF StopInv
<1>2. CASE StampStop
  <2>1. Sent' = Sent /\ Readers' = Readers /\ Readers = {}
    BY <1>2 DEF StampStop, Sent, Readers
  <2>2. \A i \in Reqs : at[i] < clock + 1
    BY <1>0 DEF StopInv, TypeInv
  <2> QED
    BY <1>0, <1>2, <1>a, <2>1, <2>2 DEF StampStop, StopInv, TypeInv
<1>3. CASE Spawn
  <2>1. next \in Reqs
    BY <1>0, <1>3 DEF TypeInv, Spawn, Spawned, InStep, Reqs
  <2>2. w[next] = "unspawned"
    BY <1>0, <2>1 DEF PacerInv
  <2>3. Sent' = Sent /\ Readers' = Readers
    BY <1>0, <1>3, <2>1, <2>2 DEF Sent, Readers, Spawn, Goto, TypeInv
  <2> QED
    BY <1>0, <1>3, <2>1, <2>2, <2>3 DEF Spawn, Goto, StopInv, TypeInv, counts, record, history
<1>4. ASSUME NEW i \in Reqs, Worker(i) \/ SendAgain(i) PROVE StopInv'
  <2>1. CASE Skip(i)
    <3>1. /\ UNCHANGED <<at, clock, stopNs, cancelled>> /\ Sent' = Sent
          /\ w[i] = "waiting" /\ cancelled
          /\ w' = [w EXCEPT ![i] = "skipped"]
      BY <2>1 DEF Skip, Sent, world, Goto
    <3>2. Readers' = Readers
      BY <1>0, <3>1 DEF Readers, TypeInv
    <3> QED
      BY <1>0, <3>1, <3>2 DEF StopInv, TypeInv
  <2>4. CASE EnterDispatch(i)
    <3>1. /\ UNCHANGED <<at, clock, stopNs, cancelled>> /\ Sent' = Sent
          /\ w[i] = "waiting" /\ ~cancelled
          /\ w' = [w EXCEPT ![i] = "admitted"]
      BY <2>4 DEF EnterDispatch, Sent, world, Goto
    <3> QED
      BY <1>0, <3>1 DEF StopInv, TypeInv
  <2>2. CASE Dispatch(i)
    <3>1. i \in Readers /\ stopNs = 0 /\ at[i] = 0
      BY <1>0, <2>2 DEF Dispatch, Readers, StopInv
    <3>2. Sent' = Sent \cup {i} /\ i \notin Sent
      BY <1>0, <2>2, <3>1 DEF Dispatch, Sent, TypeInv
    <3>3. Cardinality(Sent') = Cardinality(Sent) + 1
      BY <1>a, <3>2, FS_AddElement
    <3>4. stopNs' = 0 /\ clock' = clock + 1 /\ clock \in Nat
      BY <1>0, <2>2, <3>1 DEF Dispatch, world, TypeInv
    <3>5. \A j \in Reqs : at'[j] <= clock'
      BY <1>0, <2>2, <3>4 DEF Dispatch, StopInv, TypeInv
    <3>6. ASSUME NEW j \in Reqs
          PROVE  /\ at'[j] = 0 <=> w'[j] \in {"unspawned", "waiting", "admitted", "skipped"}
                 /\ w'[j] = "skipped" => cancelled'
      BY <1>0, <2>2, <3>4 DEF Dispatch, StopInv, TypeInv, Goto, world
    <3> QED
      BY <1>0, <1>a, <3>1, <3>3, <3>4, <3>5, <3>6 DEF StopInv, TypeInv
  <2>3. CASE \/ Send(i) \/ SendAgain(i) \/ RecordExtra(i) \/ CountInFlight(i)
             \/ LoadMax(i) \/ SwapMax(i) \/ CheckLimit(i) \/ Finish(i)
    <3>1. PICK s \in {"extra", "counted", "raise", "swap", "limit", "flying", "done"} :
             w' = [w EXCEPT ![i] = s]
      BY <2>3, LaterMoves
    <3>2. /\ UNCHANGED <<at, clock, cancelled, stopNs>>
          /\ w[i] \in {"stamped", "extra", "counted", "raise", "swap", "limit",
                       "flying"}
      BY <2>3, LaterMoves
    <3>3. Sent' = Sent /\ Readers' = Readers
      BY <1>0, <3>1, <3>2 DEF Sent, Readers, TypeInv
    <3> QED
      BY <1>0, <3>1, <3>2, <3>3 DEF StopInv, TypeInv
  <2> QED
    BY <1>4, <2>1, <2>2, <2>3, <2>4 DEF Worker
<1>5. CASE Cancel
  BY <1>1, <1>5 DEF Cancel
<1>6. CASE Abort \/ PacedAll \/ DrainEnds \/ Verdict \/ Report \/ UNCHANGED vars
  BY <1>1, <1>6 DEF Abort, PacedAll, DrainEnds, Verdict, Report, workers, vars
<1> QED
  BY <1>2, <1>3, <1>4, <1>5, <1>6 DEF Next, Pacer, Done

\* The pacer spawns in order and within its step.
LEMMA PacerStep == IInv /\ [Next]_vars => PacerInv'
<1> SUFFICES ASSUME IInv, [Next]_vars PROVE PacerInv'
  OBVIOUS
<1> USE ScheduleFacts
<1>0. TypeInv /\ PacerInv
  BY DEF IInv
<1>1. CASE UNCHANGED <<pc, step, next, w>>
  BY <1>0, <1>1 DEF PacerInv, Spawned
<1>2. CASE Spawn
  <2>1. PICK j \in InStep(step) : ~(j < next)
    BY <1>2 DEF Spawn, Spawned
  <2>2. j \in Reqs /\ StepOf[j] = step /\ next \in Reqs /\ next <= j
    BY <1>0, <2>1 DEF TypeInv, InStep, Reqs
  <2>3. StepOf[next] <= step
    BY <2>2, ScheduleAssumption
  <2>4. /\ w' = [w EXCEPT ![next] = "waiting"] /\ next' = next + 1
        /\ step' = step /\ pc' = "pace"
    BY <1>2 DEF Spawn, Goto
  <2>5. ASSUME NEW i \in Reqs
        PROVE  /\ i < next' <=> w'[i] # "unspawned"
               /\ i < next' => StepOf[i] <= step
               /\ StepOf[i] < step => i < next'
    <3>1. CASE i = next
      BY <1>0, <2>2, <2>3, <2>4, <3>1 DEF PacerInv, TypeInv
    <3>2. CASE i # next
      <4>1. i \in Int /\ next \in Int
        BY <1>0 DEF TypeInv
      <4>2. i < next' <=> i < next
        BY <2>4, <3>2, <4>1
      <4> QED
        BY <1>0, <2>2, <2>4, <3>2, <4>2 DEF PacerInv, TypeInv
    <3> QED
      BY <3>1, <3>2
  <2> QED
    BY <2>4, <2>5 DEF PacerInv
<1>3. CASE Abort \/ DrainEnds \/ Report
  BY <1>0, <1>3 DEF Abort, DrainEnds, Report, workers, PacerInv, Spawned
<1>4. CASE PacedAll
  BY <1>0, <1>4 DEF PacedAll, workers, PacerInv, Spawned
<1>5. CASE Verdict
  <2>1. Spawned(step) /\ UNCHANGED <<next, w>> /\ pc' \in {"pace", "join"}
    BY <1>0, <1>5 DEF Verdict, workers, PacerInv
  <2>2. step' = step \/ step' = step + 1
    BY <1>5 DEF Verdict
  <2>3. \A i \in Reqs : StepOf[i] = step => i < next
    BY <2>1 DEF Spawned, InStep
  <2>4. ASSUME NEW i \in Reqs
        PROVE  /\ i < next' <=> w'[i] # "unspawned"
               /\ i < next' => StepOf[i] <= step'
               /\ StepOf[i] < step' => i < next'
    <3>1. step \in Int /\ StepOf[i] \in Int
      BY <1>0 DEF TypeInv, Steps
    <3>2. StepOf[i] < step' => StepOf[i] < step \/ StepOf[i] = step
      BY <2>2, <3>1
    <3> QED
      BY <1>0, <2>1, <2>2, <2>3, <3>1, <3>2 DEF PacerInv
  <2> QED
    BY <2>1, <2>4 DEF PacerInv
<1>6. ASSUME NEW i \in Reqs, Worker(i) \/ SendAgain(i) PROVE PacerInv'
  <2>1. UNCHANGED <<pc, step, next>> /\ w[i] # "unspawned"
    BY <1>6, LaterMoves DEF Worker, Skip, EnterDispatch, Dispatch, world, pacer
  <2>2. \E s \in WorkerStates : s # "unspawned" /\ w' = [w EXCEPT ![i] = s]
    BY <1>6, LaterMoves DEF Worker, Skip, EnterDispatch, Dispatch, Goto, WorkerStates
  <2>3. \A j \in Reqs : w'[j] = "unspawned" <=> w[j] = "unspawned"
    BY <1>0, <2>1, <2>2 DEF TypeInv
  <2> QED
    BY <1>0, <2>1, <2>3 DEF PacerInv, Spawned
<1> QED
  BY <1>1, <1>2, <1>3, <1>4, <1>5, <1>6
     DEF Next, Pacer, Done, StampStop, Cancel, vars, pacer

\* Who is up after a step of worker i, given where it was and goes.
LEMMA UpChanges ==
    ASSUME TypeInv, TypeInv', CountInv, NEW i \in Reqs,
           \A j \in Reqs \ {i} : w'[j] = w[j] /\ n'[j] = n[j]
    PROVE  /\ (i \in Up <=> i \in Up') => Up' = Up
           /\ i \notin Up /\ i \in Up' =>
                Up' = Up \cup {i} /\ Cardinality(Up') = Cardinality(Up) + 1
           /\ i \in Up /\ i \notin Up' =>
                Up' = Up \ {i} /\ Cardinality(Up') = Cardinality(Up) - 1
<1>1. IsFiniteSet(Up)
  BY ReqsSubset DEF Up
<1>2. \A j \in Reqs \ {i} : j \in Up <=> j \in Up'
  BY DEF Up
<1>3. Up \subseteq Reqs /\ Up' \subseteq Reqs
  BY DEF Up
<1>4. (i \in Up <=> i \in Up') => Up' = Up
  BY <1>2, <1>3
<1>5. i \notin Up /\ i \in Up' => Up' = Up \cup {i}
  BY <1>2, <1>3
<1>6. i \in Up /\ i \notin Up' => Up' = Up \ {i}
  BY <1>2, <1>3
<1> QED
  BY <1>1, <1>4, <1>5, <1>6, FS_AddElement, FS_RemoveElement

\* inFlight counts the workers that are up, and a maximum below the peak is
\* still to be raised by the worker that made the peak.
LEMMA CountStep == IInv /\ [Next]_vars => CountInv'
<1> SUFFICES ASSUME IInv, [Next]_vars PROVE CountInv'
  OBVIOUS
<1> USE ScheduleFacts
<1>0. TypeInv /\ CountInv /\ TypeInv' /\ PacerInv
  BY TypeStep DEF IInv
<1>a. Cardinality(Up) \in Nat /\ Cardinality(Up) <= N /\ Cardinality(Up') <= N
  BY ReqsSubset DEF Up
<1>1. CASE UNCHANGED <<w, n, m, inFlight, maxInFlight, peak>>
  <2>1. Up' = Up
    BY <1>1 DEF Up
  <2> QED
    BY <1>0, <1>1, <2>1 DEF CountInv
<1>2. CASE Spawn
  <2>1. next \in Reqs
    BY <1>0, <1>2 DEF TypeInv, Spawn, Spawned, InStep, Reqs
  <2>2. w[next] = "unspawned"
    BY <1>0, <2>1 DEF PacerInv
  <2>3. /\ UNCHANGED <<n, m, inFlight, maxInFlight, peak>>
        /\ w' = [w EXCEPT ![next] = "waiting"]
    BY <1>2 DEF Spawn, Goto, counts, history
  <2>4. Up' = Up
    BY <1>0, <2>1, <2>2, <2>3 DEF Up, TypeInv
  <2> QED
    BY <1>0, <2>1, <2>2, <2>3, <2>4 DEF CountInv, TypeInv
<1>3. ASSUME NEW i \in Reqs, Worker(i) \/ SendAgain(i) PROVE CountInv'
  <2>1. CASE Skip(i) \/ EnterDispatch(i) \/ Dispatch(i)
    <3>1. /\ UNCHANGED <<n, m, inFlight, maxInFlight, peak>>
          /\ w[i] \in {"waiting", "admitted"}
          /\ \E s \in {"skipped", "admitted", "stamped"} : w' = [w EXCEPT ![i] = s]
      BY <2>1 DEF Skip, EnterDispatch, Dispatch, Goto, counts, history
    <3>2. n[i] = 0
      BY <1>0, <3>1 DEF CountInv
    <3>3. Up' = Up
      BY <1>0, <3>1, <3>2 DEF Up, TypeInv
    <3> QED
      BY <1>0, <3>1, <3>2, <3>3 DEF CountInv, TypeInv
  <2>2. CASE Send(i) \/ SendAgain(i)
    <3>1. /\ UNCHANGED <<n, m, inFlight, maxInFlight, peak>>
          /\ \/ /\ w[i] = "stamped"
                /\ \E s \in {"extra", "counted"} : w' = [w EXCEPT ![i] = s]
             \/ /\ w[i] = "flying"
                /\ \E s \in {"extra", "flying"} : w' = [w EXCEPT ![i] = s]
      BY <2>2 DEF Send, SendAgain, CountSend, Goto, history
    <3>2. w[i] = "stamped" => n[i] = 0
      BY <1>0 DEF CountInv
    <3>3. w[i] = "flying" => n[i] # 0
      BY <1>0 DEF CountInv
    <3>4. Up' = Up
      BY <1>0, <3>1, <3>2, <3>3 DEF Up, TypeInv
    <3> QED
      BY <1>0, <3>1, <3>2, <3>3, <3>4 DEF CountInv, TypeInv
  <2>3. CASE RecordExtra(i)
    <3>1. /\ UNCHANGED <<n, m, inFlight, maxInFlight, peak>> /\ w[i] = "extra"
          /\ w' = [w EXCEPT ![i] = IF n[i] = 0 THEN "counted" ELSE "flying"]
      BY <2>3 DEF RecordExtra, Goto, history
    <3>2. Up' = Up
      BY <1>0, <3>1 DEF Up, TypeInv
    <3> QED
      BY <1>0, <3>1, <3>2 DEF CountInv, TypeInv
  <2>4. CASE CountInFlight(i)
    <3>1. /\ w[i] = "counted" /\ inFlight' = inFlight + 1
          /\ n' = [n EXCEPT ![i] = inFlight + 1]
          /\ w' = [w EXCEPT ![i] = "raise"]
          /\ peak' = IF inFlight + 1 > peak THEN inFlight + 1 ELSE peak
          /\ UNCHANGED <<m, maxInFlight>>
      BY <2>4 DEF CountInFlight, Goto
    <3>2. inFlight \in Nat /\ inFlight = Cardinality(Up)
      BY <1>0, <1>a DEF CountInv
    <3>3. i \notin Up /\ i \in Up'
      BY <1>0, <3>1, <3>2 DEF Up, TypeInv
    <3>4. \A j \in Reqs \ {i} : w'[j] = w[j] /\ n'[j] = n[j]
      BY <1>0, <3>1 DEF TypeInv
    <3>5. Cardinality(Up') = Cardinality(Up) + 1
      BY <1>0, <3>3, <3>4, UpChanges
    <3>6. inFlight + 1 <= N /\ inFlight' = Cardinality(Up')
      BY <1>a, <3>1, <3>2, <3>5
    <3>7. w'[i] = "raise" /\ n'[i] = inFlight + 1
      BY <1>0, <3>1 DEF TypeInv
    <3>8. /\ peak' <= N /\ peak <= peak' /\ inFlight + 1 <= peak'
          /\ peak \in Nat /\ peak' \in Nat
      BY <1>0, <3>1, <3>2, <3>6 DEF CountInv, TypeInv
    <3>9. ASSUME NEW j \in Reqs
          PROVE  /\ w'[j] \in {"raise", "swap", "limit", "flying", "done"} => n'[j] # 0
                 /\ n'[j] # 0 => w'[j] \in {"raise", "swap", "limit", "flying", "done", "extra"}
                 /\ n'[j] <= peak'
                 /\ w'[j] = "swap" => m'[j] < n'[j] /\ m'[j] <= maxInFlight'
      <4>1. CASE j = i
        BY <3>2, <3>7, <3>8, <4>1
      <4>2. CASE j # i
        BY <1>0, <3>1, <3>4, <3>8, <4>2 DEF CountInv, TypeInv
      <4> QED
        BY <4>1, <4>2
    <3>10. maxInFlight' <= peak'
      BY <1>0, <3>1, <3>8 DEF CountInv, TypeInv
    <3>11. ASSUME maxInFlight' < peak'
           PROVE  \E j \in Reqs : w'[j] \in {"raise", "swap"} /\ n'[j] = peak'
      <4>1. CASE inFlight + 1 > peak
        BY <3>1, <3>7, <4>1
      <4>2. CASE ~(inFlight + 1 > peak)
        <5>1. PICK j \in Reqs : w[j] \in {"raise", "swap"} /\ n[j] = peak
          BY <1>0, <3>1, <3>11, <4>2 DEF CountInv
        <5> QED
          BY <3>1, <3>4, <4>2, <5>1
      <4> QED
        BY <4>1, <4>2
    <3> QED
      BY <3>6, <3>8, <3>9, <3>10, <3>11 DEF CountInv
  <2>5. CASE LoadMax(i)
    <3>1. /\ UNCHANGED <<n, inFlight, maxInFlight, peak>> /\ w[i] = "raise"
          /\ m' = [m EXCEPT ![i] = maxInFlight]
          /\ w' = [w EXCEPT ![i] = IF n[i] > maxInFlight THEN "swap" ELSE "limit"]
      BY <2>5 DEF LoadMax, Goto, counts, history
    <3>2. Up' = Up
      BY <1>0, <3>1 DEF Up, TypeInv
    <3>3. ASSUME maxInFlight < peak
          PROVE  \E j \in Reqs : w'[j] \in {"raise", "swap"} /\ n'[j] = peak'
      <4>1. PICK j \in Reqs : w[j] \in {"raise", "swap"} /\ n[j] = peak
        BY <1>0, <3>3 DEF CountInv
      <4> QED
        BY <1>0, <3>1, <3>3, <4>1 DEF TypeInv
    <3> QED
      BY <1>0, <3>1, <3>2, <3>3 DEF CountInv, TypeInv
  <2>6. CASE SwapMax(i)
    <3>1. /\ UNCHANGED <<n, m, inFlight, peak>> /\ w[i] = "swap"
          /\ m[i] < n[i] /\ m[i] <= maxInFlight /\ n[i] <= peak
      BY <1>0, <2>6 DEF SwapMax, history, CountInv
    <3>2. CASE maxInFlight = m[i]
      <4>1. maxInFlight' = n[i] /\ w' = [w EXCEPT ![i] = "limit"]
        BY <2>6, <3>2 DEF SwapMax, Goto
      <4>2. Up' = Up
        BY <1>0, <3>1, <4>1 DEF Up, TypeInv
      <4>3. ASSUME maxInFlight' < peak
            PROVE  \E j \in Reqs : w'[j] \in {"raise", "swap"} /\ n'[j] = peak'
        <5>1. maxInFlight < peak
          BY <1>0, <3>1, <3>2 DEF TypeInv
        <5>2. PICK j \in Reqs : w[j] \in {"raise", "swap"} /\ n[j] = peak
          BY <1>0, <5>1 DEF CountInv
        <5>3. j # i
          BY <1>0, <4>1, <4>3, <5>2 DEF TypeInv
        <5> QED
          BY <1>0, <3>1, <4>1, <5>2, <5>3 DEF TypeInv
      <4>4. ASSUME NEW j \in Reqs, w'[j] = "swap"
            PROVE  m'[j] < n'[j] /\ m'[j] <= maxInFlight'
        <5>1. w[j] = "swap" /\ m[j] < n[j] /\ m[j] <= maxInFlight
          BY <1>0, <4>1, <4>4 DEF CountInv, TypeInv
        <5> QED
          BY <1>0, <3>1, <3>2, <4>1, <5>1 DEF TypeInv
      <4> QED
        BY <1>0, <3>1, <4>1, <4>2, <4>3, <4>4 DEF CountInv, TypeInv
    <3>3. CASE maxInFlight # m[i]
      <4>1. maxInFlight' = maxInFlight /\ w' = [w EXCEPT ![i] = "raise"]
        BY <2>6, <3>3 DEF SwapMax, Goto
      <4>2. Up' = Up
        BY <1>0, <3>1, <4>1 DEF Up, TypeInv
      <4> QED
        BY <1>0, <3>1, <4>1, <4>2 DEF CountInv, TypeInv
    <3> QED
      BY <3>2, <3>3
  <2>7. CASE CheckLimit(i)
    <3>1. /\ UNCHANGED <<n, m, inFlight, maxInFlight, peak>> /\ w[i] = "limit"
          /\ w' = [w EXCEPT ![i] = "flying"]
      BY <2>7 DEF CheckLimit, Goto, history
    <3>2. Up' = Up
      BY <1>0, <3>1 DEF Up, TypeInv
    <3> QED
      BY <1>0, <3>1, <3>2 DEF CountInv, TypeInv
  <2>8. CASE Finish(i)
    <3>1. /\ UNCHANGED <<n, m, maxInFlight, peak>> /\ w[i] = "flying"
          /\ w' = [w EXCEPT ![i] = "done"] /\ inFlight' = inFlight - 1
      BY <2>8 DEF Finish, Goto, history
    <3>2. i \in Up /\ i \notin Up'
      BY <1>0, <3>1 DEF Up, TypeInv
    <3>3. \A j \in Reqs \ {i} : w'[j] = w[j] /\ n'[j] = n[j]
      BY <1>0, <3>1 DEF TypeInv
    <3>4. Cardinality(Up') = Cardinality(Up) - 1
      BY <1>0, <3>2, <3>3, UpChanges
    <3> QED
      BY <1>0, <3>1, <3>4 DEF CountInv, TypeInv
  <2> QED
    BY <1>3, <2>1, <2>2, <2>3, <2>4, <2>5, <2>6, <2>7, <2>8 DEF Worker
<1> QED
  BY <1>1, <1>2, <1>3
     DEF Next, Pacer, Done, StampStop, Cancel, Abort, PacedAll, DrainEnds,
         Verdict, Report, workers, vars, pacer, counts, history

\* What is over its limit or beyond its schedule is recorded, or a worker is
\* about to record it; and nothing else is.
LEMMA WireStep == IInv /\ [Next]_vars => WireInv'
<1> SUFFICES ASSUME IInv, [Next]_vars PROVE WireInv'
  OBVIOUS
<1> USE ScheduleFacts
<1>0. TypeInv /\ WireInv /\ CountInv /\ StopInv /\ PacerInv /\ TypeInv'
  BY TypeStep DEF IInv
<1>a. \A k \in Steps : Cardinality(InStep(k)) \in Nat
  BY ReqsSubset DEF InStep
<1>b. \A k : InStep(k) \subseteq Reqs
  BY DEF InStep
<1>1. CASE UNCHANGED <<w, n, dispatches, extra, over, firstOver>>
  BY <1>0, <1>1 DEF WireInv
<1>2. ASSUME NEW i \in Reqs, UNCHANGED <<n, dispatches, extra, over, firstOver>>,
             n[i] = 0, w[i] # "extra",
             \E s \in {"waiting", "skipped", "admitted", "stamped"} :
                w' = [w EXCEPT ![i] = s]
      PROVE  WireInv'
  <2>1. \A j \in Reqs : w'[j] = "extra" <=> w[j] = "extra"
    BY <1>0, <1>2 DEF TypeInv
  <2>2. \A j \in Reqs : n[j] > Limit[StepOf[j]] => w'[j] = w[j]
    BY <1>0, <1>2 DEF TypeInv
  <2> QED
    BY <1>0, <1>2, <1>b, <2>1, <2>2 DEF WireInv
<1>3. CASE Spawn
  <2>1. next \in Reqs
    BY <1>0, <1>3 DEF TypeInv, Spawn, Spawned, InStep, Reqs
  <2>2. w[next] = "unspawned" /\ n[next] = 0
    BY <1>0, <2>1 DEF PacerInv, CountInv
  <2> QED
    BY <1>2, <1>3, <2>1, <2>2 DEF Spawn, Goto, counts, history
<1>4. ASSUME NEW i \in Reqs, Worker(i) \/ SendAgain(i) PROVE WireInv'
  <2>1. CASE Skip(i) \/ EnterDispatch(i) \/ Dispatch(i)
    <3>1. w[i] \in {"waiting", "admitted"} /\ n[i] = 0
      BY <1>0, <2>1 DEF Skip, EnterDispatch, Dispatch, CountInv
    <3> QED
      BY <1>2, <2>1, <3>1 DEF Skip, EnterDispatch, Dispatch, Goto, counts, history
  <2>2. CASE Send(i) \/ SendAgain(i)
    <3> DEFINE d == dispatches[StepOf[i]] + 1
               full == d > Cardinality(InStep(StepOf[i]))
    <3>1. /\ UNCHANGED <<n, extra, over, firstOver>>
          /\ dispatches' = [dispatches EXCEPT ![StepOf[i]] = d]
          /\ w[i] \in {"stamped", "flying"}
          /\ \E t \in {"counted", "flying"} :
                w' = [w EXCEPT ![i] = IF dispatches'[StepOf[i]] >
                                          Cardinality(InStep(StepOf[i]))
                                      THEN "extra" ELSE t]
      BY <2>2 DEF Send, SendAgain, CountSend, Goto, history
    <3>2. dispatches'[StepOf[i]] = d /\ d \in Nat
      BY <1>0, <3>1 DEF TypeInv
    <3>3. \A k \in Steps : dispatches[k] <= dispatches'[k]
      BY <1>0, <3>1 DEF TypeInv
    <3>4. \A j \in Reqs \ {i} : w'[j] = w[j]
      BY <1>0, <3>1 DEF TypeInv
    <3>5. (full => w'[i] = "extra") /\ (~full => w'[i] # "extra")
      BY <1>0, <3>1, <3>2 DEF TypeInv
    <3> HIDE DEF d
    <3>6. ASSUME NEW k \in Steps, dispatches'[k] > Cardinality(InStep(k))
          PROVE  extra' \/ \E j \in InStep(k) : w'[j] = "extra"
      <4>1. CASE k = StepOf[i]
        BY <3>2, <3>5, <3>6, <4>1 DEF InStep
      <4>2. CASE k # StepOf[i]
        <5>1. dispatches'[k] = dispatches[k]
          BY <1>0, <3>1, <4>2 DEF TypeInv
        <5>2. extra \/ \E j \in InStep(k) : w[j] = "extra"
          BY <1>0, <3>6, <5>1 DEF WireInv
        <5>3. i \notin InStep(k)
          BY <4>2 DEF InStep
        <5> QED
          BY <1>b, <3>1, <3>4, <5>2, <5>3
      <4> QED
        BY <4>1, <4>2
    <3>7. ASSUME NEW j \in Reqs, w'[j] = "extra"
          PROVE  dispatches'[StepOf[j]] > Cardinality(InStep(StepOf[j]))
      <4>1. CASE j = i
        BY <3>2, <3>5, <3>7, <4>1
      <4>2. CASE j # i
        <5>1. dispatches[StepOf[j]] > Cardinality(InStep(StepOf[j]))
          BY <1>0, <3>4, <3>7, <4>2 DEF WireInv
        <5>2. dispatches[StepOf[j]] <= dispatches'[StepOf[j]]
          BY <3>3
        <5>3. dispatches[StepOf[j]] \in Nat /\ dispatches'[StepOf[j]] \in Nat
          BY <1>0 DEF TypeInv
        <5>4. Cardinality(InStep(StepOf[j])) \in Nat
          BY <1>a
        <5> QED
          BY <5>1, <5>2, <5>3, <5>4
      <4> QED
        BY <4>1, <4>2
    <3>8. extra' => \E k \in Steps : dispatches'[k] > Cardinality(InStep(k))
      <4>1. SUFFICES ASSUME extra
                     PROVE  \E k \in Steps : dispatches'[k] > Cardinality(InStep(k))
        BY <3>1
      <4>2. PICK k \in Steps : dispatches[k] > Cardinality(InStep(k))
        BY <1>0, <4>1 DEF WireInv
      <4>3. dispatches[k] \in Nat /\ dispatches'[k] \in Nat /\ dispatches[k] <= dispatches'[k]
        BY <1>0, <3>3 DEF TypeInv
      <4> QED
        BY <1>a, <4>2, <4>3
    <3>9. \A j \in Reqs : n'[j] > Limit[StepOf[j]] =>
             (over' \/ w'[j] \in {"raise", "swap", "limit"}) /\ firstOver' # 0
      BY <1>0, <3>1, <3>4 DEF WireInv
    <3>10. /\ over' => firstOver' # 0
           /\ firstOver' # 0 => \E j \in Reqs : n'[j] > Limit[StepOf[j]]
      BY <1>0, <3>1 DEF WireInv
    <3> QED
      BY <3>6, <3>7, <3>8, <3>9, <3>10 DEF WireInv
  <2>3. CASE RecordExtra(i)
    <3>1. /\ UNCHANGED <<n, dispatches, over, firstOver>> /\ extra' = TRUE
          /\ w[i] = "extra"
          /\ w' = [w EXCEPT ![i] = IF n[i] = 0 THEN "counted" ELSE "flying"]
      BY <2>3 DEF RecordExtra, Goto, history
    <3>2. \A j \in Reqs : w'[j] = "extra" => w[j] = "extra"
      BY <1>0, <3>1 DEF TypeInv
    <3>3. \A j \in Reqs : w[j] # "extra" => w'[j] = w[j]
      BY <1>0, <3>1 DEF TypeInv
    <3>4. \E k \in Steps : dispatches[k] > Cardinality(InStep(k))
      BY <1>0, <3>1 DEF WireInv
    <3> QED
      BY <1>0, <3>1, <3>2, <3>3, <3>4 DEF WireInv
  <2>4. CASE CountInFlight(i)
    <3>1. /\ w[i] = "counted" /\ n' = [n EXCEPT ![i] = inFlight + 1]
          /\ w' = [w EXCEPT ![i] = "raise"]
          /\ firstOver' = IF firstOver = 0 /\ inFlight + 1 > Limit[StepOf[i]]
                          THEN at[i] ELSE firstOver
          /\ UNCHANGED <<dispatches, extra, over>>
      BY <2>4 DEF CountInFlight, Goto
    <3>2. n[i] = 0 /\ at[i] # 0
      BY <1>0, <3>1 DEF CountInv, StopInv
    <3>3. /\ w'[i] = "raise" /\ n'[i] = inFlight + 1
          /\ \A j \in Reqs \ {i} : w'[j] = w[j] /\ n'[j] = n[j]
      BY <1>0, <3>1 DEF TypeInv
    <3>4. \A j \in Reqs : w'[j] = "extra" <=> w[j] = "extra"
      BY <3>1, <3>3
    <3>5. firstOver # 0 => firstOver' = firstOver
      BY <3>1
    <3>6. ASSUME NEW j \in Reqs, n'[j] > Limit[StepOf[j]]
          PROVE  (over' \/ w'[j] \in {"raise", "swap", "limit"}) /\ firstOver' # 0
      <4>1. CASE j = i
        BY <3>1, <3>2, <3>3, <3>6, <4>1
      <4>2. CASE j # i
        BY <1>0, <3>1, <3>3, <3>5, <3>6, <4>2 DEF WireInv
      <4> QED
        BY <4>1, <4>2
    <3>7. over' => firstOver' # 0
      BY <1>0, <3>1, <3>5 DEF WireInv
    <3>8. ASSUME firstOver' # 0
          PROVE  \E j \in Reqs : n'[j] > Limit[StepOf[j]]
      <4>1. CASE firstOver = 0
        BY <3>1, <3>3, <3>8, <4>1
      <4>2. CASE firstOver # 0
        <5>1. PICK j \in Reqs : n[j] > Limit[StepOf[j]]
          BY <1>0, <4>2 DEF WireInv
        <5>2. j # i
          BY <3>2, <5>1
        <5> QED
          BY <3>3, <5>1, <5>2
      <4> QED
        BY <4>1, <4>2
    <3> QED
      BY <1>0, <1>b, <3>1, <3>4, <3>6, <3>7, <3>8 DEF WireInv
  <2>5. CASE LoadMax(i) \/ SwapMax(i)
    <3>1. /\ UNCHANGED <<n, dispatches, extra, over, firstOver>>
          /\ w[i] \in {"raise", "swap"}
          /\ \E s \in {"raise", "swap", "limit"} : w' = [w EXCEPT ![i] = s]
      BY <2>5 DEF LoadMax, SwapMax, Goto, counts, history
    <3>2. \A j \in Reqs : w'[j] = "extra" <=> w[j] = "extra"
      BY <1>0, <3>1 DEF TypeInv
    <3>3. \A j \in Reqs : w[j] \in {"raise", "swap", "limit"} =>
                             w'[j] \in {"raise", "swap", "limit"}
      BY <1>0, <3>1 DEF TypeInv
    <3> QED
      BY <1>0, <1>b, <3>1, <3>2, <3>3 DEF WireInv
  <2>6. CASE CheckLimit(i)
    <3>1. /\ UNCHANGED <<n, dispatches, extra, firstOver>>
          /\ w[i] = "limit" /\ w' = [w EXCEPT ![i] = "flying"]
          /\ n[i] > Limit[StepOf[i]] => over'
          /\ ~(n[i] > Limit[StepOf[i]]) => over' = over
          /\ over => over'
      BY <2>6 DEF CheckLimit, Goto, history
    <3>2. \A j \in Reqs : w'[j] = "extra" <=> w[j] = "extra"
      BY <1>0, <3>1 DEF TypeInv
    <3>3. \A j \in Reqs \ {i} : w'[j] = w[j]
      BY <1>0, <3>1 DEF TypeInv
    <3>4. \A j \in Reqs : n'[j] > Limit[StepOf[j]] =>
             (over' \/ w'[j] \in {"raise", "swap", "limit"}) /\ firstOver' # 0
      BY <1>0, <3>1, <3>3 DEF WireInv
    <3>5. over' => firstOver' # 0
      BY <1>0, <3>1 DEF WireInv
    <3> QED
      BY <1>0, <1>b, <3>1, <3>2, <3>4, <3>5 DEF WireInv
  <2>7. CASE Finish(i)
    <3>1. /\ UNCHANGED <<n, dispatches, extra, over, firstOver>>
          /\ w[i] = "flying" /\ w' = [w EXCEPT ![i] = "done"]
      BY <2>7 DEF Finish, Goto, history
    <3>2. \A j \in Reqs : w'[j] = "extra" <=> w[j] = "extra"
      BY <1>0, <3>1 DEF TypeInv
    <3>3. \A j \in Reqs : w[j] \in {"raise", "swap", "limit"} => w'[j] = w[j]
      BY <1>0, <3>1 DEF TypeInv
    <3> QED
      BY <1>0, <1>b, <3>1, <3>2, <3>3 DEF WireInv
  <2> QED
    BY <1>4, <2>1, <2>2, <2>3, <2>4, <2>5, <2>6, <2>7 DEF Worker
<1> QED
  BY <1>1, <1>3, <1>4
     DEF Next, Pacer, Done, StampStop, Cancel, Abort, PacedAll, DrainEnds,
         Verdict, Report, workers, vars, pacer, counts, history

\* A step of worker i is a step of a running worker and touches nothing of
\* any other request or step.
LEMMA WorkerFrame ==
    ASSUME TypeInv, NEW i \in Reqs, Worker(i) \/ SendAgain(i)
    PROVE  /\ i \in Running
           /\ UNCHANGED <<pc, step, next, verdict, count429, interrupted,
                          cancelled, stopNs>>
           /\ \A j \in Reqs \ {i} : /\ w'[j] = w[j] /\ at'[j] = at[j]
                                    /\ class'[j] = class[j] /\ n'[j] = n[j]
           /\ \A k \in Steps : k # StepOf[i] => dispatches'[k] = dispatches[k]
<1> USE ScheduleFacts DEF TypeInv, Goto, world, pacer, counts, record, history, Running
<1>1. CASE Skip(i) \/ EnterDispatch(i)
  BY <1>1 DEF Skip, EnterDispatch
<1>2. CASE Dispatch(i)
  BY <1>2 DEF Dispatch
<1>3. CASE Send(i) \/ SendAgain(i)
  BY <1>3 DEF Send, SendAgain, CountSend
<1>4. CASE RecordExtra(i) \/ CheckLimit(i)
  BY <1>4 DEF RecordExtra, CheckLimit
<1>5. CASE CountInFlight(i)
  BY <1>5 DEF CountInFlight
<1>6. CASE LoadMax(i) \/ SwapMax(i)
  BY <1>6 DEF LoadMax, SwapMax
<1>7. CASE Finish(i)
  BY <1>7 DEF Finish
<1> QED
  BY <1>1, <1>2, <1>3, <1>4, <1>5, <1>6, <1>7 DEF Worker

\* A step with a verdict is spawned and at rest, so nothing moves what its
\* verdict was taken from; and when the verdict is a pass, the tripwire was
\* silent while nobody of the step had anything left to record.
LEMMA VerdictStep == IInv /\ [Next]_vars => VerdictInv'
<1> SUFFICES ASSUME IInv, [Next]_vars PROVE VerdictInv'
  OBVIOUS
<1> USE ScheduleFacts
<1>0. TypeInv /\ WireInv /\ PacerInv /\ VerdictInv /\ VerdictComplete
  BY DEF IInv, VerdictInv
<1>a. \A k : InStep(k) \subseteq Reqs /\ Measured(k) \subseteq InStep(k)
  BY DEF InStep, Measured
<1>1. CASE UNCHANGED <<step, next, w, at, class, n, dispatches, verdict, count429>>
  <2>1. Running' = Running /\ \A k : Status429(k)' = Status429(k)
    BY <1>1 DEF Running, Status429
  <2> QED
    BY <1>0, <1>1, <2>1 DEF VerdictInv, VerdictComplete, Spawned
<1>2. CASE Spawn
  <2>1. next \in Reqs /\ next' = next + 1 /\ w' = [w EXCEPT ![next] = "waiting"]
    BY <1>0, <1>2 DEF TypeInv, Spawn, Spawned, InStep, Reqs, Goto
  <2>2. UNCHANGED <<step, at, class, n, dispatches, verdict, count429>>
    BY <1>2 DEF Spawn, counts, record
  <2>3. ASSUME NEW k \in Steps, verdict[k] # "none"
        PROVE  Spawned(k)' /\ InStep(k) \cap Running' = {}
    <3>1. Spawned(k) /\ InStep(k) \cap Running = {}
      BY <1>0, <2>3 DEF VerdictInv, VerdictComplete
    <3>2. next \notin InStep(k)
      BY <1>0, <3>1 DEF Spawned, TypeInv
    <3>3. \A j \in InStep(k) : w'[j] = w[j]
      BY <1>0, <1>a, <2>1, <3>2 DEF TypeInv
    <3>4. \A j \in InStep(k) : j < next + 1
      <4>1. next \in Int
        BY <1>0 DEF TypeInv
      <4>2. \A j \in InStep(k) : j \in Int /\ j < next
        BY <3>1 DEF Spawned, InStep, Reqs
      <4> QED
        BY <4>1, <4>2
    <3> QED
      BY <2>1, <3>1, <3>3, <3>4 DEF Spawned, Running
  <2>4. \A k : Status429(k)' = Status429(k)
    BY <2>2 DEF Status429
  <2> QED
    BY <1>0, <2>2, <2>3, <2>4 DEF VerdictInv, VerdictComplete
<1>3. ASSUME NEW i \in Reqs, Worker(i) \/ SendAgain(i) PROVE VerdictInv'
  <2>1. /\ i \in Running /\ UNCHANGED <<step, next, verdict, count429>>
        /\ \A j \in Reqs \ {i} : /\ w'[j] = w[j] /\ at'[j] = at[j]
                                 /\ class'[j] = class[j] /\ n'[j] = n[j]
        /\ \A k \in Steps : k # StepOf[i] => dispatches'[k] = dispatches[k]
    BY <1>0, <1>3, WorkerFrame
  <2>2. ASSUME NEW k \in Steps, verdict[k] # "none" PROVE i \notin InStep(k) /\ StepOf[i] # k
    BY <1>0, <2>1, <2>2 DEF VerdictComplete, InStep
  <2>3. ASSUME NEW k \in Steps, verdict[k] # "none", NEW j \in 1..k
        PROVE  j \in Steps /\ verdict[j] # "none"
    <3>1. k <= step /\ j \in Steps
      BY <1>0, <2>3 DEF VerdictInv, Steps
    <3>2. j = k \/ j < step
      BY <1>0, <3>1 DEF TypeInv, Steps
    <3> QED
      BY <1>0, <2>3, <3>1, <3>2 DEF VerdictInv
  <2>4. ASSUME NEW k \in Steps, verdict'[k] # "none"
        PROVE  /\ InStep(k) \cap Running' = {}
               /\ count429'[k] = Cardinality(Status429(k)')
               /\ verdict'[k] = "pass" =>
                    \A j \in 1..k :
                       /\ dispatches'[j] <= Cardinality(InStep(j))
                       /\ \A r \in InStep(j) : n'[r] <= Limit[j]
                       /\ \A r \in Measured(j) : at'[r] # 0
    <3>1. verdict[k] # "none" /\ i \notin InStep(k)
      BY <2>1, <2>2, <2>4
    <3>2. InStep(k) \cap Running' = {}
      <4>1. InStep(k) \cap Running = {}
        BY <1>0, <3>1 DEF VerdictComplete
      <4> QED
        BY <1>a, <2>1, <3>1, <4>1 DEF Running
    <3>3. Status429(k)' = Status429(k)
      BY <1>a, <2>1, <3>1 DEF Status429
    <3>4. ASSUME verdict[k] = "pass", NEW j \in 1..k
          PROVE  /\ dispatches'[j] <= Cardinality(InStep(j))
                 /\ \A r \in InStep(j) : n'[r] <= Limit[j]
                 /\ \A r \in Measured(j) : at'[r] # 0
      <4>1. j \in Steps /\ i \notin InStep(j) /\ StepOf[i] # j
        BY <2>2, <2>3, <3>1
      <4>2. /\ dispatches[j] <= Cardinality(InStep(j))
            /\ \A r \in InStep(j) : n[r] <= Limit[j]
            /\ \A r \in Measured(j) : at[r] # 0
        BY <1>0, <3>4 DEF VerdictComplete
      <4> QED
        BY <1>a, <2>1, <4>1, <4>2
    <3> QED
      BY <1>0, <2>1, <3>1, <3>2, <3>3, <3>4 DEF VerdictComplete
  <2>5. VerdictComplete'
    BY <2>4 DEF VerdictComplete
  <2> QED
    BY <1>0, <2>1, <2>5 DEF VerdictInv, Spawned
<1>4. CASE Verdict
  <2>1. PICK g \in GateOutcomes(step) :
           verdict' = [verdict EXCEPT ![step] = StepEnd(g, Fired, step)]
    BY <1>4 DEF Verdict
  <2>2. /\ StepDone(step) /\ pc = "wait"
        /\ count429' = [count429 EXCEPT ![step] = Cardinality(Status429(step))]
        /\ \/ verdict'[step] = "pass" /\ step' = step + 1
           \/ step' = step
        /\ UNCHANGED <<next, w, at, class, n, dispatches>>
    BY <1>4 DEF Verdict, workers, counts
  <2>3. /\ Running' = Running /\ Spawned(step)
        /\ \A k : Spawned(k)' = Spawned(k) /\ Status429(k)' = Status429(k)
    BY <1>0, <2>2 DEF Running, Spawned, Status429, PacerInv
  <2>4. step \in Steps /\ step \in Int
    BY <1>0 DEF TypeInv, Steps
  <2>5. \A k \in Steps \ {step} : verdict'[k] = verdict[k] /\ count429'[k] = count429[k]
    BY <1>0, <2>1, <2>2 DEF TypeInv
  <2>6. /\ verdict'[step] = StepEnd(g, Fired, step)
        /\ count429'[step] = Cardinality(Status429(step))
    BY <1>0, <2>1, <2>2 DEF TypeInv
  <2>7. \A k \in Steps : k < step' => verdict'[k] = "pass"
    <3>1. ASSUME NEW k \in Steps, k < step' PROVE verdict'[k] = "pass"
      <4>1. CASE k < step
        <5>1. verdict[k] = "pass" /\ k # step
          BY <1>0, <2>4, <4>1 DEF VerdictInv
        <5> QED
          BY <2>5, <5>1
      <4>2. CASE ~(k < step)
        <5>1. k = step /\ step' = step + 1
          BY <2>2, <2>4, <3>1, <4>2
        <5> QED
          BY <2>2, <2>4, <5>1
      <4> QED
        BY <4>1, <4>2
    <3> QED
      BY <3>1
  <2>8. \A k \in Steps : verdict'[k] # "none" => k <= step' /\ Spawned(k)'
    <3>1. ASSUME NEW k \in Steps, verdict'[k] # "none" PROVE k <= step /\ Spawned(k)
      BY <1>0, <2>3, <2>4, <2>5, <3>1 DEF VerdictInv
    <3> QED
      BY <2>2, <2>3, <2>4, <3>1
  <2>9. ASSUME verdict'[step] = "pass"
        PROVE  /\ dispatches[step] <= Cardinality(InStep(step))
               /\ \A r \in InStep(step) : n[r] <= Limit[step]
               /\ \A r \in Measured(step) : at[r] # 0
    <3>1. g /\ ~Fired
      BY <2>6, <2>9 DEF StepEnd
    <3>2. \A r \in Measured(step) : at[r] # 0
      BY <2>1, <3>1 DEF GateOutcomes
    <3>3. ~extra /\ ~over
      BY <3>1 DEF Fired
    <3>4. \A r \in InStep(step) : w[r] \in {"unspawned", "skipped", "done"}
      BY <1>a, <2>2 DEF StepDone, Running
    <3>5. ~(dispatches[step] > Cardinality(InStep(step)))
      BY <1>0, <2>4, <3>3, <3>4 DEF WireInv
    <3>6. dispatches[step] \in Nat /\ Cardinality(InStep(step)) \in Nat
      BY <1>0, <1>a, <2>4, ReqsSubset DEF TypeInv
    <3>7. ASSUME NEW r \in InStep(step) PROVE n[r] <= Limit[step]
      <4>1. r \in Reqs /\ StepOf[r] = step
        BY DEF InStep
      <4>2. ~(n[r] > Limit[step])
        BY <1>0, <3>3, <3>4, <4>1 DEF WireInv
      <4>3. n[r] \in Nat /\ Limit[step] \in Nat
        BY <1>0, <2>4, <4>1 DEF TypeInv
      <4> QED
        BY <4>2, <4>3
    <3> QED
      BY <3>2, <3>5, <3>6, <3>7
  <2>10. ASSUME NEW k \in Steps, verdict'[k] # "none"
         PROVE  /\ InStep(k) \cap Running' = {}
                /\ count429'[k] = Cardinality(Status429(k)')
                /\ verdict'[k] = "pass" =>
                     \A j \in 1..k :
                        /\ dispatches'[j] <= Cardinality(InStep(j))
                        /\ \A r \in InStep(j) : n'[r] <= Limit[j]
                        /\ \A r \in Measured(j) : at'[r] # 0
    <3>1. CASE k # step
      BY <1>0, <2>2, <2>3, <2>5, <2>10, <3>1 DEF VerdictComplete
    <3>2. CASE k = step
      <4>1. ASSUME verdict'[step] = "pass", NEW j \in 1..step
            PROVE  /\ dispatches[j] <= Cardinality(InStep(j))
                   /\ \A r \in InStep(j) : n[r] <= Limit[j]
                   /\ \A r \in Measured(j) : at[r] # 0
        <5>1. CASE j = step
          BY <2>9, <4>1, <5>1
        <5>2. CASE j # step
          <6>1. j \in Steps /\ j < step /\ j \in 1..j
            BY <2>4, <5>2 DEF Steps
          <6>2. verdict[j] = "pass"
            BY <1>0, <6>1 DEF VerdictInv
          <6> QED
            BY <1>0, <6>1, <6>2 DEF VerdictComplete
        <5> QED
          BY <5>1, <5>2
      <4> QED
        BY <2>2, <2>3, <2>6, <3>2, <4>1 DEF StepDone
    <3> QED
      BY <3>1, <3>2
  <2>11. VerdictComplete'
    BY <2>10 DEF VerdictComplete
  <2> QED
    BY <2>7, <2>8, <2>11 DEF VerdictInv
<1> QED
  BY <1>1, <1>2, <1>3, <1>4
     DEF Next, Pacer, Done, StampStop, Cancel, Abort, PacedAll, DrainEnds,
         Report, workers, vars, pacer, counts, record

\* The pacer ends for a stop, for a schedule without a ladder all spawned,
\* or for a verdict; and the report finds nobody running.
LEMMA EndStep == IInv /\ [Next]_vars => EndInv'
<1> SUFFICES ASSUME IInv, [Next]_vars PROVE EndInv'
  OBVIOUS
<1> USE ScheduleFacts
<1>0. TypeInv /\ EndInv /\ StopInv
  BY DEF IInv
<1>1. CASE UNCHANGED vars \/ Done
  <2>1. Running' = Running /\ \A k : Spawned(k)' = Spawned(k)
    BY <1>1 DEF Done, vars, Running, Spawned, pacer
  <2> QED
    BY <1>0, <1>1, <2>1 DEF Done, vars, pacer, record, EndInv
<1>2. CASE Cancel
  BY <1>0, <1>2 DEF Cancel, pacer, EndInv
<1>3. CASE StampStop
  <2>1. /\ Running' = Running /\ \A k : Spawned(k)' = Spawned(k)
        /\ UNCHANGED <<pc, step, verdict, interrupted, cancelled>> /\ stopNs' # 0
    BY <1>0, <1>3 DEF StampStop, Running, Spawned, pacer, record, TypeInv
  <2> QED
    BY <1>0, <2>1 DEF EndInv
<1>4. CASE Spawn \/ DrainEnds
  <2>1. pc' \notin {"join", "reported"}
    BY <1>4 DEF Spawn, DrainEnds
  <2> QED
    BY <2>1 DEF EndInv
<1>5. CASE Abort
  <2>1. pc' = "join" /\ cancelled'
    BY <1>5 DEF Abort, workers
  <2> QED
    BY <2>1 DEF EndInv
<1>6. CASE PacedAll
  BY <1>6 DEF PacedAll, workers, Spawned, EndInv
<1>7. CASE Verdict
  <2>1. pc' = "pace" \/ pc' = "join"
    BY <1>7 DEF Verdict
  <2>2. PICK g \in GateOutcomes(step) :
           verdict' = [verdict EXCEPT ![step] = StepEnd(g, Fired, step)]
    BY <1>7 DEF Verdict
  <2>3. verdict'[step] = StepEnd(g, Fired, step)
    BY <1>0, <2>2 DEF TypeInv
  <2>4. verdict'[step] # "none"
    BY <2>3 DEF StepEnd
  <2>5. pc' = "join" => step' = step /\ ~(verdict'[step] = "pass" /\ step < K)
    BY <1>7 DEF Verdict
  <2>6. ~(step < K) => step = K
    BY <1>0 DEF TypeInv, Steps
  <2> QED
    BY <2>1, <2>4, <2>5, <2>6 DEF EndInv
<1>8. CASE Report
  <2>1. /\ Running' = Running /\ Running = {} /\ \A k : Spawned(k)' = Spawned(k)
        /\ UNCHANGED <<step, verdict, cancelled, stopNs>> /\ pc = "join"
        /\ interrupted' = cancelled /\ (cancelled => stopNs # 0)
    BY <1>8 DEF Report, workers, Running, Spawned
  <2> QED
    BY <1>0, <2>1 DEF EndInv
<1>9. ASSUME NEW i \in Reqs, Worker(i) \/ SendAgain(i) PROVE EndInv'
  <2>1. /\ i \in Running
        /\ UNCHANGED <<pc, step, next, verdict, interrupted, cancelled, stopNs>>
    BY <1>0, <1>9, WorkerFrame
  <2>2. pc # "reported"
    BY <1>0, <2>1 DEF EndInv
  <2>3. \A k : Spawned(k)' = Spawned(k)
    BY <2>1 DEF Spawned
  <2> QED
    BY <1>0, <2>1, <2>2, <2>3 DEF EndInv
<1> QED
  BY <1>1, <1>2, <1>3, <1>4, <1>5, <1>6, <1>7, <1>8, <1>9 DEF Next, Pacer

\* The invariant holds throughout.
THEOREM Inductive == Spec => []IInv
<1>1. IInv /\ [Next]_vars => IInv'
  BY TypeStep, StopStep, PacerStep, CountStep, WireStep, VerdictStep, EndStep DEF IInv
<1> QED
  BY InitInv, <1>1, PTL DEF Spec

(***************************************************************************)
(* The results.                                                            *)
(***************************************************************************)

\* Every variable has its type: no more readings are taken than there are
\* requests and a stop, and no more requests fly than were scheduled.
THEOREM TypeCorrect == Spec => []TypeOK
<1>1. ASSUME IInv PROVE TypeOK
  <2> USE ScheduleFacts
  <2>1. Cardinality(Sent) \in Nat /\ Cardinality(Sent) <= N
    BY ReqsSubset DEF Sent
  <2>2. clock <= N + 1 /\ clock \in Nat
    BY <1>1, <2>1 DEF IInv, StopInv, TypeInv
  <2>3. Cardinality(Up) \in Nat /\ Cardinality(Up) <= N
    BY ReqsSubset DEF Up
  <2>4. inFlight \in 0..N /\ maxInFlight \in 0..N
    BY <1>1, <2>3 DEF IInv, CountInv, TypeInv
  <2>5. stopNs \in 0..(N + 1)
    BY <1>1, <2>2 DEF IInv, StopInv, TypeInv
  <2>6. at \in [Reqs -> 0..(N + 1)]
    <3>1. \A i \in Reqs : at[i] \in 0..(N + 1)
      BY <1>1, <2>2 DEF IInv, StopInv, TypeInv
    <3> QED
      BY <1>1, <3>1 DEF IInv, TypeInv
  <2> QED
    BY <1>1, <2>4, <2>5, <2>6 DEF IInv, TypeInv, TypeOK, Verdicts
<1> QED
  BY Inductive, <1>1, PTL

\* A safety stop's time is after every dispatch time the run ever records.
THEOREM StopIsLast == Spec => []NoDispatchAfterStop
<1>1. IInv => NoDispatchAfterStop
  BY DEF IInv, StopInv, NoDispatchAfterStop
<1> QED
  BY Inductive, <1>1, PTL

\* A step's verdict is never taken too early, and nothing that happens later
\* makes it wrong.
THEOREM VerdictsComplete == Spec => []VerdictComplete
<1>1. IInv => VerdictComplete
  BY DEF IInv, VerdictInv
<1> QED
  BY Inductive, <1>1, PTL

\* However the workers' compare-and-swaps interleave, the reported maximum is
\* the peak and the tripwire fired exactly when it should have.
THEOREM TripwireIsExact == Spec => []TripwireExact
<1>1. ASSUME IInv, pc = "reported"
      PROVE  /\ maxInFlight = peak /\ inFlight = 0
             /\ over <=> firstOver # 0
             /\ extra <=> \E k \in Steps : dispatches[k] > Cardinality(InStep(k))
  <2>1. Running = {}
    BY <1>1 DEF IInv, EndInv
  <2>2. \A i \in Reqs : w[i] \in {"unspawned", "skipped", "done"}
    BY <2>1 DEF Running
  <2>3. Up = {}
    BY <2>2 DEF Up
  <2>4. inFlight = 0
    BY <1>1, <2>3, FS_EmptySet DEF IInv, CountInv
  <2>5. maxInFlight = peak
    BY <1>1, <2>2 DEF IInv, CountInv, TypeInv
  <2>6. over <=> firstOver # 0
    BY <1>1, <2>2 DEF IInv, WireInv
  <2>7. extra <=> \E k \in Steps : dispatches[k] > Cardinality(InStep(k))
    BY <1>1, <2>2 DEF IInv, WireInv, InStep
  <2> QED
    BY <2>4, <2>5, <2>6, <2>7
<1>2. IInv => TripwireExact
  BY <1>1 DEF TripwireExact
<1> QED
  BY Inductive, <1>2, PTL

\* A request without a dispatch time has its reason in the report: the stop,
\* or the verdict of an earlier step.
THEOREM UnsentAreExplained == Spec => []UnsentExplained
<1>1. ASSUME IInv, pc = "reported", NEW i \in Reqs, at[i] = 0
      PROVE  \/ interrupted /\ stopNs # 0
             \/ \E k \in 1..(StepOf[i] - 1) :
                   verdict[k] \in {"client_validity", "tripwire", "backoff"}
  <2> USE ScheduleFacts
  <2>1. CASE cancelled
    BY <1>1, <2>1 DEF IInv, EndInv
  <2>2. CASE ~cancelled
    <3>1. w[i] = "unspawned"
      BY <1>1, <2>2 DEF IInv, StopInv, EndInv, Running
    <3>2. ~(i < next) /\ ~(StepOf[i] < step)
      BY <1>1, <3>1 DEF IInv, PacerInv
    <3>3. ~IsLadder \/ verdict[step] # "none"
      BY <1>1, <2>2 DEF IInv, EndInv
    <3>4. Spawned(step)
      BY <1>1, <2>2 DEF IInv, EndInv, VerdictInv, TypeInv
    <3>5. StepOf[i] # step
      BY <3>2, <3>4 DEF Spawned, InStep
    <3>6. step \in Int /\ StepOf[i] \in Int /\ step >= 1 /\ StepOf[i] <= K /\ step <= K
      BY <1>1 DEF IInv, TypeInv, Steps
    <3>7. step < StepOf[i]
      BY <3>2, <3>5, <3>6
    <3>8. step # K /\ K # 1
      BY <3>6, <3>7
    <3>9. verdict[step] \notin {"none", "pass"}
      BY <1>1, <2>2, <3>8, ScheduleAssumption DEF IInv, EndInv
    <3>10. verdict[step] \in {"client_validity", "tripwire", "backoff"}
      BY <1>1, <3>9 DEF IInv, TypeInv, Verdicts
    <3>11. step \in 1..(StepOf[i] - 1)
      BY <3>6, <3>7
    <3> QED
      BY <3>10, <3>11
  <2> QED
    BY <2>1, <2>2
<1>2. IInv => UnsentExplained
  BY <1>1 DEF UnsentExplained
<1> QED
  BY Inductive, <1>2, PTL
=============================================================================
