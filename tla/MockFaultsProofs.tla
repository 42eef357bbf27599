-------------------------- MODULE MockFaultsProofs --------------------------
(***************************************************************************)
(* Proofs about MockFaults, for any number of windows and streams, any     *)
(* modes, delays and durations, and timers late by less than half a        *)
(* window.                                                                 *)
(*                                                                         *)
(* That the engine and its records agree is a matter of timing: armed      *)
(* windows do not overlap as planned, and a record still active after the  *)
(* next window fired is expired before that one can be (WindowInv).  That  *)
(* one piece escapes is a matter of where a handler is when the window     *)
(* fires (Piece); that an exempt stream runs its count, of its count so    *)
(* far (Count).                                                            *)
(***************************************************************************)
EXTENDS MockFaults, FiniteSetTheorems, TLAPS

\* Records whose window fired, and those whose window is not over.
Fired == InState("active") \cup InState("expired")
Pending == InState("armed") \cup InState("active")

\* Records are appended: the armed ones are a prefix.  Each fires and expires
\* once, and changes counts both.
RecordInv ==
    /\ \E c \in 0..MaxFaults : Armed = 1..c
    /\ changes = Cardinality(Fired) + Cardinality(InState("expired"))

\* Planned windows that are not over do not overlap; timers are late by at
\* most Late; of two active records the later is the engine's.
WindowInv ==
    /\ \A f, g \in Pending : f # g =>
         \/ rec[f].start + Duration <= rec[g].start
         \/ rec[g].start + Duration <= rec[f].start
    /\ \A f \in InState("armed") : now <= rec[f].start + Late
    /\ \A f \in InState("active") :
         /\ rec[f].start <= rec[f].fired /\ rec[f].fired <= rec[f].start + Late
         /\ rec[f].fired <= now /\ now <= rec[f].fired + Duration + Late
         /\ active # 0
         /\ f # active => rec[f].start + Duration <= rec[active].start
    /\ active # 0 => active \in InState("active")

\* The fault in force stops what stream s writes.
Blocks(s) == Mode \in {"stall", "silent_hang"} \/ (Mode = "stream_abort" /\ ~Exempt(s))

\* The handler is past the gate with a piece: about to write it, or in the
\* jitter that follows a stall.
Past(s) ==
    \/ stream[s].pc = "write"
    \/ stream[s].pc \in {"sleep", "sleeping"} /\ stream[s].stalled

\* Under a fault that blocks it, a stream wrote nothing, or the one piece.
Piece(s) ==
    /\ stream[s].pc \in {"idle", "arrived"} => ~stream[s].stalled
    /\ Blocks(s) => since[s] <= 1 /\ (Past(s) => since[s] = 0)

\* A stream under way has pieces left of its plan, and of its count; one reset
\* in spite of its exemption has run its count.
Count(s) ==
    /\ stream[s].pc \in {"idle", "arrived"} =>
         stream[s].tokens = 0 /\ stream[s].abortAfter = -1
    /\ stream[s].pc \notin {"end", "done"} => stream[s].tokens < Tokens
    /\ stream[s].pc # "done" => stream[s].outcome = "none"
    /\ Exempt(s) /\ stream[s].pc # "done" => stream[s].tokens < stream[s].abortAfter
    /\ Exempt(s) /\ stream[s].outcome = "rst" => stream[s].tokens = stream[s].abortAfter

\* What holds of every stream.
StreamInv == \A s \in Streams : Piece(s) /\ Count(s)

\* The inductive invariant.
IInv ==
    /\ TypeOK /\ RecordInv /\ WindowInv /\ StreamInv

(***************************************************************************)
(* The records.                                                            *)
(***************************************************************************)

\* What the constants give the proofs.
LEMMA WindowFacts ==
    /\ MaxFaults \in Nat /\ 1 \in Faults /\ Faults \subseteq Nat /\ 0 \notin Faults
    /\ Duration \in Nat /\ Late \in Nat /\ 2 * Late < Duration /\ ScheduledAt \in Nat
    /\ Delays \subseteq Nat /\ AbortAfters \subseteq Nat /\ Modes \subseteq AllModes
    /\ Tokens \in Nat /\ Tokens # 0
BY WindowsAssumption DEF Faults

\* A set of records is finite and no larger than the bound.
LEMMA FaultsSubset ==
    ASSUME NEW S, S \subseteq Faults
    PROVE  IsFiniteSet(S) /\ Cardinality(S) \in Nat /\ Cardinality(S) <= MaxFaults
<1>1. IsFiniteSet(Faults) /\ Cardinality(Faults) = MaxFaults
  BY WindowFacts, FS_Interval DEF Faults
<1> QED
  BY <1>1, FS_Subset, FS_CardinalityType

\* What an armed fault record holds.
LEMMA FaultType ==
    ASSUME NEW m \in Modes, NEW t \in Nat, NEW k \in AbortAfters
    PROVE  /\ Fault(m, t, k) \in [state : {"none", "armed", "active", "expired"},
                                  mode : AllModes, start : Nat, fired : Nat,
                                  abortAfter : Nat]
           /\ Fault(m, t, k).state = "armed" /\ Fault(m, t, k).start = t
BY WindowFacts DEF Fault

\* The initial state, with the scheduled window armed, satisfies the invariant.
LEMMA InitInv == Init => IInv
<1> SUFFICES ASSUME Init PROVE IInv
  OBVIOUS
<1> USE WindowFacts
<1>1. PICK m \in Modes, k \in AbortAfters :
         rec = [f \in Faults |-> IF f = 1 THEN Fault(m, ScheduledAt, k) ELSE NoFault]
  BY DEF Init
<1>2. NoFault \in [state : {"none", "armed", "active", "expired"},
                   mode : AllModes, start : Nat, fired : Nat, abortAfter : Nat]
  BY DEF NoFault, AllModes
<1>3. TypeOK
  <2>1. rec \in [Faults -> [state : {"none", "armed", "active", "expired"}, mode : AllModes,
                           start : Nat, fired : Nat, abortAfter : Nat]]
    BY <1>1, <1>2, FaultType
  <2>2. NewStream \in [pc : {"idle", "arrived", "sleep", "sleeping", "gate", "stalled",
                             "write", "end", "done"},
                       tokens : 0..Tokens, abortAfter : Nat \cup {-1},
                       seen : Nat, stalled : BOOLEAN,
                       outcome : {"none", "200", "rejected", "rst", "hung", "abandoned"}]
    BY DEF NewStream
  <2>3. now \in Nat /\ active \in Faults \cup {0} /\ changes \in 0..2 * MaxFaults
    BY DEF Init
  <2>4. since \in [Streams -> Nat] /\ stream = [s \in Streams |-> NewStream]
    BY DEF Init
  <2> QED
    BY <2>1, <2>2, <2>3, <2>4 DEF TypeOK
<1>4. /\ rec[1].state = "armed" /\ rec[1].start = ScheduledAt
      /\ \A f \in Faults : f # 1 => rec[f].state = "none"
  BY <1>1, FaultType DEF NoFault
<1>5. Armed = {1} /\ InState("armed") = {1} /\ InState("active") = {} /\ InState("expired") = {}
  BY <1>4 DEF Armed, InState
<1>6. RecordInv
  <2>1. 1 \in 0..MaxFaults /\ {1} = 1..1
    BY DEF Faults
  <2>2. Fired = {} /\ changes = 0
    BY <1>5 DEF Fired, Init
  <2> QED
    <3>1. \E c \in 0..MaxFaults : Armed = 1..c
      BY <1>5, <2>1
    <3>2. changes = Cardinality(Fired) + Cardinality(InState("expired"))
      BY <1>5, <2>2, FS_EmptySet
    <3> QED
      BY <3>1, <3>2 DEF RecordInv
<1>7. WindowInv
  BY <1>4, <1>5 DEF WindowInv, Pending, Init
<1>8. StreamInv
  BY DEF StreamInv, Piece, Count, Exempt, Init, NewStream, Blocks, Mode
<1> QED
  BY <1>3, <1>6, <1>7, <1>8 DEF IInv

(***************************************************************************)
(* The engine.                                                             *)
(***************************************************************************)

\* AdminArm takes a record nobody had, and moves no other.
LEMMA ArmFacts ==
    ASSUME IInv, NEW m \in Modes, NEW d \in Delays, NEW k \in AbortAfters,
           AdminArm(m, d, k)
    PROVE  \E f \in Faults :
             /\ rec[f].state = "none" /\ f # active
             /\ rec'[f] = Fault(m, now + d, k)
             /\ rec' = [rec EXCEPT ![f] = Fault(m, now + d, k)]
             /\ Armed' = Armed \cup {f} /\ f = Cardinality(Armed) + 1
             /\ ~Overlaps(now + d)
             /\ UNCHANGED <<now, active, changes, stream, since>>
<1> USE WindowFacts
<1> DEFINE f == Cardinality(Armed) + 1
<1>1. TypeOK /\ RecordInv /\ WindowInv
  BY DEF IInv
<1>2. PICK c \in 0..MaxFaults : Armed = 1..c
  BY <1>1 DEF RecordInv
<1>3. Cardinality(Armed) = c
  BY <1>2, FS_Interval
<1>4. f \in Faults /\ f = c + 1
  BY <1>3 DEF AdminArm
<1>5. f \notin Armed
  BY <1>2, <1>4
<1>6. /\ rec' = [rec EXCEPT ![f] = Fault(m, now + d, k)]
      /\ ~Overlaps(now + d)
      /\ UNCHANGED <<now, active, changes, stream, since>>
  BY DEF AdminArm
<1> HIDE DEF f
<1>7. rec[f].state = "none" /\ f # active
  BY <1>1, <1>4, <1>5 DEF Armed, WindowInv, InState
<1>8. rec'[f] = Fault(m, now + d, k) /\ \A g \in Faults \ {f} : rec'[g] = rec[g]
  BY <1>1, <1>4, <1>6 DEF TypeOK
<1>9. rec'[f].state # "none"
  BY <1>1, <1>8, FaultType DEF TypeOK
<1>10. Armed' = Armed \cup {f}
  BY <1>4, <1>8, <1>9 DEF Armed
<1> QED
  BY <1>4, <1>6, <1>7, <1>8, <1>10 DEF f

\* A handler's step: the engine does not move, nor does another stream.
LEMMA HandlerFrame ==
    ASSUME TypeOK, NEW s \in Streams, Handle(s) \/ Abandon(s)
    PROVE  /\ UNCHANGED Engine
           /\ \A t \in Streams \ {s} : stream'[t] = stream[t] /\ since'[t] = since[t]
<1> USE DEF TypeOK, Ends, Goto, Waits
<1>1. CASE Arrive(s) \/ SleepWakes(s) \/ SleepEnds(s) \/ StallWakes(s) \/ End(s) \/ Abandon(s)
  BY <1>1 DEF Arrive, SleepWakes, SleepEnds, StallWakes, End, Abandon
<1>2. CASE Admit(s)
  BY <1>2 DEF Admit
<1>3. CASE Sleep(s)
  BY <1>3 DEF Sleep
<1>4. CASE Gate(s)
  BY <1>4 DEF Gate
<1>5. CASE Write(s)
  BY <1>5 DEF Write
<1> QED
  BY <1>1, <1>2, <1>3, <1>4, <1>5 DEF Handle

\* What Admit does, by what the fault in force asks of it.
LEMMA AdmitMoves ==
    ASSUME NEW s \in Streams, Admit(s)
    PROVE  /\ stream[s].pc = "arrived" /\ UNCHANGED <<Engine, since>>
           /\ \/ \E o \in {"rejected", "hung", "rst"} : Ends(s, o)
              \/ /\ Mode = "stream_abort" /\ rec[active].abortAfter > 0
                 /\ stream' = [stream EXCEPT ![s].pc = "sleep",
                                             ![s].abortAfter = rec[active].abortAfter]
              \/ Mode \notin {"stream_abort", "silent_hang"} /\ Goto(s, "sleep")
              \/ Mode = "stream_abort" /\ ~(rec[active].abortAfter > 0)
                   /\ rec[active].abortAfter # 0 /\ Goto(s, "sleep")
BY DEF Admit

\* What Sleep does.
LEMMA SleepMoves ==
    ASSUME NEW s \in Streams, Sleep(s)
    PROVE  /\ stream[s].pc = "sleep" /\ UNCHANGED <<Engine, since>>
           /\ \/ Mode = "stream_abort" /\ ~Exempt(s) /\ Ends(s, "rst")
              \/ Ends(s, "hung")
              \/ stream' = [stream EXCEPT ![s].pc = "sleeping", ![s].seen = changes]
BY DEF Sleep, ExemptAsleep

\* What Gate does: a piece passes only if no fault blocks the stream.
LEMMA GateMoves ==
    ASSUME NEW s \in Streams, Gate(s)
    PROVE  /\ stream[s].pc = "gate" /\ UNCHANGED <<Engine, since>>
           /\ \/ stream' = Waits(s)
              \/ Mode = "stream_abort" /\ ~Exempt(s) /\ Ends(s, "rst")
              \/ Ends(s, "hung")
              \/ ~Blocks(s) /\ Goto(s, IF stream[s].stalled THEN "sleep" ELSE "write")
BY DEF Gate, Held, Blocks

\* What Write does: one more piece, and the end of the stream, of its plan or
\* neither.
LEMMA WriteMoves ==
    ASSUME NEW s \in Streams, Write(s)
    PROVE  /\ stream[s].pc = "write" /\ UNCHANGED Engine
           /\ since' = [since EXCEPT ![s] = @ + 1]
           /\ \/ /\ Exempt(s) /\ stream[s].tokens + 1 >= stream[s].abortAfter
                 /\ stream' = [stream EXCEPT ![s].pc = "done", ![s].tokens = stream[s].tokens + 1,
                                             ![s].stalled = FALSE, ![s].outcome = "rst"]
              \/ /\ ~(Exempt(s) /\ stream[s].tokens + 1 >= stream[s].abortAfter)
                 /\ \E p \in {"end", "sleep", "gate"} :
                      /\ p = "end" <=> stream[s].tokens + 1 = Tokens
                      /\ stream' = [stream EXCEPT ![s].pc = p,
                                                  ![s].tokens = stream[s].tokens + 1,
                                                  ![s].stalled = FALSE]
<1> DEFINE n == stream[s].tokens + 1
           wrote(p) == stream' = [stream EXCEPT ![s].pc = p, ![s].tokens = n, ![s].stalled = FALSE]
           rst == stream' = [stream EXCEPT ![s].pc = "done", ![s].tokens = n,
                                           ![s].stalled = FALSE, ![s].outcome = "rst"]
<1>1. /\ stream[s].pc = "write" /\ UNCHANGED Engine
      /\ since' = [since EXCEPT ![s] = @ + 1]
      /\ IF Exempt(s) /\ n >= stream[s].abortAfter THEN rst
         ELSE IF n = Tokens THEN wrote("end") ELSE wrote("sleep") \/ wrote("gate")
  BY DEF Write, PlanDone
<1> HIDE DEF wrote, rst, n
<1>2. \/ Exempt(s) /\ n >= stream[s].abortAfter /\ rst
      \/ /\ ~(Exempt(s) /\ n >= stream[s].abortAfter)
         /\ \E p \in {"end", "sleep", "gate"} : (p = "end" <=> n = Tokens) /\ wrote(p)
  BY <1>1
<1> QED
  BY <1>1, <1>2 DEF wrote, rst, n

(***************************************************************************)
(* Each part of the invariant is preserved, action by action.              *)
(***************************************************************************)

\* What TypeOK gives a handler.
StreamType ==
    [pc : {"idle", "arrived", "sleep", "sleeping", "gate", "stalled", "write", "end", "done"},
     tokens : 0..Tokens, abortAfter : Nat \cup {-1}, seen : Nat, stalled : BOOLEAN,
     outcome : {"none", "200", "rejected", "rst", "hung", "abandoned"}]

\* A handler's step keeps its stream's type.
LEMMA StreamTypeStep ==
    ASSUME TypeOK, StreamInv, NEW s \in Streams, Handle(s) \/ Abandon(s)
    PROVE  stream' \in [Streams -> StreamType]
<1> USE WindowFacts
<1>0. stream \in [Streams -> StreamType] /\ stream[s] \in StreamType /\ changes \in Nat
  BY DEF TypeOK, StreamType
<1>1. ASSUME NEW o \in {"200", "rejected", "rst", "hung", "abandoned"}, Ends(s, o)
      PROVE  stream' \in [Streams -> StreamType]
  BY <1>0, <1>1 DEF StreamType, Ends
<1>2. ASSUME NEW p \in {"arrived", "sleep", "sleeping", "gate", "stalled", "write", "end"},
             Goto(s, p)
      PROVE  stream' \in [Streams -> StreamType]
  BY <1>0, <1>2 DEF StreamType, Goto
<1>3. CASE Arrive(s) \/ SleepWakes(s) \/ SleepEnds(s) \/ StallWakes(s) \/ End(s) \/ Abandon(s)
  BY <1>1, <1>2, <1>3 DEF Arrive, SleepWakes, SleepEnds, StallWakes, End, Abandon
<1>4. CASE Admit(s)
  <2>1. CASE /\ Mode = "stream_abort" /\ rec[active].abortAfter > 0
             /\ stream' = [stream EXCEPT ![s].pc = "sleep",
                                         ![s].abortAfter = rec[active].abortAfter]
    <3>1. rec[active].abortAfter \in Nat
      BY <2>1 DEF TypeOK, Mode
    <3> QED
      BY <1>0, <2>1, <3>1 DEF StreamType
  <2> QED
    BY <1>1, <1>2, <1>4, <2>1, AdmitMoves
<1>5. CASE Sleep(s)
  <2>1. CASE stream' = [stream EXCEPT ![s].pc = "sleeping", ![s].seen = changes]
    BY <1>0, <2>1 DEF StreamType
  <2> QED
    BY <1>1, <1>5, <2>1, SleepMoves
<1>6. CASE Gate(s)
  <2>1. CASE stream' = Waits(s)
    BY <1>0, <2>1 DEF StreamType, Waits
  <2> QED
    BY <1>1, <1>2, <1>6, <2>1, GateMoves
<1>7. CASE Write(s)
  <2>1. stream[s].tokens + 1 \in 0..Tokens
    <3>1. stream[s].pc = "write"
      BY <1>7, WriteMoves
    <3>2. stream[s].tokens < Tokens
      BY <3>1 DEF StreamInv, Count
    <3>3. stream[s].tokens \in 0..Tokens
      BY <1>0 DEF StreamType
    <3> QED
      BY <3>2, <3>3
  <2>2. ASSUME NEW p \in {"end", "sleep", "gate"},
               stream' = [stream EXCEPT ![s].pc = p, ![s].tokens = stream[s].tokens + 1,
                                        ![s].stalled = FALSE]
        PROVE  stream' \in [Streams -> StreamType]
    BY <1>0, <2>1, <2>2 DEF StreamType
  <2>3. CASE stream' = [stream EXCEPT ![s].pc = "done", ![s].tokens = stream[s].tokens + 1,
                                      ![s].stalled = FALSE, ![s].outcome = "rst"]
    BY <1>0, <2>1, <2>3 DEF StreamType
  <2> QED
    BY <1>7, <2>2, <2>3, WriteMoves
<1> QED
  BY <1>3, <1>4, <1>5, <1>6, <1>7 DEF Handle

\* A handler's step keeps what is said of the streams.
LEMMA HandlerStep ==
    ASSUME TypeOK, StreamInv, NEW s \in Streams, Handle(s) \/ Abandon(s)
    PROVE  StreamInv'
<1> USE WindowFacts
<1>0. /\ stream \in [Streams -> StreamType] /\ stream[s] \in StreamType
      /\ since \in [Streams -> Nat] /\ changes \in Nat
      /\ Piece(s) /\ Count(s)
  BY DEF TypeOK, StreamType, StreamInv
<1>a. /\ UNCHANGED Engine
      /\ \A t \in Streams \ {s} : stream'[t] = stream[t] /\ since'[t] = since[t]
  BY HandlerFrame
<1>b. Mode' = Mode
  BY <1>a DEF Mode, Engine
<1>c. \A t \in Streams \ {s} : Piece(t)' /\ Count(t)'
  BY <1>a, <1>b DEF StreamInv, Piece, Count, Blocks, Past, Exempt
<1>d. SUFFICES Piece(s)' /\ Count(s)'
  BY <1>c DEF StreamInv
<1>1. ASSUME NEW o \in {"200", "rejected", "rst", "hung", "abandoned"}, Ends(s, o),
             UNCHANGED since, o = "rst" => ~Exempt(s)
      PROVE  Piece(s)' /\ Count(s)'
  <2>1. /\ stream'[s].pc = "done" /\ stream'[s].outcome = o
        /\ stream'[s].abortAfter = stream[s].abortAfter
    BY <1>0, <1>1 DEF Ends, StreamType
  <2> QED
    BY <1>0, <1>1, <1>b, <2>1 DEF Piece, Count, Blocks, Past, Exempt
<1>2. ASSUME NEW p \in {"arrived", "sleep", "sleeping", "gate", "stalled", "write"},
             stream'[s].pc = p, UNCHANGED since,
             stream'[s].tokens = stream[s].tokens,
             stream'[s].abortAfter = stream[s].abortAfter,
             stream'[s].outcome = stream[s].outcome,
             stream[s].pc \notin {"end", "done"},
             p = "arrived" => stream[s].pc = "idle" /\ stream'[s].stalled = stream[s].stalled,
             Blocks(s) /\ Past(s)' => Past(s)
      PROVE  Piece(s)' /\ Count(s)'
  <2>1. Exempt(s)' = Exempt(s) /\ Blocks(s)' = Blocks(s)
    BY <1>2, <1>b DEF Exempt, Blocks
  <2>2. Piece(s)'
    BY <1>0, <1>2, <2>1 DEF Piece
  <2>3. Count(s)'
    BY <1>0, <1>2, <2>1 DEF Count
  <2> QED
    BY <2>2, <2>3
<1>3. ASSUME NEW p \in {"arrived", "sleep", "sleeping", "gate", "stalled", "write"}, Goto(s, p)
      PROVE  /\ stream'[s].pc = p
             /\ stream'[s].tokens = stream[s].tokens
             /\ stream'[s].abortAfter = stream[s].abortAfter
             /\ stream'[s].outcome = stream[s].outcome
             /\ stream'[s].stalled = stream[s].stalled
  BY <1>0, <1>3 DEF Goto, StreamType
<1>4. CASE Arrive(s)
  <2>1. stream[s].pc = "idle" /\ UNCHANGED since
    BY <1>4 DEF Arrive
  <2>2. CASE Ends(s, "hung")
    BY <1>1, <2>1, <2>2
  <2>3. CASE Goto(s, "arrived")
    BY <1>2, <1>3, <2>1, <2>3 DEF Past
  <2> QED
    BY <1>4, <2>2, <2>3 DEF Arrive
<1>5. CASE Admit(s)
  <2>1. /\ stream[s].pc = "arrived" /\ UNCHANGED since /\ ~stream[s].stalled
        /\ stream[s].tokens = 0 /\ ~Exempt(s)
    <3>1. stream[s].pc = "arrived" /\ UNCHANGED since
      BY <1>5, AdmitMoves
    <3>2. ~stream[s].stalled /\ stream[s].tokens = 0 /\ stream[s].abortAfter = -1
      BY <1>0, <3>1 DEF Piece, Count
    <3> QED
      BY <3>1, <3>2 DEF Exempt
  <2>2. CASE \E o \in {"rejected", "hung", "rst"} : Ends(s, o)
    BY <1>1, <2>1, <2>2
  <2>3. CASE Goto(s, "sleep")
    <3>1. ~Past(s)'
      BY <1>3, <2>1, <2>3 DEF Past
    <3> QED
      BY <1>2, <1>3, <2>1, <2>3, <3>1
  <2>4. CASE /\ Mode = "stream_abort" /\ rec[active].abortAfter > 0
             /\ stream' = [stream EXCEPT ![s].pc = "sleep",
                                         ![s].abortAfter = rec[active].abortAfter]
    <3>1. /\ stream'[s].pc = "sleep" /\ stream'[s].abortAfter = rec[active].abortAfter
          /\ stream'[s].tokens = stream[s].tokens
          /\ stream'[s].outcome = stream[s].outcome
      BY <1>0, <2>4 DEF StreamType
    <3>2. Exempt(s)' /\ ~Blocks(s)'
      BY <1>b, <2>4, <3>1 DEF Exempt, Blocks
    <3>3. stream[s].outcome = "none" /\ rec[active].abortAfter \in Nat
      BY <1>0, <2>1, <2>4 DEF Count, TypeOK, Mode
    <3> QED
      BY <2>1, <2>4, <3>1, <3>2, <3>3 DEF Piece, Count
  <2> QED
    BY <1>5, <2>2, <2>3, <2>4, AdmitMoves
<1>6. CASE Sleep(s)
  <2>1. stream[s].pc = "sleep" /\ UNCHANGED since
    BY <1>6, SleepMoves
  <2>2. CASE (\E o \in {"rst"} : ~Exempt(s) /\ Ends(s, o)) \/ Ends(s, "hung")
    BY <1>1, <2>1, <2>2
  <2>3. CASE stream' = [stream EXCEPT ![s].pc = "sleeping", ![s].seen = changes]
    <3>1. /\ stream'[s].pc = "sleeping" /\ stream'[s].stalled = stream[s].stalled
          /\ stream'[s].tokens = stream[s].tokens
          /\ stream'[s].abortAfter = stream[s].abortAfter
          /\ stream'[s].outcome = stream[s].outcome
      BY <1>0, <2>3 DEF StreamType
    <3> QED
      BY <1>2, <2>1, <3>1 DEF Past
  <2> QED
    BY <1>6, <2>2, <2>3, SleepMoves
<1>7. CASE SleepWakes(s)
  BY <1>2, <1>3, <1>7 DEF SleepWakes, Past
<1>8. CASE SleepEnds(s)
  <2>1. CASE stream[s].stalled
    BY <1>2, <1>3, <1>8, <2>1 DEF SleepEnds, Past
  <2>2. CASE ~stream[s].stalled
    BY <1>2, <1>3, <1>8, <2>2 DEF SleepEnds, Past
  <2> QED
    BY <2>1, <2>2
<1>9. CASE Gate(s)
  <2>1. stream[s].pc = "gate" /\ UNCHANGED since
    BY <1>9, GateMoves
  <2>2. CASE (\E o \in {"rst"} : ~Exempt(s) /\ Ends(s, o)) \/ Ends(s, "hung")
    BY <1>1, <2>1, <2>2
  <2>3. CASE stream' = Waits(s)
    <3>1. /\ stream'[s].pc = "stalled"
          /\ stream'[s].tokens = stream[s].tokens
          /\ stream'[s].abortAfter = stream[s].abortAfter
          /\ stream'[s].outcome = stream[s].outcome
      BY <1>0, <2>3 DEF StreamType, Waits
    <3> QED
      BY <1>2, <2>1, <3>1 DEF Past
  <2>4. CASE ~Blocks(s) /\ Goto(s, IF stream[s].stalled THEN "sleep" ELSE "write")
    BY <1>2, <1>3, <2>1, <2>4
  <2> QED
    BY <1>9, <2>2, <2>3, <2>4, GateMoves
<1>10. CASE StallWakes(s)
  BY <1>2, <1>3, <1>10 DEF StallWakes, Past
<1>11. CASE Write(s)
  <2>1. /\ stream[s].pc = "write" /\ since'[s] = since[s] + 1
        /\ Blocks(s) => since[s] = 0
    BY <1>0, <1>11, WriteMoves DEF Piece, Past
  <2>2. /\ stream[s].tokens \in Nat /\ stream[s].tokens < Tokens
        /\ stream[s].outcome = "none"
        /\ Exempt(s) => stream[s].tokens < stream[s].abortAfter
        /\ stream[s].abortAfter \in Int
    BY <1>0, <2>1 DEF Count, StreamType
  <2>3. CASE /\ Exempt(s) /\ stream[s].tokens + 1 >= stream[s].abortAfter
             /\ stream' = [stream EXCEPT ![s].pc = "done", ![s].tokens = stream[s].tokens + 1,
                                         ![s].stalled = FALSE, ![s].outcome = "rst"]
    <3>1. /\ stream'[s].pc = "done" /\ stream'[s].tokens = stream[s].tokens + 1
          /\ stream'[s].abortAfter = stream[s].abortAfter
      BY <1>0, <2>3 DEF StreamType
    <3>2. Exempt(s)' = Exempt(s) /\ Blocks(s)' = Blocks(s)
      BY <1>b, <3>1 DEF Exempt, Blocks
    <3> QED
      BY <2>1, <2>2, <2>3, <3>1, <3>2 DEF Piece, Count, Past
  <2>4. ASSUME NEW p \in {"end", "sleep", "gate"},
               ~(Exempt(s) /\ stream[s].tokens + 1 >= stream[s].abortAfter),
               p = "end" <=> stream[s].tokens + 1 = Tokens,
               stream' = [stream EXCEPT ![s].pc = p, ![s].tokens = stream[s].tokens + 1,
                                        ![s].stalled = FALSE]
        PROVE  Piece(s)' /\ Count(s)'
    <3>1. /\ stream'[s].pc = p /\ stream'[s].tokens = stream[s].tokens + 1
          /\ stream'[s].abortAfter = stream[s].abortAfter
          /\ stream'[s].outcome = stream[s].outcome
          /\ ~stream'[s].stalled
      BY <1>0, <2>4 DEF StreamType
    <3>2. Exempt(s)' = Exempt(s) /\ Blocks(s)' = Blocks(s)
      BY <1>b, <3>1 DEF Exempt, Blocks
    <3>3. Piece(s)'
      BY <2>1, <3>1, <3>2 DEF Piece, Past
    <3>4. Count(s)'
      BY <2>2, <2>4, <3>1, <3>2 DEF Count
    <3> QED
      BY <3>3, <3>4
  <2> QED
    BY <1>11, <2>3, <2>4, WriteMoves
<1>12. CASE End(s) \/ Abandon(s)
  BY <1>1, <1>12 DEF End, Abandon
<1> QED
  BY <1>4, <1>5, <1>6, <1>7, <1>8, <1>9, <1>10, <1>11, <1>12 DEF Handle

\* A window's fire or expiry changes the state of one record, and only the
\* fire sets its time.
LEMMA FireExpire ==
    ASSUME TypeOK, NEW f \in Faults, Fire(f) \/ Expire(f)
    PROVE  /\ rec' \in [Faults -> [state : {"none", "armed", "active", "expired"},
                                   mode : AllModes, start : Nat, fired : Nat,
                                   abortAfter : Nat]]
           /\ \A g \in Faults \ {f} : rec'[g] = rec[g]
           /\ rec'[f].start = rec[f].start /\ rec'[f].mode = rec[f].mode
           /\ Fire(f) => /\ rec[f].state = "armed" /\ rec'[f].state = "active"
                         /\ rec'[f].fired = now
           /\ Expire(f) => /\ rec[f].state = "active" /\ rec'[f].state = "expired"
<1>0. rec[f] \in [state : {"none", "armed", "active", "expired"}, mode : AllModes,
                  start : Nat, fired : Nat, abortAfter : Nat]
  BY DEF TypeOK
<1>1. CASE Fire(f)
  <2>1. /\ rec' = [rec EXCEPT ![f].state = "active", ![f].fired = now]
        /\ rec[f].state = "armed" /\ now \in Nat
    BY <1>1 DEF Fire, TypeOK
  <2>2. ~Expire(f)
    BY <2>1 DEF Expire
  <2> QED
    BY <1>0, <2>1, <2>2 DEF TypeOK
<1>2. CASE Expire(f)
  <2>1. rec' = [rec EXCEPT ![f].state = "expired"] /\ rec[f].state = "active"
    BY <1>2 DEF Expire
  <2>2. ~Fire(f)
    BY <2>1 DEF Fire
  <2> QED
    BY <1>0, <2>1, <2>2 DEF TypeOK
<1> QED
  BY <1>1, <1>2

\* Each record fires once and expires once.
LEMMA RecordStep == IInv /\ [Next]_vars => RecordInv'
<1> SUFFICES ASSUME IInv, [Next]_vars PROVE RecordInv'
  OBVIOUS
<1> USE WindowFacts
<1>0. TypeOK /\ RecordInv
  BY DEF IInv
<1>a. Fired \subseteq Faults /\ InState("expired") \subseteq Faults
  BY DEF Fired, InState
<1>b. /\ IsFiniteSet(Fired) /\ Cardinality(Fired) \in Nat
      /\ IsFiniteSet(InState("expired")) /\ Cardinality(InState("expired")) \in Nat
  BY <1>a, FaultsSubset
<1>1. CASE UNCHANGED <<rec, changes>>
  <2>1. Armed' = Armed /\ Fired' = Fired /\ InState("expired")' = InState("expired")
    BY <1>1 DEF Armed, Fired, InState
  <2> QED
    BY <1>0, <1>1, <2>1 DEF RecordInv
<1>2. ASSUME NEW m \in Modes, NEW d \in Delays, NEW k \in AbortAfters, AdminArm(m, d, k)
      PROVE  RecordInv'
  <2>1. PICK f \in Faults :
          /\ rec[f].state = "none" /\ f # active
          /\ rec'[f] = Fault(m, now + d, k)
          /\ rec' = [rec EXCEPT ![f] = Fault(m, now + d, k)]
          /\ Armed' = Armed \cup {f} /\ f = Cardinality(Armed) + 1
          /\ ~Overlaps(now + d)
          /\ UNCHANGED <<now, active, changes, stream, since>>
    BY <1>2, ArmFacts
  <2>2. PICK c \in 0..MaxFaults : Armed = 1..c
    BY <1>0 DEF RecordInv
  <2>3. f = c + 1
    <3>1. Cardinality(Armed) = c
      BY <2>2, FS_Interval
    <3> QED
      BY <2>1, <3>1
  <2>4. Armed' = 1..(c + 1) /\ c + 1 \in 0..MaxFaults
    BY <2>1, <2>2, <2>3 DEF Faults
  <2>5. rec'[f].state = "armed" /\ \A g \in Faults \ {f} : rec'[g] = rec[g]
    BY <1>0, <2>1, FaultType DEF TypeOK
  <2>6. Fired' = Fired /\ InState("expired")' = InState("expired")
    BY <2>1, <2>5 DEF Fired, InState
  <2> QED
    BY <1>0, <2>1, <2>4, <2>6 DEF RecordInv
<1>3. ASSUME NEW f \in Faults, Fire(f) PROVE RecordInv'
  <2>1. /\ rec[f].state = "armed" /\ rec'[f].state = "active"
        /\ \A g \in Faults \ {f} : rec'[g] = rec[g]
    BY <1>0, <1>3, FireExpire
  <2>2. changes' = changes + 1
    BY <1>3 DEF Fire
  <2>3. Armed' = Armed
    BY <2>1 DEF Armed
  <2>4. InState("expired")' = InState("expired")
    BY <2>1 DEF InState
  <2>5. Fired' = Fired \cup {f} /\ f \notin Fired
    BY <2>1 DEF Fired, InState
  <2>6. Cardinality(Fired') = Cardinality(Fired) + 1
    BY <1>b, <2>5, FS_AddElement
  <2> QED
    BY <1>0, <1>b, <2>2, <2>3, <2>4, <2>6, SMTT(30) DEF RecordInv
<1>4. ASSUME NEW f \in Faults, Expire(f) PROVE RecordInv'
  <2>1. /\ rec[f].state = "active" /\ rec'[f].state = "expired"
        /\ \A g \in Faults \ {f} : rec'[g] = rec[g]
    BY <1>0, <1>4, FireExpire
  <2>2. changes' = changes + 1
    BY <1>4 DEF Expire
  <2>3. Armed' = Armed
    BY <2>1 DEF Armed
  <2>4. Fired' = Fired
    BY <2>1 DEF Fired, InState
  <2>5. InState("expired")' = InState("expired") \cup {f} /\ f \notin InState("expired")
    BY <2>1 DEF InState
  <2>6. Cardinality(InState("expired")') = Cardinality(InState("expired")) + 1
    BY <1>b, <2>5, FS_AddElement
  <2> QED
    BY <1>0, <1>b, <2>2, <2>3, <2>4, <2>6 DEF RecordInv
<1>5. ASSUME NEW s \in Streams, Handle(s) \/ Abandon(s) PROVE RecordInv'
  BY <1>0, <1>1, <1>5, HandlerFrame DEF Engine
<1> QED
  BY <1>1, <1>2, <1>3, <1>4, <1>5 DEF Next, Tick, Terminated, vars

\* Every step keeps the types.
LEMMA TypeStep == IInv /\ [Next]_vars => TypeOK'
<1> SUFFICES ASSUME IInv, [Next]_vars PROVE TypeOK'
  OBVIOUS
<1> USE WindowFacts
<1>0. TypeOK /\ StreamInv
  BY DEF IInv
<1>a. changes' \in 0..2 * MaxFaults
  <2>1. RecordInv'
    BY RecordStep
  <2>2. Fired' \subseteq Faults /\ InState("expired")' \subseteq Faults
    BY DEF Fired, InState
  <2>3. /\ Cardinality(Fired') \in 0..MaxFaults
        /\ Cardinality(InState("expired")') \in 0..MaxFaults
    <3>1. ASSUME NEW S, S \subseteq Faults PROVE Cardinality(S) \in 0..MaxFaults
      <4>1. Cardinality(S) \in Nat /\ Cardinality(S) <= MaxFaults
        BY <3>1, FaultsSubset
      <4> QED
        BY <4>1
    <3> QED
      BY <2>2, <3>1
  <2>4. changes' = Cardinality(Fired') + Cardinality(InState("expired")')
    BY <2>1 DEF RecordInv
  <2> QED
    BY <2>3, <2>4
<1>1. CASE UNCHANGED vars \/ Tick \/ Terminated
  BY <1>0, <1>1 DEF TypeOK, Tick, Terminated, vars
<1>2. ASSUME NEW m \in Modes, NEW d \in Delays, NEW k \in AbortAfters, AdminArm(m, d, k)
      PROVE  TypeOK'
  <2>1. now + d \in Nat
    BY <1>0 DEF TypeOK
  <2>2. PICK f \in Faults :
          /\ rec' = [rec EXCEPT ![f] = Fault(m, now + d, k)]
          /\ UNCHANGED <<now, active, changes, stream, since>>
    BY <1>2, ArmFacts
  <2>3. Fault(m, now + d, k) \in [state : {"none", "armed", "active", "expired"},
                                  mode : AllModes, start : Nat, fired : Nat,
                                  abortAfter : Nat]
    BY <2>1, FaultType
  <2> QED
    BY <1>0, <2>2, <2>3 DEF TypeOK
<1>3. ASSUME NEW f \in Faults, Fire(f) \/ Expire(f) PROVE TypeOK'
  <2>1. /\ now' = now /\ stream' = stream /\ active' \in Faults \cup {0}
        /\ since' \in [Streams -> Nat]
    BY <1>0, <1>3 DEF Fire, Expire, ActiveAfter, TypeOK
  <2>2. rec' \in [Faults -> [state : {"none", "armed", "active", "expired"},
                              mode : AllModes, start : Nat, fired : Nat,
                              abortAfter : Nat]]
    BY <1>0, <1>3, FireExpire
  <2> QED
    BY <1>0, <1>a, <2>1, <2>2 DEF TypeOK
<1>4. ASSUME NEW s \in Streams, Handle(s) \/ Abandon(s) PROVE TypeOK'
  <2>1. stream' \in [Streams -> StreamType]
    BY <1>0, <1>4, StreamTypeStep
  <2>2. UNCHANGED <<now, rec, active, changes>>
    BY <1>0, <1>4, HandlerFrame DEF Engine
  <2>3. CASE Write(s)
    <3>1. since' = [since EXCEPT ![s] = @ + 1]
      BY <2>3, WriteMoves
    <3>2. since' \in [Streams -> Nat]
      BY <1>0, <3>1 DEF TypeOK
    <3> QED
      BY <1>0, <2>1, <2>2, <3>2 DEF TypeOK, StreamType
  <2>4. CASE ~Write(s)
    <3>1. since' = since
      BY <1>4, <2>4, AdmitMoves, SleepMoves, GateMoves
         DEF Handle, Arrive, SleepWakes, SleepEnds, StallWakes, End, Abandon
    <3> QED
      BY <1>0, <2>1, <2>2, <3>1 DEF TypeOK, StreamType
  <2> QED
    BY <2>3, <2>4
<1> QED
  BY <1>1, <1>2, <1>3, <1>4 DEF Next

\* The timing: a record still active when the next window fired is expired
\* before that one can be.
LEMMA WindowStep == IInv /\ [Next]_vars => WindowInv'
<1> SUFFICES ASSUME IInv, [Next]_vars PROVE WindowInv'
  OBVIOUS
<1> USE WindowFacts
<1>0. TypeOK /\ WindowInv
  BY DEF IInv
<1>a. \A f \in Faults : rec[f].start \in Nat /\ rec[f].fired \in Nat
  BY <1>0 DEF TypeOK
<1>1. CASE UNCHANGED <<now, rec, active>>
  <2>1. Pending' = Pending /\ \A x : InState(x)' = InState(x)
    BY <1>1 DEF Pending, InState
  <2> QED
    BY <1>0, <1>1, <2>1 DEF WindowInv
<1>2. CASE Tick
  <2>1. Pending' = Pending /\ \A x : InState(x)' = InState(x)
    BY <1>2 DEF Pending, InState, Tick
  <2>2. now' = now + 1 /\ UNCHANGED <<rec, active>> /\ now \in Nat
    BY <1>0, <1>2 DEF Tick, TypeOK
  <2>3. \A f \in InState("armed") : now < rec[f].start + Late /\ f \in Faults
    BY <1>2 DEF Tick, InState
  <2>4. \A f \in InState("active") : now < rec[f].fired + Duration + Late /\ f \in Faults
    BY <1>2 DEF Tick, InState
  <2>5. ASSUME NEW f \in InState("armed") PROVE now + 1 <= rec[f].start + Late
    <3>1. rec[f].start \in Nat /\ now < rec[f].start + Late
      BY <1>a, <2>3
    <3> QED
      BY <2>2, <3>1
  <2>6. ASSUME NEW f \in InState("active")
        PROVE  rec[f].fired <= now + 1 /\ now + 1 <= rec[f].fired + Duration + Late
    <3>1. rec[f].fired \in Nat /\ now < rec[f].fired + Duration + Late
      BY <1>a, <2>4
    <3>2. rec[f].fired <= now
      BY <1>0 DEF WindowInv
    <3> QED
      BY <2>2, <3>1, <3>2
  <2> QED
    BY <1>0, <2>1, <2>2, <2>5, <2>6 DEF WindowInv
<1>3. ASSUME NEW m \in Modes, NEW d \in Delays, NEW k \in AbortAfters, AdminArm(m, d, k)
      PROVE  WindowInv'
  <2>1. PICK f \in Faults :
          /\ rec[f].state = "none" /\ f # active /\ rec'[f] = Fault(m, now + d, k)
          /\ rec' = [rec EXCEPT ![f] = Fault(m, now + d, k)]
          /\ ~Overlaps(now + d)
          /\ UNCHANGED <<now, active, changes, stream, since>>
    BY <1>3, ArmFacts
  <2>2. now \in Nat /\ now + d \in Nat /\ now <= now + d
    BY <1>0 DEF TypeOK
  <2>3. /\ rec'[f].state = "armed" /\ rec'[f].start = now + d
        /\ \A g \in Faults \ {f} : rec'[g] = rec[g]
    BY <1>0, <2>1, <2>2, FaultType DEF TypeOK
  <2>4. /\ InState("active")' = InState("active")
        /\ InState("armed")' = InState("armed") \cup {f} /\ f \notin Pending
        /\ Pending' = Pending \cup {f}
    BY <2>1, <2>3 DEF InState, Pending
  <2>5. Pending \subseteq Faults
    BY DEF Pending, InState
  <2>6. ASSUME NEW g \in Pending
        PROVE  \/ rec[g].start + Duration <= now + d
               \/ (now + d) + Duration <= rec[g].start
    <3>1. g \in Armed \ InState("expired")
      BY DEF Pending, InState, Armed
    <3>2. ~(now + d < rec[g].start + Duration /\ rec[g].start < (now + d) + Duration)
      BY <2>1, <3>1 DEF Overlaps
    <3>3. rec[g].start \in Nat
      BY <1>a, <2>5
    <3> QED
      BY <2>2, <3>2, <3>3
  <2>7. \A g, h \in Pending' : g # h =>
           \/ rec'[g].start + Duration <= rec'[h].start
           \/ rec'[h].start + Duration <= rec'[g].start
    <3>1. ASSUME NEW g \in Pending, NEW h \in Pending, g # h
          PROVE  \/ rec'[g].start + Duration <= rec'[h].start
                 \/ rec'[h].start + Duration <= rec'[g].start
      BY <1>0, <2>3, <2>4, <2>5, <3>1 DEF WindowInv
    <3>2. ASSUME NEW g \in Pending
          PROVE  \/ rec'[g].start + Duration <= rec'[f].start
                 \/ rec'[f].start + Duration <= rec'[g].start
      BY <2>3, <2>4, <2>5, <2>6
    <3> QED
      BY <2>4, <3>1, <3>2
  <2>8. \A g \in InState("armed")' : now' <= rec'[g].start + Late
    <3>1. now <= (now + d) + Late
      BY <2>2
    <3>2. \A g \in InState("armed") : g \in Faults \ {f}
      BY <2>1 DEF InState
    <3> QED
      BY <1>0, <2>1, <2>3, <2>4, <3>1, <3>2 DEF WindowInv
  <2>9. \A g \in InState("active") : g \in Faults \ {f} /\ rec'[g] = rec[g]
    BY <2>1, <2>3 DEF InState
  <2>10. active # 0 => rec'[active] = rec[active] /\ active \in InState("active")
    BY <1>0, <2>9 DEF WindowInv
  <2> QED
    BY <1>0, <2>1, <2>4, <2>7, <2>8, <2>9, <2>10 DEF WindowInv
<1>4. ASSUME NEW f \in Faults, Fire(f) PROVE WindowInv'
  <2>1. /\ rec[f].state = "armed" /\ rec'[f].state = "active"
        /\ rec'[f].start = rec[f].start /\ rec'[f].fired = now
        /\ \A g \in Faults \ {f} : rec'[g] = rec[g]
    BY <1>0, <1>4, FireExpire
  <2>2. active' = f /\ now' = now /\ now \in Nat /\ rec[f].start <= now
    BY <1>0, <1>4 DEF Fire, TypeOK
  <2>3. /\ InState("armed")' = InState("armed") \ {f} /\ f \in InState("armed")
        /\ InState("active")' = InState("active") \cup {f} /\ f \notin InState("active")
        /\ Pending' = Pending
    BY <2>1 DEF InState, Pending
  <2>4. \A x : InState(x) \subseteq Faults
    BY DEF InState
  <2>5. now <= rec[f].start + Late
    BY <1>0, <2>3 DEF WindowInv
  <2>6. \A g \in Faults : rec'[g].start = rec[g].start
    BY <2>1
  <2>7. ASSUME NEW g \in InState("active")
        PROVE  rec[g].start + Duration <= rec[f].start
    <3>1. \/ rec[g].start + Duration <= rec[f].start
          \/ rec[f].start + Duration <= rec[g].start
      BY <1>0, <2>3 DEF WindowInv, Pending
    <3>2. rec[g].start <= rec[g].fired /\ rec[g].fired <= now
      BY <1>0 DEF WindowInv
    <3>3. {rec[g].start, rec[g].fired, rec[f].start} \subseteq Nat
      BY <1>a, <2>4
    <3> QED
      BY <2>2, <2>5, <3>1, <3>2, <3>3
  <2>8. \A g \in InState("active")' :
           /\ rec'[g].start <= rec'[g].fired /\ rec'[g].fired <= rec'[g].start + Late
           /\ rec'[g].fired <= now' /\ now' <= rec'[g].fired + Duration + Late
           /\ active' # 0
           /\ g # active' => rec'[g].start + Duration <= rec'[active'].start
    <3>1. ASSUME NEW g \in InState("active")
          PROVE  /\ rec'[g] = rec[g]
                 /\ rec[g].start <= rec[g].fired /\ rec[g].fired <= rec[g].start + Late
                 /\ rec[g].fired <= now /\ now <= rec[g].fired + Duration + Late
      BY <1>0, <2>1, <2>3, <2>4 DEF WindowInv
    <3>2. /\ rec'[f].start <= rec'[f].fired /\ rec'[f].fired <= rec'[f].start + Late
          /\ rec'[f].fired <= now' /\ now' <= rec'[f].fired + Duration + Late
      BY <1>a, <2>1, <2>2, <2>5
    <3> QED
      BY <2>1, <2>2, <2>3, <2>7, <3>1, <3>2
  <2>9. \A g, h \in Pending' : g # h =>
           \/ rec'[g].start + Duration <= rec'[h].start
           \/ rec'[h].start + Duration <= rec'[g].start
    BY <1>0, <2>3, <2>4, <2>6 DEF WindowInv, Pending
  <2>10. \A g \in InState("armed")' : now' <= rec'[g].start + Late
    BY <1>0, <2>2, <2>3, <2>4, <2>6 DEF WindowInv
  <2> QED
    BY <2>2, <2>3, <2>8, <2>9, <2>10 DEF WindowInv
<1>5. ASSUME NEW f \in Faults, Expire(f) PROVE WindowInv'
  <2>1. /\ rec[f].state = "active" /\ rec'[f].state = "expired"
        /\ \A g \in Faults \ {f} : rec'[g] = rec[g]
    BY <1>0, <1>5, FireExpire
  <2>2. /\ active' = (IF active = f THEN 0 ELSE active) /\ now' = now /\ now \in Nat
        /\ rec[f].fired + Duration <= now
    BY <1>0, <1>5 DEF Expire, ActiveAfter, TypeOK
  <2>3. /\ InState("armed")' = InState("armed") /\ f \in InState("active")
        /\ InState("active")' = InState("active") \ {f}
        /\ Pending' = Pending \ {f}
    BY <2>1 DEF InState, Pending
  <2>4. /\ \A x : InState(x) \subseteq Faults
        /\ Pending \subseteq Faults /\ f \notin InState("armed")
    BY <2>1 DEF InState, Pending
  <2>5. CASE active = f
    <3>1. ASSUME NEW g \in InState("active"), g # f PROVE FALSE
      <4>1. rec[g].start + Duration <= rec[f].start
        BY <1>0, <2>5, <3>1 DEF WindowInv
      <4>2. rec[f].start <= rec[f].fired
        BY <1>0, <2>3 DEF WindowInv
      <4>3. rec[g].fired <= rec[g].start + Late /\ now <= rec[g].fired + Duration + Late
        BY <1>0 DEF WindowInv
      <4>4. {rec[g].start, rec[g].fired, rec[f].start, rec[f].fired} \subseteq Nat
        BY <1>a, <2>4
      <4> QED
        BY <2>2, <4>1, <4>2, <4>3, <4>4
    <3>2. InState("active")' = {} /\ active' = 0
      BY <2>2, <2>3, <2>5, <3>1
    <3>3. \A g \in InState("armed") : rec'[g] = rec[g]
      BY <2>1, <2>4
    <3>4. \A g \in Pending \ {f} : rec'[g] = rec[g]
      BY <2>1, <2>4
    <3> QED
      BY <1>0, <2>2, <2>3, <3>2, <3>3, <3>4 DEF WindowInv
  <2>6. CASE active # f
    <3>1. active' = active /\ active # 0 /\ active \in InState("active")
      BY <1>0, <2>2, <2>3, <2>6 DEF WindowInv
    <3>2. rec'[active] = rec[active] /\ active \in InState("active")'
      BY <2>1, <2>3, <2>4, <2>6, <3>1
    <3>3. \A g \in InState("armed") \cup (Pending \ {f}) \cup (InState("active") \ {f}) :
             rec'[g] = rec[g]
      BY <2>1, <2>4
    <3> QED
      BY <1>0, <2>2, <2>3, <3>1, <3>2, <3>3 DEF WindowInv
  <2> QED
    BY <2>5, <2>6
<1>6. ASSUME NEW s \in Streams, Handle(s) \/ Abandon(s) PROVE WindowInv'
  BY <1>0, <1>1, <1>6, HandlerFrame DEF Engine
<1> QED
  BY <1>1, <1>2, <1>3, <1>4, <1>5, <1>6 DEF Next, Terminated, vars

\* The streams, under the engine's steps: a fire starts the count of escaped
\* pieces anew, and no other step puts a new fault in force.
LEMMA StreamStep == IInv /\ [Next]_vars => StreamInv'
<1> SUFFICES ASSUME IInv, [Next]_vars PROVE StreamInv'
  OBVIOUS
<1> USE WindowFacts
<1>0. TypeOK /\ WindowInv /\ StreamInv
  BY DEF IInv
<1>a. ASSUME UNCHANGED <<stream, since>>,
             Mode' = Mode \/ Mode' = "none"
      PROVE  StreamInv'
  <2>1. \A s \in Streams : Blocks(s)' => Blocks(s)
    BY <1>a DEF Blocks, Exempt
  <2>2. \A s \in Streams : (Past(s)' <=> Past(s)) /\ (Exempt(s)' <=> Exempt(s))
    BY <1>a DEF Past, Exempt
  <2>3. ASSUME NEW s \in Streams PROVE Piece(s)' /\ Count(s)'
    <3>1. Piece(s) /\ Count(s)
      BY <1>0 DEF StreamInv
    <3>2. Piece(s)'
      BY <1>a, <2>1, <2>2, <3>1 DEF Piece
    <3>3. Count(s)'
      BY <1>a, <2>2, <3>1 DEF Count
    <3> QED
      BY <3>2, <3>3
  <2> QED
    BY <2>3 DEF StreamInv
<1>1. CASE UNCHANGED vars \/ Tick \/ Terminated
  <2>1. UNCHANGED <<stream, since, rec, active>>
    BY <1>1 DEF vars, Tick, Terminated
  <2> QED
    BY <1>a, <2>1 DEF Mode
<1>2. ASSUME NEW m \in Modes, NEW d \in Delays, NEW k \in AbortAfters, AdminArm(m, d, k)
      PROVE  StreamInv'
  <2>1. PICK f \in Faults :
          /\ f # active /\ rec' = [rec EXCEPT ![f] = Fault(m, now + d, k)]
          /\ UNCHANGED <<now, active, changes, stream, since>>
    BY <1>2, ArmFacts
  <2>2. active # 0 => rec'[active] = rec[active]
    BY <1>0, <2>1 DEF TypeOK
  <2> QED
    BY <1>a, <2>1, <2>2 DEF Mode
<1>3. ASSUME NEW f \in Faults, Fire(f) PROVE StreamInv'
  <2>1. stream' = stream /\ since' = [s \in Streams |-> 0]
    BY <1>3 DEF Fire
  <2>2. ASSUME NEW s \in Streams PROVE Piece(s)' /\ Count(s)'
    <3>1. Piece(s) /\ Count(s)
      BY <1>0 DEF StreamInv
    <3>2. Piece(s)'
      BY <2>1, <3>1 DEF Piece
    <3>3. Count(s)'
      BY <2>1, <3>1 DEF Count, Exempt
    <3> QED
      BY <3>2, <3>3
  <2> QED
    BY <2>2 DEF StreamInv
<1>4. ASSUME NEW f \in Faults, Expire(f) PROVE StreamInv'
  <2>1. /\ UNCHANGED <<stream, since>>
        /\ active' = IF active = f THEN 0 ELSE active
    BY <1>4 DEF Expire, ActiveAfter
  <2>2. \A g \in Faults : rec'[g].mode = rec[g].mode
    BY <1>0, <1>4, FireExpire
  <2>3. active \in Faults \cup {0}
    BY <1>0 DEF TypeOK
  <2> QED
    BY <1>a, <2>1, <2>2, <2>3 DEF Mode
<1>5. ASSUME NEW s \in Streams, Handle(s) \/ Abandon(s) PROVE StreamInv'
  BY <1>0, <1>5, HandlerStep
<1> QED
  BY <1>1, <1>2, <1>3, <1>4, <1>5 DEF Next

\* The invariant holds throughout.
THEOREM Inductive == Spec => []IInv
<1>1. IInv /\ [Next]_vars => IInv'
  BY TypeStep, RecordStep, WindowStep, StreamStep DEF IInv
<1> QED
  BY InitInv, <1>1, PTL DEF Spec

(***************************************************************************)
(* The results.                                                            *)
(***************************************************************************)

\* Every variable has its type: no stream writes past its plan, and no window
\* fires or expires twice.
THEOREM TypeCorrect == Spec => []TypeOK
<1>1. IInv => TypeOK
  BY DEF IInv
<1> QED
  BY Inductive, <1>1, PTL

\* The engine's active fault is what its records show, however late the timers
\* of adjoining windows are.
THEOREM EngineAlwaysAgrees == Spec => []EngineAgrees
<1>1. IInv => EngineAgrees
  BY DEF IInv, WindowInv, EngineAgrees, InState
<1> QED
  BY Inductive, <1>1, PTL

\* A fault that stops a stream lets one piece through at most.
THEOREM AtMostOneEscapes == Spec => []OnePieceEscapes
<1>1. ASSUME IInv PROVE OnePieceEscapes
  BY <1>1 DEF IInv, StreamInv, Piece, Blocks, OnePieceEscapes
<1> QED
  BY Inductive, <1>1, PTL

\* A stream admitted with a count of its own is not reset before that count.
THEOREM ExemptRunIt == Spec => []ExemptRunsItsCount
<1>1. ASSUME IInv PROVE ExemptRunsItsCount
  BY <1>1 DEF IInv, StreamInv, Count, ExemptRunsItsCount
<1> QED
  BY Inductive, <1>1, PTL
=============================================================================
