----------------------------- MODULE MockFaults -----------------------------
(***************************************************************************)
(* The mock replica's fault engine and its stream handlers                 *)
(* (internal/mock/faults.go, sse.go, server.go): fault windows armed from  *)
(* the schedule and over the admin endpoint, each with a goroutine that    *)
(* fires and expires it; and the handlers, which read the engine's active  *)
(* fault at every gate and sleep on the channel it closes at a change.     *)
(*                                                                         *)
(* now is the server's clock in ticks.  A window's timers may be late, by  *)
(* at most Late ticks each.  A handler's own waits end at any time.  The   *)
(* change channel is the number of changes: a handler that took it wakes   *)
(* once more changes were made.                                            *)
(***************************************************************************)
EXTENDS Integers, FiniteSets

CONSTANTS
    Streams,       \* requests
    Tokens,        \* pieces of each request's plan
    Modes,         \* fault modes that may be armed
    AbortAfters,   \* abort_after_tokens a stream_abort may be armed with
    ScheduledAt,   \* start of the scheduled window
    Duration,      \* of every window
    Delays,        \* delay_s of an admin request
    MaxFaults,     \* bound: windows armed, the scheduled one first
    LastArm,       \* bound: time of the last admin request
    Late           \* bound: how late one timer fires

Faults == 1..MaxFaults
AllModes == {"stall", "error", "throttle", "stream_abort", "silent_hang"}

\* Timers are late by milliseconds and windows last seconds.
ASSUME WindowsAssumption ==
    /\ Modes \subseteq AllModes /\ AbortAfters \subseteq Nat
    /\ Tokens \in Nat \ {0} /\ MaxFaults \in Nat \ {0}
    /\ {ScheduledAt, LastArm, Late} \subseteq Nat /\ Delays \subseteq Nat
    /\ Duration \in Nat /\ 2 * Late < Duration

VARIABLES
    now,
    rec,      \* the fault records; state "none" when not armed
    active,   \* the engine's active fault, 0 for none
    changes,  \* changes made: fires and expiries
    stream,   \* each handler
    since     \* history: pieces each stream wrote since the last fire

vars == <<now, rec, active, changes, stream, since>>

NoFault == [state |-> "none", mode |-> "error", start |-> 0, fired |-> 0, abortAfter |-> 0]
NewStream == [pc |-> "idle", tokens |-> 0, abortAfter |-> -1, seen |-> 0, stalled |-> FALSE,
              outcome |-> "none"]

Fault(mode, start, k) ==
    [state |-> "armed", mode |-> mode, start |-> start, fired |-> 0,
     abortAfter |-> IF mode = "stream_abort" THEN k ELSE 0]

Init ==
    /\ now = 0 /\ active = 0 /\ changes = 0
    /\ \E m \in Modes, k \in AbortAfters :
         rec = [f \in Faults |-> IF f = 1 THEN Fault(m, ScheduledAt, k) ELSE NoFault]
    /\ stream = [s \in Streams |-> NewStream]
    /\ since = [s \in Streams |-> 0]

----------------------------------------------------------------------------
(* The engine.                                                             *)

Armed == {f \in Faults : rec[f].state # "none"}
InState(x) == {f \in Faults : rec[f].state = x}

\* Planned windows are compared; an expired record is not.
Overlaps(start) ==
    \E f \in Armed \ InState("expired") :
        start < rec[f].start + Duration /\ rec[f].start < start + Duration

\* POST /admin/faults.
AdminArm(mode, delay, k) ==
    LET f == Cardinality(Armed) + 1 IN
    /\ now <= LastArm /\ f \in Faults
    /\ ~Overlaps(now + delay)
    /\ rec' = [rec EXCEPT ![f] = Fault(mode, now + delay, k)]
    /\ UNCHANGED <<now, active, changes, stream, since>>

Fire(f) ==
    /\ rec[f].state = "armed" /\ now >= rec[f].start
    /\ rec' = [rec EXCEPT ![f].state = "active", ![f].fired = now]
    /\ active' = f /\ changes' = changes + 1
    /\ since' = [s \in Streams |-> 0]
    /\ UNCHANGED <<now, stream>>

\* Mutant: the end of any window ends the active fault.
AlwaysCleared(f) == 0

\* A window that a later one replaced does not end that one.
ActiveAfter(f) == IF active = f THEN 0 ELSE active

Expire(f) ==
    /\ rec[f].state = "active" /\ now >= rec[f].fired + Duration
    /\ rec' = [rec EXCEPT ![f].state = "expired"]
    /\ active' = ActiveAfter(f) /\ changes' = changes + 1
    /\ UNCHANGED <<now, stream, since>>

Tick ==
    /\ \A f \in Faults :
         /\ rec[f].state = "armed" => now < rec[f].start + Late
         /\ rec[f].state = "active" => now < rec[f].fired + Duration + Late
    /\ now < LastArm \/ InState("armed") \cup InState("active") # {}
    /\ now' = now + 1
    /\ UNCHANGED <<rec, active, changes, stream, since>>

----------------------------------------------------------------------------
(* handleStream.                                                           *)

Mode == IF active = 0 THEN "none" ELSE rec[active].mode
Exempt(s) == stream[s].abortAfter > 0

Goto(s, pc) == stream' = [stream EXCEPT ![s].pc = pc]
Ends(s, outcome) == stream' = [stream EXCEPT ![s].pc = "done", ![s].outcome = outcome]
Engine == <<now, rec, active, changes>>

Arrive(s) ==
    /\ stream[s].pc = "idle"
    /\ IF Mode = "silent_hang" THEN Ends(s, "hung") ELSE Goto(s, "arrived")
    /\ UNCHANGED <<Engine, since>>

\* The verdict of a window that may have fired since Arrive.
Admit(s) ==
    /\ stream[s].pc = "arrived"
    /\ CASE Mode \in {"error", "throttle"} -> Ends(s, "rejected")
         [] Mode = "silent_hang" -> Ends(s, "hung")
         [] Mode = "stream_abort" /\ rec[active].abortAfter = 0 -> Ends(s, "rst")
         [] Mode = "stream_abort" /\ rec[active].abortAfter > 0 ->
              stream' = [stream EXCEPT ![s].pc = "sleep",
                                       ![s].abortAfter = rec[active].abortAfter]
         [] OTHER -> Goto(s, "sleep")
    /\ UNCHANGED <<Engine, since>>

\* Mutant: the channel is taken after the lock, past the change that ends
\* the stall.
TakenLate(s) ==
    [stream EXCEPT ![s].pc = "stalled", ![s].stalled = TRUE, ![s].seen = changes + 1]

\* State and channel are read under one lock.
Waits(s) ==
    [stream EXCEPT ![s].pc = "stalled", ![s].stalled = TRUE, ![s].seen = changes]

\* Mutant: a sleeping stream is reset by any abort window.
NeverExempt(s) == FALSE

ExemptAsleep(s) == Exempt(s)

\* engine.sleep, before a piece or as the jitter after a stall.
Sleep(s) ==
    /\ stream[s].pc = "sleep"
    /\ CASE Mode = "stream_abort" /\ ~ExemptAsleep(s) -> Ends(s, "rst")
         [] Mode = "silent_hang" -> Ends(s, "hung")
         [] OTHER -> stream' = [stream EXCEPT ![s].pc = "sleeping", ![s].seen = changes]
    /\ UNCHANGED <<Engine, since>>

SleepWakes(s) ==
    /\ stream[s].pc = "sleeping" /\ changes > stream[s].seen
    /\ Goto(s, "sleep")
    /\ UNCHANGED <<Engine, since>>

SleepEnds(s) ==
    /\ stream[s].pc = "sleeping"
    /\ Goto(s, IF stream[s].stalled THEN "write" ELSE "gate")
    /\ UNCHANGED <<Engine, since>>

\* Mutant: new streams are held by a stall, those under way are not.
HeldAtFirst(s) == Mode = "stall" /\ stream[s].tokens = 0

Held(s) == Mode = "stall"

\* engine.gateEmit, before every write.
Gate(s) ==
    /\ stream[s].pc = "gate"
    /\ CASE Held(s) -> stream' = Waits(s)
         [] Mode = "stream_abort" /\ ~Exempt(s) -> Ends(s, "rst")
         [] Mode = "silent_hang" -> Ends(s, "hung")
         [] OTHER -> Goto(s, IF stream[s].stalled THEN "sleep" ELSE "write")
    /\ UNCHANGED <<Engine, since>>

StallWakes(s) ==
    /\ stream[s].pc = "stalled" /\ changes > stream[s].seen
    /\ Goto(s, "gate")
    /\ UNCHANGED <<Engine, since>>

PlanDone(n) == n = Tokens

\* One piece; overdue pieces go to the gate without a sleep.
Write(s) ==
    LET n == stream[s].tokens + 1
        wrote(pc) == stream' = [stream EXCEPT ![s].pc = pc, ![s].tokens = n, ![s].stalled = FALSE]
    IN
    /\ stream[s].pc = "write"
    /\ since' = [since EXCEPT ![s] = @ + 1]
    /\ IF Exempt(s) /\ n >= stream[s].abortAfter
       THEN stream' = [stream EXCEPT ![s].pc = "done", ![s].tokens = n, ![s].stalled = FALSE,
                                     ![s].outcome = "rst"]
       ELSE IF PlanDone(n) THEN wrote("end") ELSE wrote("sleep") \/ wrote("gate")
    /\ UNCHANGED Engine

End(s) ==
    /\ stream[s].pc = "end"
    /\ Ends(s, "200")
    /\ UNCHANGED <<Engine, since>>

\* The client is gone: a wait ends and a write fails.
Abandon(s) ==
    /\ stream[s].pc \in {"sleeping", "stalled", "write", "end"}
    /\ Ends(s, "abandoned")
    /\ UNCHANGED <<Engine, since>>

Handle(s) ==
    \/ Arrive(s) \/ Admit(s) \/ Sleep(s) \/ SleepWakes(s) \/ SleepEnds(s)
    \/ Gate(s) \/ StallWakes(s) \/ Write(s) \/ End(s)

Terminated ==
    /\ \A s \in Streams : stream[s].pc = "done"
    /\ InState("armed") \cup InState("active") = {}
    /\ UNCHANGED vars

Next ==
    \/ \E m \in Modes, d \in Delays, k \in AbortAfters : AdminArm(m, d, k)
    \/ \E f \in Faults : Fire(f) \/ Expire(f)
    \/ Tick
    \/ \E s \in Streams : Handle(s) \/ Abandon(s)
    \/ Terminated

\* Goroutines are scheduled and timers fire; clients need not leave.
Spec ==
    /\ Init /\ [][Next]_vars
    /\ WF_vars(Tick)
    /\ \A f \in Faults : WF_vars(Fire(f)) /\ WF_vars(Expire(f))
    /\ \A s \in Streams : WF_vars(Handle(s))

----------------------------------------------------------------------------
\* The types; handleStream writes no piece past its plan.
TypeOK ==
    /\ now \in Nat /\ active \in Faults \cup {0} /\ changes \in 0..2 * MaxFaults
    /\ rec \in [Faults -> [state : {"none", "armed", "active", "expired"}, mode : AllModes,
                           start : Nat, fired : Nat, abortAfter : Nat]]
    /\ stream \in [Streams -> [pc : {"idle", "arrived", "sleep", "sleeping", "gate", "stalled",
                                     "write", "end", "done"},
                               tokens : 0..Tokens, abortAfter : Nat \cup {-1},
                               seen : Nat, stalled : BOOLEAN,
                               outcome : {"none", "200", "rejected", "rst", "hung", "abandoned"}]]
    /\ since \in [Streams -> Nat]

\* The handlers see the fault the records show: the engine's active fault
\* is a record in state active, and while one is, there is an active fault,
\* also when a late expiry comes after the next window's fire.
EngineAgrees ==
    IF active = 0 THEN InState("active") = {} ELSE rec[active].state = "active"

\* A stall, a hang or an abort lets at most one piece of a stream through:
\* the one that had passed the gate when the window fired.
OnePieceEscapes ==
    \A s \in Streams :
        Mode \in {"stall", "silent_hang"} \/ (Mode = "stream_abort" /\ ~Exempt(s)) =>
            since[s] <= 1

\* A stream admitted during an abort window is reset by its own count and
\* never sooner, whichever windows fire while it is served.
ExemptRunsItsCount ==
    \A s \in Streams :
        Exempt(s) /\ stream[s].outcome = "rst" => stream[s].tokens = stream[s].abortAfter

\* No wake-up is lost: every stream ends once the windows have expired,
\* with a client that waits for it.
StreamsEnd == \A s \in Streams : <>(stream[s].pc = "done")
=============================================================================
