---------------------------- MODULE PilotSession ----------------------------
(***************************************************************************)
(* The descriptive pilot: its schedule (internal/pilot/schedule.go), its   *)
(* paired sessions and their windows, and the development gate             *)
(* (cmd/percentes-pilot).  Each command is a process of its own; any       *)
(* number may be started, on any label, by an operator who may also abort  *)
(* them, and they meet only in the pilot's output directory.               *)
(*                                                                         *)
(* A session's windows are its endpoints in order.  The ledger's answers   *)
(* and the responses are any; AdmissionLedger and LoadGen have them.       *)
(***************************************************************************)
EXTENDS Integers, Sequences, FiniteSets, FiniteSetsExt, SequencesExt

CONSTANTS
    Sessions, Reserves,     \* labels
    DayType, Slot,          \* of each label
    Tolerance, MaxGap,      \* startTolerance and maxGap
    MaxTime, MaxProcs,      \* bounds the clock and the commands started
    Configs,                \* development configurations: <<frozen, free>>
    None

VARIABLES
    now, procs,
    out,      \* session.json by label, None where its directory is not there
    dev,      \* the development attempts' configurations
    exits     \* history: the sessions that exited 0, with their processes

pilotVars == <<now, procs, out, dev, exits>>

Labels == Sessions \cup Reserves
Procs == 1..MaxProcs

-----------------------------------------------------------------------------
(* NewSchedule: the draws are given, by counter and label. *)

\* eligible: the dates after the freeze up to the last, without the
\* excluded ones, of a day type.
Eligible(in, type) ==
    { d \in (in.freeze + 1)..in.last : d \notin in.exclude /\ (d % 7 \in {0, 6}) = (type = "weekend") }

PilotLabels == <<<<"weekday", 1>>, <<"weekday", 2>>, <<"weekday", 3>>,
                 <<"weekend", 1>>, <<"weekend", 2>>, <<"weekend", 3>>>>

Nth(S, n) == CHOOSE d \in S : Cardinality({ e \in S : e < d }) = n

ReserveDate(in, type) == Max(Eligible(in, type))
Pool(in, type) == Eligible(in, type) \ {ReserveDate(in, type)}

DeriveAny(in, draw) ==
    [i \in DOMAIN PilotLabels |->
        LET pool == Pool(in, PilotLabels[i][1]) IN Nth(pool, draw[i] % Cardinality(pool))]

\* derive: a date of its day type's pool for each session, or None where
\* two share one.
Derive(in, draw) ==
    LET dates == DeriveAny(in, draw) IN IF IsInjective(dates) THEN dates ELSE None

\* The endpoint orders: three of each, shuffled from the last session down.
Orders(swaps) ==
    LET Swap(s, i) == LET j == (swaps[i] % i) + 1 IN [s EXCEPT ![i] = s[j], ![j] = s[i]]
    IN  Swap(Swap(Swap(Swap(Swap([i \in 1..6 |-> i % 2], 6), 5), 4), 3), 2)

\* The first counter whose draws give distinct dates decides.
NewSchedule(in) ==
    LET tried == SelectInSeq(in.draws, LAMBDA d : Derive(in, d) # None) IN
    IF \/ in.last <= in.freeze \/ tried = 0
       \/ \E t \in {"weekday", "weekend"} : Cardinality(Eligible(in, t)) < 4
    THEN None
    ELSE [dates |-> Derive(in, in.draws[tried]), orders |-> Orders(in.swaps),
          reserves |-> [t \in {"weekday", "weekend"} |-> ReserveDate(in, t)]]

-----------------------------------------------------------------------------
(* session. *)

Window == [blocked |-> FALSE, valid |-> FALSE, epoch |-> None, drained |-> None]

Init ==
    /\ now = 0 /\ procs = [p \in Procs |-> None]
    /\ out = [l \in Labels |-> None]
    /\ dev = <<>> /\ exits = {}

Valid(rec) == Cardinality({ i \in DOMAIN rec.windows : ~rec.windows[i].blocked /\ rec.windows[i].valid })

\* replacement: the reserve is the pilot's first to run, and the session it
\* replaces is of its day type and has not two client-valid windows.
Replacement(reserve, replaces) ==
    /\ replaces \in Sessions /\ DayType[replaces] = DayType[reserve]
    /\ \A r \in Reserves : out[r] = None
    /\ out[replaces] # None => Valid(out[replaces]) < 2

\* The command's checks, at its start.
Start(p, label, replaces) ==
    /\ procs[p] = None /\ \A q \in 1..p - 1 : procs[q] # None
    /\ IF label \in Reserves THEN Replacement(label, replaces) ELSE replaces = None
    /\ out[label] = None
    /\ now <= Slot[label] + Tolerance
    /\ procs' = [procs EXCEPT ![p] =
         [at |-> "waiting", label |-> label, replaces |-> replaces, windows |-> <<>>, aborted |-> FALSE,
          err |-> FALSE]]
    /\ UNCHANGED <<now, out, dev, exits>>

Moves(p, at) == procs' = [procs EXCEPT ![p].at = at]

\* The process ended; nothing of its memory is left.
Gone == [at |-> "gone", label |-> None, replaces |-> None, windows |-> <<>>, aborted |-> FALSE, err |-> FALSE]
Ends(p) == procs' = [procs EXCEPT ![p] = Gone]

At(p, at) == procs[p] # None /\ procs[p].at = at

Written(p) == [replaces |-> procs[p].replaces, by |-> p, windows |-> procs[p].windows, gap |-> FALSE]

WakeOver(p) ==
    /\ At(p, "waiting") /\ now >= Slot[procs[p].label]
    /\ Moves(p, "window") /\ out' = [out EXCEPT ![procs[p].label] = Written(p)]
    /\ UNCHANGED <<now, dev, exits>>

\* At the slot the record is created, exclusively: an existing one fails.
Wake(p) ==
    /\ At(p, "waiting") /\ now >= Slot[procs[p].label]
    /\ IF out[procs[p].label] = None
       THEN Moves(p, "window") /\ out' = [out EXCEPT ![procs[p].label] = Written(p)]
       ELSE Ends(p) /\ UNCHANGED out
    /\ UNCHANGED <<now, dev, exits>>

\* SIGINT or SIGTERM: a waiting session ends, a running one has its window
\* stopped.
Abort(p) ==
    /\ procs[p] # None /\ procs[p].at \in {"waiting", "window", "load"} /\ ~procs[p].aborted
    /\ IF At(p, "waiting") THEN Ends(p) ELSE procs' = [procs EXCEPT ![p].aborted = TRUE]
    /\ UNCHANGED <<now, out, dev, exits>>

Die(p) ==
    /\ procs[p] # None /\ procs[p].at # "gone" /\ Ends(p)
    /\ UNCHANGED <<now, out, dev, exits>>

Adds(p, w, at, err) ==
    procs' = [procs EXCEPT ![p].windows = Append(@, w), ![p].at = at, ![p].err = err]

After(p) == IF Len(procs[p].windows) = 0 THEN "window" ELSE "finish"

\* A refused admission, a probe that blocks the start, or a stop before the
\* first dispatch; after a stop the second window does not start.
WindowBlocked(p) ==
    /\ At(p, "window") /\ Adds(p, [Window EXCEPT !.blocked = TRUE], After(p), FALSE)
    /\ UNCHANGED <<now, out, dev, exits>>

\* An error before the load ends the session.
WindowFails(p) ==
    /\ At(p, "window") /\ Adds(p, Window, "finish", TRUE)
    /\ UNCHANGED <<now, out, dev, exits>>

WindowBegins(p) ==
    /\ At(p, "window") /\ ~(procs[p].aborted /\ procs[p].windows # <<>>)
    /\ procs' = [procs EXCEPT ![p].at = "load", ![p].windows = Append(@, [Window EXCEPT !.epoch = now])]
    /\ UNCHANGED <<now, out, dev, exits>>

\* The load drained: a window that was stopped, failed G2, tripped a wire or
\* had its clock flagged is client-invalid; a failure to write its evidence
\* or to settle it ends the session with the window's verdict recorded.
WindowEnds(p) ==
    LET n == Len(procs[p].windows) IN
    /\ At(p, "load")
    /\ \E valid \in (IF procs[p].aborted THEN {FALSE} ELSE BOOLEAN), err \in BOOLEAN :
         procs' = [procs EXCEPT ![p].windows[n].valid = valid, ![p].windows[n].drained = now,
                                ![p].at = IF n = 2 \/ err THEN "finish" ELSE "window", ![p].err = err]
    /\ UNCHANGED <<now, out, dev, exits>>

GapExceeded(ws) ==
    Len(ws) = 2 /\ ws[1].drained # None /\ ws[2].epoch # None /\ ws[2].epoch - ws[1].drained > MaxGap

\* The record is replaced; the exit is 0 with two client-valid windows
\* close enough to each other.
Finish(p) ==
    LET ws == procs[p].windows
        rec == [Written(p) EXCEPT !.gap = GapExceeded(ws)]
    IN  /\ At(p, "finish") /\ Ends(p)
        /\ out' = [out EXCEPT ![procs[p].label] = rec]
        /\ exits' = IF ~procs[p].err /\ Valid(rec) = 2 /\ ~GapExceeded(ws)
                    THEN exits \cup {<<p, procs[p].label>>} ELSE exits
        /\ UNCHANGED <<now, dev>>

-----------------------------------------------------------------------------
(* dev. *)

\* nextDevAttempt and checkRevision: a first attempt, then one revision of
\* the free parts; each attempt's directory is made exclusively, so of two
\* commands that took the same number one fails.
DevStart(conf) ==
    /\ Len(dev) < 2
    /\ dev # <<>> => conf # dev[1] /\ conf[1] = dev[1][1]
    /\ dev' = Append(dev, conf)
    /\ UNCHANGED <<now, procs, out, exits>>

Tick == now < MaxTime /\ now' = now + 1 /\ UNCHANGED <<procs, out, dev, exits>>

Next ==
    \/ Tick
    \/ \E c \in Configs : DevStart(c)
    \/ \E p \in Procs :
         \/ \E l \in Labels : \E s \in Sessions \cup {None} : Start(p, l, s)
         \/ Wake(p) \/ Abort(p) \/ Die(p) \/ WindowBlocked(p) \/ WindowFails(p)
         \/ WindowBegins(p) \/ WindowEnds(p) \/ Finish(p)

Spec == Init /\ [][Next]_pilotVars

-----------------------------------------------------------------------------
(* What the proofs ask of the schedule's input and of the constants. *)

\* Dates, and the numbers SHA-256 gives for each counter, label and order.
DatesInput(in) ==
    /\ in.freeze \in Int /\ in.last \in Int
    /\ in.draws \in Seq([1..6 -> Nat]) /\ \A i \in 2..6 : in.swaps[i] \in Nat

\* A window's verdict and its times; a session.json as a process writes it.
WindowType ==
    [blocked : BOOLEAN, valid : BOOLEAN, epoch : Int \cup {None}, drained : Int \cup {None}]

RecordType ==
    [replaces : Sessions \cup {None}, by : Procs, windows : Seq(WindowType), gap : BOOLEAN]

\* Times are integers, a development configuration is its frozen and its
\* free parts, and no time or record is taken for a missing one.
SessionConstants ==
    /\ Slot \in [Labels -> Int] /\ MaxGap \in Int
    /\ \A c \in Configs : c = <<c[1], c[2]>>
    /\ None \notin Int /\ None \notin RecordType

-----------------------------------------------------------------------------
(* Properties. *)

\* "a session is never re-run": whoever waits for one slot, a label's
\* record is written by one process only, so the windows of a session that
\* exited 0 are on record as it ran them, both client-valid, in order, the
\* second within maxGap of the first; and dev-2 revises dev-1's free parts
\* only.
SessionsSound ==
    /\ \A p \in Procs : procs[p] # None /\ procs[p].at \in {"window", "load", "finish"} =>
         out[procs[p].label] # None /\ out[procs[p].label].by = p
    /\ \A e \in exits :
         LET rec == out[e[2]] IN
         /\ rec.by = e[1] /\ Valid(rec) = 2 /\ Len(rec.windows) = 2
         /\ Slot[e[2]] <= rec.windows[1].epoch
         /\ rec.windows[1].drained <= rec.windows[2].epoch
         /\ rec.windows[2].epoch <= rec.windows[1].drained + MaxGap
    /\ Len(dev) <= 2 /\ (Len(dev) = 2 => dev[2][1] = dev[1][1] /\ dev[2][2] # dev[1][2])

\* NewSchedule's schedule: no two sessions on one date, each session's date
\* eligible, of its day type and before that type's reserve, the reserve
\* after all of them, and each order of the endpoints three times.
ScheduleFits(in, s) ==
    s # None =>
        /\ IsInjective(s.dates)
        /\ \A i \in 1..6 : LET t == PilotLabels[i][1] IN
             s.dates[i] \in Eligible(in, t) /\ s.dates[i] < s.reserves[t]
        /\ Cardinality({ i \in 1..6 : s.orders[i] = 0 }) = 3
=============================================================================
