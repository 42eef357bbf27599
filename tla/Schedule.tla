------------------------------ MODULE Schedule ------------------------------
(***************************************************************************)
(* The schedule of a release (internal/schedule/schedule.go) as operators. *)
(* An input names the window's first weekday and length, the routes in     *)
(* name order, what is frozen with it, and draw: the numbers SHA-256       *)
(* gives for each counter and key, which here are any numbers.  Days are   *)
(* counted from the window's first, times are seconds from its midnight.   *)
(***************************************************************************)
EXTENDS Integers, Sequences, FiniteSets, FiniteSetsExt, SequencesExt

CONSTANTS
    SlotHours,      \* SlotHoursUTC, 4 apart
    None            \* an error

MaxWindowDays == 14
OffsetStep == 600
StartTolerance == 900
MaxAttempts == 2
MaxReruns == 2
SlotLength == 4 * 3600

\* The warm-up, then five steps' measured windows and drains.
CellLength == 60 + 5 * (480 + 90)

\* Weekdays are 0..6, Saturday 5 and Sunday 6.
WeekdayOf(in, d) == (in.first + d) % 7

DayType(in, d) == IF WeekdayOf(in, d) \in {5, 6} THEN "weekend" ELSE "weekday"

Labels == {"weekday", "weekend"} \X SlotHours

\* The window's dates of a day type, in calendar order.
Window(in, type) ==
    LET upTo[n \in 0..in.days] ==
            IF n = 0 THEN <<>>
            ELSE IF DayType(in, n - 1) = type THEN Append(upTo[n - 1], n - 1) ELSE upTo[n - 1]
    IN  upTo[in.days]

WindowOk(in) ==
    /\ in.days \in 1..MaxWindowDays
    /\ Window(in, "weekday") # <<>>
    /\ {5, 6} \subseteq { WeekdayOf(in, d) : d \in 0..in.days - 1 }

\* A cell's attempts: the drawn date and the next one of its day type.
Attempts(in, counter, label) ==
    LET pool == Window(in, label[1])
        i == (in.draw[counter][label] % Len(pool)) + 1
    IN  [n \in 1..Min({MaxAttempts, Len(pool) - i + 1}) |->
            [attempt |-> n, date |-> pool[i + n - 1],
             slot |-> 86400 * pool[i + n - 1] + 3600 * label[2],
             seed |-> <<counter, label, n>>]]

Derive(in, counter) == [label \in Labels |-> Attempts(in, counter, label)]

BothWeekendDays(in, cells) ==
    {5, 6} \subseteq { WeekdayOf(in, cells[l][1].date) : l \in { x \in Labels : x[1] = "weekend" } }

\* routeConfigs: each configuration is of a scheduled route, one a route,
\* and its host group names it.
ConfigsOk(in) ==
    /\ \A c \in in.configs : c.route \in ToSet(in.routes) /\ c.route \in c.hosts
    /\ \A b, c \in in.configs : b.route = c.route => b = c

RoutesFitOnTime(n) == (n - 1) * OffsetStep + CellLength <= SlotLength

\* The last offset, the tolerance and a cell fit a slot.
RoutesFit(n) == (n - 1) * OffsetStep + StartTolerance + CellLength <= SlotLength

LedgerOk(in) ==
    /\ (in.lines = 0) = (in.head = "")
    /\ in.lines > 0 => in.ledger # ""

Valid(in) ==
    /\ in.routes # <<>> /\ IsInjective(in.routes)
    /\ RoutesFit(Len(in.routes))
    /\ WindowOk(in) /\ ConfigsOk(in) /\ LedgerOk(in)

\* The first counter whose weekend dates hold a Saturday and a Sunday.
Counters(in) == { k \in DOMAIN in.draw : BothWeekendDays(in, Derive(in, k)) }

\* The offsets 0, 10, 20 ... minutes shuffled from the last route down:
\* at place i the minutes there and at the drawn place are exchanged.
Exchange(m, i, draw) ==
    LET j == (draw % i) + 1 IN [m EXCEPT ![i] = m[j], ![j] = m[i]]

Shuffle(in, counter) ==
    LET n == Len(in.routes)
        after[k \in 0..n - 1] ==
            IF k = 0 THEN [i \in 1..n |-> (i - 1) * OffsetStep]
            ELSE Exchange(after[k - 1], n + 1 - k, in.shuffle[counter][n + 1 - k])
    IN  after[n - 1]

New(in) ==
    IF ~Valid(in) \/ Counters(in) = {} THEN None
    ELSE LET k == Min(Counters(in)) IN
         [input |-> in, counter |-> k, cells |-> Derive(in, k), offsets |-> Shuffle(in, k)]

\* A route's run of one attempt.
RunOf(s, i, label, n) ==
    [route |-> s.input.routes[i], label |-> label, attempt |-> n,
     start |-> s.cells[label][n].slot + s.offsets[i]]

Runs(s, i) == { RunOf(s, i, label, 1) : label \in Labels }

\* The re-run of a cell, given those taken; None when there is none.
Rerun(s, i, label, taken) ==
    IF taken >= MaxReruns \/ Len(s.cells[label]) < 2 THEN None
    ELSE RunOf(s, i, label, 2)

\* Load accepts a committed schedule whose input derives it.
Loads(s) == s = New(s.input)

\* What an input may be: routes, and natural numbers drawn for each counter.
ScheduleInput(in) ==
    /\ SlotHours \subseteq 0..23
    /\ in.first \in Nat /\ in.days \in Nat
    /\ in.routes \in Seq(Range(in.routes))
    /\ in.draw \in Seq([Labels -> Nat])
    /\ \A k \in DOMAIN in.draw : \A i \in 1..Len(in.routes) : in.shuffle[k][i] \in Nat

-----------------------------------------------------------------------------
(* Properties. *)

\* Every schedule New derives (or Load accepts) runs cells on both weekend
\* days, gives no two attempts of the window one slot, and gives the routes
\* distinct offsets with which every run, even one started as late as the
\* tolerance allows, ends in its own slot: so neither a route's next run nor
\* a re-run ever overlaps it.
ScheduleSound(in, s) ==
    s # None =>
        LET all == { x \in Labels \X (1..MaxAttempts) : x[2] <= Len(s.cells[x[1]]) }
        IN  /\ Loads(s)
            /\ {5, 6} \subseteq { WeekdayOf(in, s.cells[l][1].date) : l \in Labels }
            /\ \A x, y \in all : x # y => s.cells[x[1]][x[2]].slot # s.cells[y[1]][y[2]].slot
            /\ \A x \in all : s.cells[x[1]][x[2]].date \in 0..in.days - 1
            /\ IsInjective(s.offsets)
            /\ \A i \in DOMAIN in.routes : \A x \in all :
                 LET run == RunOf(s, i, x[1], x[2])
                     slot == s.cells[x[1]][x[2]].slot
                 IN  /\ run.start >= slot
                     /\ run.start + StartTolerance + CellLength <= slot + SlotLength
=============================================================================
