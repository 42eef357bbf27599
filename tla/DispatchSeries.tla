--------------------------- MODULE DispatchSeries ---------------------------
(***************************************************************************)
(* The dispatch series of the routes of one client host                    *)
(* (cmd/percentes-release/dispatch.go) and how a cell that ends, or is     *)
(* labelled after its process died, sums them (retain, labelCell and       *)
(* concurrent of cell.go).  Every route is a process of its own: they      *)
(* share nothing but the files each rewrites while it runs and the others  *)
(* read.  Times are ticks, Second of them in a second.                     *)
(***************************************************************************)
EXTENDS Integers, Sequences, FiniteSets, FiniteSetsExt, SequencesExt, Sums

CONSTANTS
    Routes,         \* the routes of the host, one cell each
    Second,         \* ticks in a second
    Lag,            \* dispatchLag
    WaitMax,        \* dispatchWaitMax
    MaxTime,        \* bound: the clock
    MaxDispatches,  \* bound: dispatches
    MaxCrashes,     \* bound: processes that die
    None

VARIABLES
    time,     \* the host's wall clock
    cell      \* each route's cell: its process, its record and its series file

seriesVars == <<time, cell>>

\* What the constants are: a second of ticks, a lag, and a None that is no
\* time.
SeriesConstants ==
    /\ Second \in Nat \ {0} /\ Lag \in Nat /\ MaxTime \in Nat
    /\ IsFiniteSet(Routes) /\ None \notin Int

NoCell ==
    [pc |-> "idle", start |-> None, end |-> None, died |-> None,
     sent |-> <<>>, counted |-> {}, file |-> None,
     own |-> None, to |-> None, deadline |-> None, runs |-> <<>>, agg |-> None]

Sec(t) == t \div Second

Secs == 0..Sec(MaxTime)

\* The dispatches idx of r, per UTC second (dispatchSeries.add).
Counts(r, idx) ==
    [s \in Secs |-> Cardinality({ i \in idx : Sec(cell[r].sent[i]) = s })]

Set(r, c) == cell' = [cell EXCEPT ![r] = c] /\ UNCHANGED time

-----------------------------------------------------------------------------
(* A running cell and its live series. *)

\* runCell writes its record and then starts its series.
Begin(r) ==
    /\ cell[r].pc = "idle"
    /\ Set(r, [cell[r] EXCEPT !.pc = "begun", !.start = time])

LiveFileNow(r) ==
    [counts |-> Counts(r, cell[r].counted), final |-> FALSE, through |-> time]

\* The series flush writes: what is counted, complete up to Lag ago.
LiveFile(r) ==
    [counts |-> Counts(r, cell[r].counted), final |-> FALSE, through |-> time - Lag]

StartLive(r) ==
    /\ cell[r].pc = "begun"
    /\ Set(r, [cell[r] EXCEPT !.pc = "live", !.file = LiveFile(r)])

\* A request is dispatched now and counted by its own goroutine later.
Dispatch(r) ==
    /\ cell[r].pc = "live"
    /\ MapThenSumSet(LAMBDA q : Len(cell[q].sent), Routes) < MaxDispatches
    /\ Set(r, [cell[r] EXCEPT !.sent = Append(@, time)])

Count(r, i) ==
    /\ cell[r].pc = "live" /\ i \in DOMAIN cell[r].sent \ cell[r].counted
    /\ Set(r, [cell[r] EXCEPT !.counted = @ \cup {i}])

\* A rewrite; one that fails or is late leaves the file as it was.
Flush(r) ==
    /\ cell[r].pc = "live"
    /\ Set(r, [cell[r] EXCEPT !.file = LiveFile(r)])

\* newDispatchSeries: a finished cell's series holds every dispatch of its
\* result.
FinalFile(r) == [counts |-> Counts(r, DOMAIN cell[r].sent), final |-> TRUE, through |-> None]

\* The ladder ended, and took some time: the rewrites stop, the final
\* series replaces the file and retain goes on to the attempts file.
Stop(r) ==
    /\ cell[r].pc = "live" /\ cell[r].counted = DOMAIN cell[r].sent
    /\ cell[r].start < time
    /\ Set(r, [cell[r] EXCEPT !.pc = "final", !.counted = {},
                              !.file = FinalFile(r), !.own = FinalFile(r)])

-----------------------------------------------------------------------------
(* The sum over the host. *)

\* concurrent: the other routes' records whose time overlaps [from, to);
\* one without an end counts as running to the end.  They are listed in
\* some order, the one of their planned starts, and a sum has no other use
\* for it.
Overlaps(q, from, to) ==
    /\ cell[q].start # None /\ cell[q].start < to
    /\ (IF cell[q].end = None THEN to ELSE cell[q].end) > from

ConcurrentRuns(r, to) ==
    SetToSeq({ q \in Routes \ {r} : Overlaps(q, cell[r].start, to) })

\* retain, after the attempts file: the cell's end, the concurrent runs and
\* the deadline of the wait for their series.
List(r) ==
    /\ cell[r].pc = "final"
    /\ Set(r, [cell[r] EXCEPT !.pc = "listed", !.to = time, !.deadline = time + WaitMax,
                              !.runs = ConcurrentRuns(r, time)])

\* The part of a series inside the seconds of the sum.
Within(counts, from, to) ==
    [s \in Secs |-> IF s \in Sec(from)..Sec(to) THEN counts[s] ELSE 0]

Total(counts) == AddUp(counts, 0, Sec(MaxTime) + 1)

Source(q, from, to, s) ==
    IF s = None THEN [run |-> q, n |-> 0, final |-> FALSE, through |-> None]
    ELSE [run |-> q, n |-> Total(Within(s.counts, from, to)), final |-> s.final,
          through |-> IF s.final THEN None ELSE s.through]

\* waitSeries: the series of q is final, or complete through the end, or
\* the deadline has passed.
Covers(s, to) == s # None /\ (~s.final => s.through >= to)

Ready(r, q) == Covers(cell[q].file, cell[r].to) \/ time >= cell[r].deadline

\* hostDispatch, once every concurrent run's series was waited for.
Aggregate(r) ==
    LET c == cell[r]
        runs == <<r>> \o c.runs
        File(q) == IF q = r THEN c.own ELSE cell[q].file
        Of(i, s) == IF File(runs[i]) = None THEN 0
                    ELSE Within(File(runs[i]).counts, c.start, c.to)[s]
        counts == [s \in Secs |-> AddUp([i \in DOMAIN runs |-> Of(i, s)], 1, Len(runs))]
    IN  [from |-> c.start, to |-> c.to, counts |-> counts,
         sources |-> [i \in DOMAIN runs |-> Source(runs[i], c.start, c.to, File(runs[i]))],
         max |-> Max({ counts[s] : s \in Secs })]

Read(r) ==
    /\ cell[r].pc = "listed" /\ \A i \in DOMAIN cell[r].runs : Ready(r, cell[r].runs[i])
    /\ Set(r, [cell[r] EXCEPT !.pc = "read", !.own = None, !.deadline = None,
                              !.agg = Aggregate(r)])

\* The record's end; a labelled cell's record gets none.
Record(r) ==
    /\ cell[r].pc = "read"
    /\ Set(r, [cell[r] EXCEPT !.pc = "done", !.end = IF cell[r].died = None THEN time ELSE None])

\* The process dies; nothing more is written for the cell once its
\* attempts file exists, which follows the final series.
Crash(r, labelled) ==
    /\ cell[r].pc \in {"begun", "live", "final", "listed", "read"}
    /\ cell[r].died = None
    /\ Cardinality({ q \in Routes : cell[q].died # None }) < MaxCrashes
    /\ labelled => cell[r].pc \in {"begun", "live", "final"}
    /\ ~labelled => cell[r].pc \in {"final", "listed", "read"}
    /\ Set(r, [cell[r] EXCEPT !.pc = IF labelled THEN "dead" ELSE "done",
                              !.died = time, !.counted = {}, !.deadline = None])

\* The next process labels the cell: its own series is the file as last
\* written, or an empty final one, and its end the latest time they show.
LastUTC(r) ==
    LET f == cell[r].file IN
    Max({cell[r].start}
        \cup (IF f = None \/ f.final THEN {} ELSE {f.through})
        \cup (IF f = None THEN {} ELSE { Second * s : s \in { x \in Secs : f.counts[x] > 0 } }))

LabelCell(r) ==
    /\ cell[r].pc = "dead"
    /\ LET own == IF cell[r].file = None THEN FinalFile(r) ELSE cell[r].file
           to == LastUTC(r)
       IN  Set(r, [cell[r] EXCEPT !.pc = "listed", !.file = own, !.own = own, !.to = to,
                                  !.deadline = time + WaitMax, !.runs = ConcurrentRuns(r, to)])

\* Time passes; a goroutine counts its dispatch within Lag of it (the
\* bound dispatchLag is declared as).
Tick ==
    /\ time < MaxTime
    /\ \A r \in Routes : cell[r].pc = "live" =>
         \A i \in DOMAIN cell[r].sent \ cell[r].counted : time < cell[r].sent[i] + Lag
    /\ time' = time + 1 /\ UNCHANGED cell

Init == time = 0 /\ cell = [r \in Routes |-> NoCell]

Next ==
    \/ \E r \in Routes :
         \/ Begin(r) \/ StartLive(r) \/ Dispatch(r) \/ Flush(r) \/ Stop(r)
         \/ \E i \in 1..MaxDispatches : Count(r, i)
         \/ List(r) \/ Read(r) \/ Record(r) \/ LabelCell(r)
         \/ \E labelled \in BOOLEAN : Crash(r, labelled)
    \/ Tick

Spec == Init /\ [][Next]_seriesVars

-----------------------------------------------------------------------------
(* What the completeness check asks of a sum (evidence/cell.go). *)

DispatchProblems(r) ==
    LET d == cell[r].agg
        Sent == AddUp([i \in DOMAIN d.sources |-> d.sources[i].n], 1, Len(d.sources))
    IN  \/ [i \in DOMAIN d.sources |-> d.sources[i].run] # <<r>> \o cell[r].runs
        \/ ~d.sources[1].final /\ cell[r].died = None
        \/ d.to < d.from
        \/ Total(d.counts) # Sent
        \/ d.max # Max({ d.counts[s] : s \in DOMAIN d.counts })

-----------------------------------------------------------------------------
(* Properties. *)

Between(q, from, to) == { i \in DOMAIN cell[q].sent : from < cell[q].sent[i] /\ cell[q].sent[i] < to }

\* The time up to which source s of the sum d says it is complete.
UpTo(s, d) == IF s.final \/ s.through = None THEN d.to ELSE Min({s.through, d.to})

\* A source of q counts what q sent during the cell, and no more than was
\* sent in the seconds of the sum.
SourceCounts(q, s, d) ==
    /\ (s.final \/ s.through # None) => s.n >= Cardinality(Between(q, d.from, UpTo(s, d)))
    /\ s.n <= Cardinality(Between(q, Second * Sec(d.from) - 1, Second * (Sec(d.to) + 1)))

Accounted(q, d) ==
    LET Listed == { i \in DOMAIN d.sources : d.sources[i].run = q }
    IN  IF Listed = {} THEN Between(q, d.from, d.to) = {}
        ELSE \A i \in Listed : SourceCounts(q, d.sources[i], d)

\* hostDispatch and concurrent miss nothing silently: in a cell's sum every
\* other route either sent nothing during the cell, or is a source that
\* counts all its dispatches up to the end of the cell or up to the time
\* the source itself says it is complete to, and never more than were sent;
\* and the sum passes the completeness check.
SeriesAccounted ==
    \A r \in Routes : cell[r].agg # None =>
        ~DispatchProblems(r) /\ \A q \in Routes : Accounted(q, cell[r].agg)

\* The comment of TestConcurrentRuns and of evidence.Cell.Concurrent: a
\* concurrent run is one whose cell really overlapped this one.
ConcurrentOverlapped ==
    \A r \in Routes : cell[r].agg # None =>
        \A q \in ToSet(cell[r].runs) :
            \/ cell[q].died = None
            \/ cell[q].died >= cell[r].agg.from
=============================================================================
