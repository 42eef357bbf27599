------------------------------ MODULE Detector ------------------------------
(***************************************************************************)
(* The recovery detector (internal/detect/detect.go, detectFrom): over a   *)
(* series of one-second buckets of scheduled requests and good ones, the   *)
(* first window start after the fire whose leading windows reach the entry *)
(* bar and stay there for the hold; "unobserved" when the series ends      *)
(* before that could be seen; and the re-degradations after a recovery.    *)
(*                                                                         *)
(* Indices count buckets from 0.  Ratios are compared by cross             *)
(* multiplication; the baseline is a percentage.                           *)
(***************************************************************************)
EXTENDS Integers, FiniteSets, FiniteSetsExt

CONSTANTS
    Length,           \* buckets of the series
    Loads,            \* requests scheduled in a bucket
    Windows,          \* values of WindowS
    Holds,            \* values of HoldS
    Baselines,        \* baselines, in percent
    Firsts, Timeouts, \* indices of the first bucket scanned and of the timeout
    EntryPct, ExitPct

Bucket == UNION {[good : 0..l, sched : {l}] : l \in Loads}
Input == [buckets : [0..Length-1 -> Bucket], window : Windows, hold : Holds,
          baseline : Baselines, first : Firsts, timeout : Timeouts]

VARIABLES
    in,   \* what detectFrom is called with
    det   \* its Detection, "none" before it returns

vars == <<in, det>>

----------------------------------------------------------------------------
Len(x) == Cardinality(DOMAIN x.buckets)

\* windowSums over [i, i + window), cut where the series ends.
Cut(x, i) == {j \in i..i + x.window - 1 : j \in DOMAIN x.buckets}
InSeries(f, j) == IF j \in DOMAIN f THEN f[j] ELSE 0
Total(f, i, n) ==
    LET sum[k \in 0..n] == IF k = 0 THEN 0 ELSE sum[k-1] + InSeries(f, i + k - 1)
    IN sum[n]
Good(x, i) == Total([j \in DOMAIN x.buckets |-> x.buckets[j].good], i, x.window)
Sched(x, i) == Total([j \in DOMAIN x.buckets |-> x.buckets[j].sched], i, x.window)
Observed(x, i) == Cardinality(Cut(x, i))

Reaches(x, good, sched, pct) == sched > 0 /\ good * 10000 >= sched * x.baseline * pct

AtEntry(x, i) == Reaches(x, Good(x, i), Sched(x, i), EntryPct)
BelowExit(x, i) == Sched(x, i) > 0 /\ ~Reaches(x, Good(x, i), Sched(x, i), ExitPct)

\* Mutant: a cut window below the bar is taken for a verdict.
JudgedAsSeen(x, i) == Observed(x, i) < x.window /\ AtEntry(x, i)

\* entryVerdict, unobserved: the part past the end, at the observed mean
\* load and all good, could lift the ratio to the bar.
Unobserved(x, i) ==
    LET seen == Observed(x, i)
        m == (x.window - seen) * Sched(x, i)
    IN  /\ seen < x.window
        /\ \/ seen = 0
           \/ AtEntry(x, i)
           \/ Reaches(x, Good(x, i) * seen + m, Sched(x, i) * seen + m, EntryPct)

Candidate(x, i) == Observed(x, i) = x.window /\ AtEntry(x, i)

\* Mutant: the hold is one window short.
ShortHold(x, i) == i + 1 .. i + x.hold - 1

HoldStarts(x, i) == i + 1 .. i + x.hold

\* The window that ends the hold of candidate i: cut by the end of the
\* series, or below the bar.
Breaks(x, j) == j + x.window > Len(x) \/ ~AtEntry(x, j)

\* Mutant: scanning resumes a whole hold after the dip.
AfterHold(x, i, j) == j + x.hold + 1

\* Where scanning resumes after the dip at j cancelled candidate i.
Resume(x, i, j) == j + 1

Last(x) == IF x.timeout > Len(x) THEN Len(x) ELSE x.timeout

\* The scan at bucket i, given what it finds further on.
ScanAt(x, scan, i) ==
    IF i >= Last(x) THEN [verdict |-> "notRecovered", at |-> -1, canceled |-> 0]
    ELSE IF Unobserved(x, i) THEN [verdict |-> "unobserved", at |-> -1, canceled |-> 0]
    ELSE IF ~Candidate(x, i) THEN scan[i + 1]
    ELSE LET broken == {j \in HoldStarts(x, i) : Breaks(x, j)}
             dip == Min(broken)
         IN  IF broken = {} THEN [verdict |-> "recovered", at |-> i, canceled |-> 0]
             ELSE IF dip + x.window > Len(x)
                  THEN [verdict |-> "unobserved", at |-> -1, canceled |-> 0]
                  ELSE [scan[Resume(x, i, dip)] EXCEPT !.canceled = @ + 1]

Scan(x) == LET scan[i \in Nat] == ScanAt(x, scan, i) IN scan[x.first]

\* Mutant: an episode ends as soon as the exit bar is reached again.
EndsAtExit(x, j) == ~BelowExit(x, j)

EpisodeEnds(x, j) == AtEntry(x, j)

\* Episodes below the exit bar, each ended only at the entry bar.
ReDegradations(x, at) ==
    LET from == at + x.hold + 1
        below[j \in Nat] ==   \* an episode is on after window start j
            IF j < from THEN FALSE
            ELSE IF BelowExit(x, j) THEN TRUE
            ELSE below[j-1] /\ ~EpisodeEnds(x, j)
    IN Cardinality({j \in from..Last(x) - 1 :
                       BelowExit(x, j) /\ (j = 0 \/ ~below[j-1])})

Detection(x) ==
    IF x.baseline = 0
    THEN [verdict |-> "notRecovered", at |-> -1, canceled |-> 0, again |-> 0]
    ELSE LET d == Scan(x)
         IN  [verdict |-> d.verdict, at |-> d.at, canceled |-> d.canceled,
              again |-> IF d.verdict = "recovered" THEN ReDegradations(x, d.at) ELSE 0]

NotYet == [verdict |-> "none", at |-> -1, canceled |-> 0, again |-> 0]

Init == in \in Input /\ det = NotYet
Detect == det = NotYet /\ det' = Detection(in) /\ UNCHANGED in
Next == Detect
Spec == Init /\ [][Next]_vars

\* What the proofs ask of the constants: a window is a second or more.
DetectorConstants ==
    /\ Length \in Nat /\ Loads \subseteq Nat /\ Windows \subseteq Nat \ {0} /\ Holds \subseteq Nat
    /\ Baselines \subseteq Nat /\ Firsts \subseteq Nat /\ Timeouts \subseteq Int
    /\ EntryPct \in Nat

----------------------------------------------------------------------------
\* Window starts at which service is good for the whole hold, all of it
\* inside the series.
HeldAt(x) ==
    {i \in x.first..Last(x) - 1 :
        \A j \in i..i + x.hold : j + x.window <= Len(x) /\ AtEntry(x, j)}

\* The detector recovers exactly when some entry is held, and reports the
\* first: resuming after a dip skips no entry.
FirstHeldEntry ==
    det # NotYet /\ in.baseline > 0 =>
        IF HeldAt(in) = {} THEN det.verdict # "recovered"
        ELSE det.verdict = "recovered" /\ det.at = Min(HeldAt(in))

ConstantLoad(x, l) == \A i \in DOMAIN x.buckets : x.buckets[i].sched = l

\* The run gone on at load l, every further request good.
Extended(x, l) ==
    [x EXCEPT !.buckets = [i \in 0..Len(x) + x.window + x.hold |->
                              IF i < Len(x) THEN x.buckets[i]
                              ELSE [good |-> l, sched |-> l]],
              !.timeout = Last(x)]

\* Non-recovery is final: under constant load, a run that had gone on with
\* every further request good would not have shown an entry in the range.
NotRecoveredIsFinal ==
    in.baseline > 0 /\ det.verdict = "notRecovered" =>
        \A l \in Loads : ConstantLoad(in, l) => HeldAt(Extended(in, l)) = {}

\* The window starts of re-degradations: those below the exit bar with no other
\* since the window was last at the entry bar.
Episodes(x, from) ==
    LET R == from..Last(x) - 1
    IN {j \in R : /\ BelowExit(x, j)
                  /\ \A k \in R : k < j /\ BelowExit(x, k) =>
                        \E m \in k + 1..j - 1 : AtEntry(x, m)}

\* ReDegradations counts exactly those episodes: oscillation between the
\* bars neither starts one nor ends one.
EpisodesCounted ==
    det.verdict = "recovered" =>
        det.again = Cardinality(Episodes(in, det.at + in.hold + 1))

\* What a Detection says of the series: a recovery is its first held entry,
\* a non-recovery is final, and each re-degradation is counted once.
DetectionSound == FirstHeldEntry /\ NotRecoveredIsFinal /\ EpisodesCounted
=============================================================================
