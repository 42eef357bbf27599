------------------------ MODULE ReleaseRouteProofs ------------------------
(***************************************************************************)
(* Proofs about ReleaseRoute, for any route, window, bound on re-runs and  *)
(* number of faults.                                                       *)
(*                                                                         *)
(* The process keeps nothing over a restart, so what the properties say of *)
(* the records has to follow from the records themselves: that each run is *)
(* begun once and leaves at most one probe (LogInv), how far the one cell  *)
(* in progress has come and what it has written by then (CellInv, PathInv, *)
(* RetainInv, LadderInv), that a re-run is begun only when every earlier   *)
(* first attempt is final (RerunInv), and that the probes were sent in the *)
(* order in which the records began (ProbeInv, AuthInv).                   *)
(***************************************************************************)
EXTENDS ReleaseRoute, SequenceTheorems, FiniteSetTheorems, WellFoundedInduction, TLAPS

\* Where the process is outside a cell.
Loopy == {"down", "loop", "label", "labelling", "waiting"}

\* Where runCell has written the record as running and not yet the final one.
Before == {"check", "admit", "probe"}
Sent == {"probed", "interval", "ladder"}
InCell == Before \cup Sent \cup {"retain", "retaining", "settle", "record"}

\* The reasons of a stop, and the causes a ladder is cancelled with.
Whys == {"none", "limits", "start", "refused", "price", "billing", "auth", "probe", "abort",
         "emfile"}
Causes == {"none", "billing", "emfile", "abort"}

\* cell.json, runCell's locals, and the history of probes.
RecType ==
    [outcome : Outcomes, why : Whys, probe : BOOLEAN, status : Statuses \cup {"none"},
     auth : SUBSET Auth]
CellType ==
    [run : Runs \cup {<<0, 0>>}, check : {0, 1, 2}, rev : Nat, outcome : Outcomes,
     why : Whys, probe : BOOLEAN, status : Statuses \cup {"none"}, cause : Causes,
     seen : SUBSET Events, failed : BOOLEAN]
ProbeType == [run : Runs, status : Statuses]

\* The types, in full.
TypeInv ==
    /\ now \in 0..Horizon /\ rev \in 0..MaxRev /\ closed \in BOOLEAN /\ faults \in 0..MaxFaults
    /\ rec \in [Runs -> RecType] /\ began \in Seq(Runs) /\ attempts \subseteq Runs
    /\ manifest \in [Runs -> Outcomes \ {"running"}]
    /\ admission \in [Runs -> {"none", "open", "settled"}]
    /\ pc \in Loopy \cup InCell /\ cell \in CellType
    /\ probes \in Seq(ProbeType) /\ seen \in [Runs -> SUBSET Events]

\* The records that began are the ones there are, each once; what was not
\* begun has left nothing; the probes are of runs that began, one each.
LogInv ==
    /\ \A i \in 1..Len(began) : rec[began[i]].outcome # "none"
    /\ \A r \in Runs : rec[r].outcome # "none" => \E i \in 1..Len(began) : began[i] = r
    /\ \A i, j \in 1..Len(began) : began[i] = began[j] => i = j
    /\ \A r \in Runs : rec[r].outcome = "none" => rec[r] = NoRecord /\ seen[r] = {}
    /\ \A j \in 1..Len(probes) : rec[probes[j].run].outcome # "none"
    /\ \A i, j \in 1..Len(probes) : probes[i].run = probes[j].run => i = j

\* The cell in progress is the last record, still running.
CellInv ==
    /\ pc \in InCell =>
         /\ This \in Runs /\ rec[This].outcome = "running"
         /\ Len(began) > 0 /\ began[Len(began)] = This
         /\ cell.seen = seen[This]
    /\ pc = "waiting" =>
         This \in Runs /\ rec[This].outcome = "none" /\ cell = [NoCell EXCEPT !.run = This]
    /\ pc = "labelling" => This \in Runs /\ rec[This].outcome \in {"missed", "interrupted"}
    /\ pc \in {"label", "labelling", "waiting"} =>
         \A r \in Runs : rec[r].outcome # "running"

\* What it has written by then.
PathInv ==
    /\ pc \in Before => \A j \in 1..Len(probes) : probes[j].run # This
    /\ pc \in InCell /\ ~cell.probe => \A j \in 1..Len(probes) : probes[j].run # This
    /\ pc \in InCell /\ cell.probe =>
         /\ Len(probes) > 0 /\ probes[Len(probes)].run = This
         /\ cell.status \in {"none", probes[Len(probes)].status}
    /\ pc \in Sent => cell.probe /\ cell.status = probes[Len(probes)].status
    /\ pc \in Before \cup Sent => cell.outcome = "none" /\ cell.why = "none" /\ ~cell.failed
    /\ pc \in {"probe", "settle"} \cup Sent => admission[This] = "open"

\* What retain, Settle and the record find.
RetainInv ==
    /\ pc \in {"retain", "retaining"} => cell.outcome \in Finished /\ ~cell.failed
    /\ pc \in {"settle", "record"} /\ ~cell.failed =>
         cell.outcome \in Finished /\ manifest[This] = cell.outcome
    /\ pc \in {"retain", "retaining"} /\ cell.outcome = "counted" => admission[This] = "open"
    /\ pc = "record" /\ ~cell.failed /\ cell.outcome = "counted" =>
         admission[This] = "settled"

\* What the ladder's context and the requests that ended say of each other.
LadderInv ==
    /\ pc \in Before \cup Sent /\ cell.cause = "emfile" => "emfile" \in cell.seen
    /\ pc \in Before \cup Sent /\ "billing" \in cell.seen =>
         cell.cause \in {"billing", "emfile", "abort"}
    /\ pc \in InCell /\ cell.outcome = "counted" =>
         cell.probe /\ cell.seen \cap {"billing", "emfile", "mismatch"} = {}

\* A re-run that is on record, or waited for, is taken, and every first
\* attempt that could still come before it is final.
RerunInv ==
    \A c \in Second :
        rec[<<c, 2>>].outcome # "none" \/ (pc = "waiting" /\ This = <<c, 2>>) =>
            /\ c \in Taken
            /\ \A d \in Cells : d < c => rec[<<d, 1>>].outcome \notin {"none", "running"}

\* Probes, records and responses: the probes went out in the order in which
\* the records began; what a record says of a probe was so, and only an
\* interrupted record omits one.
ProbeInv ==
    /\ \A a, b \in 1..Len(probes), p, q \in 1..Len(began) :
         a < b /\ probes[a].run = began[p] /\ probes[b].run = began[q] => p < q
    /\ \A r \in Runs : rec[r].probe =>
         \E j \in 1..Len(probes) :
            probes[j].run = r /\ rec[r].status \in {"none", probes[j].status}
    /\ \A r \in Runs : rec[r].auth \subseteq seen[r]
    /\ \A j \in 1..Len(probes) :
         ~rec[probes[j].run].probe =>
            rec[probes[j].run].outcome \in {"running", "interrupted"}

\* Probe j was preceded by one that saw its status too.
Repeats(j) ==
    /\ j > 1
    /\ \/ probes[j - 1].status = probes[j].status
       \/ probes[j].status \in seen[probes[j - 1].run]

\* A cell or a record that stopped for a status has such a probe behind it.
AuthInv ==
    /\ pc \in InCell /\ cell.why = "auth" => cell.probe /\ Repeats(Len(probes))
    /\ \A j \in 1..Len(probes) : rec[probes[j].run].why = "auth" => Repeats(j)
    /\ \A r \in Runs : rec[r].outcome = "running" => rec[r].why = "none"

\* The inductive invariant.
IInv ==
    /\ TypeInv /\ LogInv /\ CellInv /\ PathInv /\ RetainInv /\ LadderInv
    /\ PagesAccept /\ CountedIsSound /\ RerunInv /\ ProbeInv /\ AuthInv

(***************************************************************************)
(* The constants and the operators.                                        *)
(***************************************************************************)

\* The runs of a window.
LEMMA RunsAre ==
    /\ \A c \in Cells : <<c, 1>> \in Runs
    /\ \A c \in Second : c \in Cells /\ <<c, 2>> \in Runs
    /\ \A r \in Runs : (\E c \in Cells : r = <<c, 1>>) \/ (\E c \in Second : r = <<c, 2>>)
    /\ <<0, 0>> \notin Runs
    /\ \A r \in Runs : Start[r] \in Nat
    /\ Cells \subseteq Nat /\ C \in Nat /\ MaxReruns \in Nat /\ Horizon \in Nat
    /\ MaxFaults \in Nat /\ MaxRev \in Nat
<1>1. /\ Second \subseteq Cells /\ Cells \subseteq Nat /\ C \in Nat /\ MaxReruns \in Nat
      /\ Horizon \in Nat /\ MaxFaults \in Nat /\ MaxRev \in Nat
      /\ Start \in [Runs -> 0..Horizon]
  BY WindowAssumption DEF Cells
<1>2. \A r \in Runs : Start[r] \in Nat
  BY <1>1
<1>3. \A c \in Cells : c # 0
  BY <1>1 DEF Cells
<1>4. /\ \A c \in Cells : <<c, 1>> \in Runs
      /\ \A c \in Second : c \in Cells /\ <<c, 2>> \in Runs
  BY <1>1 DEF Runs
<1>5. ASSUME NEW r \in Runs
      PROVE  (\E c \in Cells : r = <<c, 1>>) \/ (\E c \in Second : r = <<c, 2>>)
  <2>1. CASE r \in Cells \X {1}
    <3>1. r = <<r[1], r[2]>> /\ r[1] \in Cells /\ r[2] = 1
      BY <2>1
    <3> QED
      BY <3>1
  <2>2. CASE r \in Second \X {2}
    <3>1. r = <<r[1], r[2]>> /\ r[1] \in Second /\ r[2] = 2
      BY <2>2
    <3> QED
      BY <3>1
  <2> QED
    BY <2>1, <2>2 DEF Runs
<1>6. <<0, 0>> \notin Runs
  BY <1>3, <1>5
<1> QED
  BY <1>1, <1>2, <1>4, <1>5, <1>6

\* A set of naturals has a least element.
LEMMA LeastElement ==
    ASSUME NEW T \in SUBSET Nat, T # {}
    PROVE  \E x \in T : \A y \in T : x <= y
<1>1. PICK x \in T : \A y \in T : ~(<<y, x>> \in OpToRel(<, Nat))
  BY NatLessThanWellFounded, WFMin
<1>2. ASSUME NEW y \in T PROVE x <= y
  <2>1. ~(y < x)
    BY <1>1 DEF OpToRel
  <2> QED
    BY <2>1
<1> QED
  BY <1>2

\* First is the run that starts first.
LEMMA FirstIs ==
    ASSUME NEW S \in SUBSET Runs, S # {}
    PROVE  First(S) \in S /\ \A s \in S : Start[First(S)] <= Start[s]
<1> DEFINE T == {Start[s] : s \in S}
<1>1. T \in SUBSET Nat /\ T # {}
  BY RunsAre
<1>2. PICK x \in T : \A y \in T : x <= y
  BY <1>1, LeastElement
<1>3. PICK r \in S : x = Start[r]
  OBVIOUS
<1>4. \A s \in S : Start[r] <= Start[s]
  BY <1>2, <1>3
<1> HIDE DEF T
<1> QED
  BY <1>4 DEF First

\* A bounded set of naturals has a greatest element, and Max is it.
LEMMA MaxIs ==
    ASSUME NEW n \in Nat, NEW S \in SUBSET (0..n), S # {}
    PROVE  Max(S) \in S /\ \A y \in S : Max(S) >= y
<1> DEFINE T == {n - y : y \in S}
<1>0. \A y \in S : y \in Nat /\ n - y \in Nat
  OBVIOUS
<1>1. T \in SUBSET Nat /\ T # {}
  BY <1>0
<1>2. PICK x \in T : \A y \in T : x <= y
  BY <1>1, LeastElement
<1>3. PICK m \in S : x = n - m
  OBVIOUS
<1>4. ASSUME NEW y \in S PROVE m >= y
  <2>1. n - m <= n - y
    BY <1>2, <1>3
  <2> QED
    BY <1>0, <2>1
<1> HIDE DEF T
<1> QED
  BY <1>4 DEF Max

\* The re-runs a route takes are never more than its bound.
LEMMA TakenBound == Cardinality(Taken) <= MaxReruns /\ IsFiniteSet(Taken)
<1>1. Taken \subseteq Eligible /\ Eligible \subseteq Second /\ Second \subseteq Cells
  BY WindowAssumption DEF Taken, Eligible
<1>2. IsFiniteSet(Cells)
  <2>1. 1 \in Int /\ C \in Int
    BY RunsAre
  <2> QED
    BY <2>1, FS_Interval DEF Cells
<1>3. IsFiniteSet(Eligible) /\ IsFiniteSet(Taken)
  BY <1>1, <1>2, FS_Subset
<1>4. CASE Taken = {}
  BY <1>3, <1>4, FS_EmptySet, RunsAre
<1>5. CASE Taken # {}
  <2>1. Taken \in SUBSET (0..C) /\ C \in Nat
    BY <1>1, RunsAre DEF Cells
  <2> DEFINE m == Max(Taken)
             B == {d \in Eligible : d < m}
  <2>2. m \in Taken /\ \A c \in Taken : m >= c
    BY <1>5, <2>1, MaxIs
  <2>3. Cardinality(B) < MaxReruns
    BY <2>2 DEF Taken
  <2>4. IsFiniteSet(B) /\ Cardinality(B) \in Nat
    BY <1>3, FS_Subset, FS_CardinalityType
  <2>5. Taken \in SUBSET (B \cup {m})
    <3>1. ASSUME NEW c \in Taken PROVE c \in B \cup {m}
      <4>1. c \in Nat /\ m \in Nat /\ m >= c /\ c \in Eligible
        <5>1. Taken \subseteq Nat
          BY <2>1
        <5> HIDE DEF m
        <5> QED
          BY <1>1, <2>2, <5>1
      <4> HIDE DEF m
      <4>2. c < m \/ c = m
        BY <4>1
      <4> QED
        BY <4>1, <4>2
    <3> QED
      BY <3>1
  <2> HIDE DEF m, B
  <2>6. IsFiniteSet(B \cup {m}) /\ Cardinality(B \cup {m}) <= Cardinality(B) + 1
    BY <2>4, FS_AddElement
  <2>7. Cardinality(Taken) <= Cardinality(B \cup {m})
    BY <2>5, <2>6, FS_Subset
  <2>8. Cardinality(Taken) \in Nat /\ Cardinality(B \cup {m}) \in Nat
    BY <1>3, <2>6, FS_CardinalityType
  <2>9. MaxReruns \in Nat
    BY RunsAre
  <2> QED
    BY <1>3, <2>3, <2>4, <2>6, <2>7, <2>8, <2>9
<1> QED
  BY <1>4, <1>5

\* The empty records have their types.
LEMMA EmptyRecords ==
    /\ NoRecord \in RecType /\ NoCell \in CellType
    /\ \A r \in Runs : [NoCell EXCEPT !.run = r] \in CellType
    /\ \A r \in Runs : [NoCell EXCEPT !.run = r].run = r
BY DEF NoRecord, NoCell, RecType, CellType, Outcomes, Whys, Causes

\* The initial state satisfies the invariant.
LEMMA InitInv == Init => IInv
<1> SUFFICES ASSUME Init PROVE IInv
  OBVIOUS
<1> USE EmptyRecords, RunsAre DEF Init
<1>1. TypeInv
  <2>1. /\ rec \in [Runs -> RecType] /\ manifest \in [Runs -> Outcomes \ {"running"}]
        /\ admission \in [Runs -> {"none", "open", "settled"}]
        /\ seen \in [Runs -> SUBSET Events]
    BY DEF Outcomes
  <2>2. began \in Seq(Runs) /\ probes \in Seq(ProbeType) /\ attempts \subseteq Runs
    OBVIOUS
  <2>3. now \in 0..Horizon /\ rev \in 0..MaxRev /\ faults \in 0..MaxFaults
    OBVIOUS
  <2>4. closed \in BOOLEAN /\ cell \in CellType /\ pc \in Loopy
    BY DEF Loopy
  <2> QED
    BY <2>1, <2>2, <2>3, <2>4 DEF TypeInv
<1>2. rec = [r \in Runs |-> NoRecord] /\ \A r \in Runs : rec[r] = NoRecord /\ seen[r] = {}
  OBVIOUS
<1>3. /\ NoRecord.outcome = "none" /\ NoRecord.why = "none" /\ ~NoRecord.probe
      /\ NoRecord.auth = {}
  BY DEF NoRecord
<1>4. LogInv
  BY <1>2, <1>3 DEF LogInv
<1>5. CellInv /\ PathInv /\ RetainInv /\ LadderInv
  BY DEF CellInv, PathInv, RetainInv, LadderInv, InCell, Before, Sent
<1>6. PagesAccept /\ CountedIsSound
  BY <1>2, <1>3 DEF PagesAccept, CountedIsSound, Outcome, Finished
<1>7. RerunInv
  BY <1>2, <1>3 DEF RerunInv
<1>8. ProbeInv /\ AuthInv
  BY <1>2, <1>3 DEF ProbeInv, AuthInv, InCell, Before, Sent
<1> QED
  BY <1>1, <1>4, <1>5, <1>6, <1>7, <1>8 DEF IInv

(***************************************************************************)
(* Types.                                                                  *)
(***************************************************************************)

\* What a step may do to the clock, the price revision, the faults, the
\* close record and the attempts files.
LEMMA CounterMoves ==
    ASSUME [Next]_vars
    PROVE  /\ now' = now \/ (now < Horizon /\ now' = now + 1)
           /\ rev' = rev \/ (rev < MaxRev /\ rev' = rev + 1)
           /\ faults' = faults \/ (faults < MaxFaults /\ faults' = faults + 1)
           /\ closed' = closed \/ closed' = TRUE
           /\ attempts' = attempts \/ LabelCell \/ Retain
BY DEF Next, Loop, RunCell, Faulty, Operator, ReadState, ReadAs, LabelCell, LabelWritten,
   WindowClose, Miss, Wait, Begin, ChecksPass, ChecksEnd, Admit, AdmitRefused, PriceChanged,
   Probe, ProbeEnds, ProbePasses, StartLadder, LadderEnds, Retain, RetainManifest, Settle,
   Record, Crash, LabelFails, CloseFails, RetainFails, Errors, SettleFails, RecordFails,
   RecordPrice, AbortWait, AbortInterval, AbortLadder, Restart, Tick, Response, vars, files,
   ledger, Quiet, Fault

\* They stay within their bounds.
LEMMA CounterStep ==
    ASSUME TypeInv, [Next]_vars
    PROVE  /\ now' \in 0..Horizon /\ rev' \in 0..MaxRev /\ faults' \in 0..MaxFaults
           /\ closed' \in BOOLEAN
<1>1. /\ now \in 0..Horizon /\ rev \in 0..MaxRev /\ faults \in 0..MaxFaults
      /\ closed \in BOOLEAN
  BY DEF TypeInv
<1>2. /\ Horizon \in Nat /\ MaxRev \in Nat /\ MaxFaults \in Nat
  BY RunsAre
<1>m. /\ now' = now \/ (now < Horizon /\ now' = now + 1)
      /\ rev' = rev \/ (rev < MaxRev /\ rev' = rev + 1)
      /\ faults' = faults \/ (faults < MaxFaults /\ faults' = faults + 1)
  BY CounterMoves
<1>3. now' \in 0..Horizon
  BY <1>1, <1>2, <1>m
<1>4. rev' \in 0..MaxRev
  BY <1>1, <1>2, <1>m
<1>5. faults' \in 0..MaxFaults
  BY <1>1, <1>2, <1>m
<1>6. closed' \in BOOLEAN
  BY <1>1, CounterMoves
<1> QED
  BY <1>3, <1>4, <1>5, <1>6

(***************************************************************************)
(* The steps by what they do to the records and to the cell in progress.   *)
(***************************************************************************)

\* Neither the records nor what was really sent and seen changes.
Kept == UNCHANGED <<rec, began, probes, seen>>

\* The cell goes on with what it knows.
SameCell ==
    /\ cell'.run = cell.run /\ cell'.probe = cell.probe /\ cell'.seen = cell.seen
    /\ cell'.outcome = cell.outcome /\ cell'.why = cell.why

\* Time passes, or a price is recorded.
Idle == Kept /\ UNCHANGED <<attempts, manifest, admission, pc, cell>>

\* One stage of the cell is passed.
Advances ==
    /\ Kept /\ UNCHANGED <<attempts, manifest>> /\ SameCell /\ cell' \in CellType
    /\ cell'.status = cell.status /\ cell'.cause = cell.cause /\ cell'.failed = cell.failed
    /\ \/ pc = "check" /\ pc' = "admit" /\ admission' = admission
       \/ pc = "admit" /\ pc' = "check" /\ admission' = admission
       \/ pc = "admit" /\ pc' = "probe" /\ admission' = [admission EXCEPT ![This] = "open"]
       \/ pc = "probed" /\ pc' = "interval" /\ admission' = admission
       \/ pc = "interval" /\ pc' = "ladder" /\ admission' = admission

\* finish: the cell has its outcome.
Finishes ==
    /\ Kept /\ UNCHANGED <<attempts, manifest, admission>> /\ cell' \in CellType
    /\ pc \in Before \cup Sent /\ pc' = "retain"
    /\ cell'.run = cell.run /\ cell'.probe = cell.probe /\ cell'.seen = cell.seen
    /\ cell'.status = cell.status /\ cell'.failed = cell.failed
    /\ cell'.outcome \in Finished
    /\ cell'.outcome = "counted" =>
         pc = "ladder" /\ cell.cause \notin {"billing", "abort"}
           /\ "mismatch" \notin cell.seen /\ "emfile" \notin cell.seen
    /\ cell'.why = "auth" =>
         pc = "probed" /\ cell.status \in Auth /\ AuthFault(This, cell.status)

\* The probe is sent.
Sends ==
    /\ UNCHANGED <<rec, began, seen, attempts, manifest, admission>> /\ cell' \in CellType
    /\ pc = "probe" /\ pc' = "probed"
    /\ \E s \in Statuses :
         probes' = Append(probes, [run |-> This, status |-> s]) /\ cell'.status = s
    /\ cell'.run = cell.run /\ cell'.probe /\ cell'.seen = cell.seen
    /\ cell'.outcome = cell.outcome /\ cell'.why = cell.why /\ cell'.cause = cell.cause
    /\ cell'.failed = cell.failed

\* A request of the ladder ends, or the operator aborts it.
Hears ==
    /\ UNCHANGED <<rec, began, probes, attempts, manifest, admission>> /\ cell' \in CellType
    /\ pc = "ladder" /\ pc' = "ladder"
    /\ cell'.run = cell.run /\ cell'.probe = cell.probe /\ cell'.status = cell.status
    /\ cell'.outcome = cell.outcome /\ cell'.why = cell.why /\ cell'.failed = cell.failed
    /\ \/ \E e \in Events :
            /\ seen' = [seen EXCEPT ![This] = @ \cup {e}] /\ cell'.seen = cell.seen \cup {e}
            /\ cell'.cause = CauseAfter(e)
       \/ /\ seen' = seen /\ cell'.seen = cell.seen
          /\ cell.cause = "none" /\ cell'.cause = "abort"

\* retain and the deferred calls, and the errors that lead to them.
Closes ==
    /\ Kept /\ SameCell /\ cell' \in CellType
    /\ manifest' \in [Runs -> Outcomes \ {"running"}]
    /\ admission' \in [Runs -> {"none", "open", "settled"}]
    /\ cell'.status \in {cell.status, "none"}
    /\ \A r \in Runs : r # This => manifest'[r] = manifest[r] /\ admission'[r] = admission[r]
    /\ \/ /\ pc = "retain" /\ pc' = "retaining" /\ cell' = cell
          /\ UNCHANGED <<manifest, admission>>
       \/ /\ pc = "retaining" /\ pc' = AfterRetain /\ cell' = cell
          /\ manifest'[This] = cell.outcome /\ UNCHANGED admission
       \/ /\ pc = "retaining" /\ pc' = AfterRetain /\ cell'.failed /\ UNCHANGED admission
       \/ /\ pc \in Before \cup Sent \cup {"retain"} /\ pc' = AfterRetain /\ cell'.failed
          /\ admission[This] = "open" => admission'[This] = "open"
       \/ /\ pc = "settle" /\ pc' = "record" /\ cell' = cell /\ UNCHANGED manifest
          /\ admission'[This] = "settled"
       \/ /\ pc = "settle" /\ pc' = "record" /\ cell'.failed

\* The process ends, starts, or goes round its loop.
Outside ==
    /\ Kept /\ UNCHANGED admission /\ cell' \in CellType /\ pc' \in {"down", "loop", "label"}
    /\ pc' = "label" => pc = "labelling"
    /\ \/ UNCHANGED manifest
       \/ pc = "labelling" /\ manifest' = [manifest EXCEPT ![This] = Outcome(This)]

\* A label is begun.
Labels ==
    /\ Kept /\ UNCHANGED <<manifest, admission>>
    /\ pc = "label" /\ pc' = "labelling" /\ Unlabelled # {}
    /\ cell' = [NoCell EXCEPT !.run = First(Unlabelled)]
    /\ attempts' = attempts \cup {First(Unlabelled)}

\* A run is waited for.
Waits ==
    /\ Kept /\ UNCHANGED <<attempts, manifest, admission>>
    /\ pc = "label" /\ pc' = "waiting" /\ Unrecorded # {}
    /\ cell' = [NoCell EXCEPT !.run = First(Unrecorded)]

\* Steps that touch neither the records nor the cell.
LEMMA IdleSteps == ASSUME UNCHANGED vars \/ Tick \/ RecordPrice PROVE Idle
BY DEF Tick, RecordPrice, vars, files, ledger, history, Idle, Kept

\* Starts, ends and deaths, labels that end, and the close.
LEMMA OutsideSteps ==
    ASSUME TypeInv,
           \/ Restart \/ Crash \/ LabelWritten \/ LabelFails \/ WindowClose \/ CloseFails
           \/ AbortWait \/ RecordFails
    PROVE  Outside /\ UNCHANGED attempts
<1> USE EmptyRecords DEF TypeInv, Outside, Kept, Goto, files, ledger, history
<1>1. CASE Restart \/ Crash
  BY <1>1 DEF Restart, Crash
<1>2. CASE LabelWritten \/ LabelFails
  BY <1>2 DEF LabelWritten, LabelFails
<1>3. CASE WindowClose \/ CloseFails \/ AbortWait \/ RecordFails
  BY <1>3 DEF WindowClose, CloseFails, AbortWait, RecordFails
<1> QED
  BY <1>1, <1>2, <1>3

\* Checks that pass, an admission, a probe that passes, the ladder's start.
LEMMA AdvanceSteps ==
    ASSUME TypeInv,
           ChecksPass \/ Admit \/ (PriceChanged /\ cell.check = 1) \/ ProbePasses \/ StartLadder
    PROVE  Advances
<1> USE DEF Advances, Kept, SameCell, Goto, files, ledger, history
<1>1. cell \in CellType /\ rev \in Nat
  BY RunsAre DEF TypeInv
<1>2. CASE ChecksPass
  <2>1. cell' = [cell EXCEPT !.rev = rev]
    BY <1>2 DEF ChecksPass
  <2>2. /\ SameCell /\ cell' \in CellType
        /\ cell'.status = cell.status /\ cell'.cause = cell.cause /\ cell'.failed = cell.failed
    BY <1>1, <2>1 DEF CellType
  <2> QED
    BY <1>2, <2>2 DEF ChecksPass
<1>3. CASE Admit \/ ProbePasses \/ StartLadder
  BY <1>1, <1>3 DEF Admit, ProbePasses, StartLadder
<1>4. CASE PriceChanged /\ cell.check = 1
  <2>1. cell' = [cell EXCEPT !.check = 2]
    BY <1>4 DEF PriceChanged
  <2>2. /\ SameCell /\ cell' \in CellType
        /\ cell'.status = cell.status /\ cell'.cause = cell.cause /\ cell'.failed = cell.failed
    BY <1>1, <2>1 DEF CellType
  <2> QED
    BY <1>4, <2>2 DEF PriceChanged
<1> QED
  BY <1>2, <1>3, <1>4

\* What finish does to the cell.
LEMMA FinishCell ==
    ASSUME cell \in CellType, NEW o \in Finished, NEW w \in Whys, Finish(o, w)
    PROVE  /\ cell' \in CellType /\ pc' = "retain"
           /\ cell'.run = cell.run /\ cell'.probe = cell.probe /\ cell'.seen = cell.seen
           /\ cell'.status = cell.status /\ cell'.failed = cell.failed
           /\ cell'.outcome = o /\ cell'.why = w
<1>1. cell' = [cell EXCEPT !.outcome = o, !.why = w] /\ pc' = "retain"
  BY DEF Finish, Goto
<1>2. o \in Outcomes
  BY DEF Outcomes
<1> QED
  BY <1>1, <1>2 DEF CellType

\* The ways a cell comes to its outcome.
LEMMA FinishSteps ==
    ASSUME TypeInv,
           \/ ChecksEnd \/ AdmitRefused \/ (PriceChanged /\ cell.check # 1) \/ ProbeEnds
           \/ AbortInterval \/ LadderEnds
    PROVE  Finishes
<1>1. cell \in CellType
  BY DEF TypeInv
<1>2. CASE \/ ChecksEnd \/ AdmitRefused \/ (PriceChanged /\ cell.check # 1) \/ AbortInterval
  <2>1. PICK o \in Finished \ {"counted"}, w \in Whys \ {"auth"} : Finish(o, w)
    BY <1>2 DEF ChecksEnd, AdmitRefused, PriceChanged, AbortInterval, Finished, Whys
  <2>2. /\ Kept /\ UNCHANGED <<attempts, manifest, admission>>
        /\ pc \in Before \cup Sent
    BY <1>2 DEF ChecksEnd, AdmitRefused, PriceChanged, AbortInterval, Before, Sent, Kept,
       files, ledger, history
  <2> QED
    BY <1>1, <2>1, <2>2, FinishCell DEF Finishes
<1>3. CASE ProbeEnds
  <2>1. PICK o \in Finished \ {"counted"}, w \in Whys :
          /\ Finish(o, w)
          /\ w = "auth" => cell.status \in Auth /\ AuthFault(This, cell.status)
    BY <1>3 DEF ProbeEnds, Finished, Whys, Auth
  <2>2. /\ Kept /\ UNCHANGED <<attempts, manifest, admission>> /\ pc = "probed"
    BY <1>3 DEF ProbeEnds, Kept, files, ledger, history
  <2> QED
    BY <1>1, <2>1, <2>2, FinishCell DEF Finishes, Sent
<1>4. CASE LadderEnds
  <2>1. PICK valid \in BOOLEAN : Finish(CellOutcome(valid), cell.cause)
    BY <1>4 DEF LadderEnds
  <2>2. /\ CellOutcome(valid) \in Finished
        /\ CellOutcome(valid) = "counted" =>
             cell.cause \notin {"billing", "abort"}
               /\ "mismatch" \notin cell.seen /\ "emfile" \notin cell.seen
    BY DEF CellOutcome, Finished
  <2>3. cell.cause \in Whys /\ cell.cause # "auth"
    BY <1>1 DEF CellType, Causes, Whys
  <2>4. /\ Kept /\ UNCHANGED <<attempts, manifest, admission>> /\ pc = "ladder"
    BY <1>4 DEF LadderEnds, Kept, files, ledger, history
  <2> QED
    BY <1>1, <2>1, <2>2, <2>3, <2>4, FinishCell DEF Finishes, Sent
<1> QED
  BY <1>2, <1>3, <1>4

\* The probe.
LEMMA SendSteps == ASSUME TypeInv, Probe PROVE Sends
<1>1. cell \in CellType
  BY DEF TypeInv
<1>2. PICK s \in Statuses :
        /\ probes' = Append(probes, [run |-> This, status |-> s])
        /\ cell' = [cell EXCEPT !.probe = TRUE, !.status = s]
  BY DEF Probe
<1>3. /\ cell' \in CellType /\ cell'.status = s
      /\ cell'.run = cell.run /\ cell'.probe /\ cell'.seen = cell.seen
      /\ cell'.outcome = cell.outcome /\ cell'.why = cell.why /\ cell'.cause = cell.cause
      /\ cell'.failed = cell.failed
  BY <1>1, <1>2 DEF CellType
<1>4. /\ UNCHANGED <<rec, began, seen, attempts, manifest, admission>>
      /\ pc = "probe" /\ pc' = "probed"
  BY DEF Probe, Goto, files, ledger
<1> QED
  BY <1>2, <1>3, <1>4 DEF Sends

\* The ladder's responses and its abort.
LEMMA HearSteps ==
    ASSUME TypeInv, AbortLadder \/ (\E e \in Events : Response(e))
    PROVE  Hears
<1>1. cell \in CellType /\ cell.cause \in Causes /\ cell.seen \in SUBSET Events
  BY DEF TypeInv, CellType
<1>2. CASE AbortLadder
  <2>1. cell' = [cell EXCEPT !.cause = "abort"] /\ cell.cause = "none" /\ pc = "ladder"
    BY <1>2 DEF AbortLadder
  <2>2. /\ cell' \in CellType /\ cell'.cause = "abort"
        /\ cell'.run = cell.run /\ cell'.probe = cell.probe /\ cell'.status = cell.status
        /\ cell'.outcome = cell.outcome /\ cell'.why = cell.why /\ cell'.failed = cell.failed
        /\ cell'.seen = cell.seen
    BY <1>1, <2>1 DEF CellType, Causes
  <2>3. UNCHANGED <<rec, began, probes, attempts, manifest, admission, pc, seen>>
    BY <1>2 DEF AbortLadder, files, ledger, history
  <2> QED
    BY <2>1, <2>2, <2>3 DEF Hears
<1>3. ASSUME NEW e \in Events, Response(e) PROVE Hears
  <2>1. /\ cell' = [cell EXCEPT !.cause = CauseAfter(e), !.seen = @ \cup {e}]
        /\ pc = "ladder" /\ seen' = [seen EXCEPT ![This] = @ \cup {e}]
    BY <1>3 DEF Response
  <2>2. CauseAfter(e) \in Causes /\ cell.seen \cup {e} \in SUBSET Events
    BY <1>1 DEF CauseAfter, Causes
  <2>3. /\ cell' \in CellType /\ cell'.cause = CauseAfter(e)
        /\ cell'.run = cell.run /\ cell'.probe = cell.probe /\ cell'.status = cell.status
        /\ cell'.outcome = cell.outcome /\ cell'.why = cell.why /\ cell'.failed = cell.failed
        /\ cell'.seen = cell.seen \cup {e}
    BY <1>1, <2>1, <2>2 DEF CellType
  <2>4. UNCHANGED <<rec, began, probes, attempts, manifest, admission, pc>>
    BY <1>3 DEF Response, files, ledger
  <2> QED
    BY <2>1, <2>3, <2>4 DEF Hears
<1> QED
  BY <1>2, <1>3

\* retain, Settle and the errors on the way.
LEMMA CloseSteps ==
    ASSUME TypeInv, RetainInv, This \in Runs,
           \/ Retain \/ RetainManifest \/ RetainFails \/ Errors \/ Settle \/ SettleFails
    PROVE  Closes
<1>1. /\ cell \in CellType /\ manifest \in [Runs -> Outcomes \ {"running"}]
      /\ admission \in [Runs -> {"none", "open", "settled"}]
  BY DEF TypeInv
<1>t. /\ manifest' \in [Runs -> Outcomes \ {"running"}]
      /\ admission' \in [Runs -> {"none", "open", "settled"}]
  <2>1. CASE RetainManifest \/ RetainFails
    <3>1. cell.outcome \in Outcomes \ {"running"}
      BY <2>1 DEF RetainManifest, RetainFails, RetainInv, Outcomes, Finished
    <3> QED
      BY <1>1, <2>1, <3>1 DEF RetainManifest, RetainFails, ledger
  <2>2. CASE Retain \/ Errors \/ Settle \/ SettleFails
    BY <1>1, <2>2 DEF Retain, Errors, Settle, SettleFails, files, ledger
  <2> QED
    BY <2>1, <2>2
<1> USE <1>t
<1>2. CASE Retain
  BY <1>1, <1>2 DEF Retain, Closes, Kept, SameCell, Goto, ledger, history
<1>3. CASE RetainManifest
  BY <1>1, <1>3 DEF RetainManifest, Closes, Kept, SameCell, Goto, ledger, history
<1>4. CASE RetainFails
  <2>1. /\ cell' \in CellType /\ SameCell /\ cell'.status = cell.status /\ cell'.failed
    BY <1>1, <1>4 DEF RetainFails, CellType, SameCell
  <2>2. \A r \in Runs : r # This => manifest'[r] = manifest[r] /\ admission'[r] = admission[r]
    BY <1>1, <1>4 DEF RetainFails, ledger
  <2> QED
    BY <1>4, <2>1, <2>2 DEF RetainFails, Closes, Kept, Goto, ledger, history
<1>5. CASE Errors
  <2>1. PICK st \in {cell.status, "none"} : cell' = [cell EXCEPT !.failed = TRUE, !.status = st]
    BY <1>5 DEF Errors
  <2>2. /\ cell' \in CellType /\ SameCell /\ cell'.status = st /\ cell'.failed
    BY <1>1, <2>1 DEF CellType, SameCell
  <2>3. /\ \A r \in Runs : r # This => manifest'[r] = manifest[r] /\ admission'[r] = admission[r]
        /\ admission[This] = "open" => admission'[This] = "open"
    BY <1>1, <1>5 DEF Errors, files
  <2>4. Kept /\ pc \in Before \cup Sent \cup {"retain"} /\ pc' = AfterRetain
    BY <1>5 DEF Errors, Kept, Goto, Before, Sent, files, history
  <2> QED
    BY <2>1, <2>2, <2>3, <2>4 DEF Closes
<1>6. CASE Settle
  BY <1>1, <1>6 DEF Settle, Closes, Kept, SameCell, Goto, files, history
<1>7. CASE SettleFails
  <2>1. /\ cell' \in CellType /\ SameCell /\ cell'.status = cell.status /\ cell'.failed
    BY <1>1, <1>7 DEF SettleFails, CellType, SameCell
  <2>2. \A r \in Runs : r # This => manifest'[r] = manifest[r] /\ admission'[r] = admission[r]
    BY <1>1, <1>7 DEF SettleFails, files
  <2> QED
    BY <1>7, <2>1, <2>2 DEF SettleFails, Closes, Kept, Goto, files, history
<1> QED
  BY <1>2, <1>3, <1>4, <1>5, <1>6, <1>7

\* The cell a process is about is a run of the window.
LEMMA ThisIsRun == ASSUME CellInv, pc \in InCell \cup {"waiting", "labelling"} PROVE This \in Runs
BY DEF CellInv

\* Every step is one of these.
LEMMA Steps ==
    ASSUME TypeInv, CellInv, RetainInv, [Next]_vars
    PROVE  \/ Idle \/ Advances \/ Finishes \/ Sends \/ Hears \/ Closes \/ Outside \/ Labels
           \/ Waits \/ ReadState \/ Miss \/ Begin \/ Record
<1>1. CASE \/ Retain \/ RetainManifest \/ RetainFails \/ Errors \/ Settle \/ SettleFails
  <2>1. pc \in InCell
    BY <1>1 DEF Retain, RetainManifest, RetainFails, Errors, Settle, SettleFails, InCell, Before,
       Sent
  <2> QED
    BY <1>1, <2>1, ThisIsRun, CloseSteps
<1>2. CASE LabelCell
  BY <1>2 DEF LabelCell, Labels, Kept, Goto, ledger, history
<1>3. CASE Wait
  BY <1>3 DEF Wait, Waits, Labelled, Kept, Goto, files, ledger, history
<1>4. CASE PriceChanged
  BY <1>4, AdvanceSteps, FinishSteps
<1> QED
  BY <1>1, <1>2, <1>3, <1>4, IdleSteps, OutsideSteps, AdvanceSteps, FinishSteps, SendSteps,
     HearSteps DEF Next, Loop, RunCell, Faulty, Operator

\* state() touches the records left running, and only their outcome.
LEMMA ReadMoves ==
    ASSUME TypeInv, ReadState
    PROVE  /\ pc = "loop" /\ pc' = "label"
           /\ UNCHANGED <<began, attempts, manifest, admission, cell, probes, seen>>
           /\ rec' \in [Runs -> RecType]
           /\ \A r \in Runs :
                /\ rec[r].outcome # "running" => rec'[r] = rec[r]
                /\ rec[r].outcome = "running" => rec'[r].outcome = "interrupted"
                /\ rec'[r].why = rec[r].why /\ rec'[r].probe = rec[r].probe
                /\ rec'[r].status = rec[r].status /\ rec'[r].auth = rec[r].auth
<1>1. /\ pc = "loop" /\ pc' = "label"
      /\ UNCHANGED <<began, attempts, manifest, admission, cell, probes, seen>>
      /\ rec' = [r \in Runs |-> IF rec[r].outcome = "running"
                                THEN [rec[r] EXCEPT !.outcome = "interrupted"] ELSE rec[r]]
  BY DEF ReadState, ReadAs, Outcome, Goto, ledger, history
<1>2. rec \in [Runs -> RecType] /\ "interrupted" \in Outcomes
  BY DEF TypeInv, Outcomes
<1>3. ASSUME NEW r \in Runs
      PROVE  /\ rec'[r] \in RecType
             /\ rec[r].outcome # "running" => rec'[r] = rec[r]
             /\ rec[r].outcome = "running" => rec'[r].outcome = "interrupted"
             /\ rec'[r].why = rec[r].why /\ rec'[r].probe = rec[r].probe
             /\ rec'[r].status = rec[r].status /\ rec'[r].auth = rec[r].auth
  <2>1. rec[r] \in RecType
    BY <1>2
  <2>2. /\ [rec[r] EXCEPT !.outcome = "interrupted"] \in RecType
        /\ [rec[r] EXCEPT !.outcome = "interrupted"].outcome = "interrupted"
        /\ [rec[r] EXCEPT !.outcome = "interrupted"].why = rec[r].why
        /\ [rec[r] EXCEPT !.outcome = "interrupted"].probe = rec[r].probe
        /\ [rec[r] EXCEPT !.outcome = "interrupted"].status = rec[r].status
        /\ [rec[r] EXCEPT !.outcome = "interrupted"].auth = rec[r].auth
    BY <1>2, <2>1 DEF RecType
  <2>3. rec'[r] = IF rec[r].outcome = "running"
                  THEN [rec[r] EXCEPT !.outcome = "interrupted"] ELSE rec[r]
    BY <1>1
  <2> QED
    BY <2>1, <2>2, <2>3
<1>4. rec' \in [Runs -> RecType]
  BY <1>1, <1>3
<1> QED
  BY <1>1, <1>3, <1>4

\* A new record, of which nothing is known but that it is there.
Fresh(o) == [NoRecord EXCEPT !.outcome = o]

\* What such a record says.
LEMMA FreshIs ==
    ASSUME NEW o \in {"missed", "running"}
    PROVE  /\ Fresh(o) \in RecType /\ Fresh(o).outcome = o /\ Fresh(o).why = "none"
           /\ ~Fresh(o).probe /\ Fresh(o).status = "none" /\ Fresh(o).auth = {}
BY DEF Fresh, NoRecord, RecType, Outcomes, Whys

\* A missed run is recorded without being begun.
LEMMA MissMoves ==
    ASSUME TypeInv, LogInv, Miss
    PROVE  \E r \in Runs :
             /\ Unrecorded # {} /\ r = First(Unrecorded) /\ rec[r].outcome = "none"
             /\ rec' = [rec EXCEPT ![r] = Fresh("missed")] /\ began' = Append(began, r)
             /\ pc = "label" /\ pc' = "loop"
             /\ UNCHANGED <<attempts, manifest, admission, cell, probes, seen>>
<1> DEFINE r == First(Unrecorded)
<1>1. /\ Unrecorded # {} /\ rec[r].outcome = "none" /\ began' = Append(began, r)
      /\ rec' = [rec EXCEPT ![r].outcome = "missed"] /\ pc = "label" /\ pc' = "loop"
      /\ UNCHANGED <<attempts, manifest, admission, cell, probes, seen>>
  BY DEF Miss, Labelled, Goto, Outcome, ledger, history
<1>2. Unrecorded \in SUBSET Runs
  BY WindowAssumption DEF Unrecorded, Runs, Taken, Eligible
<1>3. r \in Runs
  BY <1>1, <1>2, FirstIs
<1> HIDE DEF r
<1>4. rec[r] = NoRecord
  BY <1>1, <1>3 DEF LogInv
<1>5. rec' = [rec EXCEPT ![r] = Fresh("missed")]
  BY <1>1, <1>3, <1>4 DEF TypeInv, Fresh
<1> QED
  BY <1>1, <1>3, <1>5 DEF r

\* A cell is begun by its record.
LEMMA BeginMoves ==
    ASSUME TypeInv, LogInv, CellInv, Begin
    PROVE  /\ This \in Runs /\ rec[This].outcome = "none" /\ pc = "waiting" /\ pc' = "check"
           /\ rec' = [rec EXCEPT ![This] = Fresh("running")] /\ began' = Append(began, This)
           /\ UNCHANGED <<attempts, manifest, admission, probes, seen>>
           /\ cell' \in CellType /\ cell'.run = cell.run /\ cell'.seen = {} /\ ~cell'.probe
           /\ cell'.outcome = "none" /\ cell'.why = "none" /\ ~cell'.failed
           /\ cell'.cause = "none" /\ cell'.status = "none"
<1>1. /\ rec[This].outcome = "none" /\ pc = "waiting" /\ pc' = "check"
      /\ rec' = [rec EXCEPT ![This].outcome = "running"] /\ began' = Append(began, This)
      /\ UNCHANGED <<attempts, manifest, admission, probes, seen>>
      /\ cell' = [cell EXCEPT !.check = 1]
  BY DEF Begin, Outcome, Goto, ledger, history
<1>2. This \in Runs /\ cell = [NoCell EXCEPT !.run = This]
  BY <1>1 DEF CellInv
<1>3. rec' = [rec EXCEPT ![This] = Fresh("running")]
  BY <1>1, <1>2 DEF TypeInv, LogInv, Fresh
<1>4. cell \in CellType
  BY DEF TypeInv
<1>5. /\ cell.seen = {} /\ ~cell.probe /\ cell.outcome = "none" /\ cell.why = "none"
      /\ ~cell.failed /\ cell.cause = "none" /\ cell.status = "none"
  BY <1>2 DEF NoCell
<1>6. /\ cell' \in CellType /\ cell'.run = cell.run /\ cell'.seen = cell.seen
      /\ cell'.probe = cell.probe
      /\ cell'.outcome = cell.outcome /\ cell'.why = cell.why /\ cell'.failed = cell.failed
      /\ cell'.cause = cell.cause /\ cell'.status = cell.status
  BY <1>1, <1>4 DEF CellType
<1> QED
  BY <1>1, <1>2, <1>3, <1>5, <1>6

\* The last record of a cell.
LEMMA RecordMoves ==
    ASSUME TypeInv, CellInv, RetainInv, Record
    PROVE  \E v \in RecType :
             /\ This \in Runs /\ rec[This].outcome = "running" /\ pc = "record"
             /\ rec' = [rec EXCEPT ![This] = v] /\ pc' \in {"down", "loop"}
             /\ UNCHANGED <<began, attempts, manifest, admission, probes, seen>>
             /\ cell' = NoCell
             /\ v.why = cell.why /\ v.probe = cell.probe /\ v.status = cell.status
             /\ v.auth = cell.seen \cap Auth
             /\ \/ cell.failed /\ v.outcome = "interrupted"
                \/ ~cell.failed /\ v.outcome = cell.outcome /\ cell.outcome \in Finished
<1> DEFINE v == [outcome |-> Final, why |-> cell.why, probe |-> cell.probe,
                 status |-> cell.status, auth |-> cell.seen \cap Auth]
<1>1. /\ pc = "record" /\ rec' = [rec EXCEPT ![This] = v] /\ pc' \in {"down", "loop"}
      /\ UNCHANGED <<began, attempts, manifest, admission, probes, seen>> /\ cell' = NoCell
  BY DEF Record, Goto, ledger, history
<1>2. This \in Runs /\ rec[This].outcome = "running"
  BY <1>1 DEF CellInv, InCell
<1>3. cell \in CellType
  BY DEF TypeInv
<1>4. \/ cell.failed /\ Final = "interrupted"
      \/ ~cell.failed /\ Final = cell.outcome /\ cell.outcome \in Finished
  BY <1>1 DEF Final, RetainInv
<1>5. Final \in Outcomes
  BY <1>4 DEF Outcomes
<1>6. v \in RecType
  BY <1>3, <1>5 DEF RecType, CellType
<1>7. /\ v.why = cell.why /\ v.probe = cell.probe /\ v.status = cell.status
      /\ v.auth = cell.seen \cap Auth /\ v.outcome = Final
  OBVIOUS
<1> HIDE DEF v
<1> QED
  BY <1>1, <1>2, <1>4, <1>6, <1>7

\* Types are kept.
LEMMA TypeStep == IInv /\ [Next]_vars => TypeInv'
<1> SUFFICES ASSUME IInv, [Next]_vars PROVE TypeInv'
  OBVIOUS
<1>0. TypeInv /\ LogInv /\ CellInv /\ RetainInv
  BY DEF IInv
<1>c. /\ closed' \in BOOLEAN /\ now' \in 0..Horizon /\ rev' \in 0..MaxRev
      /\ faults' \in 0..MaxFaults
  BY <1>0, CounterStep
<1> DEFINE T ==
      /\ rec' \in [Runs -> RecType] /\ began' \in Seq(Runs)
      /\ manifest' \in [Runs -> Outcomes \ {"running"}]
      /\ admission' \in [Runs -> {"none", "open", "settled"}]
      /\ pc' \in Loopy \cup InCell /\ cell' \in CellType
      /\ probes' \in Seq(ProbeType) /\ seen' \in [Runs -> SUBSET Events]
<1>a. /\ rec \in [Runs -> RecType] /\ began \in Seq(Runs)
      /\ manifest \in [Runs -> Outcomes \ {"running"}]
      /\ admission \in [Runs -> {"none", "open", "settled"}]
      /\ pc \in Loopy \cup InCell /\ cell \in CellType
      /\ probes \in Seq(ProbeType) /\ seen \in [Runs -> SUBSET Events]
      /\ attempts \subseteq Runs
  BY <1>0 DEF TypeInv
<1>t. attempts' \subseteq Runs
  <2>1. Unlabelled \in SUBSET Runs
    BY DEF Unlabelled
  <2>2. CASE attempts' = attempts
    BY <1>a, <2>2
  <2>3. CASE LabelCell
    BY <1>a, <2>1, <2>3, FirstIs DEF LabelCell
  <2>4. CASE Retain
    <3>1. This \in Runs
      BY <1>0, <2>4 DEF Retain, CellInv, InCell
    <3> QED
      BY <1>a, <2>4, <3>1 DEF Retain
  <2> QED
    BY <2>2, <2>3, <2>4, CounterMoves
<1>d. SUFFICES T
  BY <1>c, <1>t DEF TypeInv
<1>1. CASE Idle
  BY <1>a, <1>1 DEF Idle, Kept
<1>2. CASE Advances
  BY <1>a, <1>2 DEF Advances, Kept, InCell, Before, Sent
<1>3. CASE Finishes
  BY <1>a, <1>3 DEF Finishes, Kept, InCell
<1>4. CASE Sends
  <2>1. PICK s \in Statuses : probes' = Append(probes, [run |-> This, status |-> s])
    BY <1>4 DEF Sends
  <2>2. This \in Runs
    BY <1>0, <1>4, ThisIsRun DEF Sends, InCell, Before
  <2>3. [run |-> This, status |-> s] \in ProbeType
    BY <2>2 DEF ProbeType
  <2>4. probes' \in Seq(ProbeType)
    BY <1>a, <2>1, <2>3, AppendProperties
  <2> QED
    BY <1>a, <1>4, <2>4 DEF Sends, InCell, Sent
<1>5. CASE Hears
  <2>1. seen' \in [Runs -> SUBSET Events]
    BY <1>a, <1>5 DEF Hears
  <2> QED
    BY <1>a, <1>5, <2>1 DEF Hears, InCell, Sent
<1>6. CASE Outside
  <2>1. CASE manifest' = manifest
    BY <1>a, <1>6, <2>1 DEF Outside, Kept, Loopy
  <2>2. CASE pc = "labelling" /\ manifest' = [manifest EXCEPT ![This] = Outcome(This)]
    <3>1. This \in Runs /\ Outcome(This) \in Outcomes \ {"running"}
      BY <1>0, <2>2 DEF CellInv, Outcome, Outcomes
    <3>2. manifest' \in [Runs -> Outcomes \ {"running"}]
      BY <1>a, <2>2, <3>1
    <3> QED
      BY <1>a, <1>6, <3>2 DEF Outside, Kept, Loopy
  <2> QED
    BY <1>6, <2>1, <2>2 DEF Outside
<1>7. CASE Labels
  <2>1. Unlabelled \in SUBSET Runs
    BY DEF Unlabelled
  <2>2. cell' \in CellType
    BY <1>7, <2>1, FirstIs, EmptyRecords DEF Labels
  <2> QED
    BY <1>a, <1>7, <2>2 DEF Labels, Kept, Loopy
<1>8. CASE Waits
  <2>1. Unrecorded \in SUBSET Runs
    BY WindowAssumption DEF Unrecorded, Runs, Taken, Eligible
  <2>2. cell' \in CellType
    BY <1>8, <2>1, FirstIs, EmptyRecords DEF Waits
  <2> QED
    BY <1>a, <1>8, <2>2 DEF Waits, Kept, Loopy
<1>9. CASE ReadState
  BY <1>0, <1>a, <1>9, ReadMoves DEF Loopy
<1>10. CASE Miss
  <2>1. PICK r \in Runs :
          /\ rec' = [rec EXCEPT ![r] = Fresh("missed")] /\ began' = Append(began, r)
          /\ pc' = "loop" /\ UNCHANGED <<manifest, admission, cell, probes, seen>>
    BY <1>0, <1>10, MissMoves
  <2>2. rec' \in [Runs -> RecType]
    BY <1>a, <2>1, FreshIs
  <2>3. began' \in Seq(Runs)
    BY <1>a, <2>1, AppendProperties
  <2> QED
    BY <1>a, <2>1, <2>2, <2>3 DEF Loopy
<1>11. CASE Begin
  <2>1. This \in Runs /\ rec' = [rec EXCEPT ![This] = Fresh("running")]
    BY <1>0, <1>11, BeginMoves
  <2>2. rec' \in [Runs -> RecType]
    BY <1>a, <2>1, FreshIs
  <2>3. began' \in Seq(Runs)
    <3>1. began' = Append(began, This)
      BY <1>0, <1>11, BeginMoves
    <3> QED
      BY <1>a, <2>1, <3>1, AppendProperties
  <2> QED
    BY <1>0, <1>a, <1>11, <2>2, <2>3, BeginMoves DEF InCell, Before
<1>12. CASE Record
  BY <1>0, <1>a, <1>12, RecordMoves, EmptyRecords DEF Loopy
<1>13. CASE Closes
  <2>1. AfterRetain \in InCell
    BY DEF AfterRetain, InCell
  <2>2. pc' \in InCell
    BY <1>13, <2>1 DEF Closes, InCell
  <2> QED
    BY <1>a, <1>13, <2>2 DEF Closes, Kept
<1> QED
  BY <1>0, <1>1, <1>2, <1>3, <1>4, <1>5, <1>6, <1>7, <1>8, <1>9, <1>10, <1>11, <1>12, <1>13, Steps

(***************************************************************************)
(* Records are final, and each run is begun once.                          *)
(***************************************************************************)

\* A record that is there and not running is not touched again.
LEMMA FinalStep ==
    ASSUME IInv, [Next]_vars, NEW r \in Runs, rec[r].outcome \notin {"none", "running"}
    PROVE  rec'[r] = rec[r]
<1>0. TypeInv /\ LogInv /\ CellInv /\ RetainInv /\ rec \in [Runs -> RecType]
  BY DEF IInv, TypeInv
<1>1. CASE rec' = rec
  BY <1>1
<1>2. CASE ReadState
  BY <1>0, <1>2, ReadMoves
<1>3. CASE Miss
  <2>1. PICK q \in Runs : rec[q].outcome = "none" /\ rec' = [rec EXCEPT ![q] = Fresh("missed")]
    BY <1>0, <1>3, MissMoves
  <2> QED
    BY <1>0, <2>1
<1>4. CASE Begin
  <2>1. /\ This \in Runs /\ rec[This].outcome = "none"
        /\ rec' = [rec EXCEPT ![This] = Fresh("running")]
    BY <1>0, <1>4, BeginMoves
  <2> QED
    BY <1>0, <2>1
<1>5. CASE Record
  <2>1. PICK v \in RecType :
          This \in Runs /\ rec[This].outcome = "running" /\ rec' = [rec EXCEPT ![This] = v]
    BY <1>0, <1>5, RecordMoves
  <2> QED
    BY <1>0, <2>1
<1> QED
  BY <1>0, <1>1, <1>2, <1>3, <1>4, <1>5, Steps
     DEF Idle, Advances, Finishes, Sends, Hears, Closes, Outside, Labels, Waits, Kept

\* A sequence that grew by one element.
LEMMA Grown ==
    ASSUME NEW S, NEW s \in Seq(S), NEW x \in S, NEW t, t = Append(s, x)
    PROVE  /\ Len(s) \in Nat /\ Len(t) = Len(s) + 1 /\ t[Len(s) + 1] = x
           /\ \A i \in 1..Len(s) : t[i] = s[i] /\ i # Len(s) + 1 /\ i \in 1..Len(t)
           /\ \A i \in 1..Len(t) : i \in 1..Len(s) \/ i = Len(s) + 1
           /\ Len(s) + 1 \in 1..Len(t)
<1>1. Len(s) \in Nat
  OBVIOUS
<1>2. Len(t) = Len(s) + 1 /\ t[Len(s) + 1] = x /\ \A i \in 1..Len(s) : t[i] = s[i]
  OBVIOUS
<1> QED
  BY <1>1, <1>2

\* Probes are of runs.
LEMMA ProbeRuns ==
    ASSUME TypeInv, NEW j \in 1..Len(probes)
    PROVE  probes[j].run \in Runs /\ probes[j].status \in Statuses
<1>1. probes \in Seq(ProbeType)
  BY DEF TypeInv
<1>2. probes[j] \in ProbeType
  BY <1>1
<1> QED
  BY <1>2 DEF ProbeType

\* A step that only changes one record, from none to a fresh one, keeps the log.
LEMMA LogGrows ==
    ASSUME TypeInv, LogInv, NEW r \in Runs, rec[r].outcome = "none",
           NEW o \in {"missed", "running"}, rec' = [rec EXCEPT ![r] = Fresh(o)],
           began' = Append(began, r), UNCHANGED <<probes, seen>>
    PROVE  LogInv'
<1>1. rec \in [Runs -> RecType] /\ began \in Seq(Runs) /\ probes \in Seq(ProbeType)
  BY DEF TypeInv
<1>2. /\ Len(began) \in Nat /\ Len(began') = Len(began) + 1 /\ began'[Len(began) + 1] = r
      /\ \A i \in 1..Len(began) :
           began'[i] = began[i] /\ i # Len(began) + 1 /\ i \in 1..Len(began')
      /\ \A i \in 1..Len(began') : i \in 1..Len(began) \/ i = Len(began) + 1
      /\ Len(began) + 1 \in 1..Len(began')
  BY <1>1, Grown
<1>3. /\ rec'[r].outcome = o /\ o # "none"
      /\ \A q \in Runs : q # r => rec'[q] = rec[q]
  BY <1>1, FreshIs
<1>4. \A i \in 1..Len(began) : began[i] \in Runs /\ began[i] # r
  BY <1>1, <1>2 DEF LogInv
<1>5. \A i \in 1..Len(began') : rec'[began'[i]].outcome # "none"
  BY <1>2, <1>3, <1>4 DEF LogInv
<1>6. \A q \in Runs : rec'[q].outcome # "none" => \E i \in 1..Len(began') : began'[i] = q
  <2> SUFFICES ASSUME NEW q \in Runs, rec'[q].outcome # "none"
               PROVE  \E i \in 1..Len(began') : began'[i] = q
    OBVIOUS
  <2>1. CASE q = r
    BY <1>2, <2>1
  <2>2. CASE q # r
    <3>1. PICK i \in 1..Len(began) : began[i] = q
      BY <1>3, <2>2 DEF LogInv
    <3> QED
      BY <1>2, <3>1
  <2> QED
    BY <2>1, <2>2
<1>7. \A i, j \in 1..Len(began') : began'[i] = began'[j] => i = j
  BY <1>2, <1>4 DEF LogInv
<1>8. \A q \in Runs : rec'[q].outcome = "none" => rec'[q] = NoRecord /\ seen'[q] = {}
  BY <1>3 DEF LogInv
<1>9. \A j \in 1..Len(probes') : rec'[probes'[j].run].outcome # "none"
  BY <1>3, ProbeRuns DEF LogInv
<1>10. \A i, j \in 1..Len(probes') : probes'[i].run = probes'[j].run => i = j
  BY DEF LogInv
<1> QED
  BY <1>5, <1>6, <1>7, <1>8, <1>9, <1>10 DEF LogInv

\* A step that keeps which runs have a record keeps the log.
LEMMA LogKept ==
    ASSUME TypeInv, LogInv, UNCHANGED <<began, probes, seen>>,
           \A r \in Runs : rec'[r].outcome = "none" <=> rec[r].outcome = "none",
           \A r \in Runs : rec[r].outcome = "none" => rec'[r] = rec[r]
    PROVE  LogInv'
<1>1. began \in Seq(Runs) /\ probes \in Seq(ProbeType)
  BY DEF TypeInv
<1>2. \A i \in 1..Len(began) : began[i] \in Runs
  BY <1>1
<1>3. \A j \in 1..Len(probes) : probes[j].run \in Runs
  BY ProbeRuns
<1> QED
  BY <1>2, <1>3 DEF LogInv

\* The log.
LEMMA LogStep == IInv /\ [Next]_vars => LogInv'
<1> SUFFICES ASSUME IInv, [Next]_vars PROVE LogInv'
  OBVIOUS
<1>0. /\ TypeInv /\ LogInv /\ CellInv /\ RetainInv /\ PathInv
      /\ rec \in [Runs -> RecType] /\ probes \in Seq(ProbeType)
  BY DEF IInv, TypeInv
<1>1. CASE Kept
  BY <1>0, <1>1, LogKept DEF Kept
<1>2. CASE Sends
  <2>1. PICK s \in Statuses : probes' = Append(probes, [run |-> This, status |-> s])
    BY <1>2 DEF Sends
  <2>2. This \in Runs /\ rec[This].outcome = "running" /\ UNCHANGED <<rec, began, seen>>
    BY <1>0, <1>2 DEF Sends, CellInv, InCell, Before
  <2>3. \A j \in 1..Len(probes) : probes[j].run # This
    BY <1>0, <1>2 DEF Sends, PathInv, Before
  <2> DEFINE x == [run |-> This, status |-> s]
  <2>4. x \in ProbeType /\ x.run = This
    BY <2>2 DEF ProbeType
  <2> HIDE DEF x
  <2>5. probes' = Append(probes, x)
    BY <2>1 DEF x
  <2>6. /\ Len(probes) \in Nat /\ Len(probes') = Len(probes) + 1 /\ probes'[Len(probes) + 1] = x
        /\ \A i \in 1..Len(probes) :
             probes'[i] = probes[i] /\ i # Len(probes) + 1 /\ i \in 1..Len(probes')
        /\ \A i \in 1..Len(probes') : i \in 1..Len(probes) \/ i = Len(probes) + 1
        /\ Len(probes) + 1 \in 1..Len(probes')
    BY <1>0, <2>4, <2>5, Grown
  <2>7. \A j \in 1..Len(probes') : rec'[probes'[j].run].outcome # "none"
    BY <1>0, <2>2, <2>4, <2>6 DEF LogInv
  <2>8. \A i, j \in 1..Len(probes') : probes'[i].run = probes'[j].run => i = j
    BY <1>0, <2>3, <2>4, <2>6 DEF LogInv
  <2> QED
    BY <1>0, <2>2, <2>7, <2>8 DEF LogInv
<1>3. CASE Hears
  <2>1. This \in Runs /\ rec[This].outcome = "running" /\ UNCHANGED <<rec, began, probes>>
    BY <1>0, <1>3 DEF Hears, CellInv, InCell, Sent
  <2>2. \A r \in Runs : r # This => seen'[r] = seen[r]
    BY <1>0, <1>3, <2>1 DEF Hears, TypeInv
  <2> QED
    BY <1>0, <2>1, <2>2 DEF LogInv
<1>4. CASE ReadState
  BY <1>0, <1>4, ReadMoves, LogKept
<1>5. CASE Miss
  BY <1>0, <1>5, MissMoves, LogGrows
<1>6. CASE Begin
  BY <1>0, <1>6, BeginMoves, LogGrows
<1>7. CASE Record
  <2>1. PICK v \in RecType :
          /\ This \in Runs /\ rec[This].outcome = "running" /\ rec' = [rec EXCEPT ![This] = v]
          /\ UNCHANGED <<began, probes, seen>> /\ v.outcome # "none"
    BY <1>0, <1>7, RecordMoves DEF Finished
  <2> QED
    BY <1>0, <2>1, LogKept
<1> QED
  BY <1>0, <1>1, <1>2, <1>3, <1>4, <1>5, <1>6, <1>7, Steps
     DEF Idle, Advances, Finishes, Closes, Outside, Labels, Waits

(***************************************************************************)
(* The cell in progress.                                                   *)
(***************************************************************************)

\* The record of the cell in progress.
LEMMA CellStep == IInv /\ [Next]_vars => CellInv'
<1> SUFFICES ASSUME IInv, [Next]_vars PROVE CellInv'
  OBVIOUS
<1>0. TypeInv /\ LogInv /\ CellInv /\ RetainInv /\ PathInv
  BY DEF IInv
<1>a. /\ rec \in [Runs -> RecType] /\ began \in Seq(Runs) /\ seen \in [Runs -> SUBSET Events]
      /\ cell \in CellType
  BY <1>0 DEF TypeInv
<1> USE DEF This
<1>1. CASE Idle
  BY <1>0, <1>1 DEF Idle, Kept, CellInv
<1>2. CASE Advances \/ Finishes \/ Closes
  <2>1. pc \in InCell /\ pc' \in InCell
    BY <1>2 DEF Advances, Finishes, Closes, AfterRetain, InCell, Before, Sent
  <2>2. Kept /\ cell'.run = cell.run /\ cell'.seen = cell.seen
    BY <1>2 DEF Advances, Finishes, Closes, SameCell
  <2> QED
    BY <1>0, <2>1, <2>2 DEF CellInv, Kept, InCell, Before, Sent
<1>3. CASE Sends
  <2>1. /\ pc \in InCell /\ pc' \in InCell /\ UNCHANGED <<rec, began, seen>>
        /\ cell'.run = cell.run /\ cell'.seen = cell.seen
    BY <1>3 DEF Sends, InCell, Before, Sent
  <2> QED
    BY <1>0, <2>1 DEF CellInv, InCell, Before, Sent
<1>4. CASE Hears
  <2>1. /\ pc \in InCell /\ pc' \in InCell /\ UNCHANGED <<rec, began>> /\ cell'.run = cell.run
    BY <1>4 DEF Hears, InCell, Sent
  <2>2. This \in Runs /\ cell.seen = seen[This]
    BY <1>0, <2>1 DEF CellInv
  <2>3. cell'.seen = seen'[This]
    BY <1>a, <1>4, <2>2 DEF Hears
  <2> QED
    BY <1>0, <2>1, <2>3 DEF CellInv, InCell, Before, Sent
<1>5. CASE Outside
  BY <1>0, <1>5 DEF Outside, Kept, CellInv, InCell, Before, Sent
<1>6. CASE Labels
  <2>1. Unlabelled \in SUBSET Runs
    BY DEF Unlabelled
  <2>2. First(Unlabelled) \in Unlabelled
    BY <1>6, <2>1, FirstIs DEF Labels
  <2>3. cell'.run = First(Unlabelled)
    BY <1>6, <2>1, <2>2, EmptyRecords DEF Labels
  <2>4. rec[First(Unlabelled)].outcome \in {"missed", "interrupted"}
    BY <2>2 DEF Unlabelled, Outcome
  <2> QED
    BY <1>0, <1>6, <2>1, <2>2, <2>3, <2>4 DEF Labels, Kept, CellInv, InCell, Before, Sent
<1>7. CASE Waits
  <2>1. Unrecorded \in SUBSET Runs
    BY WindowAssumption DEF Unrecorded, Runs, Taken, Eligible
  <2>2. First(Unrecorded) \in Unrecorded
    BY <1>7, <2>1, FirstIs DEF Waits
  <2>3. cell'.run = First(Unrecorded)
    BY <1>7, <2>1, <2>2, EmptyRecords DEF Waits
  <2>4. rec[First(Unrecorded)].outcome = "none"
    BY <2>1, <2>2 DEF Unrecorded, Recorded, Outcome
  <2> QED
    BY <1>0, <1>7, <2>1, <2>2, <2>3, <2>4 DEF Waits, Kept, CellInv, InCell, Before, Sent
<1>8. CASE ReadState
  <2>1. pc' = "label" /\ \A r \in Runs : rec'[r].outcome # "running"
    BY <1>0, <1>8, ReadMoves
  <2> QED
    BY <2>1 DEF CellInv, InCell, Before, Sent
<1>9. CASE Miss
  BY <1>0, <1>9, MissMoves DEF CellInv, InCell, Before, Sent
<1>10. CASE Begin
  <2>1. /\ This \in Runs /\ rec[This].outcome = "none" /\ pc' = "check"
        /\ rec' = [rec EXCEPT ![This] = Fresh("running")] /\ began' = Append(began, This)
        /\ seen' = seen /\ cell'.run = cell.run /\ cell'.seen = {}
    BY <1>0, <1>10, BeginMoves
  <2>2. Len(began') = Len(began) + 1 /\ began'[Len(began) + 1] = This /\ Len(began) \in Nat
    BY <1>a, <2>1, Grown
  <2>3. rec'[This].outcome = "running" /\ seen[This] = {}
    BY <1>0, <1>a, <2>1, FreshIs DEF LogInv
  <2> QED
    BY <2>1, <2>2, <2>3 DEF CellInv
<1>11. CASE Record
  BY <1>0, <1>11, RecordMoves DEF CellInv, InCell, Before, Sent
<1> QED
  BY <1>0, <1>1, <1>2, <1>3, <1>4, <1>5, <1>6, <1>7, <1>8, <1>9, <1>10, <1>11, Steps

\* A step that leaves the process outside a cell has nothing to show.
LEMMA NotInCell ==
    ASSUME IInv, \/ Outside \/ Labels \/ Waits \/ ReadState \/ Miss \/ Record
    PROVE  pc' \notin InCell
<1>0. TypeInv /\ LogInv /\ CellInv /\ RetainInv
  BY DEF IInv
<1>1. pc' \in {"down", "loop", "label", "labelling", "waiting"}
  BY <1>0, ReadMoves, MissMoves, RecordMoves DEF Outside, Labels, Waits
<1> QED
  BY <1>1 DEF InCell, Before, Sent

\* What the cell has written by then.
LEMMA PathStep == IInv /\ [Next]_vars => PathInv'
<1> SUFFICES ASSUME IInv, [Next]_vars PROVE PathInv'
  OBVIOUS
<1>0. TypeInv /\ LogInv /\ CellInv /\ RetainInv /\ PathInv
  BY DEF IInv
<1>a. /\ probes \in Seq(ProbeType) /\ cell \in CellType
      /\ admission \in [Runs -> {"none", "open", "settled"}]
  BY <1>0 DEF TypeInv
<1> USE DEF This
<1>1. CASE Idle
  BY <1>0, <1>1 DEF Idle, Kept, PathInv
<1>2. CASE Advances
  <2>1. This \in Runs
    BY <1>0, <1>2, ThisIsRun DEF Advances, InCell, Before, Sent
  <2>2. pc' \in {"probe"} \cup Sent => admission'[This] = "open"
    BY <1>0, <1>a, <1>2, <2>1 DEF Advances, PathInv, Sent
  <2>3. /\ pc \in InCell /\ (pc \in Before <=> pc' \in Before) /\ (pc \in Sent <=> pc' \in Sent)
        /\ pc' # "settle"
    BY <1>2 DEF Advances, InCell, Before, Sent
  <2>4. /\ UNCHANGED probes /\ cell'.run = cell.run /\ cell'.probe = cell.probe
        /\ cell'.outcome = cell.outcome /\ cell'.why = cell.why /\ cell'.status = cell.status
        /\ cell'.failed = cell.failed
    BY <1>2 DEF Advances, Kept, SameCell
  <2> QED
    BY <1>0, <2>2, <2>3, <2>4 DEF PathInv
<1>3. CASE Finishes
  <2>1. /\ pc \in InCell /\ pc' \notin Before \cup Sent \cup {"probe", "settle"}
    BY <1>3 DEF Finishes, InCell, Before, Sent
  <2> QED
    BY <1>0, <1>3, <2>1 DEF Finishes, Kept, PathInv
<1>4. CASE Closes
  <2>1. /\ pc \in InCell /\ pc' \notin Before \cup Sent \cup {"probe"}
    BY <1>4 DEF Closes, AfterRetain, InCell, Before, Sent
  <2>2. pc' = "settle" => admission'[This] = "open"
    BY <1>4 DEF Closes, AfterRetain
  <2> QED
    BY <1>0, <1>4, <2>1, <2>2 DEF Closes, Kept, SameCell, PathInv
<1>5. CASE Sends
  <2>1. PICK s \in Statuses :
          probes' = Append(probes, [run |-> This, status |-> s]) /\ cell'.status = s
    BY <1>5 DEF Sends
  <2>2. This \in Runs
    BY <1>0, <1>5, ThisIsRun DEF Sends, InCell, Before
  <2> DEFINE x == [run |-> This, status |-> s]
  <2>3. x \in ProbeType /\ x.run = This /\ x.status = s
    BY <2>2 DEF ProbeType
  <2> HIDE DEF x
  <2>4. Len(probes') = Len(probes) + 1 /\ probes'[Len(probes) + 1] = x /\ Len(probes) \in Nat
    BY <1>a, <2>1, <2>3, Grown DEF x
  <2>5. /\ pc' = "probed" /\ cell'.run = cell.run /\ cell'.probe
        /\ cell'.outcome = cell.outcome /\ cell'.why = cell.why /\ cell'.failed = cell.failed
        /\ pc = "probe" /\ admission' = admission
    BY <1>5 DEF Sends
  <2>6. /\ cell.outcome = "none" /\ cell.why = "none" /\ ~cell.failed
        /\ admission[This] = "open"
    BY <1>0, <2>5 DEF PathInv, Before
  <2> QED
    BY <2>1, <2>3, <2>4, <2>5, <2>6 DEF PathInv, Before, Sent
<1>6. CASE Hears
  BY <1>0, <1>6 DEF Hears, PathInv, InCell, Before, Sent
<1>7. CASE Begin
  <2>1. \A j \in 1..Len(probes) : probes[j].run # This
    BY <1>0, <1>7, BeginMoves DEF LogInv
  <2> QED
    BY <1>0, <1>7, <2>1, BeginMoves DEF PathInv, InCell, Before, Sent
<1>8. CASE pc' \notin InCell
  BY <1>8 DEF PathInv, InCell, Before, Sent
<1> QED
  BY <1>0, <1>1, <1>2, <1>3, <1>4, <1>5, <1>6, <1>7, <1>8, Steps, NotInCell

\* What retain, Settle and the record find.
LEMMA RetainStep == IInv /\ [Next]_vars => RetainInv'
<1> SUFFICES ASSUME IInv, [Next]_vars PROVE RetainInv'
  OBVIOUS
<1>0. TypeInv /\ LogInv /\ CellInv /\ RetainInv /\ PathInv /\ LadderInv
  BY DEF IInv
<1> USE DEF This
<1>1. CASE Idle
  BY <1>0, <1>1 DEF Idle, Kept, RetainInv
<1>2. CASE Advances \/ Sends \/ Hears
  <2>1. pc' \in Before \cup Sent
    BY <1>2 DEF Advances, Sends, Hears, Before, Sent
  <2> QED
    BY <2>1 DEF RetainInv, Before, Sent
<1>3. CASE Finishes
  <2>1. ~cell.failed /\ (pc = "ladder" => admission[This] = "open")
    BY <1>0, <1>3 DEF Finishes, PathInv, Sent
  <2> QED
    BY <1>3, <2>1 DEF Finishes, RetainInv
<1>4. CASE Closes
  <2>1. /\ cell'.run = cell.run /\ cell'.outcome = cell.outcome
    BY <1>4 DEF Closes, SameCell
  <2>2. AfterRetain \in {"settle", "record"} /\ (AfterRetain = "record" => admission[This] # "open")
    BY DEF AfterRetain
  <2>3. CASE /\ pc = "retain" /\ pc' = "retaining" /\ cell' = cell
             /\ UNCHANGED <<manifest, admission>>
    BY <1>0, <2>3 DEF RetainInv
  <2>4. CASE /\ pc = "retaining" /\ pc' = AfterRetain /\ cell' = cell
             /\ manifest'[This] = cell.outcome /\ UNCHANGED admission
    BY <1>0, <2>2, <2>4 DEF RetainInv
  <2>5. CASE cell'.failed /\ pc' \in {"settle", "record"}
    BY <2>5 DEF RetainInv
  <2>6. CASE /\ pc = "settle" /\ pc' = "record" /\ cell' = cell /\ UNCHANGED manifest
             /\ admission'[This] = "settled"
    BY <1>0, <2>6 DEF RetainInv
  <2> QED
    BY <1>4, <2>2, <2>3, <2>4, <2>5, <2>6 DEF Closes
<1>5. CASE Begin
  BY <1>0, <1>5, BeginMoves DEF RetainInv
<1>6. CASE pc' \notin InCell
  BY <1>6 DEF RetainInv, InCell
<1> QED
  BY <1>0, <1>1, <1>2, <1>3, <1>4, <1>5, <1>6, Steps, NotInCell

\* What the ladder's context and its requests say of each other.
LEMMA LadderStep == IInv /\ [Next]_vars => LadderInv'
<1> SUFFICES ASSUME IInv, [Next]_vars PROVE LadderInv'
  OBVIOUS
<1>0. TypeInv /\ LogInv /\ CellInv /\ RetainInv /\ PathInv /\ LadderInv
  BY DEF IInv
<1>1. CASE Idle
  BY <1>0, <1>1 DEF Idle, Kept, LadderInv
<1>2. CASE Advances
  <2>1. pc \in Before \cup Sent /\ pc \in InCell
    BY <1>2 DEF Advances, InCell, Before, Sent
  <2> QED
    BY <1>0, <1>2, <2>1 DEF Advances, SameCell, LadderInv
<1>3. CASE Sends
  <2>1. cell.outcome = "none"
    BY <1>0, <1>3 DEF Sends, PathInv, Before
  <2> QED
    BY <1>0, <1>3, <2>1 DEF Sends, LadderInv, Before
<1>4. CASE Hears
  <2>1. cell.outcome = "none"
    BY <1>0, <1>4 DEF Hears, PathInv, Sent
  <2>2. pc \in Before \cup Sent /\ cell'.outcome = "none"
    BY <1>4, <2>1 DEF Hears, Sent
  <2>3. /\ cell.cause = "emfile" => "emfile" \in cell.seen
        /\ "billing" \in cell.seen => cell.cause \in {"billing", "emfile", "abort"}
    BY <1>0, <2>2 DEF LadderInv
  <2>4. /\ cell'.cause = "emfile" => "emfile" \in cell'.seen
        /\ "billing" \in cell'.seen => cell'.cause \in {"billing", "emfile", "abort"}
    <3>1. CASE cell'.seen = cell.seen /\ cell.cause = "none" /\ cell'.cause = "abort"
      BY <2>3, <3>1
    <3>2. ASSUME NEW e \in Events, cell'.seen = cell.seen \cup {e}, cell'.cause = CauseAfter(e)
          PROVE  /\ cell'.cause = "emfile" => "emfile" \in cell'.seen
                 /\ "billing" \in cell'.seen => cell'.cause \in {"billing", "emfile", "abort"}
      <4>1. cell.cause \in Causes
        BY <1>0 DEF TypeInv, CellType
      <4> QED
        BY <2>3, <3>2, <4>1 DEF CauseAfter, Causes
    <3> QED
      BY <1>4, <3>1, <3>2 DEF Hears
  <2> QED
    BY <2>2, <2>4 DEF LadderInv
<1>5. CASE Finishes
  <2>1. pc' \notin Before \cup Sent
    BY <1>5 DEF Finishes, Before, Sent
  <2>2. ASSUME cell'.outcome = "counted"
        PROVE  cell'.probe /\ cell'.seen \cap {"billing", "emfile", "mismatch"} = {}
    <3>1. /\ pc = "ladder" /\ cell.cause \notin {"billing", "abort"}
          /\ "mismatch" \notin cell.seen /\ "emfile" \notin cell.seen
      BY <1>5, <2>2 DEF Finishes
    <3>2. "billing" \notin cell.seen /\ cell.probe
      BY <1>0, <3>1 DEF LadderInv, PathInv, Sent
    <3> QED
      BY <1>5, <3>1, <3>2 DEF Finishes
  <2> QED
    BY <2>1, <2>2 DEF LadderInv
<1>6. CASE Closes
  <2>1. pc' \notin Before \cup Sent /\ pc \in InCell
    BY <1>6 DEF Closes, AfterRetain, Before, Sent, InCell
  <2> QED
    BY <1>0, <1>6, <2>1 DEF Closes, SameCell, LadderInv
<1>7. CASE Begin
  BY <1>0, <1>7, BeginMoves DEF LadderInv
<1>8. CASE pc' \notin InCell
  BY <1>8 DEF LadderInv, InCell
<1> QED
  BY <1>0, <1>1, <1>2, <1>3, <1>4, <1>5, <1>6, <1>7, <1>8, Steps, NotInCell

(***************************************************************************)
(* What finished records promise.                                          *)
(***************************************************************************)

\* What became of the manifest, the admission and the responses of a run whose
\* record is finished: nothing.
LEMMA FinishedStays ==
    ASSUME IInv, [Next]_vars, NEW r \in Runs, rec[r].outcome \in Finished
    PROVE  /\ rec'[r] = rec[r] /\ manifest'[r] = manifest[r]
           /\ admission'[r] = admission[r] /\ seen'[r] = seen[r]
<1>0. TypeInv /\ LogInv /\ CellInv /\ RetainInv
  BY DEF IInv
<1>a. /\ manifest \in [Runs -> Outcomes \ {"running"}] /\ seen \in [Runs -> SUBSET Events]
      /\ admission \in [Runs -> {"none", "open", "settled"}]
  BY <1>0 DEF TypeInv
<1>1. rec'[r] = rec[r]
  BY FinalStep DEF Finished
<1>2. pc \in InCell => This \in Runs /\ r # This
  BY <1>0 DEF CellInv, Finished
<1>3. CASE \/ Idle \/ Finishes \/ Sends \/ Labels \/ Waits
  BY <1>1, <1>3 DEF Idle, Finishes, Sends, Labels, Waits, Kept
<1>4. CASE Advances
  BY <1>1, <1>2, <1>4, <1>a DEF Advances, Kept, InCell, Before, Sent
<1>5. CASE Hears
  BY <1>1, <1>2, <1>5, <1>a DEF Hears, InCell, Sent
<1>6. CASE Closes
  <2>1. pc \in InCell
    BY <1>6 DEF Closes, InCell, Before, Sent
  <2> QED
    BY <1>1, <1>2, <1>6, <2>1 DEF Closes, Kept
<1>7. CASE Outside
  <2>1. pc = "labelling" => This \in Runs /\ r # This
    BY <1>0 DEF CellInv, Finished
  <2> QED
    BY <1>1, <1>7, <1>a, <2>1 DEF Outside, Kept
<1>8. CASE ReadState \/ Miss \/ Begin \/ Record
  BY <1>0, <1>1, <1>8, ReadMoves, MissMoves, BeginMoves, RecordMoves
<1> QED
  BY <1>0, <1>3, <1>4, <1>5, <1>6, <1>7, <1>8, Steps

\* A record becomes finished only by Record.
LEMMA FinishedComes ==
    ASSUME IInv, [Next]_vars, NEW r \in Runs, rec[r].outcome \notin Finished,
           rec'[r].outcome \in Finished
    PROVE  /\ Record /\ r = This /\ ~cell.failed /\ rec'[r].outcome = cell.outcome
           /\ (rec'[r].probe <=> cell.probe) /\ UNCHANGED <<manifest, admission, seen>>
<1>0. TypeInv /\ LogInv /\ CellInv /\ RetainInv /\ rec \in [Runs -> RecType]
  BY DEF IInv, TypeInv
<1>1. rec' # rec
  OBVIOUS
<1>2. ~ReadState
  BY <1>0, ReadMoves DEF Finished
<1>3. ~Miss
  <2>1. SUFFICES ASSUME Miss PROVE FALSE
    OBVIOUS
  <2>2. PICK q \in Runs : rec' = [rec EXCEPT ![q] = Fresh("missed")]
    BY <1>0, <2>1, MissMoves
  <2>3. rec'[q].outcome = "missed" /\ \A p \in Runs : p # q => rec'[p] = rec[p]
    BY <1>0, <2>2, FreshIs
  <2> QED
    BY <2>3 DEF Finished
<1>4. ~Begin
  <2>1. SUFFICES ASSUME Begin PROVE FALSE
    OBVIOUS
  <2>2. This \in Runs /\ rec' = [rec EXCEPT ![This] = Fresh("running")]
    BY <1>0, <2>1, BeginMoves
  <2>3. rec'[This].outcome = "running" /\ \A p \in Runs : p # This => rec'[p] = rec[p]
    BY <1>0, <2>2, FreshIs
  <2> QED
    BY <2>3 DEF Finished
<1>5. Record
  BY <1>0, <1>1, <1>2, <1>3, <1>4, Steps
     DEF Idle, Advances, Finishes, Sends, Hears, Closes, Outside, Labels, Waits, Kept
<1>6. PICK v \in RecType :
        /\ This \in Runs /\ rec' = [rec EXCEPT ![This] = v]
        /\ UNCHANGED <<manifest, admission, seen>> /\ v.probe = cell.probe
        /\ \/ cell.failed /\ v.outcome = "interrupted"
           \/ ~cell.failed /\ v.outcome = cell.outcome
  BY <1>0, <1>5, RecordMoves
<1>7. rec'[This] = v /\ \A p \in Runs : p # This => rec'[p] = rec[p]
  BY <1>0, <1>6
<1>8. r = This
  BY <1>7
<1> QED
  BY <1>5, <1>6, <1>7, <1>8 DEF Finished

\* A finished outcome is in the manifest.
LEMMA PagesStep == IInv /\ [Next]_vars => PagesAccept'
<1> SUFFICES ASSUME IInv, [Next]_vars, NEW r \in Runs, rec'[r].outcome \in Finished
             PROVE  manifest'[r] = rec'[r].outcome
  BY DEF PagesAccept, Outcome
<1>1. CASE rec[r].outcome \in Finished
  BY <1>1, FinishedStays DEF IInv, PagesAccept, Outcome
<1>2. CASE rec[r].outcome \notin Finished
  <2>1. /\ pc = "record" /\ r = This /\ ~cell.failed /\ rec'[r].outcome = cell.outcome
        /\ manifest' = manifest
    BY <1>2, FinishedComes DEF Record
  <2> QED
    BY <2>1 DEF IInv, RetainInv
<1> QED
  BY <1>1, <1>2

\* A cell that counts was probed and settled and its responses are clean.
LEMMA CountedStep == IInv /\ [Next]_vars => CountedIsSound'
<1> SUFFICES ASSUME IInv, [Next]_vars, NEW r \in Runs, rec'[r].outcome = "counted"
             PROVE  /\ admission'[r] = "settled" /\ rec'[r].probe
                    /\ seen'[r] \cap {"billing", "emfile", "mismatch"} = {}
  BY DEF CountedIsSound, Outcome
<1>1. CASE rec[r].outcome \in Finished
  BY <1>1, FinishedStays DEF IInv, CountedIsSound, Outcome
<1>2. CASE rec[r].outcome \notin Finished
  <2>1. /\ pc = "record" /\ r = This /\ ~cell.failed /\ cell.outcome = "counted"
        /\ (rec'[r].probe <=> cell.probe) /\ UNCHANGED <<admission, seen>>
    BY <1>2, FinishedComes DEF Record, Finished
  <2>2. admission[This] = "settled"
    BY <2>1 DEF IInv, RetainInv
  <2>3. cell.probe /\ cell.seen \cap {"billing", "emfile", "mismatch"} = {}
    BY <2>1 DEF IInv, LadderInv, InCell
  <2>4. cell.seen = seen[This]
    BY <2>1 DEF IInv, CellInv, InCell
  <2> QED
    BY <2>1, <2>2, <2>3, <2>4
<1> QED
  BY <1>1, <1>2

(***************************************************************************)
(* Re-runs.                                                                *)
(***************************************************************************)

\* A cell that is taken stays so when every earlier first attempt is final.
LEMMA TakenStays ==
    ASSUME IInv, [Next]_vars, NEW c \in Second, c \in Taken,
           \A d \in Cells : d < c => rec[<<d, 1>>].outcome \notin {"none", "running"}
    PROVE  /\ c \in Taken'
           /\ \A d \in Cells : d < c => rec'[<<d, 1>>].outcome \notin {"none", "running"}
<1>1. \A d \in Cells : rec[<<d, 1>>].outcome \notin {"none", "running"} =>
        rec'[<<d, 1>>] = rec[<<d, 1>>]
  BY FinalStep, RunsAre
<1>2. rec[<<c, 1>>].outcome \notin {"none", "running", "counted"} /\ c \in Cells
  BY RunsAre DEF Taken, Eligible, Rerunnable, Outcome
<1>3. c \in Eligible'
  BY <1>1, <1>2 DEF Eligible, Rerunnable, Outcome
<1>4. {d \in Eligible' : d < c} = {d \in Eligible : d < c}
  <2>1. \A d \in Second : d \in Cells
    BY RunsAre
  <2>2. \A d \in Second : d < c => (d \in Eligible' <=> d \in Eligible)
    BY <1>1, <2>1 DEF Eligible, Rerunnable, Outcome
  <2>3. Eligible \subseteq Second /\ Eligible' \subseteq Second
    BY DEF Eligible
  <2> QED
    BY <2>2, <2>3
<1>5. Cardinality({d \in Eligible : d < c}) < MaxReruns
  BY DEF Taken
<1>6. Cardinality({d \in Eligible' : d < c}) < MaxReruns
  BY <1>4, <1>5
<1>7. c \in Taken'
  BY <1>3, <1>6 DEF Taken
<1> QED
  BY <1>1, <1>7

\* The run that comes first among the unrecorded has every earlier first
\* attempt behind it.
LEMMA FirstComesLast ==
    ASSUME IInv, pc = "label", Unrecorded # {}, NEW c \in Second, First(Unrecorded) = <<c, 2>>
    PROVE  /\ c \in Taken
           /\ \A d \in Cells : d < c => rec[<<d, 1>>].outcome \notin {"none", "running"}
<1>1. Unrecorded \in SUBSET Runs
  BY WindowAssumption DEF Unrecorded, Runs, Taken, Eligible
<1>2. <<c, 2>> \in Unrecorded /\ \A s \in Unrecorded : Start[<<c, 2>>] <= Start[s]
  BY <1>1, FirstIs
<1>3. c \in Taken
  BY <1>2 DEF Unrecorded
<1>4. ASSUME NEW d \in Cells, d < c PROVE rec[<<d, 1>>].outcome \notin {"none", "running"}
  <2>1. <<d, 1>> \in Runs /\ <<c, 1>> \in Runs /\ <<c, 2>> \in Runs /\ c \in Cells
    BY RunsAre
  <2>2. Start[<<d, 1>>] < Start[<<c, 1>>] /\ Start[<<c, 1>>] < Start[<<c, 2>>]
    BY <1>4, <2>1, WindowAssumption
  <2>3. Start[<<d, 1>>] \in Nat /\ Start[<<c, 1>>] \in Nat /\ Start[<<c, 2>>] \in Nat
    BY <2>1, RunsAre
  <2>4. <<d, 1>> \notin Unrecorded
    BY <1>2, <2>2, <2>3
  <2>5. rec[<<d, 1>>].outcome # "none"
    BY <2>1, <2>4 DEF Unrecorded, Recorded, Outcome
  <2>6. rec[<<d, 1>>].outcome # "running"
    BY <2>1 DEF IInv, CellInv
  <2> QED
    BY <2>5, <2>6
<1> QED
  BY <1>3, <1>4

\* Re-runs.
LEMMA RerunStep == IInv /\ [Next]_vars => RerunInv'
<1> SUFFICES ASSUME IInv, [Next]_vars, NEW c \in Second,
                    \/ rec'[<<c, 2>>].outcome # "none"
                    \/ pc' = "waiting" /\ cell'.run = <<c, 2>>
             PROVE  /\ c \in Taken'
                    /\ \A d \in Cells : d < c => rec'[<<d, 1>>].outcome \notin {"none", "running"}
  BY DEF RerunInv, This
<1>0. TypeInv /\ LogInv /\ CellInv /\ RetainInv /\ RerunInv /\ rec \in [Runs -> RecType]
  BY DEF IInv, TypeInv
<1>r. <<c, 2>> \in Runs
  BY RunsAre
<1>1. SUFFICES /\ c \in Taken
               /\ \A d \in Cells : d < c => rec[<<d, 1>>].outcome \notin {"none", "running"}
  BY <1>1, TakenStays
<1>2. CASE rec[<<c, 2>>].outcome # "none" \/ (pc = "waiting" /\ This = <<c, 2>>)
  BY <1>0, <1>2 DEF RerunInv
<1>3. CASE Waits /\ First(Unrecorded) = <<c, 2>>
  BY <1>3, FirstComesLast DEF Waits
<1>4. CASE Miss
  <2>1. PICK r \in Runs :
          /\ Unrecorded # {} /\ r = First(Unrecorded) /\ pc = "label" /\ pc' = "loop"
          /\ rec' = [rec EXCEPT ![r] = Fresh("missed")]
    BY <1>0, <1>4, MissMoves
  <2>2. CASE r = <<c, 2>>
    BY <2>1, <2>2, FirstComesLast
  <2>3. CASE r # <<c, 2>>
    <3>1. rec[<<c, 2>>].outcome # "none"
      BY <1>0, <1>r, <2>1, <2>3
    <3> QED
      BY <1>2, <3>1
  <2> QED
    BY <2>2, <2>3
<1>5. CASE Begin
  <2>1. /\ This \in Runs /\ pc = "waiting" /\ pc' = "check"
        /\ rec' = [rec EXCEPT ![This] = Fresh("running")]
    BY <1>0, <1>5, BeginMoves
  <2>2. rec[<<c, 2>>].outcome # "none" \/ This = <<c, 2>>
    BY <1>0, <1>r, <2>1
  <2> QED
    BY <1>2, <2>1, <2>2
<1>6. CASE Record
  <2>1. PICK v \in RecType :
          /\ This \in Runs /\ rec[This].outcome = "running" /\ pc' \in {"down", "loop"}
          /\ rec' = [rec EXCEPT ![This] = v]
    BY <1>0, <1>6, RecordMoves
  <2>2. rec[<<c, 2>>].outcome # "none"
    BY <1>0, <1>r, <2>1
  <2> QED
    BY <1>2, <2>2
<1>7. CASE ReadState
  <2>1. rec[<<c, 2>>].outcome # "none"
    BY <1>0, <1>r, <1>7, ReadMoves
  <2> QED
    BY <1>2, <2>1
<1>8. CASE Idle
  BY <1>2, <1>8 DEF Idle, Kept, This
<1>9. CASE Waits /\ First(Unrecorded) # <<c, 2>>
  <2>1. Unrecorded \in SUBSET Runs
    BY WindowAssumption DEF Unrecorded, Runs, Taken, Eligible
  <2>2. cell'.run = First(Unrecorded)
    BY <1>9, <2>1, FirstIs, EmptyRecords DEF Waits
  <2>3. rec[<<c, 2>>].outcome # "none"
    BY <1>9, <2>2 DEF Waits, Kept
  <2> QED
    BY <1>2, <2>3
<1>10. CASE Advances \/ Finishes \/ Sends \/ Hears \/ Closes \/ Outside \/ Labels
  <2>1. rec' = rec /\ pc' # "waiting"
    BY <1>10 DEF Advances, Finishes, Sends, Hears, Closes, AfterRetain, Outside, Labels, Kept
  <2> QED
    BY <1>2, <2>1
<1> QED
  BY <1>0, <1>3, <1>4, <1>5, <1>6, <1>7, <1>8, <1>9, <1>10, Steps

(***************************************************************************)
(* Probes and the stops they are evidence for.                             *)
(***************************************************************************)

\* What a step does to the probes and the responses: they only grow.
LEMMA ProbesGrow ==
    ASSUME IInv, [Next]_vars
    PROVE  /\ Len(probes) \in Nat /\ Len(probes') \in Nat
           /\ \/ probes' = probes
              \/ /\ Sends /\ This \in Runs /\ rec[This].outcome = "running"
                 /\ Len(probes') = Len(probes) + 1 /\ probes'[Len(probes')].run = This
                 /\ \A j \in 1..Len(probes) : probes[j].run # This
           /\ \A j \in 1..Len(probes) : j \in 1..Len(probes') /\ probes'[j] = probes[j]
           /\ \A j \in 1..Len(probes') : j \in 1..Len(probes) \/ j = Len(probes')
           /\ \A r \in Runs : seen[r] \subseteq seen'[r]
<1>0. /\ TypeInv /\ LogInv /\ CellInv /\ RetainInv /\ PathInv
      /\ probes \in Seq(ProbeType) /\ seen \in [Runs -> SUBSET Events]
  BY DEF IInv, TypeInv
<1>1. Len(probes) \in Nat
  BY <1>0
<1>2. CASE Sends
  <2>1. PICK s \in Statuses : probes' = Append(probes, [run |-> This, status |-> s])
    BY <1>2 DEF Sends
  <2>2. This \in Runs /\ rec[This].outcome = "running" /\ seen' = seen
    BY <1>0, <1>2 DEF Sends, CellInv, InCell, Before
  <2>3. \A j \in 1..Len(probes) : probes[j].run # This
    BY <1>0, <1>2 DEF Sends, PathInv, Before
  <2> DEFINE x == [run |-> This, status |-> s]
  <2>4. x \in ProbeType /\ x.run = This
    BY <2>2 DEF ProbeType
  <2> HIDE DEF x
  <2>5. probes' = Append(probes, x)
    BY <2>1 DEF x
  <2>6. /\ Len(probes') = Len(probes) + 1 /\ probes'[Len(probes) + 1] = x
        /\ \A i \in 1..Len(probes) : probes'[i] = probes[i] /\ i \in 1..Len(probes')
        /\ \A i \in 1..Len(probes') : i \in 1..Len(probes) \/ i = Len(probes) + 1
    BY <1>0, <2>4, <2>5, Grown
  <2> QED
    BY <1>1, <1>2, <2>2, <2>3, <2>4, <2>6
<1>3. CASE Hears
  <2>1. probes' = probes
    BY <1>3 DEF Hears
  <2>2. \A r \in Runs : seen[r] \subseteq seen'[r]
    BY <1>0, <1>3 DEF Hears
  <2> QED
    BY <1>1, <2>1, <2>2
<1>4. CASE UNCHANGED <<probes, seen>>
  BY <1>1, <1>4
<1> QED
  BY <1>0, <1>2, <1>3, <1>4, Steps, ReadMoves, MissMoves, BeginMoves, RecordMoves
     DEF Idle, Advances, Finishes, Closes, Outside, Labels, Waits, Kept

\* What a step does to the records, seen from the probes.
LEMMA RecordsMove ==
    ASSUME IInv, [Next]_vars, NEW r \in Runs
    PROVE  \/ rec'[r] = rec[r]
           \/ /\ rec[r].outcome = "running" /\ rec'[r].outcome = "interrupted"
              /\ rec'[r].why = rec[r].why /\ (rec'[r].probe <=> rec[r].probe)
              /\ rec'[r].status = rec[r].status /\ rec'[r].auth = rec[r].auth
           \/ /\ rec[r].outcome = "none" /\ rec'[r].why = "none" /\ ~rec'[r].probe
              /\ rec'[r].auth = {}
           \/ /\ pc = "record" /\ r = This /\ rec'[r].outcome # "running"
              /\ rec'[r].why = cell.why /\ (rec'[r].probe <=> cell.probe)
              /\ rec'[r].status = cell.status /\ rec'[r].auth = cell.seen \cap Auth
<1>0. TypeInv /\ LogInv /\ CellInv /\ RetainInv /\ rec \in [Runs -> RecType]
  BY DEF IInv, TypeInv
<1>1. CASE rec' = rec
  BY <1>1
<1>2. CASE ReadState
  BY <1>0, <1>2, ReadMoves
<1>3. CASE Miss
  <2>1. PICK q \in Runs : rec[q].outcome = "none" /\ rec' = [rec EXCEPT ![q] = Fresh("missed")]
    BY <1>0, <1>3, MissMoves
  <2>2. r = q => rec'[r] = Fresh("missed")
    BY <1>0, <2>1
  <2>3. r # q => rec'[r] = rec[r]
    BY <1>0, <2>1
  <2> QED
    BY <2>1, <2>2, <2>3, FreshIs
<1>4. CASE Begin
  <2>1. /\ This \in Runs /\ rec[This].outcome = "none"
        /\ rec' = [rec EXCEPT ![This] = Fresh("running")]
    BY <1>0, <1>4, BeginMoves
  <2>2. r = This => rec'[r] = Fresh("running")
    BY <1>0, <2>1
  <2>3. r # This => rec'[r] = rec[r]
    BY <1>0, <2>1
  <2> QED
    BY <2>1, <2>2, <2>3, FreshIs
<1>5. CASE Record
  <2>1. PICK v \in RecType :
          /\ This \in Runs /\ pc = "record" /\ rec' = [rec EXCEPT ![This] = v]
          /\ v.why = cell.why /\ v.probe = cell.probe /\ v.status = cell.status
          /\ v.auth = cell.seen \cap Auth /\ v.outcome # "running"
    BY <1>0, <1>5, RecordMoves DEF Finished
  <2>2. r = This => rec'[r] = v
    BY <1>0, <2>1
  <2>3. r # This => rec'[r] = rec[r]
    BY <1>0, <2>1
  <2> QED
    BY <2>1, <2>2, <2>3
<1> QED
  BY <1>0, <1>1, <1>2, <1>3, <1>4, <1>5, Steps
     DEF Idle, Advances, Finishes, Sends, Hears, Closes, Outside, Labels, Waits, Kept

\* The probes go out in the order in which the records began.
LEMMA OrderStep ==
    ASSUME IInv, [Next]_vars
    PROVE  \A a, b \in 1..Len(probes'), p, q \in 1..Len(began') :
             a < b /\ probes'[a].run = began'[p] /\ probes'[b].run = began'[q] => p < q
<1>0. /\ TypeInv /\ LogInv /\ CellInv /\ RetainInv /\ PathInv /\ ProbeInv
      /\ began \in Seq(Runs)
  BY DEF IInv, TypeInv
<1>1. Len(probes) \in Nat /\ Len(began) \in Nat
  BY <1>0, ProbesGrow
<1>2. CASE Sends
  <2>1. /\ began' = began /\ Len(probes') = Len(probes) + 1 /\ probes'[Len(probes')].run = This
        /\ \A j \in 1..Len(probes) : probes'[j] = probes[j] /\ probes[j].run # This
        /\ \A j \in 1..Len(probes') : j \in 1..Len(probes) \/ j = Len(probes')
    BY <1>1, <1>2, ProbesGrow DEF Sends
  <2>2. Len(began) > 0 /\ began[Len(began)] = This
    BY <1>0, <1>2 DEF Sends, CellInv, InCell, Before
  <2> SUFFICES ASSUME NEW a \in 1..Len(probes'), NEW b \in 1..Len(probes'),
                      NEW p \in 1..Len(began), NEW q \in 1..Len(began),
                      a < b, probes'[a].run = began[p], probes'[b].run = began[q]
               PROVE  p < q
    BY <2>1
  <2>3. a \in 1..Len(probes)
    BY <1>1, <2>1
  <2>4. CASE b \in 1..Len(probes)
    BY <1>0, <2>1, <2>3, <2>4 DEF ProbeInv
  <2>5. CASE b = Len(probes')
    <3>1. q = Len(began)
      BY <1>0, <1>1, <2>1, <2>2, <2>5 DEF LogInv
    <3>2. p # Len(began)
      BY <2>1, <2>2, <2>3
    <3> QED
      BY <1>1, <3>1, <3>2
  <2> QED
    BY <2>1, <2>4, <2>5
<1>3. ASSUME NEW r \in Runs, rec[r].outcome = "none", began' = Append(began, r), probes' = probes,
             NEW a \in 1..Len(probes), NEW b \in 1..Len(probes),
             NEW p \in 1..Len(began'), NEW q \in 1..Len(began'),
             a < b, probes[a].run = began'[p], probes[b].run = began'[q]
      PROVE  p < q
  <2>1. /\ Len(began') = Len(began) + 1 /\ began'[Len(began) + 1] = r
        /\ \A i \in 1..Len(began) : began'[i] = began[i]
        /\ \A i \in 1..Len(began') : i \in 1..Len(began) \/ i = Len(began) + 1
    BY <1>0, <1>3, Grown
  <2>2. probes[a].run # r /\ probes[b].run # r
    BY <1>0, <1>3 DEF LogInv
  <2>3. p \in 1..Len(began) /\ q \in 1..Len(began)
    BY <1>3, <2>1, <2>2
  <2> QED
    BY <1>0, <1>3, <2>1, <2>3 DEF ProbeInv
<1>4. CASE Miss
  BY <1>0, <1>3, <1>4, MissMoves
<1>5. CASE Begin
  BY <1>0, <1>3, <1>5, BeginMoves
<1>6. CASE UNCHANGED <<probes, began>>
  BY <1>0, <1>6 DEF ProbeInv
<1> QED
  BY <1>0, <1>2, <1>4, <1>5, <1>6, Steps, ReadMoves, RecordMoves
     DEF Idle, Advances, Finishes, Hears, Closes, Outside, Labels, Waits, Kept

\* Probes, records and responses.
LEMMA ProbeStep == IInv /\ [Next]_vars => ProbeInv'
<1> SUFFICES ASSUME IInv, [Next]_vars PROVE ProbeInv'
  OBVIOUS
<1>0. TypeInv /\ LogInv /\ CellInv /\ RetainInv /\ PathInv /\ ProbeInv
  BY DEF IInv
<1>g. /\ Len(probes) \in Nat /\ Len(probes') \in Nat
      /\ \/ probes' = probes
         \/ /\ This \in Runs /\ rec[This].outcome = "running" /\ rec' = rec
            /\ probes'[Len(probes')].run = This
      /\ \A j \in 1..Len(probes) : j \in 1..Len(probes') /\ probes'[j] = probes[j]
      /\ \A j \in 1..Len(probes') : j \in 1..Len(probes) \/ j = Len(probes')
      /\ \A r \in Runs : seen[r] \subseteq seen'[r]
  BY ProbesGrow DEF Sends
<1>c. /\ pc = "record" /\ ~cell.probe => \A j \in 1..Len(probes) : probes[j].run # This
      /\ pc = "record" /\ cell.probe =>
           /\ Len(probes) > 0 /\ probes[Len(probes)].run = This
           /\ cell.status \in {"none", probes[Len(probes)].status}
      /\ pc = "record" => cell.seen = seen[This]
  BY <1>0 DEF PathInv, CellInv, InCell
<1>1. ASSUME NEW r \in Runs, rec'[r].probe
      PROVE  \E j \in 1..Len(probes') :
               probes'[j].run = r /\ rec'[r].status \in {"none", probes'[j].status}
  <2>1. CASE rec[r].probe /\ rec'[r].status = rec[r].status
    <3>1. PICK j \in 1..Len(probes) :
            probes[j].run = r /\ rec[r].status \in {"none", probes[j].status}
      BY <1>0, <2>1 DEF ProbeInv
    <3> QED
      BY <1>g, <2>1, <3>1
  <2>2. CASE /\ pc = "record" /\ r = This /\ (rec'[r].probe <=> cell.probe)
             /\ rec'[r].status = cell.status
    <3>1. /\ Len(probes) > 0 /\ probes[Len(probes)].run = r
          /\ rec'[r].status \in {"none", probes[Len(probes)].status}
      BY <1>1, <1>c, <2>2
    <3>2. Len(probes) \in 1..Len(probes)
      BY <1>g, <3>1
    <3> QED
      BY <1>g, <3>1, <3>2
  <2> QED
    BY <1>1, <2>1, <2>2, RecordsMove
<1>2. ASSUME NEW r \in Runs PROVE rec'[r].auth \subseteq seen'[r]
  <2>1. rec[r].auth \subseteq seen[r] /\ seen[r] \subseteq seen'[r]
    BY <1>0, <1>g DEF ProbeInv
  <2>2. \/ rec'[r].auth = rec[r].auth \/ rec'[r].auth = {}
        \/ pc = "record" /\ r = This /\ rec'[r].auth = cell.seen \cap Auth
    BY RecordsMove
  <2> QED
    BY <1>c, <2>1, <2>2
<1>3. ASSUME NEW j \in 1..Len(probes'), ~rec'[probes'[j].run].probe
      PROVE  rec'[probes'[j].run].outcome \in {"running", "interrupted"}
  <2>1. CASE j \in 1..Len(probes)
    <3> DEFINE r == probes[j].run
    <3>1. r \in Runs /\ probes'[j] = probes[j] /\ rec[r].outcome # "none"
      BY <1>0, <1>g, <2>1, ProbeRuns DEF LogInv
    <3>2. ~rec[r].probe => rec[r].outcome \in {"running", "interrupted"}
      BY <1>0, <2>1 DEF ProbeInv
    <3>3. pc = "record" /\ r = This => cell.probe
      BY <1>c, <2>1
    <3> HIDE DEF r
    <3>4. ~rec'[r].probe
      BY <1>3, <3>1 DEF r
    <3>5. rec'[r].outcome \in {"running", "interrupted"}
      BY <3>1, <3>2, <3>3, <3>4, RecordsMove
    <3> QED
      BY <3>1, <3>5 DEF r
  <2>2. CASE j \notin 1..Len(probes)
    <3>1. rec' = rec /\ rec[This].outcome = "running" /\ probes'[j].run = This
      BY <1>g, <2>2
    <3> QED
      BY <3>1
  <2> QED
    BY <2>1, <2>2
<1> QED
  BY <1>1, <1>2, <1>3, OrderStep DEF ProbeInv

\* What authFault finds is the probe before the cell's own.
LEMMA AuthFaultIsRepeat ==
    ASSUME IInv, pc = "probed", cell.status \in Auth, AuthFault(This, cell.status)
    PROVE  Repeats(Len(probes))
<1>0. /\ TypeInv /\ LogInv /\ CellInv /\ PathInv /\ ProbeInv
      /\ began \in Seq(Runs) /\ probes \in Seq(ProbeType)
  BY DEF IInv, TypeInv
<1>1. /\ This \in Runs /\ Len(began) > 0 /\ began[Len(began)] = This
      /\ cell.probe /\ cell.status = probes[Len(probes)].status
      /\ Len(probes) > 0 /\ probes[Len(probes)].run = This
  BY <1>0 DEF CellInv, PathInv, InCell, Sent
<1>2. Len(began) \in Nat /\ Len(probes) \in Nat
  BY <1>0
<1>3. DOMAIN began = 1..Len(began)
  BY <1>0
<1>4. Len(began) \in 1..Len(began)
  BY <1>1, <1>2
<1>5. Position(This) = Len(began)
  <2>1. \A i \in DOMAIN began : began[i] = This => i = Len(began)
    BY <1>0, <1>1, <1>3, <1>4 DEF LogInv
  <2> QED
    BY <1>1, <1>3, <1>4, <2>1 DEF Position
<1> DEFINE ends == {i \in 1..(Len(began) - 1) :
                      \/ rec[began[i]].probe
                      \/ rec[began[i]].outcome \in {"interrupted", "running"}}
           m == Max(ends)
<1>6. /\ ends # {} /\ rec[began[m]].probe
      /\ rec[began[m]].status = cell.status \/ cell.status \in rec[began[m]].auth
  BY <1>5 DEF AuthFault, Outcome
<1>7. m \in ends /\ \A i \in ends : m >= i
  <2>1. ends \in SUBSET (0..Len(began))
    BY <1>2
  <2> HIDE DEF ends
  <2> QED
    BY <1>2, <1>6, <2>1, MaxIs
<1>8. ends \subseteq 1..(Len(began) - 1)
  OBVIOUS
<1>9. ASSUME NEW i \in 1..(Len(began) - 1), rec[began[i]].probe
                 \/ rec[began[i]].outcome \in {"interrupted", "running"}
      PROVE  i \in ends
  BY <1>9
<1> HIDE DEF ends, m
<1>10. m \in 1..Len(began) /\ m < Len(began) /\ began[m] \in Runs
  BY <1>0, <1>2, <1>7, <1>8
<1>11. began[m] # This
  BY <1>0, <1>1, <1>2, <1>4, <1>10 DEF LogInv
<1>12. PICK j \in 1..Len(probes) :
         probes[j].run = began[m] /\ rec[began[m]].status \in {"none", probes[j].status}
  BY <1>0, <1>6, <1>10 DEF ProbeInv
<1>13. j < Len(probes)
  BY <1>1, <1>2, <1>11, <1>12
<1>14. j = Len(probes) - 1
  <2> SUFFICES ASSUME j # Len(probes) - 1 PROVE FALSE
    OBVIOUS
  <2> DEFINE b == Len(probes) - 1
  <2>1. b \in 1..Len(probes) /\ j < b /\ b # Len(probes)
    BY <1>2, <1>13
  <2> HIDE DEF b
  <2>2. probes[b].run \in Runs /\ rec[probes[b].run].outcome # "none"
    BY <1>0, <2>1, ProbeRuns DEF LogInv
  <2>3. PICK q \in 1..Len(began) : began[q] = probes[b].run
    BY <1>0, <2>2 DEF LogInv
  <2>4. m < q
    BY <1>0, <1>10, <1>12, <2>1, <2>3 DEF ProbeInv
  <2>5. Len(probes) \in 1..Len(probes)
    BY <1>1, <1>2
  <2>6. probes[b].run # This
    BY <1>0, <1>1, <2>1, <2>5 DEF LogInv
  <2>7. q \in 1..(Len(began) - 1)
    BY <1>1, <1>2, <2>3, <2>6
  <2>8. rec[began[q]].probe \/ rec[began[q]].outcome \in {"interrupted", "running"}
    BY <1>0, <2>1, <2>3 DEF ProbeInv
  <2>9. q \in ends
    BY <1>9, <2>7, <2>8
  <2> QED
    BY <1>7, <1>10, <2>4, <2>9
<1>15. rec[began[m]].auth \subseteq seen[began[m]]
  BY <1>0, <1>10 DEF ProbeInv
<1>16. cell.status # "none"
  BY DEF Auth
<1>17. \/ probes[Len(probes) - 1].status = probes[Len(probes)].status
       \/ probes[Len(probes)].status \in seen[probes[Len(probes) - 1].run]
  BY <1>1, <1>6, <1>12, <1>14, <1>15, <1>16
<1>18. Len(probes) > 1
  BY <1>2, <1>14
<1> QED
  BY <1>17, <1>18 DEF Repeats

\* A probe that repeats one keeps doing so.
LEMMA RepeatStays ==
    ASSUME IInv, [Next]_vars, NEW j \in 1..Len(probes), Repeats(j)
    PROVE  Repeats(j)'
<1>1. Len(probes) \in Nat /\ j > 1 /\ j - 1 \in 1..Len(probes)
  BY ProbesGrow DEF Repeats
<1>2. probes'[j] = probes[j] /\ probes'[j - 1] = probes[j - 1]
  BY <1>1, ProbesGrow
<1>3. probes[j - 1].run \in Runs
  BY <1>1, ProbeRuns DEF IInv
<1>4. seen[probes[j - 1].run] \subseteq seen'[probes[j - 1].run]
  BY <1>3, ProbesGrow
<1> QED
  BY <1>1, <1>2, <1>4 DEF Repeats

\* Stops for a 401 or 403.
LEMMA AuthStep == IInv /\ [Next]_vars => AuthInv'
<1> SUFFICES ASSUME IInv, [Next]_vars PROVE AuthInv'
  OBVIOUS
<1>0. TypeInv /\ LogInv /\ CellInv /\ RetainInv /\ PathInv /\ ProbeInv /\ AuthInv
  BY DEF IInv
<1>g. /\ Len(probes) \in Nat
      /\ \/ probes' = probes
         \/ Sends /\ rec' = rec /\ probes'[Len(probes')].run = This
      /\ \A j \in 1..Len(probes) : j \in 1..Len(probes') /\ probes'[j] = probes[j]
      /\ \A j \in 1..Len(probes') : j \in 1..Len(probes) \/ j = Len(probes')
  BY ProbesGrow DEF Sends
<1>1. ASSUME pc' \in InCell, cell'.why = "auth" PROVE cell'.probe /\ Repeats(Len(probes))'
  <2>1. CASE Sends \/ Begin
    <3>1. CASE Sends
      BY <1>0, <1>1, <3>1 DEF Sends, PathInv, Before
    <3>2. CASE Begin
      BY <1>0, <1>1, <3>2, BeginMoves
    <3> QED
      BY <2>1, <3>1, <3>2
  <2>2. CASE ~Sends /\ pc \in InCell /\ cell.why = "auth" /\ cell'.probe = cell.probe
    <3>1. cell.probe /\ Repeats(Len(probes)) /\ Len(probes) > 0
      BY <1>0, <2>2 DEF AuthInv, PathInv
    <3>2. Len(probes) \in 1..Len(probes) /\ probes' = probes
      BY <1>g, <2>2, <3>1
    <3>3. \A j \in 1..Len(probes) : Repeats(j) => Repeats(j)'
      BY RepeatStays
    <3> QED
      BY <2>2, <3>1, <3>2, <3>3 DEF Repeats
  <2>3. CASE Finishes
    <3>1. pc = "probed" /\ cell.status \in Auth /\ AuthFault(This, cell.status)
      BY <1>1, <2>3 DEF Finishes
    <3>2. Repeats(Len(probes))
      BY <3>1, AuthFaultIsRepeat
    <3>3. cell'.probe /\ UNCHANGED <<probes, seen>>
      BY <1>0, <2>3, <3>1 DEF Finishes, Kept, PathInv, Sent
    <3> QED
      BY <3>2, <3>3 DEF Repeats
  <2>4. CASE Idle \/ Advances \/ Hears \/ Closes
    <3>1. pc \in InCell /\ cell'.why = cell.why /\ cell'.probe = cell.probe /\ ~Sends
      BY <1>1, <2>4 DEF Idle, Advances, Hears, Closes, Sends, AfterRetain, SameCell, InCell, Before,
         Sent
    <3> QED
      BY <1>1, <2>2, <3>1
  <2> QED
    BY <1>0, <1>1, <2>1, <2>3, <2>4, Steps, NotInCell
<1>2. ASSUME NEW j \in 1..Len(probes'), rec'[probes'[j].run].why = "auth" PROVE Repeats(j)'
  <2>1. CASE j \in 1..Len(probes)
    <3> DEFINE r == probes[j].run
    <3>1. r \in Runs /\ probes'[j] = probes[j] /\ rec'[r].why = "auth"
      BY <1>0, <1>2, <1>g, <2>1, ProbeRuns
    <3>2. rec[r].why = "auth" => Repeats(j)
      BY <1>0, <2>1 DEF AuthInv
    <3>3. CASE pc = "record" /\ r = This /\ cell.why = "auth"
      <4>1. cell.probe /\ Repeats(Len(probes)) /\ Len(probes) > 0
            /\ probes[Len(probes)].run = This
        BY <1>0, <3>3 DEF AuthInv, PathInv, InCell
      <4>2. Len(probes) \in 1..Len(probes)
        BY <1>g, <4>1
      <4>3. j = Len(probes)
        BY <1>0, <2>1, <3>3, <4>1, <4>2 DEF LogInv
      <4> QED
        BY <4>1, <4>2, <4>3, RepeatStays
    <3>4. CASE rec[r].why = "auth"
      BY <2>1, <3>2, <3>4, RepeatStays
    <3> HIDE DEF r
    <3> QED
      BY <3>1, <3>3, <3>4, RecordsMove
  <2>2. CASE j \notin 1..Len(probes)
    <3>1. Sends /\ rec' = rec /\ probes'[j].run = This
      BY <1>g, <2>2
    <3>2. rec[This].outcome = "running" /\ This \in Runs
      BY <1>0, <3>1 DEF Sends, CellInv, InCell, Before
    <3>3. rec[This].why = "none"
      BY <1>0, <3>2 DEF AuthInv
    <3> QED
      BY <1>2, <3>1, <3>3
  <2> QED
    BY <2>1, <2>2
<1>3. ASSUME NEW r \in Runs, rec'[r].outcome = "running" PROVE rec'[r].why = "none"
  BY <1>0, <1>3, RecordsMove DEF AuthInv
<1> QED
  BY <1>1, <1>2, <1>3 DEF AuthInv

(***************************************************************************)
(* The theorems.                                                           *)
(***************************************************************************)

\* The invariant holds of every state of a window.
THEOREM Inductive == Spec => []IInv
<1>1. IInv /\ [Next]_vars => IInv'
  BY TypeStep, LogStep, CellStep, PathStep, RetainStep, LadderStep, PagesStep, CountedStep,
     RerunStep, ProbeStep, AuthStep DEF IInv
<1> QED
  BY InitInv, <1>1, PTL DEF Spec

\* Every variable has its type.
THEOREM TypeCorrect == Spec => []TypeOK
<1>1. IInv => TypeOK
  <2> SUFFICES ASSUME IInv PROVE TypeOK
    OBVIOUS
  <2>1. TypeInv
    BY DEF IInv
  <2>2. \A r \in Runs : Outcome(r) \in Outcomes /\ rec[r].auth \subseteq Auth
    BY <2>1 DEF TypeInv, RecType, Outcome
  <2>3. cell.run \in Runs \cup {<<0, 0>>}
    BY <2>1 DEF TypeInv, CellType
  <2> QED
    BY <2>1, <2>2, <2>3 DEF TypeInv, TypeOK
<1> QED
  BY Inductive, <1>1, PTL

\* Over any number of crashes, stops and restarts, no run is begun twice and
\* none is probed twice.
THEOREM NeverRunTwice == Spec => []NeverTwice
<1>1. IInv => NeverTwice
  <2> SUFFICES ASSUME IInv PROVE NeverTwice
    OBVIOUS
  <2>1. LogInv /\ began \in Seq(Runs) /\ probes \in Seq(ProbeType)
    BY DEF IInv, TypeInv
  <2>2. DOMAIN began = 1..Len(began) /\ DOMAIN probes = 1..Len(probes)
    BY <2>1
  <2> QED
    BY <2>1, <2>2 DEF LogInv, NeverTwice
<1> QED
  BY Inductive, <1>1, PTL

\* For any bound and any order of first and second attempts, the re-runs on
\* record are within the bound and stay the ones the records allow.
THEOREM RerunsAlwaysStand == Spec => []RerunsStand
<1>1. IInv => RerunsStand
  <2> SUFFICES ASSUME IInv PROVE RerunsStand
    OBVIOUS
  <2> DEFINE R == {c \in Second : <<c, 2>> \in Recorded}
  <2>1. R \in SUBSET Taken
    BY DEF IInv, RerunInv, Recorded, Outcome
  <2>2. Cardinality(Taken) <= MaxReruns /\ IsFiniteSet(Taken)
    BY TakenBound
  <2> HIDE DEF R
  <2>3. IsFiniteSet(R) /\ Cardinality(R) <= Cardinality(Taken)
    BY <2>1, <2>2, FS_Subset
  <2>4. Cardinality(R) \in Nat /\ Cardinality(Taken) \in Nat /\ MaxReruns \in Nat
    BY <2>2, <2>3, FS_CardinalityType, RunsAre
  <2>5. Cardinality(R) <= MaxReruns
    BY <2>2, <2>3, <2>4
  <2> QED
    BY <2>1, <2>5 DEF R, RerunsStand
<1> QED
  BY Inductive, <1>1, PTL

\* What a window leaves behind is what readRouteCells accepts.
THEOREM PagesAlwaysAccept == Spec => []PagesAccept
<1>1. IInv => PagesAccept
  BY DEF IInv
<1> QED
  BY Inductive, <1>1, PTL

\* A cell that counts was probed, is settled, and saw nothing that voids it.
THEOREM CountedAlwaysSound == Spec => []CountedIsSound
<1>1. IInv => CountedIsSound
  BY DEF IInv
<1> QED
  BY Inductive, <1>1, PTL

\* A route stopped for a 401 or 403 had that status on the probe before, for
\* any number of cells missed, blocked, interrupted or forgotten in between.
THEOREM AuthStopsAlwaysRepeat == Spec => []AuthStopsAreRepeats
<1>1. IInv => AuthStopsAreRepeats
  <2> SUFFICES ASSUME IInv PROVE AuthStopsAreRepeats
    OBVIOUS
  <2>1. AuthInv /\ probes \in Seq(ProbeType)
    BY DEF IInv, TypeInv
  <2>2. DOMAIN probes = 1..Len(probes)
    BY <2>1
  <2> QED
    BY <2>1, <2>2 DEF AuthInv, AuthStopsAreRepeats, Repeats
<1> QED
  BY Inductive, <1>1, PTL

\* No step of any process rewrites a record that is not running.
THEOREM RecordsAlwaysFinal == Spec => RecordsFinal
<1>1. IInv /\ [Next]_vars =>
        [\A r \in Recorded : Outcome(r) # "running" => rec'[r] = rec[r]]_vars
  BY FinalStep DEF Recorded, Outcome
<1> QED
  BY Inductive, <1>1, PTL DEF Spec, RecordsFinal
=============================================================================
