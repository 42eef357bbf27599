---------------------------- MODULE ReleaseRoute ----------------------------
(***************************************************************************)
(* The process that runs one route of a release over its window            *)
(* (cmd/percentes-release: route.go, cell.go, stops.go, close.go).  It     *)
(* keeps nothing: each turn of its loop reads the cell records anew, so a  *)
(* process that died or stopped is continued by the next one.  A cell is   *)
(* checked, admitted in the ledger, probed, laddered, retained, settled    *)
(* and recorded, in that order, and each of these may fail or be the last  *)
(* thing the process does.                                                 *)
(*                                                                         *)
(* A record keeps what later decisions read: its outcome, whether a probe  *)
(* was sent, the probe's status, the 401 and 403 statuses of the ladder,   *)
(* and for a stop its kind.  The ledger is the route's price revision and  *)
(* each cell's admission (AdmissionLedger says why that is enough).        *)
(***************************************************************************)
EXTENDS Integers, Sequences, FiniteSets, FiniteSetsExt

CONSTANTS
    C,          \* cells of the route, 1..C by their first attempt's start
    Second,     \* the cells whose second attempt is inside the window
    Start,      \* run |-> its scheduled start
    Tolerance,  \* schedule.StartTolerance
    Horizon,    \* last instant of the model's clock
    MaxReruns,  \* schedule.MaxReruns
    MaxFaults,  \* crashes and input/output errors of a behaviour
    MaxRev,     \* price lines an operator records
    Statuses,   \* what a probe may return
    Events      \* what a ladder's responses may show

Cells == 1..C
Runs == (Cells \X {1}) \cup (Second \X {2})
Auth == {"401", "403"}

ASSUME WindowAssumption ==
    /\ C \in Nat /\ Second \subseteq Cells /\ MaxReruns \in Nat
    /\ Tolerance \in Nat /\ Horizon \in Nat
    /\ MaxFaults \in Nat /\ MaxRev \in Nat
    /\ Start \in [Runs -> 0..Horizon]
    /\ \A r, s \in Runs : Start[r] = Start[s] => r = s
    /\ \A r \in Runs : Start[r] + Tolerance < Horizon
    /\ \A c, d \in Cells : c < d => Start[<<c, 1>>] < Start[<<d, 1>>]
    /\ \A c \in Second : Start[<<c, 1>>] < Start[<<c, 2>>]
    /\ Statuses \subseteq Auth \cup {"ok", "billing", "blocked"}
    /\ Events \subseteq Auth \cup {"billing", "emfile", "mismatch"}

VARIABLES
    now,        \* the clock
    rec,        \* each run's cell.json
    began,      \* the recorded runs by StartUTC
    attempts,   \* runs whose directory holds an attempts file
    manifest,   \* the outcome each run's manifest carries
    admission,  \* each run's admission: none, open or settled
    rev,        \* the route's price revision in the ledger
    closed,     \* the window-close record is written
    pc,         \* where the process is; down when there is none
    cell,       \* runCell's locals
    faults,
    probes,     \* history: the probes really sent, with what they returned
    seen        \* history: what each run's ladder responses really showed

files == <<rec, began, attempts, manifest, closed>>
ledger == <<admission, rev>>
history == <<probes, seen>>
vars == <<now, files, ledger, pc, cell, faults, history>>

----------------------------------------------------------------------------
(* What the loop reads in the records.                                      *)

NoRecord ==
    [outcome |-> "none", why |-> "none", probe |-> FALSE, status |-> "none",
     auth |-> {}]

Outcome(r) == rec[r].outcome

Recorded == {r \in Runs : Outcome(r) # "none"}

Rerunnable(r) == Outcome(r) \notin {"none", "running", "counted"}

\* Cells whose first attempt does not count and whose second is in the window.
Eligible == {c \in Second : Rerunnable(<<c, 1>>)}

\* Mutant: the latest failures take the re-runs.
TakenLatest ==
    {c \in Eligible : Cardinality({d \in Eligible : d > c}) < MaxReruns}

\* The re-runs state() takes: the first of these, up to the route's bound.
Taken ==
    {c \in Eligible : Cardinality({d \in Eligible : d < c}) < MaxReruns}

Unrecorded == ((Cells \X {1}) \cup (Taken \X {2})) \ Recorded

First(S) == CHOOSE r \in S : \A s \in S : Start[r] <= Start[s]

\* The missed and interrupted cells whose directory holds no manifest and no
\* attempts file.
Unlabelled ==
    {r \in Runs : Outcome(r) \in {"missed", "interrupted"}
                    /\ manifest[r] = "none" /\ r \notin attempts}

Position(r) == CHOOSE i \in DOMAIN began : began[i] = r

\* Mutant: an interrupted cell is passed over.
AuthFaultPast(r, s) ==
    LET told == {i \in 1..(Position(r) - 1) : rec[began[i]].probe} IN
    told # {} /\ LET c == rec[began[Max(told)]] IN c.status = s \/ s \in c.auth

\* authFault: the latest earlier cell that sent a probe saw status s too; an
\* interrupted cell that records no probe ends the search.
AuthFault(r, s) ==
    LET ends == {i \in 1..(Position(r) - 1) :
                   \/ rec[began[i]].probe
                   \/ Outcome(began[i]) \in {"interrupted", "running"}} IN
    /\ ends # {}
    /\ LET c == rec[began[Max(ends)]] IN
       c.probe /\ (c.status = s \/ s \in c.auth)

----------------------------------------------------------------------------
NoCell ==
    [run |-> <<0, 0>>, check |-> 0, rev |-> 0, outcome |-> "none",
     why |-> "none", probe |-> FALSE, status |-> "none", cause |-> "none",
     seen |-> {}, failed |-> FALSE]

Init ==
    /\ now = 0
    /\ rec = [r \in Runs |-> NoRecord] /\ began = << >>
    /\ attempts = {} /\ manifest = [r \in Runs |-> "none"]
    /\ admission = [r \in Runs |-> "none"] /\ rev = 0 /\ closed = FALSE
    /\ pc = "down" /\ cell = NoCell /\ faults = 0
    /\ probes = << >> /\ seen = [r \in Runs |-> {}]

Goto(s) == pc' = s
This == cell.run
Fault == faults < MaxFaults /\ faults' = faults + 1
Quiet == UNCHANGED <<now, faults>>

----------------------------------------------------------------------------
(* The environment: time, the operator, and the end of the process.         *)

Tick ==
    /\ now < Horizon /\ now' = now + 1
    /\ UNCHANGED <<files, ledger, pc, cell, faults, history>>

RecordPrice ==
    /\ rev < MaxRev /\ rev' = rev + 1
    /\ UNCHANGED <<files, admission, pc, cell, history>> /\ Quiet

\* run is started (again): newRoute, then the loop.
Restart ==
    /\ pc = "down" /\ Goto("loop")
    /\ UNCHANGED <<files, ledger, cell, history>> /\ Quiet

Crash ==
    /\ pc # "down" /\ Fault
    /\ Goto("down") /\ cell' = NoCell
    /\ UNCHANGED <<now, files, ledger, history>>

----------------------------------------------------------------------------
(* The loop.                                                                *)

ReadAs(rec2) ==
    /\ pc = "loop" /\ Goto("label") /\ rec' = rec2
    /\ UNCHANGED <<began, attempts, manifest, closed, ledger, cell, history>>
    /\ Quiet

\* Mutants: a record left running is dropped, or kept, or a stop is taken for
\* an interruption.
ReadStateDrops ==
    ReadAs([r \in Runs |-> IF Outcome(r) = "running" THEN NoRecord ELSE rec[r]])
ReadStateKeeps == ReadAs(rec)
ReadStateStops ==
    ReadAs([r \in Runs |-> IF Outcome(r) \in {"running", "stopped"}
                           THEN [rec[r] EXCEPT !.outcome = "interrupted"]
                           ELSE rec[r]])

\* state: a record left running by an ended process becomes interrupted.
ReadState ==
    ReadAs([r \in Runs |-> IF Outcome(r) = "running"
                           THEN [rec[r] EXCEPT !.outcome = "interrupted"]
                           ELSE rec[r]])

\* labelCell: the empty attempts file first ...
LabelCell ==
    /\ pc = "label" /\ Unlabelled # {}
    /\ Goto("labelling")
    /\ cell' = [NoCell EXCEPT !.run = First(Unlabelled)]
    /\ attempts' = attempts \cup {First(Unlabelled)}
    /\ UNCHANGED <<rec, began, manifest, closed, ledger, history>> /\ Quiet

\* ... then the manifest, and the record again with its reasons.
LabelWritten ==
    /\ pc = "labelling" /\ Goto("label")
    /\ manifest' = [manifest EXCEPT ![This] = Outcome(This)]
    /\ cell' = NoCell
    /\ UNCHANGED <<rec, began, attempts, closed, ledger, history>> /\ Quiet

\* A label that fails ends the process; a failed frame store is reported after
\* the manifest.
LabelFails ==
    /\ pc = "labelling" /\ Fault /\ Goto("down")
    /\ manifest' \in {manifest, [manifest EXCEPT ![This] = Outcome(This)]}
    /\ cell' = NoCell
    /\ UNCHANGED <<now, rec, began, attempts, closed, ledger, history>>

Labelled == pc = "label" /\ Unlabelled = {}

\* windowClose, once no run is left; a refresh fault leaves it to the next run.
WindowClose ==
    /\ Labelled /\ Unrecorded = {} /\ Goto("down") /\ closed' = TRUE
    /\ UNCHANGED <<rec, began, attempts, manifest, ledger, cell, history>>
    /\ Quiet

CloseFails ==
    /\ Labelled /\ Unrecorded = {} /\ ~closed /\ Fault /\ Goto("down")
    /\ UNCHANGED <<now, files, ledger, cell, history>>

Late(r) == now > Start[r] + Tolerance

Miss ==
    /\ Labelled /\ Unrecorded # {}
    /\ LET r == First(Unrecorded) IN
       /\ Late(r) /\ Outcome(r) = "none"
       /\ rec' = [rec EXCEPT ![r].outcome = "missed"]
       /\ began' = Append(began, r)
    /\ Goto("loop")
    /\ UNCHANGED <<attempts, manifest, closed, ledger, cell, history>> /\ Quiet

Wait ==
    /\ Labelled /\ Unrecorded # {} /\ ~Late(First(Unrecorded))
    /\ Goto("waiting") /\ cell' = [NoCell EXCEPT !.run = First(Unrecorded)]
    /\ UNCHANGED <<files, ledger, history>> /\ Quiet

AbortWait ==
    /\ pc = "waiting" /\ Goto("down") /\ cell' = NoCell
    /\ UNCHANGED <<files, ledger, history>> /\ Quiet

----------------------------------------------------------------------------
(* runCell.                                                                 *)

\* The wait is over; the record is written as running before anything else.
Begin ==
    /\ pc = "waiting" /\ now >= Start[This] /\ Outcome(This) = "none"
    /\ rec' = [rec EXCEPT ![This].outcome = "running"]
    /\ began' = Append(began, This)
    /\ cell' = [cell EXCEPT !.check = 1] /\ Goto("check")
    /\ UNCHANGED <<attempts, manifest, closed, ledger, history>> /\ Quiet

\* finish, then retain.
Finish(outcome, why) ==
    /\ cell' = [cell EXCEPT !.outcome = outcome, !.why = why]
    /\ Goto("retain")

\* The clock, limits and balance are checked at the price of one snapshot.
ChecksPass ==
    /\ pc = "check" /\ Goto("admit") /\ cell' = [cell EXCEPT !.rev = rev]
    /\ UNCHANGED <<files, ledger, history>> /\ Quiet

ChecksEnd ==
    /\ pc = "check"
    /\ Finish("stopped", "limits") \/ Finish("blocked", "start")
    /\ UNCHANGED <<files, ledger, history>> /\ Quiet

\* AdmitAt: an admission at the checked price, or a refusal at a cap.
Admit ==
    /\ pc = "admit" /\ cell.rev = rev
    /\ admission' = [admission EXCEPT ![This] = "open"]
    /\ Goto("probe")
    /\ UNCHANGED <<files, rev, cell, history>> /\ Quiet

AdmitRefused ==
    /\ pc = "admit" /\ cell.rev = rev
    /\ Finish("stopped", "refused")
    /\ UNCHANGED <<files, ledger, history>> /\ Quiet

\* A price recorded since repeats the checks once and then blocks the start.
PriceChanged ==
    /\ pc = "admit" /\ cell.rev # rev
    /\ IF cell.check = 1
       THEN Goto("check") /\ cell' = [cell EXCEPT !.check = 2]
       ELSE Finish("blocked", "price")
    /\ UNCHANGED <<files, ledger, history>> /\ Quiet

\* The probe goes out and is answered; its record follows.
Probe ==
    /\ pc = "probe"
    /\ \E s \in Statuses :
          /\ probes' = Append(probes, [run |-> This, status |-> s])
          /\ cell' = [cell EXCEPT !.probe = TRUE, !.status = s]
    /\ Goto("probed")
    /\ UNCHANGED <<files, ledger, seen>> /\ Quiet

\* A documented billing refusal stops the route, a repeated 401 or 403 too;
\* another blocking status blocks the start.
ProbeEnds ==
    /\ pc = "probed" /\ cell.status # "ok"
    /\ CASE cell.status = "billing" -> Finish("stopped", "billing")
         [] cell.status \in Auth /\ AuthFault(This, cell.status) ->
              Finish("stopped", "auth")
         [] OTHER -> Finish("blocked", "probe")
    /\ UNCHANGED <<files, ledger, history>> /\ Quiet

ProbePasses ==
    /\ pc = "probed" /\ cell.status = "ok" /\ Goto("interval")
    /\ UNCHANGED <<files, ledger, cell, history>> /\ Quiet

AbortInterval ==
    /\ pc = "interval" /\ Finish("stopped", "abort")
    /\ UNCHANGED <<files, ledger, history>> /\ Quiet

StartLadder ==
    /\ pc = "interval" /\ Goto("ladder")
    /\ UNCHANGED <<files, ledger, cell, history>> /\ Quiet

\* The context keeps the first cause it is cancelled with.
CauseAfter(e) ==
    IF cell.cause = "none" /\ e \in {"billing", "emfile", "abort"}
    THEN e ELSE cell.cause

\* OnDone of a request that shows something; requests in flight when the
\* ladder is cancelled still end.
Response(e) ==
    /\ pc = "ladder" /\ e \in Events \ seen[This]
    /\ seen' = [seen EXCEPT ![This] = @ \cup {e}]
    /\ cell' = [cell EXCEPT !.cause = CauseAfter(e), !.seen = @ \cup {e}]
    /\ UNCHANGED <<files, ledger, pc, probes>> /\ Quiet

AbortLadder ==
    /\ pc = "ladder" /\ cell.cause = "none"
    /\ cell' = [cell EXCEPT !.cause = "abort"]
    /\ UNCHANGED <<files, ledger, pc, history>> /\ Quiet

\* Mutant: the outcome forgets requests that failed with EMFILE after another
\* cause, and mismatches.
CellOutcomeCause(valid) ==
    CASE cell.cause \in {"billing", "abort"} -> "stopped"
      [] cell.cause = "emfile" \/ ~valid -> "invalid"
      [] OTHER -> "counted"

\* cellOutcome; valid stands for the gates, tripwires, protocol, clock flag
\* and canary.
CellOutcome(valid) ==
    CASE cell.cause \in {"billing", "abort"} -> "stopped"
      [] cell.cause \notin {"billing", "abort"} /\ "mismatch" \in cell.seen ->
           "model_mismatch"
      [] cell.cause \notin {"billing", "abort"} /\ "mismatch" \notin cell.seen
           /\ ("emfile" \in cell.seen \/ ~valid) -> "invalid"
      [] OTHER -> "counted"

LadderEnds ==
    /\ pc = "ladder"
    /\ \E valid \in BOOLEAN : Finish(CellOutcome(valid), cell.cause)
    /\ UNCHANGED <<files, ledger, history>> /\ Quiet

\* retain: the attempts file ...
Retain ==
    /\ pc = "retain" /\ Goto("retaining")
    /\ attempts' = attempts \cup {This}
    /\ UNCHANGED <<rec, began, manifest, closed, ledger, cell, history>> /\ Quiet

AfterRetain == IF admission[This] = "open" THEN "settle" ELSE "record"

\* ... and the manifest with the cell's label.
RetainManifest ==
    /\ pc = "retaining" /\ Goto(AfterRetain)
    /\ manifest' = [manifest EXCEPT ![This] = cell.outcome]
    /\ UNCHANGED <<rec, began, attempts, closed, ledger, cell, history>> /\ Quiet

\* Mutant: retain's failure is dropped.
RetainFailsSilently ==
    /\ pc = "retaining" /\ Fault /\ Goto(AfterRetain)
    /\ UNCHANGED <<now, files, ledger, cell, history>>

\* An error of retain is kept; a failed frame store is reported after the
\* manifest.
RetainFails ==
    /\ pc = "retaining" /\ Fault /\ Goto(AfterRetain)
    /\ cell' = [cell EXCEPT !.failed = TRUE]
    /\ manifest' \in {manifest, [manifest EXCEPT ![This] = cell.outcome]}
    /\ UNCHANGED <<now, rec, began, attempts, closed, ledger, history>>

\* Any earlier error goes straight to the deferred settlement and record.  An
\* error of the probe's own encoding or file leaves its status unrecorded, and
\* an admission whose append failed may be in the ledger, never to be settled.
Errors ==
    /\ pc \in {"check", "admit", "probe", "probed", "interval", "retain"}
    /\ Fault /\ Goto(AfterRetain)
    /\ \E s \in {cell.status} \cup (IF pc = "probed" THEN {"none"} ELSE {}) :
          cell' = [cell EXCEPT !.failed = TRUE, !.status = s]
    /\ admission' \in IF pc = "admit"
                      THEN {admission, [admission EXCEPT ![This] = "open"]}
                      ELSE {admission}
    /\ UNCHANGED <<now, files, rev, history>>

\* The deferred calls, last first: Settle ...
Settle ==
    /\ pc = "settle" /\ Goto("record")
    /\ admission' = [admission EXCEPT ![This] = "settled"]
    /\ UNCHANGED <<files, rev, cell, history>> /\ Quiet

SettleFails ==
    /\ pc = "settle" /\ Fault /\ Goto("record")
    /\ admission' \in {admission, [admission EXCEPT ![This] = "settled"]}
    /\ cell' = [cell EXCEPT !.failed = TRUE]
    /\ UNCHANGED <<now, files, rev, history>>

\* ... then cell.json.  An error, or a stop, ends the process.
Final == IF cell.failed THEN "interrupted" ELSE cell.outcome

Record ==
    /\ pc = "record"
    /\ rec' = [rec EXCEPT ![This] =
                 [outcome |-> Final, why |-> cell.why, probe |-> cell.probe,
                  status |-> cell.status, auth |-> cell.seen \cap Auth]]
    /\ Goto(IF Final \in {"interrupted", "stopped"} THEN "down" ELSE "loop")
    /\ cell' = NoCell
    /\ UNCHANGED <<began, attempts, manifest, closed, ledger, history>> /\ Quiet

RecordFails ==
    /\ pc = "record" /\ Fault /\ Goto("down") /\ cell' = NoCell
    /\ UNCHANGED <<now, files, ledger, history>>

----------------------------------------------------------------------------
\* The process's own steps when nothing fails.
Loop ==
    \/ ReadState \/ LabelCell \/ LabelWritten \/ WindowClose \/ Miss \/ Wait

RunCell ==
    \/ Begin \/ ChecksPass \/ ChecksEnd \/ Admit \/ AdmitRefused
    \/ PriceChanged \/ Probe \/ ProbeEnds \/ ProbePasses \/ StartLadder
    \/ LadderEnds \/ Retain \/ RetainManifest \/ Settle \/ Record

Faulty ==
    \/ Crash \/ LabelFails \/ CloseFails \/ RetainFails \/ Errors
    \/ SettleFails \/ RecordFails

Operator == RecordPrice \/ AbortWait \/ AbortInterval \/ AbortLadder

Next ==
    \/ Loop \/ RunCell \/ Faulty \/ Operator \/ Restart \/ Tick
    \/ \E e \in Events : Response(e)

Spec == Init /\ [][Next]_vars

\* The clock runs, the process does, and an operator starts it again when it
\* has ended; nobody need abort it, and no response need come.
FairSpec ==
    Spec /\ WF_vars(Tick) /\ WF_vars(Restart) /\ WF_vars(Loop \/ RunCell)

----------------------------------------------------------------------------
Finished == {"counted", "invalid", "model_mismatch", "blocked", "stopped"}
Outcomes == Finished \cup {"none", "running", "missed", "interrupted"}

\* Every variable has its type.
TypeOK ==
    /\ now \in 0..Horizon /\ rev \in 0..MaxRev /\ closed \in BOOLEAN
    /\ \A r \in Runs : Outcome(r) \in Outcomes /\ rec[r].auth \subseteq Auth
    /\ began \in Seq(Runs) /\ attempts \subseteq Runs
    /\ manifest \in [Runs -> Outcomes \ {"running"}]
    /\ admission \in [Runs -> {"none", "open", "settled"}]
    /\ cell.run \in Runs \cup {<<0, 0>>} /\ faults \in 0..MaxFaults

\* "a cell attempt is never run twice" (writeNew), over any number of crashes,
\* stops and restarts: one record, one probe.
NeverTwice ==
    /\ \A i, j \in DOMAIN began : began[i] = began[j] => i = j
    /\ \A i, j \in DOMAIN probes : probes[i].run = probes[j].run => i = j

\* The re-runs on record are among those the records allow now: never more
\* than the bound, never after a first attempt that counts, and a restart
\* never gives a taken re-run to another cell.
RerunsStand ==
    /\ {c \in Second : <<c, 2>> \in Recorded} \subseteq Taken
    /\ Cardinality({c \in Second : <<c, 2>> \in Recorded}) <= MaxReruns

\* What crashes and failures leave of a cell passes readRouteCells' comparison
\* of its run record with its manifest: a finished outcome is in both.
PagesAccept ==
    \A r \in Runs : Outcome(r) \in Finished => manifest[r] = Outcome(r)

\* A cell that counts was probed once, is settled in the ledger, and had no
\* response that stops the route, lacks a descriptor or names another model.
CountedIsSound ==
    \A r \in Runs : Outcome(r) = "counted" =>
       /\ admission[r] = "settled" /\ rec[r].probe
       /\ seen[r] \cap {"billing", "emfile", "mismatch"} = {}

\* authFault is evidence: a route stopped for a 401 or 403 had the same status
\* on the cell that sent the last probe before, although cells may have been
\* missed, blocked, interrupted or forgotten in between.
AuthStopsAreRepeats ==
    \A j \in DOMAIN probes :
       rec[probes[j].run].why = "auth" =>
          /\ j > 1
          /\ \/ probes[j - 1].status = probes[j].status
             \/ probes[j].status \in seen[probes[j - 1].run]

\* What later decisions read of a finished record (outcome, probe, status and
\* stop) is never rewritten; a label adds reasons, which the model leaves out.
RecordsFinal ==
    [][\A r \in Recorded : Outcome(r) # "running" => rec'[r] = rec[r]]_vars

\* However often the process stops, fails or dies, the window closes, with
\* every run recorded, none of them running, and none left unlabelled.
WindowCloses ==
    <>[](closed /\ Unrecorded = {} /\ Unlabelled = {}
           /\ \A r \in Runs : Outcome(r) # "running")

\* runCell's comment: "a documented billing refusal on the probe or inside the
\* ladder stops the route".
BillingStopsRoute ==
    \A r \in Runs :
       "billing" \in seen[r] => Outcome(r) \notin Finished \ {"stopped"}
=============================================================================
