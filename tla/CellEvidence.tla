---------------------------- MODULE CellEvidence ----------------------------
(***************************************************************************)
(* One release cell's directory, from its first record to its manifest:    *)
(* runCell's files and retain, and labelCell for a missed or interrupted   *)
(* cell (cmd/percentes-release/cell.go), the manifest and its completeness *)
(* check (internal/evidence).  The process may die between any two files,  *)
(* and a step may fail.                                                    *)
(*                                                                         *)
(* A file is replaced whole (ReplaceFile), so each write is one step; a    *)
(* frame store is created once and never replaced.  A file's content is    *)
(* who wrote it, or what the checks compare; hashes, keyed or not, are     *)
(* equality of content.  The other routes' series are in DispatchSeries.   *)
(***************************************************************************)
EXTENDS Integers, Sequences, FiniteSets, FiniteSetsExt, Functions, Sums

CONSTANTS
    Results,      \* what a ladder may end with
    Edges,        \* GapEdgesUs
    ConfidentialTarget, \* the target has a confidential limit
    Failing,      \* the steps that may fail
    MaxFaults,    \* bounds the deaths and failures
    None

VARIABLES
    files,     \* the start, end and probe records: name -> writer
    series,    \* the cell's own dispatch series, None before it is written
    frames,    \* the frame store's run directories: lines and copies, or None
    attempts, manifest, record,   \* None before they are written
    mem,       \* the process's own state, with where it is
    faults,
    kept       \* history: the first attempts file

cellVars == <<files, series, frames, attempts, manifest, record, mem, faults, kept>>

Starts == <<"clock", "status", "refresh", "balance">>

\* Beside the frames: the operator file and its records with the source diff
\* (WriteCopies), the configuration as loaded (WriteConfigCopy) and what is
\* held (the probe's, the refresh's and the operator error's).
Copies == <<"operator", "records", "config", "held">>

\* The copies the completeness check reads; the configuration's where it
\* differs from the one published.
Checked == {"operator", "records"} \cup (IF ConfidentialTarget THEN {"config"} ELSE {})

-----------------------------------------------------------------------------
(* The inter-chunk gaps. *)

\* gapBin: the bin of a gap; one under the first edge is in the first bin.
GapBin(us) == Max({1} \cup { i \in DOMAIN Edges : Edges[i] <= us })

Measured(r) == r.outcome = "completed" /\ ~r.warmup

With(reqs) == { i \in DOMAIN reqs : Measured(reqs[i]) /\ reqs[i].step > 0 /\ reqs[i].itls # <<>> }

\* The gaps of the requests is in step k, and their counts per bin.
GapsAt(reqs, is, k) ==
    UNION { {i} \X DOMAIN reqs[i].itls : i \in { n \in is : reqs[n].step = k } }

Bins(reqs, gaps) ==
    [b \in DOMAIN Edges |-> Cardinality({ x \in gaps : GapBin(reqs[x[1]].itls[x[2]]) = b })]

Histograms(reqs, is) ==
    { [step |-> k, gaps |-> Cardinality(GapsAt(reqs, is, k)), counts |-> Bins(reqs, GapsAt(reqs, is, k))]
      : k \in { reqs[i].step : i \in is } }

StepGapsWarm(reqs) ==
    Histograms(reqs, { i \in DOMAIN reqs : reqs[i].outcome = "completed" /\ reqs[i].itls # <<>> })

\* StepGaps: each step's gaps, with their counts per bin.
StepGaps(reqs) == Histograms(reqs, With(reqs))

\* GapCounts: what the attempts give, each completion's content events less
\* one.
GapCounts(recs) ==
    LET with == { i \in DOMAIN recs : Measured(recs[i]) /\ recs[i].events > 1 }
        adds(k) == [i \in DOMAIN recs |->
                      IF i \in with /\ recs[i].step = k THEN recs[i].events - 1 ELSE 0]
    IN  { <<k, AddUp(adds(k), 1, Len(recs))>> : k \in { recs[i].step : i \in with } }

\* gapProblems: each histogram's counts are its gaps.
GapProblems(gaps) ==
    { g \in gaps : ~(g.step >= 1 /\ g.gaps >= 1 /\ g.gaps = AddUp(g.counts, 1, Len(Edges))) }

CheckGaps(gaps, recs) ==
    /\ GapProblems(gaps) = {}
    /\ { <<g.step, g.gaps>> : g \in gaps } = GapCounts(recs)

-----------------------------------------------------------------------------
(* The label and the gates. *)

Mismatches(reqs) == Cardinality({ i \in DOMAIN reqs : reqs[i].others # {} })
Reported(reqs) == UNION { {reqs[i].model} \cup reqs[i].others : i \in DOMAIN reqs } \ {""}
Sent(reqs) == Cardinality({ i \in DOMAIN reqs : reqs[i].sent })

\* modelProblems: every model other than the expected one is listed as a
\* mismatch, and the endpoint's count and list are the attempts'.
ModelsAgree(e, recs) ==
    /\ \A i \in DOMAIN recs : /\ recs[i].model \in {"", "expected"} \cup recs[i].others
                              /\ "expected" \notin recs[i].others
    /\ e.mismatches = Mismatches(recs) /\ e.reported = Reported(recs)

Gate(id, step, pass, only) == [id |-> id, step |-> step, pass |-> pass, only |-> only]

\* ReleaseG6: the steps with measured requests up to the last that sent one.
ReleaseG6(recs) ==
    LET at(k) == { i \in DOMAIN recs : ~recs[i].warmup /\ recs[i].step = k }
        last == Max({0} \cup { recs[i].step : i \in { n \in DOMAIN recs : ~recs[n].warmup /\ recs[n].sent } })
    IN  { Gate("G6", k, 10 * Cardinality({ i \in at(k) : recs[i].inTime }) >= 9 * Cardinality(at(k)), TRUE)
          : k \in { n \in 1..last : at(n) # {} } }

\* releaseGates: a run a stop interrupted has no whole-ladder G2, and a
\* step it left before its drain has no verdict.
ReleaseGates(res) ==
    IF res = None THEN {}
    ELSE (IF res.stopped THEN {} ELSE {Gate("G2", 0, res.whole, FALSE)})
           \cup { Gate("G2", k, res.steps[k] = "pass", FALSE) : k \in DOMAIN res.steps }
           \cup ReleaseG6(res.reqs)

\* cellOutcome of a run that reached the ladder.
CellOutcome(res, clockFlag) ==
    LET gates == IF res.stopped THEN { k \in DOMAIN res.steps : res.steps[k] = "fail" } = {} ELSE res.whole
        invalid == ~gates \/ res.cause = "emfile" \/ res.tripwire \/ clockFlag
    IN  CASE res.cause = "stop" -> "stopped"
          [] res.cause # "stop" /\ Mismatches(res.reqs) > 0 -> "model_mismatch"
          [] res.cause # "stop" /\ Mismatches(res.reqs) = 0 /\ invalid -> "client_invalid"
          [] OTHER -> "counted"

\* checkLabel: the label against the run's validity, gates and models.
CheckLabel(c, gates, mismatches) ==
    /\ c.outcome = "counted" =>
         /\ c.ladder /\ c.reasons = {} /\ mismatches = 0
         /\ \A g \in gates : g.pass \/ g.only
         /\ \E g \in gates : g.id = "G2" /\ g.step = 0
    /\ c.outcome # "counted" => c.reasons # {}
    /\ c.outcome = "model_mismatch" => mismatches > 0
    /\ c.outcome \in {"blocked", "missed"} => ~c.ladder

\* dispatchProblems and canaryProblems of the cell's own run.
OwnFinal(c) == c.outcome # "interrupted" => c.own.final
CanaryAgrees(c, gates) ==
    c.canary # None => c.canary = Cardinality({ g \in gates : g.id = "G2" /\ g.step > 0 })

\* checkCell: what the route gives (the run, schedule, ceiling and probes,
\* and CheckPublished of the verdict), the series, the gaps and the canary.
CheckCell(c, gates) ==
    c.route /\ OwnFinal(c) /\ GapProblems(c.gaps) = {} /\ CanaryAgrees(c, gates)

\* What NewManifest is given besides the cell's files: whether the operator
\* file and its records hold no confidential value (op.published), and
\* whether checkCell accepts what the route gives.
Terms == [operator : IF ConfidentialTarget THEN BOOLEAN ELSE {TRUE}, route : BOOLEAN]

\* NewManifest's refusals: the operator file, the cell, the label, and
\* requests where there was no ladder or the process died.
ManifestAllowed(c, res, terms) ==
    LET reqs == IF res = None THEN <<>> ELSE res.reqs IN
    /\ terms.operator
    /\ CheckCell(c, ReleaseGates(res))
    /\ CheckLabel(c, ReleaseGates(res), Mismatches(reqs))
    /\ ~c.ladder \/ c.outcome = "interrupted" => reqs = <<>>

\* CheckRelease, the files: the attempts file, the report pair, the clock,
\* start status and balance, and every other file as the manifest has it.
FilesAgree(m) ==
    /\ attempts # None /\ attempts = m.attempts
    /\ m.pair /\ files["pair"] # None
    /\ \A n \in DOMAIN m.files : files[n] = m.files[n]
    /\ {"clock", "status", "balance"} \subseteq DOMAIN m.files

\* CheckRelease, the cell's record against the attempts, and CheckPublished
\* of its verdict.
RecordAgrees(m) ==
    /\ CheckLabel(m, m.gates, m.endpoint.mismatches)
    /\ ModelsAgree(m.endpoint, attempts)
    /\ m.route
    /\ ~m.ladder \/ m.outcome = "interrupted" => attempts = <<>>
    /\ OwnFinal(m) /\ (m.outcome # "interrupted" => m.own.sent = Sent(attempts))
    /\ CheckGaps(m.gaps, attempts) /\ CanaryAgrees(m, m.gates)

\* CheckRelease, the frame store: a line per attempt, and the copies.
StoreAgrees(m) ==
    /\ m.frames # None /\ frames[m.frames].lines = Len(attempts)
    /\ Checked \subseteq frames[m.frames].copies

\* CheckRelease: what the completeness check asks of a manifest.
CheckRelease(m) == FilesAgree(m) /\ RecordAgrees(m) /\ StoreAgrees(m)

-----------------------------------------------------------------------------
(* The process. *)

Idle == [at |-> "down", label |-> FALSE, outcome |-> "", reasons |-> {}, res |-> None, err |-> FALSE,
         ferr |-> FALSE, store |-> None, epoch |-> FALSE]

Init ==
    /\ files = [n \in Range(Starts) \cup {"probe", "status-end", "balance-end", "pair"} |-> None]
    /\ series = None /\ frames = [d \in {"start", "epoch"} |-> None]
    /\ attempts = None /\ manifest = None /\ record = None
    /\ mem = Idle /\ faults = 0 /\ kept = None

At(pc) == mem.at = pc
Goes(pc) == mem' = [mem EXCEPT !.at = pc]
Fault == faults < MaxFaults /\ faults' = faults + 1

Rec(outcome, reasons, epoch) == [outcome |-> outcome, reasons |-> reasons, epoch |-> epoch]

\* runCell begins: the record, then the live dispatch series.
Begin ==
    /\ At("down") /\ record = None
    /\ record' = Rec("running", {}, FALSE)
    /\ Goes("started")
    /\ UNCHANGED <<files, series, frames, attempts, manifest, faults, kept>>

StartSeries ==
    /\ At("started") /\ series' = [sent |-> 0, final |-> FALSE] /\ Goes("starting")
    /\ UNCHANGED <<files, frames, attempts, manifest, record, faults, kept>>

\* The loop records a run it reaches too late as missed.
Miss ==
    /\ At("down") /\ record = None
    /\ record' = Rec("missed", {"late"}, FALSE)
    /\ UNCHANGED <<files, series, frames, attempts, manifest, mem, faults, kept>>

Unwritten == { i \in DOMAIN Starts : files[Starts[i]] = None }

WriteStart ==
    /\ At("starting") /\ Unwritten # {}
    /\ files' = [files EXCEPT ![Starts[Min(Unwritten)]] = "cell"]
    /\ UNCHANGED <<series, frames, attempts, manifest, record, mem, faults, kept>>

\* A check, or the probe, ends the cell before its ladder.
FinishEarly ==
    /\ (At("starting") /\ Unwritten = {}) \/ At("probed")
    /\ \E o \in {"blocked", "stopped"} :
         mem' = [mem EXCEPT !.at = "retain", !.outcome = o, !.reasons = {o}]
    /\ UNCHANGED <<files, series, frames, attempts, manifest, record, faults, kept>>

Probe ==
    /\ At("starting") /\ Unwritten = {}
    /\ files' = [files EXCEPT !["probe"] = "cell"] /\ Goes("probed")
    /\ UNCHANGED <<series, frames, attempts, manifest, record, faults, kept>>

Ladder ==
    /\ At("probed")
    /\ \E r \in Results : mem' = [mem EXCEPT !.at = "ladder", !.res = r]
    /\ UNCHANGED <<files, series, frames, attempts, manifest, record, faults, kept>>

\* The live series lags the dispatches.
LiveWrite ==
    /\ At("ladder") /\ series.sent < Sent(mem.res.reqs)
    /\ series' = [series EXCEPT !.sent = @ + 1]
    /\ UNCHANGED <<files, frames, attempts, manifest, record, mem, faults, kept>>

LadderEnds ==
    /\ At("ladder")
    /\ \E flag \in BOOLEAN :
         LET o == CellOutcome(mem.res, flag) IN
         mem' = [mem EXCEPT !.at = "retain", !.outcome = o, !.epoch = TRUE,
                            !.reasons = IF o = "counted" THEN {} ELSE {o}]
    /\ UNCHANGED <<files, series, frames, attempts, manifest, record, faults, kept>>

-----------------------------------------------------------------------------
(* retain, of a cell that finished or of one that is being labelled. *)

Reqs == IF mem.res = None THEN <<>> ELSE mem.res.reqs

\* The final series replaces the live one.
RetainSeries ==
    /\ At("retain")
    /\ series' = IF mem.label THEN series ELSE [sent |-> Sent(Reqs), final |-> TRUE]
    /\ Goes("ends")
    /\ UNCHANGED <<files, frames, attempts, manifest, record, faults, kept>>

EndRecords ==
    /\ At("ends") /\ Goes("frames")
    /\ files' = IF mem.outcome = "missed" THEN files
                ELSE [files EXCEPT !["status-end"] = "cell", !["balance-end"] = "cell"]
    /\ UNCHANGED <<series, frames, attempts, manifest, record, faults, kept>>

\* WriteRunFrames: into the run's directory, named by the ladder's epoch or
\* by the cell's start.  An existing store is refused and a failed write may
\* leave part of one; the rest is still written, with no store named.
WriteFrames ==
    LET d == IF mem.res = None THEN "start" ELSE "epoch" IN
    /\ At("frames")
    /\ \/ /\ frames[d] = None /\ UNCHANGED faults
          /\ frames' = [frames EXCEPT ![d] = [lines |-> Len(Reqs), copies |-> {}]]
          /\ mem' = [mem EXCEPT !.at = "copies", !.store = d]
       \/ /\ frames[d] # None /\ UNCHANGED <<frames, faults>>
          /\ mem' = [mem EXCEPT !.at = "attempts", !.ferr = TRUE]
       \/ /\ "frames" \in Failing /\ frames[d] = None /\ Fault
          /\ \E store \in {None} \cup [lines : 0..Len(Reqs), copies : {{}}] :
               frames' = [frames EXCEPT ![d] = store]
          /\ mem' = [mem EXCEPT !.at = "attempts", !.ferr = TRUE]
    /\ UNCHANGED <<files, series, attempts, manifest, record, kept>>

Uncopied == { i \in DOMAIN Copies : Copies[i] \notin frames[mem.store].copies }

\* The copies, in turn; one that fails leaves the later ones out, and the
\* store stays named.
WriteCopies ==
    /\ At("copies")
    /\ \/ /\ Uncopied # {} /\ UNCHANGED <<mem, faults>>
          /\ frames' = [frames EXCEPT ![mem.store].copies = @ \cup {Copies[Min(Uncopied)]}]
       \/ /\ Uncopied = {} /\ Goes("attempts") /\ UNCHANGED <<frames, faults>>
       \/ /\ "copies" \in Failing /\ Uncopied # {} /\ Fault /\ UNCHANGED frames
          /\ mem' = [mem EXCEPT !.at = "attempts", !.ferr = TRUE]
    /\ UNCHANGED <<files, series, attempts, manifest, record, kept>>

WriteAttempts(reqs, pc) ==
    /\ attempts' = reqs /\ Goes(pc)
    /\ kept' = IF kept = None THEN reqs ELSE kept
    /\ UNCHANGED <<files, series, frames, manifest, record, faults>>

RetainAttempts == At("attempts") /\ WriteAttempts(Reqs, "manifest")

Named == { n \in DOMAIN files : files[n] # None }

\* The cell's record in its manifest; a cell with a ladder result or a
\* counted dispatch had its ladder started.
Cell(terms) ==
    [outcome |-> mem.outcome, reasons |-> mem.reasons,
     ladder |-> mem.res # None \/ mem.epoch \/ (mem.label /\ series.sent > 0),
     route |-> terms.route, own |-> series, gaps |-> StepGaps(Reqs),
     canary |-> IF mem.res = None THEN None ELSE Len(mem.res.steps),
     gates |-> ReleaseGates(mem.res), attempts |-> attempts, files |-> Restrict(files, Named),
     endpoint |-> [mismatches |-> Mismatches(Reqs), reported |-> Reported(Reqs)],
     frames |-> mem.store, pair |-> FALSE]

\* WriteHostedPair: the manifest, the report pair, and the manifest again
\* with the pair in it.
WriteManifest ==
    /\ At("manifest")
    /\ \E terms \in Terms :
         ManifestAllowed(Cell(terms), mem.res, terms) /\ manifest' = Cell(terms)
    /\ Goes("pair")
    /\ UNCHANGED <<files, series, frames, attempts, record, faults, kept>>

WritePair ==
    /\ At("pair") /\ files["pair"] = None
    /\ files' = [files EXCEPT !["pair"] = "cell"]
    /\ UNCHANGED <<series, frames, attempts, manifest, record, mem, faults, kept>>

NamePair ==
    /\ At("pair") /\ files["pair"] # None
    /\ manifest' = [manifest EXCEPT !.pair = TRUE] /\ Goes("record")
    /\ UNCHANGED <<files, series, frames, attempts, record, faults, kept>>

WriteRecordStored ==
    /\ At("record")
    /\ record' = IF mem.label /\ mem.store = None THEN record
                 ELSE IF ~mem.label /\ (mem.err \/ mem.store = None)
                      THEN Rec("interrupted", mem.reasons \cup {"error"}, mem.epoch)
                      ELSE Rec(mem.outcome, mem.reasons, mem.epoch)
    /\ mem' = Idle
    /\ UNCHANGED <<files, series, frames, attempts, manifest, faults, kept>>

\* runCell's deferred record: an error, a failed frame store's too, makes it
\* interrupted; a label rewrites its record only with no error.
WriteRecord ==
    /\ At("record")
    /\ record' = CASE mem.label /\ mem.ferr -> record
                   [] mem.label /\ ~mem.ferr -> Rec(mem.outcome, mem.reasons, mem.epoch)
                   [] ~mem.label -> IF mem.err \/ mem.ferr
                                    THEN Rec("interrupted", mem.reasons \cup {"error"}, mem.epoch)
                                    ELSE Rec(mem.outcome, mem.reasons, mem.epoch)
    /\ mem' = Idle
    /\ UNCHANGED <<files, series, frames, attempts, manifest, faults, kept>>

\* A step fails: the record is written interrupted; a failed label leaves
\* its own as it is.
StepFails ==
    /\ mem.at \in Failing \ {"frames", "copies"} /\ Fault
    /\ mem' = IF mem.label THEN Idle ELSE [mem EXCEPT !.at = "record", !.err = TRUE]
    /\ UNCHANGED <<files, series, frames, attempts, manifest, record, kept>>

Refused ==
    /\ At("manifest") /\ \E terms \in Terms : ~ManifestAllowed(Cell(terms), mem.res, terms)
    /\ mem' = IF mem.label THEN Idle ELSE [mem EXCEPT !.at = "record", !.err = TRUE]
    /\ UNCHANGED <<files, series, frames, attempts, manifest, record, faults, kept>>

Die ==
    /\ ~At("down") /\ Fault /\ mem' = Idle
    /\ UNCHANGED <<files, series, frames, attempts, manifest, record, kept>>

-----------------------------------------------------------------------------
(* The next process: state, and labelCell. *)

\* A record left running becomes interrupted.
ReadState ==
    /\ At("down") /\ record # None /\ record.outcome = "running"
    /\ record' = [record EXCEPT !.outcome = "interrupted", !.reasons = @ \cup {"died"}]
    /\ UNCHANGED <<files, series, frames, attempts, manifest, mem, faults, kept>>

UnlabelledByManifest ==
    record # None /\ record.outcome \in {"missed", "interrupted"} /\ manifest = None

\* state: what is still to be labelled.
Unlabelled ==
    record # None /\ record.outcome \in {"missed", "interrupted"} /\ manifest = None /\ attempts = None

\* labelCell: the empty attempts file first, so that a label that fails is
\* not tried again ...
LabelCell ==
    /\ At("down") /\ Unlabelled
    /\ mem' = [Idle EXCEPT !.at = "label", !.label = TRUE, !.outcome = record.outcome,
                           !.reasons = record.reasons, !.epoch = record.epoch]
    /\ attempts' = <<>>
    /\ kept' = IF kept = None THEN <<>> ELSE kept
    /\ UNCHANGED <<files, series, frames, manifest, record, faults>>

\* ... then each start record the cell did not write, the operator records,
\* the route's own with a reason where they do not read, and its series.
LabelStarts ==
    /\ At("label")
    /\ \E why \in SUBSET {"operator"} : mem' = [mem EXCEPT !.at = "retain", !.reasons = @ \cup why]
    /\ files' = [n \in DOMAIN files |->
                   IF n \in {"clock", "status", "balance"} /\ files[n] = None THEN "label" ELSE files[n]]
    /\ series' = IF series = None THEN [sent |-> 0, final |-> TRUE] ELSE series
    /\ UNCHANGED <<frames, attempts, manifest, record, faults, kept>>

-----------------------------------------------------------------------------
Run ==
    \/ Begin \/ StartSeries \/ WriteStart \/ FinishEarly \/ Probe \/ Ladder \/ LiveWrite \/ LadderEnds
    \/ RetainSeries \/ EndRecords \/ WriteFrames \/ WriteCopies \/ RetainAttempts
    \/ WriteManifest \/ WritePair \/ NamePair \/ WriteRecord \/ Refused

Label == Miss \/ ReadState \/ LabelCell \/ LabelStarts

Next == Run \/ Label \/ StepFails \/ Die

Spec == Init /\ [][Next]_cellVars

-----------------------------------------------------------------------------
(* What the proofs ask of the constants. *)

\* What a ladder ends with: a request lists as mismatches the models it
\* reported other than the expected one, and one that completed in a step
\* keeps a gap for every content event but the first; only a stop interrupts
\* a ladder, and a whole one whose gate passed has a verdict of every step
\* (ladderGates).
ResultAgrees(r) ==
    /\ r # None /\ r.reqs # None
    /\ Len(r.reqs) \in Nat /\ DOMAIN r.reqs = 1..Len(r.reqs) /\ r.steps \in Seq({"pass", "fail", "none"})
    /\ \A i \in DOMAIN r.reqs : /\ r.reqs[i].model \in {"", "expected"} \cup r.reqs[i].others
                                /\ "expected" \notin r.reqs[i].others
    /\ \A i \in DOMAIN r.reqs : Measured(r.reqs[i]) =>
         /\ r.reqs[i].step \in Nat \ {0} /\ r.reqs[i].itls \in Seq(Int) /\ r.reqs[i].events \in Nat
         /\ Len(r.reqs[i].itls) = IF r.reqs[i].events > 1 THEN r.reqs[i].events - 1 ELSE 0
    /\ r.stopped => r.cause \in {"stop", "emfile"}
    /\ ~r.stopped /\ r.whole => \A k \in DOMAIN r.steps : r.steps[k] = "pass"

EvidenceConstants ==
    /\ \A r \in Results : ResultAgrees(r)
    /\ Edges \in Seq(Int) /\ Edges # <<>> /\ ConfidentialTarget \in BOOLEAN
    /\ "down" \notin Failing /\ None \notin {<<>>, "cell", "label", "start", "epoch"}

-----------------------------------------------------------------------------
(* Properties. *)

\* Wherever a process died or failed and whatever labelled the cell
\* afterwards: NewManifest refuses what retain gives it only for the operator
\* file or what the route gives; a manifest that names its report pair and a
\* frame store whose checked copies are all there passes the completeness
\* check, so its label, gates, models, gaps, dispatches and attempts agree;
\* a counted record has a counted manifest that passes it, copies included;
\* and attempts once written are never replaced, so no label hides a
\* ladder's attempts.
EvidenceSound ==
    /\ At("manifest") => \A terms \in Terms :
         ManifestAllowed(Cell(terms), mem.res, terms) <=> terms.operator /\ terms.route
    /\ manifest # None /\ manifest.pair /\ manifest.frames # None /\
       Checked \subseteq frames[manifest.frames].copies => CheckRelease(manifest)
    /\ record # None /\ record.outcome = "counted" =>
         manifest # None /\ manifest.pair /\ manifest.outcome = "counted" /\ CheckRelease(manifest)
    /\ attempts # None => attempts = kept
    /\ mem.label => mem.res = None /\ (attempts # None => attempts = <<>>)

\* docs/ARCHITECTURE.md, of an interrupted cell: "when the process next
\* reads the route's records, labelCell writes the empty attempts file [...]
\* and adds the labelled manifest and report pair": with no process at work
\* a manifest passes the completeness check that the pages require of it.
LabelledPasses ==
    At("down") /\ record # None /\ record.outcome # "running" /\ ~Unlabelled /\ manifest # None =>
        CheckRelease(manifest)
=============================================================================
