------------------------------ MODULE Evidence ------------------------------
(***************************************************************************)
(* What a run leaves behind: a response as StreamClient reads it, and the  *)
(* machines DispatchSeries, CellEvidence, Publication, Detector and        *)
(* StartRecords.  They share no state: the initial state picks a subject,  *)
(* and only that subject moves.                                            *)
(***************************************************************************)
EXTENDS StartRecords

CONSTANTS
    Subjects,
    Bad, Answers, ScoreRule,                                   \* StreamClient
    Hosted, Lag, WaitMax, DispatchTime, MaxDispatches,         \* DispatchSeries
    MaxCrashes,
    Results, Edges, ConfidentialTarget, Failing, MaxFaults,    \* CellEvidence
    Routes, Permission, Replication, ConfidentialRoutes,       \* Publication
    MaxDay, Weekend, NoticeDays, MaxAttempts, Windows, MaxSends,
    Length, Loads, WindowSizes, Holds, Baselines, Firsts,      \* Detector
    Timeouts, EntryPct, ExitPct

VARIABLES
    subject, given, result,                              \* a response
    time, cell,                                          \* DispatchSeries
    files, series, frames, attempts, manifest, record,   \* CellEvidence
    mem, faults, kept,
    day, cells, close, pages, mail, published,           \* Publication
    in, det                                              \* Detector

answer == <<given, result>>
dispatching == <<time, cell>>
retaining == <<files, series, frames, attempts, manifest, record, mem, faults, kept>>
publishing == <<day, cells, close, pages, mail, published>>
detecting == <<in, det>>
evidenceVars == <<subject, answer, dispatching, retaining, publishing, detecting, vars>>

Stream == INSTANCE StreamClient
Disp == INSTANCE DispatchSeries WITH Routes <- Hosted, MaxTime <- DispatchTime
Ev == INSTANCE CellEvidence
Pub == INSTANCE Publication WITH MaxCells <- MaxAttempts
Det == INSTANCE Detector WITH Windows <- WindowSizes

\* What each part asks of its constants.
ASSUME Hypotheses ==
    /\ \A kind \in DOMAIN Answers : \A a \in Answers[kind] : Stream!ResponseInput(a, ScoreRule)
    /\ RecordConstants /\ Disp!SeriesConstants /\ Ev!EvidenceConstants
    /\ Pub!PublicationConstants /\ Det!DetectorConstants

-----------------------------------------------------------------------------

EvidenceInit ==
    /\ subject \in Subjects /\ result = None
    /\ IF subject = "response" THEN \E kind \in DOMAIN Answers : given \in Answers[kind]
       ELSE given = None
    /\ IF subject = "dispatch" THEN Disp!Init ELSE time = None /\ cell = None
    /\ IF subject = "cell" THEN Ev!Init
       ELSE /\ files = None /\ series = None /\ frames = None /\ attempts = None
            /\ manifest = None /\ record = None /\ mem = None /\ faults = 0 /\ kept = None
    /\ IF subject = "publication" THEN Pub!Init
       ELSE /\ day = None /\ cells = None /\ close = None /\ pages = None
            /\ mail = None /\ published = None
    /\ IF subject = "detector" THEN Det!Init ELSE in = None /\ det = None
    /\ IF subject = "records" THEN Init
       ELSE tick = None /\ opFile = None /\ proc = None /\ disk = None

Answering ==
    /\ subject = "response" /\ result = None
    /\ result' = Stream!Execute(given.tgt, given.resp)
    /\ UNCHANGED <<subject, given, dispatching, retaining, publishing, detecting, vars>>

Dispatching ==
    /\ subject = "dispatch" /\ Disp!Next
    /\ UNCHANGED <<subject, answer, retaining, publishing, detecting, vars>>

Retaining ==
    /\ subject = "cell" /\ Ev!Next
    /\ UNCHANGED <<subject, answer, dispatching, publishing, detecting, vars>>

Publishing ==
    /\ subject = "publication" /\ Pub!Next
    /\ UNCHANGED <<subject, answer, dispatching, retaining, detecting, vars>>

Detecting ==
    /\ subject = "detector" /\ Det!Next
    /\ UNCHANGED <<subject, answer, dispatching, retaining, publishing, vars>>

Recording ==
    /\ subject = "records" /\ Next
    /\ UNCHANGED <<subject, answer, dispatching, retaining, publishing, detecting>>

EvidenceNext ==
    Answering \/ Dispatching \/ Retaining \/ Publishing \/ Detecting \/ Recording

EvidenceSpec == EvidenceInit /\ [][EvidenceNext]_evidenceVars

-----------------------------------------------------------------------------
(* Properties. *)

\* A response is classified, recorded and scored by what its body held
\* (StreamClient!AttemptSound).
AttemptsSound ==
    subject = "response" /\ result # None =>
        Stream!AttemptSound(given.tgt, given.resp, ScoreRule, result)

\* What another route dispatched while a cell ran is in the cell's copy of
\* its series or named as not covered (DispatchSeries!SeriesAccounted).
SeriesSound == subject = "dispatch" => Disp!SeriesAccounted

\* The routes a cell's record names as concurrent ran while it did
\* (DispatchSeries!ConcurrentOverlapped).
ConcurrentOverlapped == subject = "dispatch" => Disp!ConcurrentOverlapped

\* Wherever the process dies or a step fails, a cell's manifest says what
\* its files hold (CellEvidence!EvidenceSound).
EvidenceSound == subject = "cell" => Ev!EvidenceSound

\* A labelled cell passes the check pages makes of it
\* (CellEvidence!LabelledPasses).
LabelledPasses == subject = "cell" => Ev!LabelledPasses

\* A route is published as its provider was told, in time
\* (Publication!PublishedWasNoticed).
PublishedWasNoticed == subject = "publication" => Pub!PublishedWasNoticed

\* A recovery is the first entry held for the whole hold, a non-recovery is
\* final and each re-degradation is counted once (Detector!DetectionSound).
DetectionSound == subject = "detector" => Det!DetectionSound

\* A cell starts on records of its own, nothing withheld is published by any
\* process, and pages accepts the window's close (StartRecords!RecordsHold).
RecordsSound == subject = "records" => RecordsHold
=============================================================================
