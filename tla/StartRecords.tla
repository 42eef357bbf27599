---------------------------- MODULE StartRecords ----------------------------
(***************************************************************************)
(* What a release cell must have read before it may start, and what the    *)
(* route publishes of it: the clock reading, the limits the refresh        *)
(* command prints, the operator file read again after it, the balance, and *)
(* the window-close record (cmd/percentes-release: cell.go, close.go;      *)
(* internal/evidence: command.go, clock.go, refresh.go, operator.go,       *)
(* balance.go).  A limit's value may be confidential; a text is the set    *)
(* of limit values it carries, and every text the route publishes is       *)
(* searched for the values the target records and the ones the refresh     *)
(* command has read.  A process keeps those in memory, and one started     *)
(* later reads them back from the retained store.  The clock advances      *)
(* where a start, a request or a rewritten file is dated.                  *)
(***************************************************************************)
EXTENDS Integers, Sequences, FiniteSets

CONSTANTS
    None,
    Targets,                \* what target.limits may be
    Ruled,                  \* the route records a balance_unavailable ruling
    SourceModified,         \* the binary was built from a modified tree
    ClockRuns, RefreshRuns, BalanceRuns,    \* what the host commands may do
    OpFiles,                \* what the operator file may hold, and rewrites of it touch
    Prices,                 \* the route's price by ledger revision
    Demand, MaxPrice,       \* what the route's steps ask of a limit, and bear
    Second, MaxOffset,      \* a second and the clock tolerance
    MaxTime, MaxCells, MaxProcesses         \* bounds of the model

VARIABLES
    tick,      \* the last reading of the clock
    opFile,    \* the operator file and its records' modification times
    proc,      \* the route process: its phase and what it keeps in memory
    disk       \* the route's directory, retained store and ledger price

vars == <<tick, opFile, proc, disk>>

-----------------------------------------------------------------------------
(* Commands and what is read from them. *)

\* runCommand's error: a timeout, an exit other than 0, dropped output.
Failed(run) == run.timedOut \/ run.exit # 0 \/ run.dropped > 0

Kind(lines, k) == { i \in DOMAIN lines : lines[i].kind = k }

TheLine(lines, k) == lines[CHOOSE i \in Kind(lines, k) : TRUE].text

Abs(v) == IF v < 0 THEN -v ELSE v

\* parseClock: sntp prints one offset line; chronyc one line each of the
\* offset, an external reference and a synchronised leap status.
ParseClock(tool, lines) ==
    CASE tool = "sntp" /\ Len(lines) = 1 /\ Kind(lines, "offset") = {1} -> Abs(lines[1].text)
      [] /\ tool = "chronyc"
         /\ \A k \in {"system", "reference", "leap"} : Cardinality(Kind(lines, k)) = 1
         /\ TheLine(lines, "leap") \in {"Normal", "Insert second", "Delete second"}
         /\ TheLine(lines, "reference") # "local" -> Abs(TheLine(lines, "system"))
      [] OTHER -> None

\* ReadClock: the offset's magnitude, or None for no reading.
ReadClock(run) == IF Failed(run) THEN None ELSE ParseClock(run.tool, run.lines)

OverTolerance(offset) == offset # None /\ offset > MaxOffset

Entry(e, limit) ==
    /\ e.dimension = limit.dimension
    /\ (e.value = None) # (e.unavailable = None)
    /\ e.unavailable # ""
    /\ e.value # None => e.value > 0

\* ReadRefreshedLimits: one entry for each target.limits entry in its
\* order, or None when the output is anything else.
ReadRefreshedLimits(run, limits) ==
    IF /\ ~Failed(run) /\ run.out # None
       /\ Len(run.out) = Len(limits)
       /\ \A i \in DOMAIN limits : Entry(run.out[i], limits[i])
    THEN [i \in DOMAIN limits |-> [value |-> run.out[i].value,
                                   confidential |-> limits[i].confidential]]
    ELSE None

\* config.Target.Confidential.
Confidential(limits) == \E i \in DOMAIN limits : limits[i].confidential

\* The confidential values among the limits recorded or read.
Secrets(limits) ==
    IF limits = None THEN {}
    ELSE { limits[i].value : i \in { j \in DOMAIN limits :
                                       limits[j].confidential /\ limits[j].value # None } }

\* PublishedRefresh, as the values it carries: the public limits read and,
\* on a target with no confidential limit, whatever the command printed.
PublishedRefresh(run, limits, read) ==
    (IF read = None THEN {}
     ELSE { read[i].value : i \in { j \in DOMAIN read :
                                      ~read[j].confidential /\ read[j].value # None } })
    \cup (IF Confidential(limits) THEN {} ELSE run.printed)

\* CheckBalance against the cell's reservation.
CheckBalance(run, required) ==
    IF \/ Failed(run) \/ run.out = None
       \/ (run.out.amount = None) = (run.out.unavailable = None)
       \/ run.out.unavailable = "" THEN "check_failed"
    ELSE IF run.out.unavailable # None THEN "unavailable"
    ELSE IF run.out.amount < required THEN "insufficient"
    ELSE "sufficient"

\* BalanceCheck.Blocks.
Blocks(status) == ~(status = "sufficient" \/ (status = "unavailable" /\ Ruled))

-----------------------------------------------------------------------------
(* The operator file. *)

\* The file as it was written, with its records' modification times.
Dated(f, modified) ==
    [decodes |-> f.decodes, kinds |-> f.kinds, texts |-> f.texts, modified |-> modified]

RequiredRecords == {"limits", "eligibility", "prices"}
RefreshedRecords == {"limits", "eligibility"}

\* LoadOperator: the file decodes and names a record of each required kind.
LoadOperator(f) == f.decodes /\ RequiredRecords \subseteq f.kinds

\* CheckConfidential: none of the texts carries a confidential value as
\* the target records it or as the refresh command read it (withheld).
CheckConfidential(texts, limits, withheld) ==
    texts \cap (Secrets(limits) \cup withheld) = {}

CheckSource(f) == SourceModified => "source_diff" \in f.kinds

\* Operator.Refreshed: rewritten at or after since, to the second.
Refreshed(f, since) ==
    \A k \in RefreshedRecords : f.modified[k] >= since - (since % Second)

\* cellOperator with no refresh, as a label reads the file.
Readable(f, limits, withheld) ==
    LoadOperator(f) /\ CheckConfidential(f.texts, limits, withheld) /\ CheckSource(f)

\* cellOperator after the refresh command.
CellOperator(f, limits, withheld, run, since) ==
    ~Failed(run) /\ Readable(f, limits, withheld) /\ Refreshed(f, since)

-----------------------------------------------------------------------------
(* State. *)

NoProcess(n) ==
    [phase |-> "down", processes |-> n, op |-> None, withheld |-> {}, cell |-> None]

Now == tick + 1

Advance == tick < MaxTime /\ tick' = Now

Here(phase) == proc.phase = phase

\* The cell records, in order: the process's last is the one it runs.  Of
\* how a cell ended the record keeps what state and labelCell read.
NewCell == [start |-> Now, sent |-> None, end |-> None, outcome |-> "running",
            refresh |-> None, attempts |-> FALSE, manifest |-> None, retained |-> {}]

Last == Len(disk.cells)

\* Mutant: a process started later has read nothing.
RetainedNothing == {}

\* retainedReads: what the refresh records as run, kept beside the frames
\* of the cells with a manifest, read.
RetainedReads == UNION { c.retained : c \in { disk.cells[i] : i \in { j \in 1..Last :
                                                disk.cells[j].manifest # None } } }

\* withheldValues: the values a publication is searched for.
WithheldValues ==
    Secrets(disk.target) \cup RetainedReads
        \cup (IF disk.close = None THEN {} ELSE disk.close.retained)

Init ==
    /\ tick = 0
    /\ proc = NoProcess(0)
    /\ \E f \in OpFiles : opFile = Dated(f, [k \in RefreshedRecords |-> 0])
    /\ \E t \in Targets :
          disk = [target |-> t, cells |-> <<>>, close |-> None, publication |-> None, revision |-> 1]

Unlabelled == { i \in 1..Last : /\ disk.cells[i].outcome = "interrupted"
                                /\ disk.cells[i].manifest = None /\ ~disk.cells[i].attempts }

\* The operator, or the refresh command it wrote, rewrites the file and
\* the records f.touched; a process reads the file only in these phases,
\* an idle one to label a cell, and none once the window closed.
Rewrite(f) ==
    /\ disk.close = None /\ Advance
    /\ proc.phase \in {"down", "refreshing", "closing"} \/ (Here("idle") /\ Unlabelled # {})
    /\ opFile' = Dated(f, [k \in RefreshedRecords |->
                              IF k \in f.touched THEN Now ELSE opFile.modified[k]])
    /\ UNCHANGED <<proc, disk>>

\* ledger price, in a process of its own; a cell reads the price only in
\* these phases.
RecordPrice ==
    /\ proc.phase \in {"refreshed", "checked"} /\ disk.revision < Len(Prices)
    /\ disk' = [disk EXCEPT !.revision = @ + 1]
    /\ UNCHANGED <<tick, opFile, proc>>

\* newRoute and state: the values already read are withheld before the
\* operator file is checked, and a record left running is interrupted.
Start ==
    LET kept == IF Confidential(disk.target) THEN RetainedReads ELSE {} IN
    /\ Here("down") /\ proc.processes < MaxProcesses
    /\ Readable(opFile, disk.target, kept)
    /\ proc' = [NoProcess(proc.processes + 1) EXCEPT
                  !.phase = "idle", !.op = opFile.texts, !.withheld = kept]
    /\ disk' = [disk EXCEPT !.cells = [i \in DOMAIN @ |->
                  IF @[i].outcome = "running" THEN [@[i] EXCEPT !.outcome = "interrupted"] ELSE @[i]]]
    /\ UNCHANGED <<tick, opFile>>

\* labelCell: the operator file as it stands or, where it is refused, as
\* read when the route started; NewManifest refuses either again, and the
\* attempts file, written first, keeps the cell from a second label.  No
\* refresh record is kept beside its frames; an error ends the process.
Label(stored) ==
    LET op == IF Readable(opFile, disk.target, proc.withheld) THEN opFile.texts ELSE proc.op
        ok == CheckConfidential(op, disk.target, proc.withheld)
    IN
    /\ Here("idle")
    /\ \E i \in Unlabelled :
         /\ \A k \in Unlabelled : i <= k
         /\ disk' = [disk EXCEPT !.cells[i] = [@ EXCEPT !.attempts = TRUE,
                                                        !.manifest = IF ok THEN op ELSE None]]
    /\ proc' = IF ok /\ stored THEN proc ELSE NoProcess(proc.processes)
    /\ UNCHANGED <<tick, opFile>>

-----------------------------------------------------------------------------
(* A cell, up to its admission. *)

\* runCell's first records: the cell is running, its clock is read and its
\* refresh command started.
StartCell(clock) ==
    /\ Here("idle") /\ Unlabelled = {} /\ Last < MaxCells /\ disk.close = None
    /\ Advance
    /\ disk' = [disk EXCEPT !.cells = Append(@, NewCell)]
    /\ proc' = [proc EXCEPT !.phase = "refreshing",
                  !.cell = [clock |-> ReadClock(clock), since |-> Now, read |-> None, op |-> {},
                            dated |-> None, fault |-> FALSE, check |-> 1, revision |-> 0, balance |-> None]]
    /\ UNCHANGED opFile

\* The refresh command ends: what it read is withheld, the operator file
\* is read again, and the refresh record is written as it publishes.
Refresh(run) ==
    LET read == ReadRefreshedLimits(run, disk.target)
        withheld == proc.withheld \cup Secrets(read)
        ok == CellOperator(opFile, disk.target, withheld, run, proc.cell.since) /\ read # None
    IN /\ Here("refreshing")
       /\ proc' = [proc EXCEPT !.phase = "refreshed", !.withheld = withheld,
                     !.cell.read = read, !.cell.fault = ~ok,
                     !.cell.op = IF ok THEN opFile.texts ELSE proc.op, !.cell.dated = opFile.modified]
       /\ disk' = [disk EXCEPT !.cells[Last].refresh = PublishedRefresh(run, disk.target, read)]
       /\ UNCHANGED <<tick, opFile>>

\* The ceiling rule with the limits read, an unavailable one as recorded,
\* at the newest price, admits the route's steps (limitsStop).
StillAdmits(limits, read, price) ==
    /\ price <= MaxPrice
    /\ \A i \in DOMAIN limits :
          Demand <= IF read[i].value = None THEN limits[i].value ELSE read[i].value

\* The cell is over but for what it keeps.
End(outcome) ==
    [proc EXCEPT !.phase = "ending",
                 !.cell = [op |-> @.op, read |-> Secrets(@.read), outcome |-> outcome]]

\* One round of the start checks, in runCell's order.
Check(run) ==
    LET c == proc.cell
        price == Prices[disk.revision]
        status == CheckBalance(run, price)
        outcome == IF \/ OverTolerance(c.clock)
                      \/ ~c.fault /\ ~StillAdmits(disk.target, c.read, price) THEN "stopped"
                   ELSE IF c.fault \/ Blocks(status) THEN "blocked"
                   ELSE None
    IN /\ Here("refreshed")
       /\ proc' = IF outcome # None THEN End(outcome)
                  ELSE [proc EXCEPT !.phase = "checked", !.cell.balance = status,
                                    !.cell.revision = disk.revision]
       /\ UNCHANGED <<tick, opFile, disk>>

\* Mutant: the checks are not repeated at a newer price.
AdmitUnrepeated ==
    /\ Here("checked")
    /\ proc' = [proc EXCEPT !.phase = "running"]
    /\ UNCHANGED <<tick, opFile, disk>>

\* AdmitAt: a price line since the check repeats the checks once.
Admit ==
    /\ Here("checked")
    /\ proc' = IF disk.revision = proc.cell.revision THEN [proc EXCEPT !.phase = "running"]
               ELSE IF proc.cell.check = 1 THEN [proc EXCEPT !.phase = "refreshed", !.cell.check = 2]
               ELSE End("blocked")
    /\ UNCHANGED <<tick, opFile, disk>>

\* The ledger's caps refuse the cell.
Refuse ==
    /\ Here("checked") /\ disk.revision = proc.cell.revision
    /\ proc' = End("stopped")
    /\ UNCHANGED <<tick, opFile, disk>>

\* A dispatch, in the live series when the process dies.
Send ==
    /\ Here("running") /\ disk.cells[Last].sent = None /\ Advance
    /\ disk' = [disk EXCEPT !.cells[Last].sent = Now]
    /\ UNCHANGED <<opFile, proc>>

\* The ladder ends; a cell with no clock reading does not count.  One that
\* is invalid for another reason is retained in the same way.
Finish ==
    /\ Here("running")
    /\ proc' = End(IF proc.cell.clock = None THEN "invalid" ELSE "counted")
    /\ UNCHANGED <<tick, opFile, disk>>

\* retain: NewManifest refuses an operator file that carries a withheld
\* value; stored is whether the frame store, which keeps the refresh
\* record as run, was written.  An error ends the process, and so does a
\* stopped cell.
Retain(stored) ==
    LET c == proc.cell
        ok == CheckConfidential(c.op, disk.target, proc.withheld)
        held == stored /\ Confidential(disk.target)
    IN /\ Here("ending")
       /\ disk' = [disk EXCEPT !.cells[Last] =
                     [@ EXCEPT !.end = tick, !.attempts = TRUE,
                               !.outcome = IF ok /\ stored THEN "ended" ELSE "interrupted",
                               !.manifest = IF ok THEN c.op ELSE None,
                               !.retained = IF held THEN c.read ELSE {}]]
       /\ proc' = IF ok /\ stored /\ c.outcome # "stopped"
                  THEN [proc EXCEPT !.phase = "idle", !.cell = None]
                  ELSE NoProcess(proc.processes)
       /\ UNCHANGED <<tick, opFile>>

Crash ==
    /\ proc.phase \notin {"down", "idle"}
    /\ proc' = NoProcess(proc.processes)
    /\ UNCHANGED <<tick, opFile, disk>>

-----------------------------------------------------------------------------
(* The window's close. *)

StartClose ==
    /\ Here("idle") /\ Unlabelled = {} /\ Last = MaxCells /\ disk.close = None
    /\ Advance
    /\ proc' = [proc EXCEPT !.phase = "closing", !.cell = [since |-> Now]]
    /\ UNCHANGED <<opFile, disk>>

\* windowClose: a refresh fault ends the process with no record, and the
\* next one tries again.
Close(run) ==
    LET read == ReadRefreshedLimits(run, disk.target)
        withheld == proc.withheld \cup Secrets(read)
        ok == CellOperator(opFile, disk.target, withheld, run, proc.cell.since) /\ read # None
    IN /\ Here("closing")
       /\ disk' = IF ok
                  THEN [disk EXCEPT !.close =
                          [recorded |-> tick, since |-> proc.cell.since, run |-> run,
                           refresh |-> PublishedRefresh(run, disk.target, read),
                           texts |-> opFile.texts, kinds |-> opFile.kinds,
                           retained |-> IF Confidential(disk.target) THEN Secrets(read) ELSE {}]]
                  ELSE disk
       /\ proc' = NoProcess(proc.processes)
       /\ UNCHANGED <<tick, opFile>>

\* WindowClose.Verify.
Verify(w, limits, lastEnd) ==
    /\ w.recorded > lastEnd /\ w.since > lastEnd
    /\ ReadRefreshedLimits(w.run, limits) # None
    /\ w.refresh = PublishedRefresh(w.run, limits, ReadRefreshedLimits(w.run, limits))
    /\ RequiredRecords \subseteq w.kinds

\* cellEnd: a cell with no end ran to the end of the second of its series
\* that counts its last request.
CellEnd(c) ==
    IF c.end # None THEN c.end
    ELSE IF c.sent # None THEN c.start + (((c.sent - c.start) \div Second) + 1) * Second
    ELSE c.start

\* publish-check of a text, after the window closed.
Publish(text) ==
    /\ disk.close # None /\ disk.publication = None /\ text \cap WithheldValues = {}
    /\ disk' = [disk EXCEPT !.publication = text]
    /\ UNCHANGED <<tick, opFile, proc>>

Texts == { f.texts : f \in OpFiles }

Next ==
    \/ \E f \in OpFiles : Rewrite(f)
    \/ RecordPrice \/ Start
    \/ \E run \in ClockRuns : StartCell(run)
    \/ \E run \in RefreshRuns : Refresh(run) \/ Close(run)
    \/ \E run \in BalanceRuns : Check(run)
    \/ Admit \/ Refuse \/ Send \/ Finish
    \/ \E stored \in BOOLEAN : Retain(stored) \/ Label(stored)
    \/ Crash \/ StartClose
    \/ \E text \in Texts : Publish(text)

Spec == Init /\ [][Next]_vars

-----------------------------------------------------------------------------
(* What the proofs ask of the constants. *)

\* A second is a whole number of ticks, a missing outcome is no outcome, and
\* a value names its limit: no public limit read has the value of a
\* confidential one, as the target records it or as it is read.
RecordConstants ==
    /\ Second \in Nat \ {0} /\ None \notin {"stopped", "blocked"}
    /\ \A t \in Targets : \A r, q \in RefreshRuns :
         PublishedRefresh(r, t, ReadRefreshedLimits(r, t))
           \cap (Secrets(t) \cup Secrets(ReadRefreshedLimits(q, t))) = {}

-----------------------------------------------------------------------------
(* Properties. *)

\* A cell sends its first request on records that are its own: the
\* operator file was rewritten in the second its refresh command began or
\* later, every limit was read or said to be unavailable, and the steps and
\* the balance were judged at the price the ledger charges, however often
\* that price moved between the check and the admission.
StartedOnItsRecords ==
    Here("running") =>
        LET c == proc.cell
            price == Prices[disk.revision]
        IN /\ c.revision = disk.revision
           /\ \A k \in RefreshedRecords : c.dated[k] > c.since - Second
           /\ c.read # None /\ StillAdmits(disk.target, c.read, price)
           /\ ~Blocks(c.balance)
           /\ ~OverTolerance(c.clock)

\* What the route publishes of its j-th cell.
PublishedOf(j) ==
    LET c == disk.cells[j] IN
    (IF c.manifest = None THEN {} ELSE c.manifest) \cup (IF c.refresh = None THEN {} ELSE c.refresh)

ReadsBefore(j) ==
    UNION { disk.cells[i].retained : i \in { k \in 1..j : disk.cells[k].manifest # None } }

\* No manifest, refresh record, window close or publication carries a
\* confidential value that the target records or that a cell retained by
\* then had read, whichever process read it and whichever publishes.
NothingWithheldIsPublished ==
    /\ \A j \in 1..Last : PublishedOf(j) \cap (Secrets(disk.target) \cup ReadsBefore(j)) = {}
    /\ disk.close # None =>
          (disk.close.texts \cup disk.close.refresh) \cap WithheldValues = {}
    /\ disk.publication # None => disk.publication \cap WithheldValues = {}

\* The window-close record a process writes is one pages accepts, after
\* every cell of the route ended: only a close that began within a second
\* of a request of a cell whose process died may be refused, because the
\* cell counts as running to the end of that second.
CloseVerifies ==
    disk.close # None =>
        \A j \in 1..Last :
            LET c == disk.cells[j] IN
            \/ Verify(disk.close, disk.target, CellEnd(c))
            \/ c.end = None /\ c.sent # None /\ disk.close.since - c.sent <= Second

RecordsHold == StartedOnItsRecords /\ NothingWithheldIsPublished /\ CloseVerifies
=============================================================================
