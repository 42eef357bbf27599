------------------------- MODULE EvidenceProofs -----------------------------
(***************************************************************************)
(* Proofs about Evidence, for any subjects and constants that satisfy its  *)
(* Hypotheses, one section per subject and the theorems at the end.        *)
(*                                                                         *)
(* StartRecords, for any targets, commands and operator files, any prices, *)
(* tolerance and second, and any number of cells and processes, where a    *)
(* value names its limit: that a cell starts on its own records is a       *)
(* matter of the phases it went through (StartInv).  That nothing withheld *)
(* is published is a matter of what the process that publishes knows:      *)
(* every value the cells retained is among the ones it withholds (Knows),  *)
(* and a cell that has no manifest yet retained nothing (Unread).  That    *)
(* the window-close record verifies is a matter of the clock (TimeInv,     *)
(* ClosedInv).                                                             *)
(*                                                                         *)
(* Four more parts are about what becomes of the records: Publication, for *)
(* any routes, confidential ones and number of cells; CellEvidence, for    *)
(* any number of requests, steps and bins; DispatchSeries, for any routes, *)
(* second, lag and wait; and Detector, for a series of any length and any  *)
(* window, hold and bars.                                                  *)
(***************************************************************************)
EXTENDS Evidence, Sums, FiniteSetsExt, SequenceTheorems, FiniteSetTheorems, TLAPS

\* A sequence, of whatever.
IsSeq(s) == \E S : s \in Seq(S)

\* A cell's record; a process's cell up to its end.
CellShape(c) ==
    c = [start |-> c.start, sent |-> c.sent, end |-> c.end, outcome |-> c.outcome,
         refresh |-> c.refresh, attempts |-> c.attempts, manifest |-> c.manifest,
         retained |-> c.retained]

RunShape(c) ==
    c = [clock |-> c.clock, since |-> c.since, read |-> c.read, op |-> c.op, dated |-> c.dated,
         fault |-> c.fault, check |-> c.check, revision |-> c.revision, balance |-> c.balance]

\* The process, and the route's directory.
ProcShape(p) ==
    p = [phase |-> p.phase, processes |-> p.processes, op |-> p.op,
         withheld |-> p.withheld, cell |-> p.cell]

DiskShape(d) ==
    d = [target |-> d.target, cells |-> d.cells, close |-> d.close,
         publication |-> d.publication, revision |-> d.revision]

Phases == {"down", "idle", "refreshing", "refreshed", "checked", "running", "ending", "closing"}

\* The phases of a cell, before and after its end.
Starting == {"refreshing", "refreshed", "checked", "running"}
InCell == Starting \cup {"ending"}

TypeInv ==
    /\ tick \in Int /\ \A k \in RefreshedRecords : opFile.modified[k] \in Int
    /\ ProcShape(proc) /\ proc.phase \in Phases
    /\ DiskShape(disk)
    /\ disk.target \in Targets /\ IsSeq(disk.cells)
    /\ \A i \in 1..Last : CellShape(disk.cells[i])

\* A cell's times are before t.
Before(c, t) ==
    /\ c.start \in Int /\ c.start < t
    /\ c.sent # None => c.sent \in Int /\ c.start <= c.sent /\ c.sent < t
    /\ c.end # None => c.end \in Int /\ c.end < t

\* No cell's time is after the clock; a cell's process has its record, and
\* runs before the window closed.
TimeInv ==
    /\ \A i \in 1..Last : Before(disk.cells[i], tick + 1)
    /\ proc.phase \in InCell => Last >= 1 /\ disk.close = None
    /\ Here("closing") =>
         /\ disk.close = None /\ proc.cell.since \in Int /\ proc.cell.since <= tick
         /\ \A i \in 1..Last : Before(disk.cells[i], proc.cell.since)

\* The window-close record began after every cell, and says what its
\* command printed.
ClosedInv ==
    disk.close # None =>
        LET w == disk.close
            read == ReadRefreshedLimits(w.run, disk.target)
        IN  /\ proc.phase \in {"down", "idle"}
            /\ w.since \in Int /\ w.recorded \in Int /\ w.since <= w.recorded
            /\ \A i \in 1..Last : Before(disk.cells[i], w.since)
            /\ read # None /\ w.refresh = PublishedRefresh(w.run, disk.target, read)
            /\ RequiredRecords \subseteq w.kinds

\* The records a cell may start on, and the checks it passed.
OwnRecords(c) ==
    /\ c.read # None
    /\ \A k \in RefreshedRecords : c.dated[k] \in Int /\ c.dated[k] >= c.since - (c.since % Second)

Passed(c) ==
    /\ ~c.fault /\ ~OverTolerance(c.clock) /\ ~Blocks(c.balance)
    /\ StillAdmits(disk.target, c.read, Prices[c.revision])

\* What each phase of a cell rests on.
StartInv ==
    LET c == proc.cell IN
    /\ proc.phase \in Starting => RunShape(c) /\ c.since \in Int
    /\ proc.phase \in Starting \ {"refreshing"} => c.fault \in BOOLEAN /\ (~c.fault => OwnRecords(c))
    /\ proc.phase \in {"checked", "running"} => Passed(c)
    /\ Here("running") => c.revision = disk.revision

\* Every confidential value the refresh command may read.
Readings == UNION { Secrets(ReadRefreshedLimits(q, disk.target)) : q \in RefreshRuns }

\* The values of the cells retained are among those the process withholds,
\* and so are the ones it is about to retain.
Knows ==
    /\ proc.phase # "down" /\ Confidential(disk.target) => RetainedReads \subseteq proc.withheld
    /\ proc.phase \in Starting \ {"refreshing"} => Secrets(proc.cell.read) \subseteq proc.withheld \cap Readings
    /\ Here("ending") => proc.cell.read \subseteq proc.withheld \cap Readings

\* A cell that may still be labelled retained nothing; a cell retains
\* nothing but readings of confidential limits.
Unread ==
    \A i \in 1..Last :
        LET c == disk.cells[i] IN
        /\ ~c.attempts => c.retained = {}
        /\ c.retained \subseteq Readings
        /\ ~Confidential(disk.target) => c.retained = {}

\* What is published carries no value withheld.
PublishedInv ==
    /\ \A j \in 1..Last :
         LET c == disk.cells[j] IN
         /\ c.manifest # None => c.manifest \cap (Secrets(disk.target) \cup ReadsBefore(j)) = {}
         /\ c.refresh # None => c.refresh \cap (Secrets(disk.target) \cup Readings) = {}
    /\ disk.close # None =>
         /\ (disk.close.texts \cup disk.close.refresh) \cap WithheldValues = {}
    /\ disk.publication # None => disk.close # None /\ disk.publication \cap WithheldValues = {}

\* The inductive invariant.
IInv == TypeInv /\ TimeInv /\ ClosedInv /\ StartInv /\ Knows /\ Unread /\ PublishedInv

-----------------------------------------------------------------------------
(* Sequences and records. *)

\* A function on 1..n is a sequence of length n.
LEMMA FunctionSeq ==
    ASSUME NEW t, NEW n \in Nat, t = [i \in 1..n |-> t[i]]
    PROVE  IsSeq(t) /\ Len(t) = n /\ DOMAIN t = 1..n
<1> DEFINE S == { t[i] : i \in 1..n }
<1>1. t \in [1..n -> S]
  OBVIOUS
<1>2. t \in Seq(S)
  BY <1>1
<1>3. DOMAIN t = 1..n
  BY <1>1
<1>4. Len(t) \in Nat /\ DOMAIN t = 1..Len(t)
  BY <1>2, LenProperties
<1>5. Len(t) = n
  BY <1>3, <1>4
<1> QED
  BY <1>2, <1>3, <1>5, Zenon DEF IsSeq

\* A sequence is a function on 1..Len(s).
LEMMA SeqFunction ==
    ASSUME NEW s, IsSeq(s)
    PROVE  Len(s) \in Nat /\ DOMAIN s = 1..Len(s) /\ s = [i \in 1..Len(s) |-> s[i]]
<1> PICK S : s \in Seq(S)
  BY Zenon DEF IsSeq
<1>1. Len(s) \in Nat /\ s \in [1..Len(s) -> S] /\ DOMAIN s = 1..Len(s)
  BY LenProperties
<1> QED
  BY <1>1

\* Append adds one element at the end.
LEMMA SeqAppend ==
    ASSUME NEW s, IsSeq(s), NEW e
    PROVE  /\ IsSeq(Append(s, e)) /\ Len(Append(s, e)) = Len(s) + 1
           /\ \A i \in 1..Len(s) : Append(s, e)[i] = s[i]
           /\ Append(s, e)[Len(s) + 1] = e
<1> PICK S : s \in Seq(S)
  BY Zenon DEF IsSeq
<1> DEFINE T == S \cup {e}
<1>1. s \in Seq(T) /\ e \in T
  OBVIOUS
<1>2. Append(s, e) \in Seq(T)
  BY <1>1, AppendProperties
<1>3. /\ Len(Append(s, e)) = Len(s) + 1
      /\ \A i \in 1..Len(s) : Append(s, e)[i] = s[i]
      /\ Append(s, e)[Len(s) + 1] = e
  BY <1>1, AppendProperties
<1> QED
  BY <1>2, <1>3, Zenon DEF IsSeq

\* Replacing one element keeps the length and the others.
LEMMA SeqExcept ==
    ASSUME NEW s, IsSeq(s), NEW k \in 1..Len(s), NEW e
    PROVE  LET t == [s EXCEPT ![k] = e] IN
           /\ IsSeq(t) /\ Len(t) = Len(s) /\ t[k] = e
           /\ \A i \in 1..Len(s) : i # k => t[i] = s[i]
<1> DEFINE t == [s EXCEPT ![k] = e]
<1>1. Len(s) \in Nat /\ DOMAIN s = 1..Len(s)
  BY SeqFunction
<1>2. /\ t = [i \in 1..Len(s) |-> t[i]]
      /\ t[k] = e /\ \A i \in 1..Len(s) : i # k => t[i] = s[i]
  BY <1>1
<1>3. IsSeq(t) /\ Len(t) = Len(s)
  <2> HIDE DEF t
  <2> QED
    BY <1>1, <1>2, FunctionSeq
<1> QED
  BY <1>2, <1>3

\* What the cells up to the j-th retained, as a function of the records.
CellsRead(cs, j) ==
    UNION { cs[i].retained : i \in { k \in 1..j : cs[k].manifest # None } }

\* The values the cells retained, by the cells.
LEMMA ReadsOfCells ==
    /\ RetainedReads = CellsRead(disk.cells, Last)
    /\ \A j : ReadsBefore(j) = CellsRead(disk.cells, j)
<1>1. RetainedReads = CellsRead(disk.cells, Last)
  <2>1. \A x : x \in RetainedReads <=> x \in CellsRead(disk.cells, Last)
    BY Zenon DEF RetainedReads, CellsRead
  <2> QED
    BY <2>1
<1>2. \A j : ReadsBefore(j) = CellsRead(disk.cells, j)
  BY DEF ReadsBefore, CellsRead
<1> QED
  BY <1>1, <1>2

\* A value read is one of a cell with a manifest.
LEMMA ReadsMember ==
    ASSUME NEW cs, NEW j, NEW x
    PROVE  x \in CellsRead(cs, j) <=>
              \E i \in 1..j : cs[i].manifest # None /\ x \in cs[i].retained
  BY Zenon DEF CellsRead

\* The reads of cells that retain the same, where a manifest that comes or
\* goes is one of a cell that retains nothing.
LEMMA ReadsKept ==
    ASSUME NEW old, NEW new, NEW n,
           \A i \in 1..n : /\ new[i].retained = old[i].retained
                           /\ \/ new[i].manifest # None <=> old[i].manifest # None
                              \/ old[i].retained = {}
    PROVE  CellsRead(new, n) = CellsRead(old, n)
<1>1. ASSUME NEW x
      PROVE  x \in CellsRead(new, n) <=> x \in CellsRead(old, n)
  <2>1. x \in CellsRead(new, n) <=>
          \E i \in 1..n : new[i].manifest # None /\ x \in new[i].retained
    BY ReadsMember
  <2>2. x \in CellsRead(old, n) <=>
          \E i \in 1..n : old[i].manifest # None /\ x \in old[i].retained
    BY ReadsMember
  <2>3. ASSUME NEW i \in 1..n
        PROVE  (new[i].manifest # None /\ x \in new[i].retained)
                  <=> (old[i].manifest # None /\ x \in old[i].retained)
    OBVIOUS
  <2> QED
    BY <2>1, <2>2, <2>3, Zenon
<1> QED
  BY <1>1

\* More cells retain no fewer values.
LEMMA ReadsGrow ==
    ASSUME NEW cs, NEW n \in Int, NEW m \in Int, m <= n
    PROVE  CellsRead(cs, m) \subseteq CellsRead(cs, n)
<1>1. 1..m \subseteq 1..n
  OBVIOUS
<1> QED
  BY <1>1, Zenon DEF CellsRead

-----------------------------------------------------------------------------
(* Steps that leave the records as published. *)

\* A cell that publishes and retains the same.
SameCell(c, d) ==
    /\ CellShape(d)
    /\ d.retained = c.retained /\ d.manifest = c.manifest /\ d.refresh = c.refresh
    /\ ~d.attempts => ~c.attempts

\* The disk with its cells' evidence as it was.
SameRecords(old, new) ==
    /\ DiskShape(new)
    /\ new.target = old.target /\ new.close = old.close /\ new.publication = old.publication
    /\ IsSeq(new.cells) /\ Len(new.cells) = Len(old.cells)
    /\ \A i \in 1..Len(old.cells) : SameCell(old.cells[i], new.cells[i])

\* The reads of a step after which every cell retains the same.
LEMMA SameReads ==
    ASSUME TypeInv, Last' = Last, disk'.target = disk.target, disk'.close = disk.close,
           \A i \in 1..Last :
              /\ disk'.cells[i].retained = disk.cells[i].retained
              /\ \/ disk'.cells[i].manifest # None <=> disk.cells[i].manifest # None
                 \/ disk.cells[i].retained = {}
    PROVE  /\ RetainedReads' = RetainedReads
           /\ \A j \in 1..Last : ReadsBefore(j)' = ReadsBefore(j)
           /\ Readings' = Readings /\ WithheldValues' = WithheldValues
<1>0. Last \in Nat
  BY SeqFunction DEF TypeInv, Last
<1>1. ASSUME NEW j \in 1..Last
      PROVE  CellsRead(disk.cells, j)' = CellsRead(disk.cells, j)
  <2>1. 1..j \subseteq 1..Last
    BY <1>0
  <2>2. \A i \in 1..j :
              /\ disk'.cells[i].retained = disk.cells[i].retained
              /\ \/ disk'.cells[i].manifest # None <=> disk.cells[i].manifest # None
                 \/ disk.cells[i].retained = {}
    BY <2>1
  <2> QED
    BY <2>2, ReadsKept
<1>2. CellsRead(disk.cells, Last)' = CellsRead(disk.cells, Last)
  <2>1. CellsRead(disk'.cells, Last) = CellsRead(disk.cells, Last)
    BY ReadsKept
  <2> QED
    BY <2>1
<1>3. /\ RetainedReads = CellsRead(disk.cells, Last)
      /\ \A j : ReadsBefore(j) = CellsRead(disk.cells, j)
  BY ReadsOfCells
<1>4. /\ RetainedReads' = CellsRead(disk.cells, Last)'
      /\ \A j : ReadsBefore(j)' = CellsRead(disk.cells, j)'
  <2>1. (/\ RetainedReads = CellsRead(disk.cells, Last)
         /\ \A j : ReadsBefore(j) = CellsRead(disk.cells, j))'
    BY ReadsOfCells, PTL
  <2> QED
    BY <2>1
<1>5. RetainedReads' = RetainedReads
  BY <1>2, <1>3, <1>4, Zenon
<1>6. \A j \in 1..Last : ReadsBefore(j)' = ReadsBefore(j)
  BY <1>1, <1>3, <1>4, Zenon
<1>7. Readings' = Readings
  BY Zenon DEF Readings
<1>8. WithheldValues' = WithheldValues
  BY <1>5 DEF WithheldValues
<1> QED
  BY <1>5, <1>6, <1>7, <1>8

\* What is said of the cells' evidence is said of the disk after.
LEMMA SameDisk ==
    ASSUME IInv, SameRecords(disk, disk')
    PROVE  /\ RetainedReads' = RetainedReads /\ Readings' = Readings
           /\ Unread' /\ PublishedInv'
<1>1. /\ Last' = Last /\ disk'.target = disk.target /\ disk'.close = disk.close
      /\ disk'.publication = disk.publication
      /\ \A i \in 1..Last : SameCell(disk.cells[i], disk'.cells[i])
  BY DEF SameRecords, Last
<1>2. TypeInv /\ Unread /\ PublishedInv
  BY DEF IInv
<1>3. /\ RetainedReads' = RetainedReads
      /\ \A j \in 1..Last : ReadsBefore(j)' = ReadsBefore(j)
      /\ Readings' = Readings /\ WithheldValues' = WithheldValues
  BY <1>1, <1>2, SameReads DEF SameCell
<1>4. Unread'
  BY <1>1, <1>2, <1>3 DEF Unread, SameCell
<1>5. PublishedInv'
  BY <1>1, <1>2, <1>3 DEF PublishedInv, SameCell
<1> QED
  BY <1>3, <1>4, <1>5

\* A step that leaves the disk alone is one.
LEMMA SameDiskHere ==
    ASSUME IInv, UNCHANGED disk
    PROVE  SameRecords(disk, disk')
<1>1. DiskShape(disk) /\ IsSeq(disk.cells) /\ \A i \in 1..Last : CellShape(disk.cells[i])
  BY DEF IInv, TypeInv
<1>2. \A i \in 1..Len(disk.cells) : SameCell(disk.cells[i], disk.cells[i])
  BY <1>1 DEF SameCell, Last
<1> QED
  BY <1>1, <1>2 DEF SameRecords

\* A step of the process alone, before the window closed.
LEMMA ProcessAlone ==
    ASSUME IInv, UNCHANGED <<tick, opFile, disk>>, disk.close = None,
           ProcShape(proc'), proc'.phase \in Phases \ {"closing"},
           proc'.phase \in InCell => proc.phase \in InCell
    PROVE  /\ TypeInv' /\ TimeInv' /\ ClosedInv' /\ Unread' /\ PublishedInv'
           /\ RetainedReads' = RetainedReads /\ Readings' = Readings
<1>1. /\ RetainedReads' = RetainedReads /\ Readings' = Readings
      /\ Unread' /\ PublishedInv'
  BY SameDiskHere, SameDisk
<1>2. TypeInv'
  BY DEF IInv, TypeInv, Last
<1>3. TimeInv'
  BY DEF IInv, TimeInv, Last, Here
<1>4. ClosedInv'
  BY DEF ClosedInv
<1> QED
  BY <1>1, <1>2, <1>3, <1>4

\* A process that ends has nothing to know.
LEMMA ProcessEnds ==
    ASSUME NEW n, proc' = NoProcess(n)
    PROVE  StartInv' /\ Knows' /\ ProcShape(proc') /\ proc'.phase = "down"
<1>1. proc'.phase = "down" /\ ProcShape(proc')
  BY DEF NoProcess, ProcShape
<1> QED
  BY <1>1 DEF StartInv, Knows, Starting, Here

\* The process dies: what it knew is gone, and no record changes.
LEMMA CrashKeeps ==
    ASSUME IInv, Crash
    PROVE  IInv'
<1>1. disk.close = None
  BY DEF Crash, IInv, ClosedInv
<1>2. StartInv' /\ Knows' /\ ProcShape(proc') /\ proc'.phase = "down"
  BY ProcessEnds DEF Crash
<1>3. TypeInv' /\ TimeInv' /\ ClosedInv' /\ Unread' /\ PublishedInv'
  BY <1>1, <1>2, ProcessAlone DEF Crash, Phases, InCell, Starting
<1> QED
  BY <1>2, <1>3 DEF IInv

\* A cell that is over.
LEMMA CellEnds ==
    ASSUME IInv, proc.phase \in Starting \ {"refreshing"}, NEW outcome,
           proc' = End(outcome), UNCHANGED <<tick, opFile, disk>>
    PROVE  IInv'
<1>1. ProcShape(proc) /\ RunShape(proc.cell)
  BY DEF IInv, TypeInv, StartInv
<1>2. /\ ProcShape(proc') /\ proc'.phase = "ending" /\ proc'.withheld = proc.withheld
      /\ proc'.cell = [op |-> proc.cell.op, read |-> Secrets(proc.cell.read), outcome |-> outcome]
  BY <1>1 DEF End, ProcShape
<1>3. disk.close = None /\ proc.phase \in InCell
  BY DEF IInv, TimeInv, InCell
<1>4. /\ TypeInv' /\ TimeInv' /\ ClosedInv' /\ Unread' /\ PublishedInv'
      /\ RetainedReads' = RetainedReads /\ Readings' = Readings
  BY <1>2, <1>3, ProcessAlone DEF Phases
<1>5. StartInv'
  BY <1>2 DEF StartInv, Starting, Here
<1>6. Knows'
  <2>1. Secrets(proc.cell.read) \subseteq proc.withheld \cap Readings
    BY DEF IInv, Knows
  <2>2. Confidential(disk.target) => RetainedReads \subseteq proc.withheld
    BY DEF IInv, Knows, Starting
  <2>3. proc'.cell.read = Secrets(proc.cell.read)
    BY <1>2
  <2> QED
    BY <1>2, <1>4, <2>1, <2>2, <2>3 DEF Knows, Starting, Here
<1> QED
  BY <1>4, <1>5, <1>6 DEF IInv

\* The ladder ends.
LEMMA FinishKeeps ==
    ASSUME IInv, Finish
    PROVE  IInv'
  BY CellEnds DEF Finish, Here, Starting

\* The caps refuse the cell.
LEMMA RefuseKeeps ==
    ASSUME IInv, Refuse
    PROVE  IInv'
  BY CellEnds DEF Refuse, Here, Starting

-----------------------------------------------------------------------------
(* The start checks. *)

\* The check's two fields of a process's cell.
LEMMA CellChecked ==
    ASSUME NEW c, RunShape(c), NEW b, NEW r
    PROVE  [c EXCEPT !.balance = b, !.revision = r]
              = [clock |-> c.clock, since |-> c.since, read |-> c.read, op |-> c.op,
                 dated |-> c.dated, fault |-> c.fault, check |-> c.check,
                 revision |-> r, balance |-> b]
<1> DEFINE d == [c EXCEPT !.balance = b]
<1>1. d = [clock |-> c.clock, since |-> c.since, read |-> c.read, op |-> c.op,
           dated |-> c.dated, fault |-> c.fault, check |-> c.check,
           revision |-> c.revision, balance |-> b]
  BY DEF RunShape
<1>2. [c EXCEPT !.balance = b, !.revision = r] = [d EXCEPT !.revision = r]
  OBVIOUS
<1> HIDE DEF d
<1> QED
  BY <1>1, <1>2

\* The checks before the ladder: a cell that fails them ends, one that
\* passes has its balance and the price it was checked against.
LEMMA CheckKeeps ==
    ASSUME RecordConstants, IInv, NEW run, Check(run)
    PROVE  IInv'
<1> DEFINE c == proc.cell
           price == Prices[disk.revision]
           status == CheckBalance(run, price)
           outcome == IF \/ OverTolerance(c.clock)
                         \/ ~c.fault /\ ~StillAdmits(disk.target, c.read, price) THEN "stopped"
                      ELSE IF c.fault \/ Blocks(status) THEN "blocked"
                      ELSE None
<1>1. /\ proc.phase = "refreshed" /\ UNCHANGED <<tick, opFile, disk>>
      /\ proc' = IF outcome # None THEN End(outcome)
                 ELSE [proc EXCEPT !.phase = "checked", !.cell.balance = status,
                                   !.cell.revision = disk.revision]
  BY DEF Check, Here
<1>2. ASSUME outcome # None
      PROVE  IInv'
  <2>1. proc' = End(outcome)
    BY <1>1, <1>2
  <2>2. proc.phase \in Starting \ {"refreshing"}
    BY <1>1 DEF Starting
  <2> HIDE DEF outcome
  <2> QED
    BY <1>1, <2>1, <2>2, CellEnds
<1>3. ASSUME outcome = None
      PROVE  IInv'
  <2>1. ProcShape(proc) /\ RunShape(c)
    BY <1>1 DEF IInv, TypeInv, StartInv, Starting
  <2>2. c.fault \in BOOLEAN /\ (~c.fault => OwnRecords(c)) /\ c.since \in Int
    BY <1>1 DEF IInv, StartInv, Starting
  <2>3. /\ ~OverTolerance(c.clock) /\ ~c.fault
        /\ StillAdmits(disk.target, c.read, price) /\ ~Blocks(status)
    <3>1. None \notin {"stopped", "blocked"}
      BY DEF RecordConstants
    <3> HIDE DEF c, price, status
    <3> QED
      BY <1>3, <2>2, <3>1
  <2>4. proc' = [proc EXCEPT !.phase = "checked", !.cell.balance = status,
                             !.cell.revision = disk.revision]
    BY <1>1, <1>3
  <2>5. proc' = [phase |-> "checked", processes |-> proc.processes, op |-> proc.op,
                 withheld |-> proc.withheld,
                 cell |-> [clock |-> c.clock, since |-> c.since, read |-> c.read, op |-> c.op,
                           dated |-> c.dated, fault |-> c.fault, check |-> c.check,
                           revision |-> disk.revision, balance |-> status]]
    <3> HIDE DEF status
    <3>1. [proc.cell EXCEPT !.balance = status, !.revision = disk.revision]
            = [clock |-> c.clock, since |-> c.since, read |-> c.read, op |-> c.op,
               dated |-> c.dated, fault |-> c.fault, check |-> c.check,
               revision |-> disk.revision, balance |-> status]
      BY <2>1, CellChecked
    <3>2. proc' = [proc EXCEPT !.phase = "checked",
                     !.cell = [proc.cell EXCEPT !.balance = status, !.revision = disk.revision]]
      BY <2>1, <2>4 DEF ProcShape
    <3> HIDE DEF c
    <3> QED
      BY <2>1, <3>1, <3>2 DEF ProcShape
  <2> HIDE DEF status, price, outcome
  <2>6. /\ ProcShape(proc') /\ proc'.phase = "checked" /\ proc'.withheld = proc.withheld
        /\ RunShape(proc'.cell) /\ proc'.cell.since = c.since /\ proc'.cell.read = c.read
        /\ proc'.cell.fault = c.fault /\ proc'.cell.dated = c.dated /\ proc'.cell.clock = c.clock
        /\ proc'.cell.revision = disk.revision /\ proc'.cell.balance = status
    BY <2>5 DEF ProcShape, RunShape
  <2>7. disk.close = None /\ proc.phase \in InCell
    BY <1>1 DEF IInv, TimeInv, InCell, Starting
  <2>8. /\ TypeInv' /\ TimeInv' /\ ClosedInv' /\ Unread' /\ PublishedInv'
        /\ RetainedReads' = RetainedReads /\ Readings' = Readings
    BY <1>1, <2>6, <2>7, ProcessAlone DEF Phases
  <2>9. StartInv'
    <3>1. OwnRecords(proc.cell)'
      BY <2>2, <2>3, <2>6 DEF OwnRecords
    <3>2. Passed(proc.cell)'
      BY <1>1, <2>3, <2>6 DEF Passed, StillAdmits, price
    <3> QED
      BY <2>2, <2>6, <3>1, <3>2 DEF StartInv, Starting, Here
  <2>10. Knows'
    BY <1>1, <2>6, <2>8 DEF IInv, Knows, Starting, Here
  <2> QED
    BY <2>8, <2>9, <2>10 DEF IInv
<1> QED
  BY <1>2, <1>3

\* The ladder starts, or a price line since the check repeats it once.
LEMMA AdmitKeeps ==
    ASSUME IInv, Admit
    PROVE  IInv'
<1>1. proc.phase = "checked" /\ UNCHANGED <<tick, opFile, disk>>
  BY DEF Admit, Here
<1>2. ProcShape(proc) /\ RunShape(proc.cell)
  BY <1>1 DEF IInv, TypeInv, StartInv, Starting
<1>3. disk.close = None /\ proc.phase \in InCell
  BY <1>1 DEF IInv, TimeInv, InCell, Starting
<1>4. CASE disk.revision = proc.cell.revision
  <2>1. proc' = [proc EXCEPT !.phase = "running"]
    BY <1>4 DEF Admit
  <2>2. /\ ProcShape(proc') /\ proc'.phase = "running" /\ proc'.cell = proc.cell
        /\ proc'.withheld = proc.withheld
    BY <1>2, <2>1 DEF ProcShape
  <2>3. /\ TypeInv' /\ TimeInv' /\ ClosedInv' /\ Unread' /\ PublishedInv'
        /\ RetainedReads' = RetainedReads /\ Readings' = Readings
    BY <1>1, <1>3, <2>2, ProcessAlone DEF Phases
  <2>4. StartInv'
    BY <1>1, <1>4, <2>2 DEF IInv, StartInv, Starting, Here, Passed, StillAdmits, OwnRecords
  <2>5. Knows'
    BY <1>1, <2>2, <2>3 DEF IInv, Knows, Starting, Here
  <2> QED
    BY <2>3, <2>4, <2>5 DEF IInv
<1>5. CASE disk.revision # proc.cell.revision /\ proc.cell.check = 1
  <2>1. proc' = [proc EXCEPT !.phase = "refreshed", !.cell.check = 2]
    BY <1>5 DEF Admit
  <2> DEFINE newCell == [proc.cell EXCEPT !.check = 2]
  <2>2. /\ RunShape(newCell) /\ newCell.since = proc.cell.since /\ newCell.read = proc.cell.read
        /\ newCell.fault = proc.cell.fault /\ newCell.dated = proc.cell.dated
    BY <1>2 DEF RunShape
  <2>3. proc' = [proc EXCEPT !.phase = "refreshed", !.cell = newCell]
    BY <1>2, <2>1 DEF ProcShape
  <2> HIDE DEF newCell
  <2>4. /\ ProcShape(proc') /\ proc'.phase = "refreshed" /\ proc'.cell = newCell
        /\ proc'.withheld = proc.withheld
    BY <1>2, <2>3 DEF ProcShape
  <2>5. /\ TypeInv' /\ TimeInv' /\ ClosedInv' /\ Unread' /\ PublishedInv'
        /\ RetainedReads' = RetainedReads /\ Readings' = Readings
    BY <1>1, <1>3, <2>4, ProcessAlone DEF Phases
  <2>6. StartInv'
    BY <1>1, <2>2, <2>4 DEF IInv, StartInv, Starting, Here, OwnRecords
  <2>7. Knows'
    BY <1>1, <2>2, <2>4, <2>5 DEF IInv, Knows, Starting, Here
  <2> QED
    BY <2>5, <2>6, <2>7 DEF IInv
<1>6. CASE disk.revision # proc.cell.revision /\ proc.cell.check # 1
  <2>1. proc' = End("blocked")
    BY <1>6 DEF Admit
  <2> QED
    BY <1>1, <2>1, CellEnds DEF Starting
<1> QED
  BY <1>4, <1>5, <1>6

-----------------------------------------------------------------------------
(* Steps of the clock, the operator and the ledger. *)

\* Times before t are before a later one.
LEMMA BeforeLater ==
    ASSUME NEW c, NEW t \in Int, NEW u \in Int, Before(c, t), t <= u
    PROVE  Before(c, u)
  BY DEF Before

\* The operator's file is rewritten: no record is dated after the clock.
LEMMA RewriteKeeps ==
    ASSUME IInv, NEW f, Rewrite(f)
    PROVE  IInv'
<1>1. /\ UNCHANGED <<proc, disk>> /\ disk.close = None /\ tick' = tick + 1
      /\ opFile'.modified = [k \in RefreshedRecords |->
                              IF k \in f.touched THEN tick + 1 ELSE opFile.modified[k]]
  BY DEF Rewrite, Advance, Now, Dated
<1>2. tick \in Int /\ \A k \in RefreshedRecords : opFile.modified[k] \in Int
  BY DEF IInv, TypeInv
<1>3. Unread' /\ PublishedInv'
  BY <1>1, SameDiskHere, SameDisk
<1>4. TypeInv'
  <2>1. tick' \in Int /\ \A k \in RefreshedRecords : opFile'.modified[k] \in Int
    BY <1>1, <1>2
  <2> QED
    BY <1>1, <2>1 DEF IInv, TypeInv, Last
<1>5. TimeInv'
  <2>1. \A i \in 1..Last : Before(disk.cells[i], tick + 1)
    BY DEF IInv, TimeInv
  <2>2. \A i \in 1..Last : Before(disk.cells[i], tick + 1 + 1)
    BY <1>2, <2>1, BeforeLater
  <2>3. /\ proc.phase \in InCell => Last >= 1 /\ disk.close = None
        /\ Here("closing") =>
             /\ disk.close = None /\ proc.cell.since \in Int /\ proc.cell.since <= tick
             /\ \A i \in 1..Last : Before(disk.cells[i], proc.cell.since)
    BY DEF IInv, TimeInv
  <2>4. (\A i \in 1..Last : Before(disk.cells[i], tick + 1))'
    BY <1>1, <2>2 DEF Last
  <2>5. Here("closing") => proc.cell.since <= tick'
    BY <1>1, <1>2, <2>3
  <2> QED
    BY <1>1, <2>3, <2>4, <2>5 DEF TimeInv, Last, Here
<1>6. ClosedInv'
  BY <1>1 DEF ClosedInv
<1>7. StartInv'
  BY <1>1 DEF IInv, StartInv, Here, Passed, StillAdmits, OwnRecords
<1>8. Knows'
  BY <1>1 DEF IInv, Knows, Here, RetainedReads, Readings, Last
<1> QED
  BY <1>3, <1>4, <1>5, <1>6, <1>7, <1>8 DEF IInv

\* A price is recorded: the ledger alone grows.
LEMMA RecordPriceKeeps ==
    ASSUME IInv, RecordPrice
    PROVE  IInv'
<1>1. /\ UNCHANGED <<tick, opFile, proc>> /\ proc.phase \in {"refreshed", "checked"}
      /\ disk' = [disk EXCEPT !.revision = @ + 1]
  BY DEF RecordPrice
<1>2. /\ DiskShape(disk) /\ IsSeq(disk.cells) /\ \A i \in 1..Last : CellShape(disk.cells[i])
  BY DEF IInv, TypeInv
<1>3. /\ DiskShape(disk') /\ disk'.target = disk.target /\ disk'.cells = disk.cells
      /\ disk'.close = disk.close /\ disk'.publication = disk.publication
  BY <1>1, <1>2 DEF DiskShape
<1>4. disk.close = None
  BY <1>1 DEF IInv, TimeInv, InCell, Starting
<1>5. SameRecords(disk, disk')
  BY <1>2, <1>3 DEF SameRecords, SameCell, Last
<1>6. /\ RetainedReads' = RetainedReads /\ Readings' = Readings
      /\ Unread' /\ PublishedInv'
  BY <1>5, SameDisk
<1>7. TypeInv'
  BY <1>1, <1>3 DEF IInv, TypeInv, Last
<1>8. TimeInv'
  BY <1>1, <1>3 DEF IInv, TimeInv, Last, Here
<1>9. ClosedInv'
  BY <1>3, <1>4 DEF ClosedInv
<1>10. StartInv'
  BY <1>1, <1>3 DEF IInv, StartInv, Here, Passed, StillAdmits, OwnRecords
<1>11. Knows'
  BY <1>1, <1>3, <1>6 DEF IInv, Knows, Here
<1> QED
  BY <1>6, <1>7, <1>8, <1>9, <1>10, <1>11 DEF IInv

\* The window's close begins.
LEMMA StartCloseKeeps ==
    ASSUME IInv, StartClose
    PROVE  IInv'
<1>1. /\ UNCHANGED <<opFile, disk>> /\ proc.phase = "idle" /\ disk.close = None /\ tick' = tick + 1
      /\ proc' = [proc EXCEPT !.phase = "closing", !.cell = [since |-> tick + 1]]
  BY DEF StartClose, Advance, Now, Here
<1>2. ProcShape(proc) /\ tick \in Int
  BY DEF IInv, TypeInv
<1>3. /\ ProcShape(proc') /\ proc'.phase = "closing" /\ proc'.cell = [since |-> tick + 1]
      /\ proc'.withheld = proc.withheld
  BY <1>1, <1>2 DEF ProcShape
<1>4. /\ RetainedReads' = RetainedReads /\ Readings' = Readings
      /\ Unread' /\ PublishedInv'
  BY <1>1, SameDiskHere, SameDisk
<1>5. TypeInv'
  <2>1. tick' \in Int
    BY <1>1, <1>2
  <2> QED
    BY <1>1, <1>3, <2>1 DEF IInv, TypeInv, Last, Phases
<1>6. TimeInv'
  <2>1. \A i \in 1..Last : Before(disk.cells[i], tick + 1)
    BY DEF IInv, TimeInv
  <2>2. \A i \in 1..Last : Before(disk.cells[i], tick + 1 + 1)
    BY <1>2, <2>1, BeforeLater
  <2>3. (\A i \in 1..Last : Before(disk.cells[i], tick + 1))'
    BY <1>1, <2>2 DEF Last
  <2>4. /\ proc'.cell.since = tick + 1 /\ proc'.cell.since \in Int /\ proc'.cell.since <= tick'
    BY <1>1, <1>2, <1>3
  <2>5. (\A i \in 1..Last : Before(disk.cells[i], proc.cell.since))'
    BY <1>1, <2>1, <2>4 DEF Last
  <2> QED
    BY <1>1, <1>3, <2>3, <2>4, <2>5 DEF TimeInv, Here, InCell, Starting
<1>7. ClosedInv'
  BY <1>1 DEF ClosedInv
<1>8. StartInv'
  BY <1>3 DEF StartInv, Starting, Here
<1>9. Knows'
  BY <1>1, <1>3, <1>4 DEF IInv, Knows, Starting, Here
<1> QED
  BY <1>4, <1>5, <1>6, <1>7, <1>8, <1>9 DEF IInv

-----------------------------------------------------------------------------
(* A step of one cell's record. *)

\* One cell's record replaced, the rest of the disk as it was.
LEMMA OneCell ==
    ASSUME TypeInv, NEW k \in 1..Last, NEW d, CellShape(d),
           disk' = [disk EXCEPT !.cells = [disk.cells EXCEPT ![k] = d]]
    PROVE  /\ DiskShape(disk') /\ IsSeq(disk'.cells) /\ Last' = Last
           /\ disk'.target = disk.target /\ disk'.close = disk.close
           /\ disk'.publication = disk.publication /\ disk'.revision = disk.revision
           /\ disk'.cells[k] = d
           /\ \A i \in 1..Last : i # k => disk'.cells[i] = disk.cells[i]
           /\ \A i \in 1..Last : CellShape(disk'.cells[i])
<1> DEFINE new == [disk.cells EXCEPT ![k] = d]
<1>1. DiskShape(disk) /\ IsSeq(disk.cells) /\ \A i \in 1..Last : CellShape(disk.cells[i])
  BY DEF TypeInv
<1>2. /\ IsSeq(new) /\ Len(new) = Last /\ new[k] = d
      /\ \A i \in 1..Last : i # k => new[i] = disk.cells[i]
  BY <1>1, SeqExcept DEF Last
<1> HIDE DEF new
<1>3. /\ DiskShape(disk') /\ disk'.cells = new
      /\ disk'.target = disk.target /\ disk'.close = disk.close
      /\ disk'.publication = disk.publication /\ disk'.revision = disk.revision
  BY <1>1 DEF DiskShape, new
<1>4. \A i \in 1..Last : CellShape(new[i])
  BY <1>1, <1>2
<1> QED
  BY <1>2, <1>3, <1>4 DEF Last

\* A process in a cell has one, and the window is open.
LEMMA LastCell ==
    ASSUME IInv, proc.phase \in InCell
    PROVE  Last \in Nat /\ Last \in 1..Last /\ disk.close = None
<1>1. Last \in Nat
  BY SeqFunction DEF IInv, TypeInv, Last
<1>2. Last >= 1 /\ disk.close = None
  BY DEF IInv, TimeInv
<1> HIDE DEF Last
<1> QED
  BY <1>1, <1>2

\* A request is sent.
LEMMA SendKeeps ==
    ASSUME IInv, Send
    PROVE  IInv'
<1> DEFINE c == disk.cells[Last]
           d == [c EXCEPT !.sent = tick + 1]
<1>1. /\ UNCHANGED <<opFile, proc>> /\ proc.phase = "running" /\ tick' = tick + 1
      /\ disk' = [disk EXCEPT !.cells[Last].sent = tick + 1]
  BY DEF Send, Advance, Now, Here
<1>2. Last \in Nat /\ Last \in 1..Last /\ disk.close = None
  BY <1>1, LastCell DEF InCell, Starting
<1>3. TypeInv /\ tick \in Int /\ CellShape(c)
  BY <1>2 DEF IInv, TypeInv
<1>4. /\ CellShape(d) /\ d.start = c.start /\ d.sent = tick + 1 /\ d.end = c.end
      /\ d.retained = c.retained /\ d.manifest = c.manifest /\ d.refresh = c.refresh
      /\ d.attempts = c.attempts
  <2> HIDE DEF c
  <2> QED
    BY <1>3 DEF CellShape
<1>5. disk' = [disk EXCEPT !.cells = [disk.cells EXCEPT ![Last] = d]]
  BY <1>1
<1> HIDE DEF d
<1>6. /\ DiskShape(disk') /\ IsSeq(disk'.cells) /\ Last' = Last
      /\ disk'.target = disk.target /\ disk'.close = disk.close
      /\ disk'.publication = disk.publication /\ disk'.revision = disk.revision
      /\ disk'.cells[Last] = d
      /\ \A i \in 1..Last : i # Last => disk'.cells[i] = disk.cells[i]
      /\ \A i \in 1..Last : CellShape(disk'.cells[i])
  BY <1>2, <1>3, <1>4, <1>5, OneCell
<1>7. SameRecords(disk, disk')
  BY <1>4, <1>6 DEF SameRecords, SameCell, Last
<1>8. /\ RetainedReads' = RetainedReads /\ Readings' = Readings
      /\ Unread' /\ PublishedInv'
  BY <1>7, SameDisk
<1>9. TypeInv'
  <2>1. tick' \in Int
    BY <1>1, <1>3
  <2> QED
    BY <1>1, <1>3, <1>6, <2>1 DEF TypeInv
<1>10. TimeInv'
  <2>1. \A i \in 1..Last : Before(disk.cells[i], tick + 1)
    BY DEF IInv, TimeInv
  <2>2. \A i \in 1..Last : Before(disk.cells[i], tick + 1 + 1)
    <3>1. tick + 1 \in Int /\ tick + 1 + 1 \in Int /\ tick + 1 <= tick + 1 + 1
      BY <1>3
    <3> QED
      BY <2>1, <3>1, BeforeLater
  <2>3. Before(d, tick + 1 + 1)
    <3>1. Before(c, tick + 1)
      BY <1>2, <2>1
    <3> HIDE DEF c
    <3> QED
      BY <1>3, <1>4, <3>1 DEF Before
  <2>4. \A i \in 1..Last : Before(disk'.cells[i], tick + 1 + 1)
    BY <1>6, <2>2, <2>3
  <2> QED
    BY <1>1, <1>2, <1>6, <2>4 DEF IInv, TimeInv, Here
<1>11. ClosedInv'
  BY <1>2, <1>6 DEF ClosedInv
<1>12. StartInv'
  BY <1>1, <1>6 DEF IInv, StartInv, Here, Passed, StillAdmits, OwnRecords
<1>13. Knows'
  BY <1>1, <1>6, <1>8 DEF IInv, Knows, Here
<1> QED
  BY <1>8, <1>9, <1>10, <1>11, <1>12, <1>13 DEF IInv

-----------------------------------------------------------------------------
(* A process, and a cell, that starts. *)

\* A process starts: it reads what the cells retained before it does
\* anything else, so it knows all of it.
LEMMA StartKeeps ==
    ASSUME IInv, Start
    PROVE  IInv'
<1> DEFINE keptReads == IF Confidential(disk.target) THEN RetainedReads ELSE {}
           Cut(c) == IF c.outcome = "running" THEN [c EXCEPT !.outcome = "interrupted"] ELSE c
           new == [i \in DOMAIN disk.cells |-> Cut(disk.cells[i])]
<1>1. /\ UNCHANGED <<tick, opFile>> /\ proc.phase = "down"
      /\ proc' = [NoProcess(proc.processes + 1) EXCEPT
                    !.phase = "idle", !.op = opFile.texts, !.withheld = keptReads]
      /\ disk' = [disk EXCEPT !.cells = new]
  BY DEF Start, Here
<1>2. /\ DiskShape(disk) /\ IsSeq(disk.cells) /\ \A i \in 1..Last : CellShape(disk.cells[i])
  BY DEF IInv, TypeInv
<1>3. /\ ProcShape(proc') /\ proc'.phase = "idle" /\ proc'.withheld = keptReads
  BY <1>1 DEF NoProcess, ProcShape
<1>4. Last \in Nat /\ DOMAIN disk.cells = 1..Last
  BY <1>2, SeqFunction DEF Last
<1>5. ASSUME NEW c, CellShape(c)
      PROVE  /\ CellShape(Cut(c)) /\ SameCell(c, Cut(c))
             /\ Cut(c).start = c.start /\ Cut(c).sent = c.sent /\ Cut(c).end = c.end
  <2>1. CASE c.outcome = "running"
    BY <1>5, <2>1 DEF CellShape, SameCell
  <2>2. CASE c.outcome # "running"
    BY <1>5, <2>2 DEF SameCell
  <2> QED
    BY <2>1, <2>2
<1> HIDE DEF Cut, keptReads
<1>6. new = [i \in 1..Last |-> Cut(disk.cells[i])]
  BY <1>4
<1>7. IsSeq(new) /\ Len(new) = Last
  BY <1>4, <1>6, FunctionSeq
<1> HIDE DEF new
<1>8. /\ DiskShape(disk') /\ disk'.cells = new /\ disk'.target = disk.target
      /\ disk'.close = disk.close /\ disk'.publication = disk.publication
  BY <1>1, <1>2 DEF DiskShape
<1>9. /\ Last' = Last
      /\ \A i \in 1..Last : disk'.cells[i] = Cut(disk.cells[i])
  BY <1>6, <1>7, <1>8 DEF Last
<1>10. \A i \in 1..Last :
         /\ CellShape(disk'.cells[i]) /\ SameCell(disk.cells[i], disk'.cells[i])
         /\ disk'.cells[i].start = disk.cells[i].start /\ disk'.cells[i].sent = disk.cells[i].sent
         /\ disk'.cells[i].end = disk.cells[i].end
  BY <1>2, <1>5, <1>9
<1>11. SameRecords(disk, disk')
  BY <1>7, <1>8, <1>10 DEF SameRecords, Last
<1>12. /\ RetainedReads' = RetainedReads /\ Readings' = Readings
       /\ Unread' /\ PublishedInv'
  BY <1>11, SameDisk
<1>13. TypeInv'
  BY <1>1, <1>3, <1>7, <1>8, <1>9, <1>10 DEF IInv, TypeInv, Phases
<1>14. \A i \in 1..Last : \A t : Before(disk'.cells[i], t) <=> Before(disk.cells[i], t)
  BY <1>10 DEF Before
<1>15. TimeInv'
  <2>1. \A i \in 1..Last : Before(disk'.cells[i], tick + 1)
    BY <1>14 DEF IInv, TimeInv
  <2> QED
    BY <1>1, <1>3, <1>9, <2>1 DEF TimeInv, Here, InCell, Starting
<1>16. ClosedInv'
  <2> SUFFICES ASSUME disk.close # None
               PROVE  ClosedInv'
    BY <1>8 DEF ClosedInv
  <2>1. \A i \in 1..Last : Before(disk'.cells[i], disk.close.since)
    BY <1>14 DEF IInv, ClosedInv
  <2> QED
    BY <1>3, <1>8, <1>9, <2>1 DEF IInv, ClosedInv
<1>17. StartInv'
  BY <1>3 DEF StartInv, Starting, Here
<1>18. Knows'
  BY <1>3, <1>8, <1>12 DEF Knows, Starting, Here, keptReads
<1> QED
  BY <1>12, <1>13, <1>15, <1>16, <1>17, <1>18 DEF IInv

\* A cell begins: its record has nothing retained yet.
LEMMA StartCellKeeps ==
    ASSUME IInv, NEW clock, StartCell(clock)
    PROVE  IInv'
<1> DEFINE new == Append(disk.cells, NewCell)
           newCell == [clock |-> ReadClock(clock), since |-> tick + 1, read |-> None, op |-> {},
                    dated |-> None, fault |-> FALSE, check |-> 1, revision |-> 0, balance |-> None]
<1>1. /\ UNCHANGED opFile /\ tick' = tick + 1 /\ proc.phase = "idle" /\ disk.close = None
      /\ disk' = [disk EXCEPT !.cells = new]
      /\ proc' = [proc EXCEPT !.phase = "refreshing", !.cell = newCell]
  BY DEF StartCell, Advance, Now, Here
<1>2. /\ tick \in Int /\ ProcShape(proc)
      /\ DiskShape(disk) /\ IsSeq(disk.cells) /\ \A i \in 1..Last : CellShape(disk.cells[i])
  BY DEF IInv, TypeInv
<1>3. /\ CellShape(NewCell) /\ NewCell.manifest = None /\ NewCell.refresh = None
      /\ NewCell.retained = {} /\ NewCell.start = tick + 1 /\ NewCell.sent = None /\ NewCell.end = None
  BY DEF NewCell, CellShape, Now
<1>4. /\ IsSeq(new) /\ Len(new) = Last + 1 /\ new[Last + 1] = NewCell
      /\ \A i \in 1..Last : new[i] = disk.cells[i]
  <2> HIDE DEF NewCell
  <2> QED
    BY <1>2, SeqAppend DEF Last
<1>5. RunShape(newCell) /\ newCell.since = tick + 1
  BY DEF RunShape
<1> HIDE DEF new, newCell
<1>6. /\ DiskShape(disk') /\ disk'.cells = new /\ disk'.target = disk.target
      /\ disk'.close = disk.close /\ disk'.publication = disk.publication
  BY <1>1, <1>2 DEF DiskShape
<1>7. /\ ProcShape(proc') /\ proc'.phase = "refreshing" /\ proc'.cell = newCell
      /\ proc'.withheld = proc.withheld
  BY <1>1, <1>2 DEF ProcShape
<1>8. Last \in Nat /\ Last' = Last + 1
  BY <1>2, <1>4, <1>6, SeqFunction DEF Last
<1>9. ASSUME NEW i \in 1..Last'
      PROVE  \/ i \in 1..Last /\ disk'.cells[i] = disk.cells[i]
             \/ i = Last' /\ disk'.cells[i] = NewCell
  <2>1. i \in 1..Last \/ i = Last + 1
    BY <1>8
  <2> QED
    BY <1>4, <1>6, <1>8, <2>1
<1>10. \A j \in 1..Last : CellsRead(new, j) = CellsRead(disk.cells, j)
  <2>1. ASSUME NEW j \in 1..Last
        PROVE  CellsRead(new, j) = CellsRead(disk.cells, j)
    <3>1. 1..j \subseteq 1..Last
      BY <1>8
    <3> QED
      BY <1>4, <3>1, ReadsKept
  <2> QED
    BY <2>1
<1>11. RetainedReads' = RetainedReads
  <2>1. CellsRead(new, Last + 1) = CellsRead(disk.cells, Last)
    <3>1. ASSUME NEW x
          PROVE  x \in CellsRead(new, Last + 1) <=> x \in CellsRead(disk.cells, Last)
      <4>1. x \in CellsRead(new, Last + 1) <=>
              \E i \in 1..(Last + 1) : new[i].manifest # None /\ x \in new[i].retained
        BY ReadsMember
      <4>2. x \in CellsRead(disk.cells, Last) <=>
              \E i \in 1..Last : disk.cells[i].manifest # None /\ x \in disk.cells[i].retained
        BY ReadsMember
      <4>3. \A i : i \in 1..(Last + 1) <=> (i \in 1..Last \/ i = Last + 1)
        BY <1>8
      <4>4. new[Last + 1].manifest = None
        BY <1>3, <1>4
      <4> QED
        BY <1>4, <4>1, <4>2, <4>3, <4>4, Zenon
    <3> QED
      BY <3>1
  <2>2. RetainedReads = CellsRead(disk.cells, Last)
    BY ReadsOfCells
  <2>3. RetainedReads' = CellsRead(disk.cells, Last)'
    <3>1. (RetainedReads = CellsRead(disk.cells, Last))'
      BY ReadsOfCells, PTL
    <3> QED
      BY <3>1
  <2>4. CellsRead(disk.cells, Last)' = CellsRead(new, Last + 1)
    BY <1>6, <1>8
  <2> QED
    BY <2>1, <2>2, <2>3, <2>4
<1>12. Readings' = Readings
  BY <1>6, Zenon DEF Readings
<1>13. TypeInv'
  <2>1. tick' \in Int
    BY <1>1, <1>2
  <2>2. \A i \in 1..Last' : CellShape(disk'.cells[i])
    BY <1>2, <1>3, <1>9
  <2>3. disk.target \in Targets /\ \A k \in RefreshedRecords : opFile.modified[k] \in Int
    BY DEF IInv, TypeInv
  <2>4. IsSeq(disk'.cells)
    BY <1>4, <1>6
  <2>5. proc'.phase \in Phases
    BY <1>7 DEF Phases
  <2>6. opFile' = opFile
    BY <1>1
  <2> QED
    BY <1>6, <1>7, <2>1, <2>2, <2>3, <2>4, <2>5, <2>6 DEF TypeInv
<1>14. TimeInv'
  <2>1. \A i \in 1..Last : Before(disk.cells[i], tick + 1)
    BY DEF IInv, TimeInv
  <2>2. \A i \in 1..Last : Before(disk.cells[i], tick + 1 + 1)
    BY <1>2, <2>1, BeforeLater
  <2>3. Before(NewCell, tick + 1 + 1)
    <3> HIDE DEF NewCell
    <3> QED
      BY <1>2, <1>3 DEF Before
  <2>4. \A i \in 1..Last' : Before(disk'.cells[i], tick' + 1)
    BY <1>1, <1>9, <2>2, <2>3
  <2>5. Last' >= 1
    BY <1>8
  <2> QED
    BY <1>1, <1>6, <1>7, <2>4, <2>5 DEF TimeInv, Here
<1>15. ClosedInv'
  BY <1>1, <1>6 DEF ClosedInv
<1>16. StartInv'
  <2>1. newCell.since \in Int
    BY <1>2, <1>5
  <2> QED
    BY <1>5, <1>7, <2>1 DEF StartInv, Starting, Here
<1>17. Knows'
  BY <1>1, <1>6, <1>7, <1>11 DEF IInv, Knows, Starting, Here
<1>18. Unread'
  <2>1. Unread
    BY DEF IInv
  <2> QED
    BY <1>3, <1>6, <1>9, <1>12, <2>1 DEF Unread
<1>19. PublishedInv'
  <2>1. disk.publication = None
    BY <1>1 DEF IInv, PublishedInv
  <2>2. ASSUME NEW j \in 1..Last'
        PROVE  /\ disk'.cells[j].manifest # None =>
                     disk'.cells[j].manifest \cap (Secrets(disk.target) \cup ReadsBefore(j)') = {}
               /\ disk'.cells[j].refresh # None =>
                     disk'.cells[j].refresh \cap (Secrets(disk.target) \cup Readings) = {}
    <3>1. CASE j = Last' /\ disk'.cells[j] = NewCell
      BY <1>3, <3>1
    <3>2. CASE j \in 1..Last /\ disk'.cells[j] = disk.cells[j]
      <4>1. ReadsBefore(j) = CellsRead(disk.cells, j)
        BY ReadsOfCells
      <4>2. ReadsBefore(j)' = CellsRead(disk.cells, j)'
        BY DEF ReadsBefore, CellsRead
      <4>3. ReadsBefore(j)' = ReadsBefore(j)
        BY <1>6, <1>10, <3>2, <4>1, <4>2
      <4>4. PublishedInv
        BY DEF IInv
      <4> QED
        BY <3>2, <4>3, <4>4 DEF PublishedInv
    <3> QED
      BY <1>9, <3>1, <3>2
  <2> QED
    BY <1>1, <1>6, <1>12, <2>1, <2>2 DEF PublishedInv
<1> QED
  BY <1>13, <1>14, <1>15, <1>16, <1>17, <1>18, <1>19 DEF IInv

-----------------------------------------------------------------------------
(* The refresh command. *)

\* What a refresh publishes carries no confidential value.
LEMMA RefreshPublishes ==
    ASSUME RecordConstants, disk.target \in Targets, NEW run \in RefreshRuns
    PROVE  PublishedRefresh(run, disk.target, ReadRefreshedLimits(run, disk.target))
              \cap (Secrets(disk.target) \cup Readings) = {}
<1> DEFINE pub == PublishedRefresh(run, disk.target, ReadRefreshedLimits(run, disk.target))
<1>1. \A q \in RefreshRuns :
         pub \cap (Secrets(disk.target) \cup Secrets(ReadRefreshedLimits(q, disk.target))) = {}
  BY Zenon DEF RecordConstants
<1> HIDE DEF pub
<1>2. ASSUME NEW x \in pub
      PROVE  x \notin Secrets(disk.target) /\ x \notin Readings
  <2>1. \A q \in RefreshRuns : x \notin Secrets(ReadRefreshedLimits(q, disk.target))
    BY <1>1, <1>2
  <2>2. x \notin Secrets(disk.target)
    BY <1>1, <1>2
  <2>3. x \notin Readings
    BY <2>1, Zenon DEF Readings
  <2> QED
    BY <2>2, <2>3
<1>3. pub \cap (Secrets(disk.target) \cup Readings) = {}
  BY <1>2
<1> QED
  BY <1>3 DEF pub

\* A refresh reads values some command answers with.
LEMMA ReadingOf ==
    ASSUME NEW run \in RefreshRuns
    PROVE  Secrets(ReadRefreshedLimits(run, disk.target)) \subseteq Readings
  BY Zenon DEF Readings

\* The refresh: what it reads is withheld from then on.
LEMMA RefreshKeeps ==
    ASSUME RecordConstants, IInv, NEW run \in RefreshRuns, Refresh(run)
    PROVE  IInv'
<1> DEFINE read == ReadRefreshedLimits(run, disk.target)
           withheld == proc.withheld \cup Secrets(read)
           ok == CellOperator(opFile, disk.target, withheld, run, proc.cell.since) /\ read # None
           fault == ~ok
           op == IF ok THEN opFile.texts ELSE proc.op
           pub == PublishedRefresh(run, disk.target, read)
           c == disk.cells[Last]
           d == [c EXCEPT !.refresh = pub]
           newCell == [proc.cell EXCEPT !.read = read, !.fault = fault, !.op = op,
                                     !.dated = opFile.modified]
<1>1. /\ UNCHANGED <<tick, opFile>> /\ proc.phase = "refreshing"
      /\ proc' = [proc EXCEPT !.phase = "refreshed", !.withheld = withheld,
                     !.cell.read = read, !.cell.fault = fault,
                     !.cell.op = op, !.cell.dated = opFile.modified]
      /\ disk' = [disk EXCEPT !.cells[Last].refresh = pub]
  BY DEF Refresh, Here
<1>2. Last \in Nat /\ Last \in 1..Last /\ disk.close = None
  BY <1>1, LastCell DEF InCell, Starting
<1>3. /\ TypeInv /\ tick \in Int /\ CellShape(c) /\ ProcShape(proc)
      /\ RunShape(proc.cell) /\ proc.cell.since \in Int /\ disk.target \in Targets
      /\ \A k \in RefreshedRecords : opFile.modified[k] \in Int
  BY <1>1, <1>2 DEF IInv, TypeInv, StartInv, Starting
<1>4. /\ pub \cap (Secrets(disk.target) \cup Readings) = {}
      /\ Secrets(read) \subseteq Readings
  BY <1>3, RefreshPublishes, ReadingOf
<1>5. ok => read # None /\ Refreshed(opFile, proc.cell.since)
  BY DEF CellOperator
<1>6. ok \in BOOLEAN /\ fault = ~ok
  BY DEF CellOperator, Readable, LoadOperator
<1> HIDE DEF read, ok, pub, op, fault
<1>7. proc' = [proc EXCEPT !.phase = "refreshed", !.withheld = withheld, !.cell = newCell]
  BY <1>1, <1>3 DEF ProcShape
<1>8. /\ RunShape(newCell) /\ newCell.since = proc.cell.since /\ newCell.read = read
      /\ newCell.fault = fault /\ newCell.dated = opFile.modified
  <2> DEFINE b == proc.cell
             m == opFile.modified
  <2>1. newCell = [b EXCEPT !.read = read, !.fault = fault, !.op = op, !.dated = m] /\ RunShape(b)
    BY <1>3
  <2>2. b.since = proc.cell.since /\ m = opFile.modified
    OBVIOUS
  <2> HIDE DEF newCell, b, m
  <2> DEFINE b1 == [b EXCEPT !.read = read]
             b2 == [b1 EXCEPT !.fault = fault]
             b3 == [b2 EXCEPT !.op = op]
             b4 == [b3 EXCEPT !.dated = m]
  <2>3. RunShape(b1) /\ b1.since = b.since /\ b1.read = read
    BY <2>1 DEF RunShape
  <2>4. newCell = b4
    BY <2>1
  <2> HIDE DEF b1
  <2>5. RunShape(b2) /\ b2.since = b.since /\ b2.read = read /\ b2.fault = fault
    BY <2>3 DEF RunShape
  <2> HIDE DEF b2
  <2>6. RunShape(b3) /\ b3.since = b.since /\ b3.read = read /\ b3.fault = fault
    BY <2>5 DEF RunShape
  <2> HIDE DEF b3
  <2>7. /\ RunShape(b4) /\ b4.since = b.since /\ b4.read = read /\ b4.fault = fault
        /\ b4.dated = m
    BY <2>6 DEF RunShape
  <2> HIDE DEF b4
  <2> QED
    BY <2>2, <2>4, <2>7
<1>9. /\ CellShape(d) /\ d.start = c.start /\ d.sent = c.sent /\ d.end = c.end
      /\ d.retained = c.retained /\ d.manifest = c.manifest /\ d.refresh = pub
      /\ d.attempts = c.attempts
  <2> HIDE DEF c
  <2> QED
    BY <1>3 DEF CellShape
<1>10. disk' = [disk EXCEPT !.cells = [disk.cells EXCEPT ![Last] = d]]
  BY <1>1
<1> HIDE DEF d, newCell, withheld
<1>11. /\ ProcShape(proc') /\ proc'.phase = "refreshed" /\ proc'.withheld = withheld
       /\ proc'.cell = newCell
  BY <1>3, <1>7 DEF ProcShape
<1>12. /\ DiskShape(disk') /\ IsSeq(disk'.cells) /\ Last' = Last
       /\ disk'.target = disk.target /\ disk'.close = disk.close
       /\ disk'.publication = disk.publication /\ disk'.revision = disk.revision
       /\ disk'.cells[Last] = d
       /\ \A i \in 1..Last : i # Last => disk'.cells[i] = disk.cells[i]
       /\ \A i \in 1..Last : CellShape(disk'.cells[i])
  BY <1>2, <1>3, <1>9, <1>10, OneCell
<1>13. \A i \in 1..Last :
          LET b == disk.cells[i]
              a == disk'.cells[i]
          IN  /\ a.start = b.start /\ a.sent = b.sent /\ a.end = b.end
              /\ a.retained = b.retained /\ a.manifest = b.manifest /\ a.attempts = b.attempts
  BY <1>9, <1>12
<1>14. /\ RetainedReads' = RetainedReads /\ Readings' = Readings
       /\ \A j \in 1..Last : ReadsBefore(j)' = ReadsBefore(j)
  BY <1>3, <1>12, <1>13, SameReads
<1>15. TypeInv'
  BY <1>1, <1>3, <1>11, <1>12 DEF TypeInv, Phases
<1>16. TimeInv'
  <2>1. \A i \in 1..Last : Before(disk.cells[i], tick + 1)
    BY DEF IInv, TimeInv
  <2>2. \A i \in 1..Last : Before(disk'.cells[i], tick + 1)
    BY <1>13, <2>1 DEF Before
  <2>3. Last >= 1
    BY <1>2
  <2> QED
    BY <1>1, <1>2, <1>11, <1>12, <2>2, <2>3 DEF TimeInv, Here
<1>17. ClosedInv'
  BY <1>2, <1>12 DEF ClosedInv
<1>18. StartInv'
  <2>1. newCell.fault \in BOOLEAN
    BY <1>6, <1>8
  <2>2. ASSUME ~newCell.fault
        PROVE  OwnRecords(newCell)
    <3>1. ok
      BY <1>6, <1>8, <2>2
    <3>2. read # None /\ Refreshed(opFile, proc.cell.since)
      BY <1>5, <3>1
    <3> QED
      BY <1>3, <1>8, <3>2 DEF OwnRecords, Refreshed
  <2>3. ~newCell.fault => OwnRecords(proc.cell)'
    BY <1>11, <2>2 DEF OwnRecords
  <2> QED
    BY <1>3, <1>8, <1>11, <2>1, <2>3 DEF StartInv, Starting, Here
<1>19. Knows'
  <2>1. Confidential(disk.target) => RetainedReads \subseteq proc.withheld
    BY <1>1 DEF IInv, Knows
  <2>2. proc.withheld \subseteq withheld /\ Secrets(read) \subseteq withheld
    BY DEF withheld
  <2>3. Secrets(proc'.cell.read) = Secrets(read)
    BY <1>8, <1>11
  <2> QED
    BY <1>4, <1>11, <1>12, <1>14, <2>1, <2>2, <2>3 DEF Knows, Starting, Here
<1>20. Unread'
  <2>1. Unread
    BY DEF IInv
  <2> QED
    BY <1>12, <1>13, <1>14, <2>1 DEF Unread
<1>21. PublishedInv'
  <2>1. PublishedInv /\ disk.publication = None
    BY <1>2 DEF IInv, PublishedInv
  <2>2. ASSUME NEW j \in 1..Last
        PROVE  disk'.cells[j].refresh # None =>
                  disk'.cells[j].refresh \cap (Secrets(disk.target) \cup Readings) = {}
    <3>1. CASE j = Last
      BY <1>4, <1>9, <1>12, <3>1
    <3>2. CASE j # Last
      BY <1>12, <2>1, <3>2 DEF PublishedInv
    <3> QED
      BY <3>1, <3>2
  <2>3. ASSUME NEW j \in 1..Last
        PROVE  disk'.cells[j].manifest # None =>
                  disk'.cells[j].manifest \cap (Secrets(disk.target) \cup ReadsBefore(j)') = {}
    BY <1>13, <1>14, <2>1 DEF PublishedInv
  <2> QED
    BY <1>2, <1>12, <1>14, <2>1, <2>2, <2>3 DEF PublishedInv
<1> QED
  BY <1>15, <1>16, <1>17, <1>18, <1>19, <1>20, <1>21 DEF IInv

-----------------------------------------------------------------------------
(* What is kept, and what is published. *)

\* With no confidential limit no cell retained a value.
LEMMA NothingRetained ==
    ASSUME Unread, ~Confidential(disk.target)
    PROVE  RetainedReads = {}
<1>1. ASSUME NEW x
      PROVE  x \notin RetainedReads
  <2>1. x \in CellsRead(disk.cells, Last) <=>
           \E i \in 1..Last : disk.cells[i].manifest # None /\ x \in disk.cells[i].retained
    BY ReadsMember
  <2>2. \A i \in 1..Last : disk.cells[i].retained = {}
    BY DEF Unread
  <2> QED
    BY <2>1, <2>2, ReadsOfCells
<1> QED
  BY <1>1

\* What a text searched for the process's values cannot carry.
LEMMA TextSearched ==
    ASSUME Unread, Knows, proc.phase # "down", NEW text, NEW withheld,
           proc.withheld \subseteq withheld,
           CheckConfidential(text, disk.target, withheld)
    PROVE  /\ text \cap (Secrets(disk.target) \cup RetainedReads) = {}
           /\ text \cap withheld = {}
<1>1. text \cap (Secrets(disk.target) \cup withheld) = {}
  BY DEF CheckConfidential
<1>2. RetainedReads \subseteq withheld \/ RetainedReads = {}
  BY NothingRetained DEF Knows
<1> QED
  BY <1>1, <1>2

\* An interrupted cell's manifest, and a store that may fail.
LEMMA LabelKeeps ==
    ASSUME IInv, NEW stored \in BOOLEAN, Label(stored)
    PROVE  IInv'
<1> DEFINE op == IF Readable(opFile, disk.target, proc.withheld) THEN opFile.texts ELSE proc.op
           ok == CheckConfidential(op, disk.target, proc.withheld)
           newMan == IF ok THEN op ELSE None
<1>1. /\ UNCHANGED <<tick, opFile>> /\ proc.phase = "idle"
      /\ \/ proc' = proc
         \/ proc' = NoProcess(proc.processes)
  BY DEF Label, Here
<1>2. PICK k \in Unlabelled :
         disk' = [disk EXCEPT !.cells[k] = [@ EXCEPT !.attempts = TRUE, !.manifest = newMan]]
  BY DEF Label
<1>3. /\ k \in 1..Last /\ disk.cells[k].manifest = None /\ ~disk.cells[k].attempts
  BY DEF Unlabelled
<1>4. TypeInv /\ TimeInv /\ ClosedInv /\ Unread /\ Knows /\ PublishedInv
  BY DEF IInv
<1> DEFINE c == disk.cells[k]
           yes == TRUE
           e == [c EXCEPT !.attempts = yes]
           d == [e EXCEPT !.manifest = newMan]
<1>5. CellShape(c) /\ c.retained = {}
  BY <1>3, <1>4 DEF TypeInv, Unread
<1>6. newMan # None => newMan \cap (Secrets(disk.target) \cup RetainedReads) = {}
  <2>1. ASSUME ok
        PROVE  op \cap (Secrets(disk.target) \cup RetainedReads) = {}
    <3> HIDE DEF op
    <3> QED
      BY <1>1, <1>4, <2>1, TextSearched
  <2> HIDE DEF op, ok
  <2> QED
    BY <2>1
<1> HIDE DEF newMan
<1>7. disk' = [disk EXCEPT !.cells = [disk.cells EXCEPT ![k] = d]]
  BY <1>2
<1>8. /\ CellShape(d) /\ d.start = c.start /\ d.sent = c.sent /\ d.end = c.end
      /\ d.retained = c.retained /\ d.manifest = newMan /\ d.refresh = c.refresh
      /\ d.attempts = yes
  <2> HIDE DEF c, yes
  <2>1. /\ CellShape(e) /\ e.start = c.start /\ e.sent = c.sent /\ e.end = c.end
        /\ e.retained = c.retained /\ e.refresh = c.refresh /\ e.attempts = yes
    BY <1>5 DEF CellShape
  <2> HIDE DEF e
  <2> QED
    BY <2>1 DEF CellShape
<1> HIDE DEF d
<1>9. /\ DiskShape(disk') /\ IsSeq(disk'.cells) /\ Last' = Last
      /\ disk'.target = disk.target /\ disk'.close = disk.close
      /\ disk'.publication = disk.publication
      /\ disk'.cells[k] = d
      /\ \A i \in 1..Last : i # k => disk'.cells[i] = disk.cells[i]
      /\ \A i \in 1..Last : CellShape(disk'.cells[i])
  BY <1>3, <1>4, <1>7, <1>8, OneCell
<1>10. \A i \in 1..Last :
          LET b == disk.cells[i]
              a == disk'.cells[i]
          IN  /\ a.start = b.start /\ a.sent = b.sent /\ a.end = b.end
              /\ a.retained = b.retained /\ a.refresh = b.refresh
              /\ ~a.attempts => ~b.attempts
  BY <1>8, <1>9
<1>11. \A i \in 1..Last : \/ disk'.cells[i].manifest # None <=> disk.cells[i].manifest # None
                          \/ disk.cells[i].retained = {}
  BY <1>5, <1>9
<1>12. /\ RetainedReads' = RetainedReads /\ Readings' = Readings /\ WithheldValues' = WithheldValues
       /\ \A j \in 1..Last : ReadsBefore(j)' = ReadsBefore(j)
  BY <1>4, <1>9, <1>10, <1>11, SameReads
<1>13. /\ ProcShape(proc') /\ proc'.phase \in {"down", "idle"}
       /\ proc'.phase = "idle" => proc' = proc
  BY <1>1, <1>4 DEF TypeInv, ProcShape, NoProcess
<1>14. TypeInv'
  <2>1. proc'.phase \in Phases
    BY <1>13 DEF Phases
  <2> QED
    BY <1>1, <1>4, <1>9, <1>13, <2>1 DEF TypeInv
<1>15. \A i \in 1..Last : \A t : Before(disk'.cells[i], t) <=> Before(disk.cells[i], t)
  BY <1>10 DEF Before
<1>16. TimeInv'
  <2>1. \A i \in 1..Last : Before(disk'.cells[i], tick + 1)
    BY <1>4, <1>15 DEF TimeInv
  <2> QED
    BY <1>1, <1>9, <1>13, <2>1 DEF TimeInv, Here, InCell, Starting
<1>17. ClosedInv'
  <2> SUFFICES ASSUME disk.close # None
               PROVE  ClosedInv'
    BY <1>9 DEF ClosedInv
  <2>1. \A i \in 1..Last : Before(disk'.cells[i], disk.close.since)
    BY <1>4, <1>15 DEF ClosedInv
  <2> QED
    BY <1>4, <1>9, <1>13, <2>1 DEF ClosedInv
<1>18. StartInv'
  BY <1>13 DEF StartInv, Starting, Here
<1>19. Knows'
  BY <1>4, <1>9, <1>12, <1>13 DEF Knows, Starting, Here
<1>20. Unread'
  BY <1>4, <1>9, <1>10, <1>12 DEF Unread
<1>21. PublishedInv'
  <2>1. ASSUME NEW j \in 1..Last
        PROVE  disk'.cells[j].manifest # None =>
                  disk'.cells[j].manifest \cap (Secrets(disk.target) \cup ReadsBefore(j)) = {}
    <3>1. CASE j = k
      <4>1. ReadsBefore(j) \subseteq RetainedReads
        <5>1. Last \in Nat /\ j \in Int /\ j <= Last
          BY <1>4, SeqFunction DEF TypeInv, Last
        <5>2. CellsRead(disk.cells, j) \subseteq CellsRead(disk.cells, Last)
          BY <5>1, ReadsGrow
        <5> QED
          BY <5>2, ReadsOfCells
      <4> QED
        BY <1>6, <1>8, <1>9, <3>1, <4>1
    <3>2. CASE j # k
      BY <1>4, <1>9, <3>2 DEF PublishedInv
    <3> QED
      BY <3>1, <3>2
  <2>2. ASSUME NEW j \in 1..Last
        PROVE  disk'.cells[j].refresh # None =>
                  disk'.cells[j].refresh \cap (Secrets(disk.target) \cup Readings) = {}
    BY <1>4, <1>10 DEF PublishedInv
  <2> QED
    BY <1>4, <1>9, <1>12, <2>1, <2>2 DEF PublishedInv
<1> QED
  BY <1>14, <1>16, <1>17, <1>18, <1>19, <1>20, <1>21 DEF IInv

\* The cell's evidence is retained: only values the process withholds.
LEMMA RetainKeeps ==
    ASSUME IInv, NEW stored \in BOOLEAN, Retain(stored)
    PROVE  IInv'
<1> DEFINE op == proc.cell.op
           ok == CheckConfidential(op, disk.target, proc.withheld)
           held == stored /\ Confidential(disk.target)
           newMan == IF ok THEN op ELSE None
           retained == IF held THEN proc.cell.read ELSE {}
           outcome == IF ok /\ stored THEN "ended" ELSE "interrupted"
           yes == TRUE
           c == disk.cells[Last]
<1>1. /\ UNCHANGED <<tick, opFile>> /\ proc.phase = "ending"
      /\ \/ proc' = [proc EXCEPT !.phase = "idle", !.cell = None]
         \/ proc' = NoProcess(proc.processes)
      /\ disk' = [disk EXCEPT !.cells[Last] =
                    [@ EXCEPT !.end = tick, !.attempts = yes, !.outcome = outcome,
                              !.manifest = newMan, !.retained = retained]]
  BY DEF Retain, Here
<1>2. Last \in Nat /\ Last \in 1..Last /\ disk.close = None
  BY <1>1, LastCell DEF InCell
<1>3. TypeInv /\ TimeInv /\ Unread /\ Knows /\ PublishedInv
  BY DEF IInv
<1>4. /\ tick \in Int /\ CellShape(c) /\ ProcShape(proc)
      /\ proc.cell.read \subseteq proc.withheld \cap Readings
  BY <1>1, <1>2, <1>3 DEF TypeInv, Knows, Here
<1>5. /\ retained \subseteq Readings /\ retained \subseteq proc.withheld
      /\ ~Confidential(disk.target) => retained = {}
  BY <1>4
<1>6. newMan # None =>
         /\ newMan \cap (Secrets(disk.target) \cup RetainedReads) = {}
         /\ newMan \cap proc.withheld = {}
  <2>1. ASSUME ok
        PROVE  /\ op \cap (Secrets(disk.target) \cup RetainedReads) = {}
               /\ op \cap proc.withheld = {}
    <3> HIDE DEF op
    <3> QED
      BY <1>1, <1>3, <2>1, TextSearched
  <2> HIDE DEF op, ok
  <2> QED
    BY <2>1
<1> DEFINE d1 == [c EXCEPT !.end = tick]
           d2 == [d1 EXCEPT !.attempts = yes]
           d3 == [d2 EXCEPT !.outcome = outcome]
           d4 == [d3 EXCEPT !.manifest = newMan]
           d == [d4 EXCEPT !.retained = retained]
<1> HIDE DEF newMan, retained, outcome
<1>7. disk' = [disk EXCEPT !.cells = [disk.cells EXCEPT ![Last] = d]]
  BY <1>1
<1> HIDE DEF yes
<1>8. /\ CellShape(d) /\ d.start = c.start /\ d.sent = c.sent /\ d.end = tick
      /\ d.retained = retained /\ d.manifest = newMan /\ d.refresh = c.refresh
      /\ d.attempts = yes
  <2> HIDE DEF c
  <2>1. /\ CellShape(d1) /\ d1.start = c.start /\ d1.sent = c.sent /\ d1.end = tick
        /\ d1.refresh = c.refresh
    BY <1>4 DEF CellShape
  <2> HIDE DEF d1
  <2>2. /\ CellShape(d2) /\ d2.start = c.start /\ d2.sent = c.sent /\ d2.end = tick
        /\ d2.refresh = c.refresh /\ d2.attempts = yes
    BY <2>1 DEF CellShape
  <2> HIDE DEF d2
  <2>3. /\ CellShape(d3) /\ d3.start = c.start /\ d3.sent = c.sent /\ d3.end = tick
        /\ d3.refresh = c.refresh /\ d3.attempts = yes
    BY <2>2 DEF CellShape
  <2> HIDE DEF d3
  <2>4. /\ CellShape(d4) /\ d4.start = c.start /\ d4.sent = c.sent /\ d4.end = tick
        /\ d4.refresh = c.refresh /\ d4.attempts = yes /\ d4.manifest = newMan
    BY <2>3 DEF CellShape
  <2> HIDE DEF d4
  <2> QED
    BY <2>4 DEF CellShape
<1> HIDE DEF d
<1>9. /\ DiskShape(disk') /\ IsSeq(disk'.cells) /\ Last' = Last
      /\ disk'.target = disk.target /\ disk'.close = disk.close
      /\ disk'.publication = disk.publication
      /\ disk'.cells[Last] = d
      /\ \A i \in 1..Last : i # Last => disk'.cells[i] = disk.cells[i]
      /\ \A i \in 1..Last : CellShape(disk'.cells[i])
  BY <1>2, <1>3, <1>7, <1>8, OneCell
<1>10. /\ ProcShape(proc') /\ proc'.phase \in {"down", "idle"}
       /\ proc'.phase = "idle" => proc'.withheld = proc.withheld
  <2>1. CASE proc' = [proc EXCEPT !.phase = "idle", !.cell = None]
    BY <1>4, <2>1 DEF ProcShape
  <2>2. CASE proc' = NoProcess(proc.processes)
    BY <2>2 DEF ProcShape, NoProcess
  <2> QED
    BY <1>1, <2>1, <2>2
<1>11. Readings' = Readings
  BY <1>9, Zenon DEF Readings
<1>12. Confidential(disk.target) => RetainedReads' \subseteq proc.withheld
  <2> SUFFICES ASSUME Confidential(disk.target), NEW x \in RetainedReads'
               PROVE  x \in proc.withheld
    OBVIOUS
  <2>1. RetainedReads' = CellsRead(disk'.cells, Last)
    <3>1. (RetainedReads = CellsRead(disk.cells, Last))'
      BY ReadsOfCells, PTL
    <3> QED
      BY <1>9, <3>1
  <2>2. PICK i \in 1..Last : disk'.cells[i].manifest # None /\ x \in disk'.cells[i].retained
    BY <2>1, ReadsMember
  <2>3. CASE i = Last
    BY <1>5, <1>8, <1>9, <2>2, <2>3
  <2>4. CASE i # Last
    <3>1. disk.cells[i].manifest # None /\ x \in disk.cells[i].retained
      BY <1>9, <2>2, <2>4
    <3>2. x \in CellsRead(disk.cells, Last)
      BY <3>1, ReadsMember
    <3>3. RetainedReads \subseteq proc.withheld
      BY <1>1, <1>3 DEF Knows
    <3> QED
      BY <3>2, <3>3, ReadsOfCells
  <2> QED
    BY <2>3, <2>4
<1>13. TypeInv'
  <2>1. proc'.phase \in Phases
    BY <1>10 DEF Phases
  <2> QED
    BY <1>1, <1>3, <1>9, <1>10, <2>1 DEF TypeInv
<1>14. TimeInv'
  <2>1. \A i \in 1..Last : Before(disk.cells[i], tick + 1)
    BY <1>3 DEF TimeInv
  <2>2. Before(d, tick + 1)
    <3>1. Before(c, tick + 1)
      BY <1>2, <2>1
    <3> HIDE DEF c
    <3> QED
      BY <1>4, <1>8, <3>1 DEF Before
  <2>3. \A i \in 1..Last : Before(disk'.cells[i], tick + 1)
    BY <1>9, <2>1, <2>2
  <2> QED
    BY <1>1, <1>9, <1>10, <2>3 DEF TimeInv, Here, InCell, Starting
<1>15. ClosedInv'
  BY <1>2, <1>9 DEF ClosedInv
<1>16. StartInv'
  BY <1>10 DEF StartInv, Starting, Here
<1>17. Knows'
  BY <1>9, <1>10, <1>12 DEF Knows, Starting, Here
<1>18. Unread'
  <2>1. ASSUME NEW i \in 1..Last
        PROVE  /\ ~disk'.cells[i].attempts => disk'.cells[i].retained = {}
               /\ disk'.cells[i].retained \subseteq Readings
               /\ ~Confidential(disk.target) => disk'.cells[i].retained = {}
    <3>1. CASE i = Last
      BY <1>5, <1>8, <1>9, <3>1 DEF yes
    <3>2. CASE i # Last
      BY <1>3, <1>9, <3>2 DEF Unread
    <3> QED
      BY <3>1, <3>2
  <2> QED
    BY <1>9, <1>11, <2>1 DEF Unread
<1>19. PublishedInv'
  <2>1. disk.publication = None
    BY <1>2, <1>3 DEF PublishedInv
  <2>2. ASSUME NEW j \in 1..Last
        PROVE  /\ disk'.cells[j].manifest # None =>
                     disk'.cells[j].manifest \cap (Secrets(disk.target) \cup ReadsBefore(j)') = {}
               /\ disk'.cells[j].refresh # None =>
                     disk'.cells[j].refresh \cap (Secrets(disk.target) \cup Readings) = {}
    <3>0. ReadsBefore(j)' = CellsRead(disk'.cells, j)
      BY DEF ReadsBefore, CellsRead
    <3>1. CASE j = Last
      <4>1. ReadsBefore(j)' = RetainedReads'
        <5>1. (RetainedReads = CellsRead(disk.cells, Last))'
          BY ReadsOfCells, PTL
        <5> QED
          BY <1>9, <3>0, <3>1, <5>1
      <4>2. RetainedReads' \subseteq proc.withheld \/ RetainedReads' = {}
        <5>1. (Unread /\ ~Confidential(disk.target) => RetainedReads = {})'
          BY NothingRetained, PTL
        <5> QED
          BY <1>9, <1>12, <1>18, <5>1
      <4>3. disk'.cells[j].manifest = newMan /\ disk'.cells[j].refresh = c.refresh
        BY <1>8, <1>9, <3>1
      <4>4. c.refresh # None => c.refresh \cap (Secrets(disk.target) \cup Readings) = {}
        BY <1>2, <1>3 DEF PublishedInv
      <4> QED
        BY <1>6, <4>1, <4>2, <4>3, <4>4
    <3>2. CASE j # Last
      <4>1. ReadsBefore(j)' = ReadsBefore(j)
        <5>1. \A i \in 1..j : i \in 1..Last /\ i # Last
          BY <1>2, <3>2
        <5>2. \A i \in 1..j : disk'.cells[i] = disk.cells[i]
          BY <1>9, <5>1
        <5>3. CellsRead(disk'.cells, j) = CellsRead(disk.cells, j)
          BY <5>2, ReadsKept
        <5>4. ReadsBefore(j) = CellsRead(disk.cells, j)
          BY ReadsOfCells
        <5> QED
          BY <3>0, <5>3, <5>4
      <4> QED
        BY <1>3, <1>9, <3>2, <4>1 DEF PublishedInv
    <3> QED
      BY <3>1, <3>2
  <2> QED
    BY <1>2, <1>9, <1>11, <2>1, <2>2 DEF PublishedInv
<1> QED
  BY <1>13, <1>14, <1>15, <1>16, <1>17, <1>18, <1>19 DEF IInv

\* The window-close record, after every cell's last request.
LEMMA CloseKeeps ==
    ASSUME RecordConstants, IInv, NEW run \in RefreshRuns, Close(run)
    PROVE  IInv'
<1> DEFINE read == ReadRefreshedLimits(run, disk.target)
           withheld == proc.withheld \cup Secrets(read)
           ok == CellOperator(opFile, disk.target, withheld, run, proc.cell.since) /\ read # None
           pub == PublishedRefresh(run, disk.target, read)
           w == [recorded |-> tick, since |-> proc.cell.since, run |-> run, refresh |-> pub,
                 texts |-> opFile.texts, kinds |-> opFile.kinds,
                 retained |-> IF Confidential(disk.target) THEN Secrets(read) ELSE {}]
<1>1. /\ UNCHANGED <<tick, opFile>> /\ proc.phase = "closing"
      /\ proc' = NoProcess(proc.processes)
      /\ disk' = IF ok THEN [disk EXCEPT !.close = w] ELSE disk
  BY DEF Close, Here
<1>2. StartInv' /\ Knows' /\ ProcShape(proc') /\ proc'.phase = "down"
  BY <1>1, ProcessEnds
<1>3. TypeInv /\ TimeInv /\ Unread /\ Knows /\ PublishedInv
  BY DEF IInv
<1>4. /\ disk.close = None /\ proc.cell.since \in Int /\ proc.cell.since <= tick /\ tick \in Int
      /\ \A i \in 1..Last : Before(disk.cells[i], proc.cell.since)
  BY <1>1, <1>3 DEF TimeInv, TypeInv, Here
<1>5. CASE ~ok
  <2>1. UNCHANGED <<tick, opFile, disk>>
    BY <1>1, <1>5
  <2>2. TypeInv' /\ TimeInv' /\ ClosedInv' /\ Unread' /\ PublishedInv'
    BY <1>2, <1>4, <2>1, ProcessAlone DEF Phases, InCell, Starting
  <2> QED
    BY <1>2, <2>2 DEF IInv
<1>6. CASE ok
  <2>1. DiskShape(disk) /\ IsSeq(disk.cells) /\ \A i \in 1..Last : CellShape(disk.cells[i])
    BY <1>3 DEF TypeInv
  <2>2. disk' = [disk EXCEPT !.close = w]
    BY <1>1, <1>6
  <2>3. /\ w.since = proc.cell.since /\ w.recorded = tick /\ w.run = run /\ w.refresh = pub
        /\ w.texts = opFile.texts /\ w.kinds = opFile.kinds /\ w.retained \subseteq Secrets(read)
    OBVIOUS
  <2>4. /\ CheckConfidential(opFile.texts, disk.target, withheld)
        /\ RequiredRecords \subseteq opFile.kinds /\ read # None
    BY <1>6 DEF CellOperator, Readable, LoadOperator
  <2>5. /\ pub \cap (Secrets(disk.target) \cup Readings) = {}
        /\ Secrets(read) \subseteq Readings
    BY <1>3, RefreshPublishes, ReadingOf DEF TypeInv
  <2> HIDE DEF w
  <2>6. /\ DiskShape(disk') /\ disk'.cells = disk.cells /\ disk'.target = disk.target
        /\ disk'.close = w /\ disk'.publication = disk.publication
    BY <2>1, <2>2 DEF DiskShape
  <2>7. Last' = Last
    BY <2>6 DEF Last
  <2>8. /\ RetainedReads' = RetainedReads /\ Readings' = Readings
        /\ \A j : ReadsBefore(j)' = ReadsBefore(j)
    BY <2>6, <2>7, Zenon DEF RetainedReads, Readings, ReadsBefore
  <2>9. TypeInv'
    <3>1. proc'.phase \in Phases
      BY <1>2 DEF Phases
    <3> QED
      BY <1>1, <1>2, <1>3, <2>6, <2>7, <3>1 DEF TypeInv
  <2>10. TimeInv'
    BY <1>1, <1>2, <1>3, <2>6, <2>7 DEF TimeInv, Here, InCell, Starting
  <2>11. ClosedInv'
    BY <1>2, <1>4, <2>3, <2>4, <2>6, <2>7 DEF ClosedInv
  <2>12. Unread'
    BY <1>3, <2>6, <2>7, <2>8 DEF Unread
  <2>13. PublishedInv'
    <3>1. disk.publication = None
      BY <1>3, <1>4 DEF PublishedInv
    <3>2. RetainedReads \subseteq Readings
      <4> SUFFICES ASSUME NEW x \in RetainedReads
                   PROVE  x \in Readings
        OBVIOUS
      <4>1. PICK i \in 1..Last : disk.cells[i].manifest # None /\ x \in disk.cells[i].retained
        BY ReadsOfCells, ReadsMember
      <4> QED
        BY <1>3, <4>1 DEF Unread
    <3>3. /\ opFile.texts \cap (Secrets(disk.target) \cup RetainedReads) = {}
          /\ opFile.texts \cap withheld = {}
      <4>1. proc.withheld \subseteq withheld
        OBVIOUS
      <4> HIDE DEF withheld
      <4> QED
        BY <1>1, <1>3, <2>4, <4>1, TextSearched
    <3>4. Secrets(read) \subseteq withheld
      OBVIOUS
    <3> HIDE DEF withheld, pub, read
    <3>5. WithheldValues' \subseteq Secrets(disk.target) \cup RetainedReads \cup Secrets(read)
      BY <2>3, <2>6, <2>8 DEF WithheldValues
    <3>6. (w.texts \cup w.refresh) \cap WithheldValues' = {}
      BY <2>3, <2>5, <3>2, <3>3, <3>4, <3>5
    <3> QED
      BY <1>3, <2>6, <2>7, <2>8, <3>1, <3>6 DEF PublishedInv
  <2> QED
    BY <1>2, <2>9, <2>10, <2>11, <2>12, <2>13 DEF IInv
<1> QED
  BY <1>5, <1>6

\* A publication holds nothing withheld.
LEMMA PublishKeeps ==
    ASSUME IInv, NEW text, Publish(text)
    PROVE  IInv'
<1>1. /\ UNCHANGED <<tick, opFile, proc>> /\ disk.close # None /\ text \cap WithheldValues = {}
      /\ disk' = [disk EXCEPT !.publication = text]
  BY DEF Publish
<1>2. TypeInv /\ TimeInv /\ ClosedInv /\ StartInv /\ Knows /\ Unread /\ PublishedInv
  BY DEF IInv
<1>3. /\ DiskShape(disk') /\ disk'.cells = disk.cells /\ disk'.target = disk.target
      /\ disk'.close = disk.close /\ disk'.publication = text /\ disk'.revision = disk.revision
  BY <1>1, <1>2 DEF TypeInv, DiskShape
<1>4. Last' = Last
  BY <1>3 DEF Last
<1>5. /\ RetainedReads' = RetainedReads /\ Readings' = Readings
      /\ \A j : ReadsBefore(j)' = ReadsBefore(j)
  BY <1>3, <1>4, ZenonT(40) DEF RetainedReads, Readings, ReadsBefore
<1>6. WithheldValues' = WithheldValues
  BY <1>3, <1>5 DEF WithheldValues
<1>7. TypeInv'
  BY <1>1, <1>2, <1>3, <1>4 DEF TypeInv
<1>8. TimeInv'
  BY <1>1, <1>2, <1>3, <1>4 DEF TimeInv, Here
<1>9. ClosedInv'
  BY <1>1, <1>2, <1>3, <1>4 DEF ClosedInv
<1>10. StartInv'
  BY <1>1, <1>2, <1>3 DEF StartInv, Here, Passed, StillAdmits, OwnRecords
<1>11. Knows'
  BY <1>1, <1>2, <1>3, <1>5 DEF Knows, Here
<1>12. Unread'
  BY <1>2, <1>3, <1>4, <1>5 DEF Unread
<1>13. PublishedInv'
  BY <1>1, <1>2, <1>3, <1>4, <1>5, <1>6 DEF PublishedInv
<1> QED
  BY <1>7, <1>8, <1>9, <1>10, <1>11, <1>12, <1>13 DEF IInv

-----------------------------------------------------------------------------
(* The theorem. *)

\* The invariant holds at the start.
LEMMA InitHolds ==
    ASSUME Init
    PROVE  IInv
<1>1. PICK f \in OpFiles : opFile = Dated(f, [k \in RefreshedRecords |-> 0])
  BY DEF Init
<1>2. PICK t \in Targets :
         disk = [target |-> t, cells |-> <<>>, close |-> None, publication |-> None, revision |-> 1]
  BY DEF Init
<1>3. /\ DiskShape(disk) /\ disk.target \in Targets /\ disk.cells = <<>>
      /\ disk.close = None /\ disk.publication = None
  BY <1>2 DEF DiskShape
<1>4. IsSeq(disk.cells) /\ Last = 0
  <2>1. <<>> \in Seq({})
    OBVIOUS
  <2>2. Len(<<>>) = 0
    OBVIOUS
  <2> QED
    BY <1>3, <2>1, <2>2 DEF IsSeq, Last
<1>5. 1..Last = {}
  BY <1>4
<1>6. ProcShape(proc) /\ proc.phase = "down"
  BY DEF Init, NoProcess, ProcShape
<1>7. tick \in Int /\ \A k \in RefreshedRecords : opFile.modified[k] \in Int
  BY <1>1 DEF Init, Dated
<1>8. TypeInv
  BY <1>3, <1>4, <1>5, <1>6, <1>7 DEF TypeInv, Phases
<1>9. TimeInv /\ ClosedInv
  BY <1>3, <1>5, <1>6 DEF TimeInv, ClosedInv, Here, InCell, Starting
<1>10. StartInv /\ Knows
  BY <1>6 DEF StartInv, Knows, Here, Starting
<1>11. Unread /\ PublishedInv
  BY <1>3, <1>5 DEF Unread, PublishedInv
<1> QED
  BY <1>8, <1>9, <1>10, <1>11 DEF IInv

\* Every step keeps it.
LEMMA NextKeeps ==
    ASSUME RecordConstants, IInv, [Next]_vars
    PROVE  IInv'
<1>1. CASE UNCHANGED vars
  <2>1. UNCHANGED <<tick, opFile, proc, disk>>
    BY <1>1 DEF vars
  <2>2. Unread' /\ PublishedInv'
    BY <2>1, SameDiskHere, SameDisk
  <2>3. TypeInv'
    BY <2>1 DEF IInv, TypeInv, Last
  <2>4. TimeInv'
    BY <2>1 DEF IInv, TimeInv, Here, Last
  <2>5. ClosedInv'
    BY <2>1 DEF IInv, ClosedInv, Last
  <2>6. StartInv'
    BY <2>1 DEF IInv, StartInv, Here, Passed, StillAdmits, OwnRecords
  <2>7. Knows'
    BY <2>1 DEF IInv, Knows, Here, RetainedReads, Readings, Last
  <2> QED
    BY <2>2, <2>3, <2>4, <2>5, <2>6, <2>7 DEF IInv
<1>2. ASSUME NEW f \in OpFiles, Rewrite(f)
      PROVE  IInv'
  BY <1>2, RewriteKeeps
<1>3. CASE RecordPrice
  BY <1>3, RecordPriceKeeps
<1>4. CASE Start
  BY <1>4, StartKeeps
<1>5. ASSUME NEW run \in ClockRuns, StartCell(run)
      PROVE  IInv'
  BY <1>5, StartCellKeeps
<1>6. ASSUME NEW run \in RefreshRuns, Refresh(run)
      PROVE  IInv'
  BY <1>6, RefreshKeeps
<1>7. ASSUME NEW run \in RefreshRuns, Close(run)
      PROVE  IInv'
  BY <1>7, CloseKeeps
<1>8. ASSUME NEW run \in BalanceRuns, Check(run)
      PROVE  IInv'
  BY <1>8, CheckKeeps
<1>9. CASE Admit
  BY <1>9, AdmitKeeps
<1>10. CASE Refuse
  BY <1>10, RefuseKeeps
<1>11. CASE Send
  BY <1>11, SendKeeps
<1>12. CASE Finish
  BY <1>12, FinishKeeps
<1>13. ASSUME NEW stored \in BOOLEAN, Retain(stored)
       PROVE  IInv'
  BY <1>13, RetainKeeps
<1>14. ASSUME NEW stored \in BOOLEAN, Label(stored)
       PROVE  IInv'
  BY <1>14, LabelKeeps
<1>15. CASE Crash
  BY <1>15, CrashKeeps
<1>16. CASE StartClose
  BY <1>16, StartCloseKeeps
<1>17. ASSUME NEW text \in Texts, Publish(text)
       PROVE  IInv'
  BY <1>17, PublishKeeps
<1> QED
  BY <1>1, <1>2, <1>3, <1>4, <1>5, <1>6, <1>7, <1>8, <1>9, <1>10, <1>11, <1>12, <1>13,
     <1>14, <1>15, <1>16, <1>17, Zenon DEF Next

\* The next second begins at most a second later.
LEMMA SecondsEnd ==
    ASSUME NEW s \in Nat \ {0}, NEW n \in Int
    PROVE  /\ ((n \div s) + 1) * s \in Int
           /\ ((n \div s) + 1) * s <= n + s
<1> DEFINE q == n \div s
<1>1. q \in Int /\ s * q <= n
  OBVIOUS
<1> HIDE DEF q
<1>2. (q + 1) * s \in Int /\ (q + 1) * s <= n + s
  BY <1>1
<1> QED
  BY <1>2 DEF q

\* And it gives what the run checks.
LEMMA InvImplies ==
    ASSUME RecordConstants, IInv
    PROVE  RecordsHold
<1>1. StartedOnItsRecords
  <2> SUFFICES ASSUME proc.phase = "running"
               PROVE  LET c == proc.cell
                          price == Prices[disk.revision]
                      IN /\ c.revision = disk.revision
                         /\ \A k \in RefreshedRecords : c.dated[k] > c.since - Second
                         /\ c.read # None /\ StillAdmits(disk.target, c.read, price)
                         /\ ~Blocks(c.balance)
                         /\ ~OverTolerance(c.clock)
    BY DEF StartedOnItsRecords, Here
  <2>1. OwnRecords(proc.cell) /\ Passed(proc.cell) /\ proc.cell.revision = disk.revision
    BY DEF IInv, StartInv, Starting, Here, Passed
  <2>2. proc.cell.since \in Int
    BY DEF IInv, StartInv, Starting
  <2>3. proc.cell.since % Second \in Int /\ proc.cell.since % Second < Second /\ Second \in Int
    BY <2>2 DEF RecordConstants
  <2>4. \A k \in RefreshedRecords : proc.cell.dated[k] > proc.cell.since - Second
    BY <2>1, <2>2, <2>3 DEF OwnRecords
  <2> QED
    BY <2>1, <2>4 DEF OwnRecords, Passed
<1>2. NothingWithheldIsPublished
  <2>1. ASSUME NEW j \in 1..Last
        PROVE  PublishedOf(j) \cap (Secrets(disk.target) \cup ReadsBefore(j)) = {}
    <3>1. ReadsBefore(j) \subseteq Readings
      <4> SUFFICES ASSUME NEW x \in ReadsBefore(j)
                   PROVE  x \in Readings
        OBVIOUS
      <4>1. PICK i \in 1..j : disk.cells[i].manifest # None /\ x \in disk.cells[i].retained
        BY ReadsOfCells, ReadsMember
      <4>2. i \in 1..Last
        BY SeqFunction DEF IInv, TypeInv, Last
      <4> QED
        BY <4>1, <4>2 DEF IInv, Unread
    <3>2. /\ disk.cells[j].manifest # None =>
                disk.cells[j].manifest \cap (Secrets(disk.target) \cup ReadsBefore(j)) = {}
          /\ disk.cells[j].refresh # None =>
                disk.cells[j].refresh \cap (Secrets(disk.target) \cup Readings) = {}
      BY DEF IInv, PublishedInv
    <3> QED
      BY <3>1, <3>2 DEF PublishedOf
  <2> QED
    BY <2>1 DEF IInv, PublishedInv, NothingWithheldIsPublished
<1>3. CloseVerifies
  <2> SUFFICES ASSUME disk.close # None, NEW j \in 1..Last
               PROVE  \/ Verify(disk.close, disk.target, CellEnd(disk.cells[j]))
                      \/ /\ disk.cells[j].end = None /\ disk.cells[j].sent # None
                         /\ disk.close.since - disk.cells[j].sent <= Second
    BY DEF CloseVerifies
  <2> DEFINE c == disk.cells[j]
             w == disk.close
  <2>1. /\ w.since \in Int /\ w.recorded \in Int /\ w.since <= w.recorded
        /\ Before(c, w.since)
        /\ ReadRefreshedLimits(w.run, disk.target) # None
        /\ w.refresh = PublishedRefresh(w.run, disk.target, ReadRefreshedLimits(w.run, disk.target))
        /\ RequiredRecords \subseteq w.kinds
    BY DEF IInv, ClosedInv
  <2> HIDE DEF c, w
  <2>2. ASSUME CellEnd(c) \in Int, CellEnd(c) < w.since
        PROVE  Verify(w, disk.target, CellEnd(c))
    BY <2>1, <2>2 DEF Verify
  <2>3. CASE c.end # None
    <3>1. CellEnd(c) \in Int /\ CellEnd(c) < w.since
      BY <2>1, <2>3 DEF CellEnd, Before
    <3> QED
      BY <2>2, <3>1 DEF c, w
  <2>4. CASE c.end = None /\ c.sent = None
    <3>1. CellEnd(c) \in Int /\ CellEnd(c) < w.since
      BY <2>1, <2>4 DEF CellEnd, Before
    <3> QED
      BY <2>2, <3>1 DEF c, w
  <2>5. CASE c.end = None /\ c.sent # None /\ ~(w.since - c.sent <= Second)
    <3> DEFINE n == c.sent - c.start
               s == ((n \div Second) + 1) * Second
    <3>1. c.sent \in Int /\ c.start \in Int /\ n \in Int /\ Second \in Nat \ {0}
      BY <2>1, <2>5 DEF Before, RecordConstants
    <3>2. CellEnd(c) = c.start + s
      BY <2>5 DEF CellEnd
    <3> HIDE DEF s
    <3>3. s \in Int /\ s <= n + Second
      <4> HIDE DEF n
      <4> QED
        BY <3>1, SecondsEnd DEF s
    <3>4. CellEnd(c) \in Int /\ CellEnd(c) < w.since
      BY <2>1, <2>5, <3>1, <3>2, <3>3
    <3> QED
      BY <2>2, <3>4 DEF c, w
  <2> QED
    BY <2>3, <2>4, <2>5 DEF c, w
<1> QED
  BY <1>1, <1>2, <1>3 DEF RecordsHold

-----------------------------------------------------------------------------
(* Publication: what the routes' directories publish, once they are closed. *)

\* What was sent is dated.
MailInv == day \in Int /\ \A m \in mail : m.sent \in Int /\ m.closes \in Int

\* The notice of a route in a record the operator may have written is one
\* that was sent for it.
LEMMA NoticeWasSent ==
    ASSUME NEW es \in Pub!EntryLists, NEW r \in Routes
    PROVE  es[r].notice \in mail /\ es[r].notice.route = r /\ es[r].notice.kind = "notice"
<1>1. es \in [Routes -> UNION { Pub!Entries(q) : q \in Routes }] /\ es[r].notice.route = r
  BY DEF Pub!EntryLists
<1>2. PICK q \in Routes : es[r] \in Pub!Entries(q)
  BY <1>1
<1>3. PICK n \in Pub!Sent(q, "notice") :
         es[r] \in { [notice |-> n, responses |-> resp, permission |-> p, replication |-> send] :
                       resp \in Pub!Responses(n), p \in {FALSE, (q \in Permission)},
                       send \in {None} \cup Pub!Sent(q, "replication") }
  BY <1>2 DEF Pub!Entries
<1>4. es[r].notice = n
  BY <1>3
<1>5. n \in mail /\ n.kind = "notice"
  BY <1>3 DEF Pub!Sent
<1> QED
  BY <1>1, <1>4, <1>5

\* The instance's cardinality is the library's.
LEMMA PubCardinality ==
    ASSUME NEW S
    PROVE  Pub!Cardinality(S) = Cardinality(S)
  BY DEF Pub!Cardinality, Cardinality

\* The working days of a notice's window are weekdays before the check.
LEMMA WindowPassed ==
    ASSUME NEW sent \in Int, NEW closes \in Int, NEW today \in Int, NEW off,
           NEW n \in Int, today >= closes + 1, Pub!WorkingDays(sent, closes, off) >= n
    PROVE  Pub!Cardinality({ d \in (sent + 1)..(today - 1) : d \notin Weekend }) >= n
<1> DEFINE A == { d \in (sent + 1)..closes : Pub!Working(d, off) }
           B == { d \in (sent + 1)..(today - 1) : d \notin Weekend }
<1>1. A \subseteq B
  BY DEF Pub!Working
<1>2. IsFiniteSet((sent + 1)..(today - 1))
  BY FS_Interval
<1>3. IsFiniteSet(B)
  <2>1. B \subseteq (sent + 1)..(today - 1)
    OBVIOUS
  <2> HIDE DEF B
  <2> QED
    BY <1>2, <2>1, FS_Subset
<1>4. Cardinality(A) >= n
  BY PubCardinality DEF Pub!WorkingDays
<1> HIDE DEF A, B
<1>5. Cardinality(A) <= Cardinality(B) /\ Cardinality(A) \in Int /\ Cardinality(B) \in Int
  BY <1>1, <1>3, FS_Subset, FS_CardinalityType
<1>6. Cardinality(B) >= n
  BY <1>4, <1>5
<1> QED
  BY <1>6, PubCardinality DEF B

\* What publish-check finds ready was noticed.
LEMMA CheckedWasNoticed ==
    ASSUME Pub!PublicationConstants, MailInv, NEW rec, Pub!Ready, rec.routes \in Pub!EntryLists,
           Pub!PublishCheck(rec)
    PROVE  Pub!PublishedWasNoticed'
<1> SUFFICES ASSUME NEW r \in Routes
             PROVE  Pub!RouteWasNoticed(r)'
  BY DEF Pub!PublishedWasNoticed
<1> DEFINE e == rec.routes[r]
           n == e.notice
<1>1. /\ published'.day = day /\ published'.pages = pages
      /\ published'.packs = [q \in Routes |-> Pub!RoutePack(q)]
      /\ published'.rec.routes = [q \in Routes |-> rec.routes[q].responses]
      /\ published'.rec.copies = rec.copies
      /\ UNCHANGED mail
  BY DEF Pub!PublishCheck
<1>2. /\ pages = Pub!BuildPages /\ Pub!BuildPages # None
      /\ Pub!RouteComplete(rec, r) /\ Pub!Prereleased(rec)
  BY DEF Pub!PublishCheck, Pub!Check, Pub!Ready
<1>3. /\ \A q \in Routes : Pub!ReadRouteCells(q)
      /\ pages = [q \in Routes |-> IF Pub!HasPage(q) THEN Pub!Page(q) ELSE None]
  BY <1>2 DEF Pub!BuildPages
<1>4. /\ published'.packs[r] = Pub!RoutePack(r) /\ published'.pages[r] = Pub!RoutePack(r)
      /\ published'.rec.routes[r] = e.responses
  BY <1>1, <1>3 DEF Pub!RoutePack
<1>5. n \in mail /\ n.kind = "notice" /\ n.route = r /\ n.sent \in Int /\ n.closes \in Int
  BY NoticeWasSent DEF MailInv
<1>6. Pub!NoticeComplete(n, r, rec.off)
  BY <1>2 DEF Pub!RouteComplete
<1>7. n.pack = Pub!RoutePack(r)
  BY <1>6 DEF Pub!NoticeComplete, Pub!NoticePack
<1>8. Pub!Cardinality({ d \in (n.sent + 1)..(day - 1) : d \notin Weekend }) >= NoticeDays
  <2>1. day >= n.closes + 1 /\ Pub!WorkingDays(n.sent, n.closes, rec.off) >= NoticeDays
    BY <1>6 DEF Pub!NoticeComplete
  <2> HIDE DEF n
  <2> QED
    BY <1>5, <2>1, WindowPassed DEF MailInv, Pub!PublicationConstants
<1>9. (\E m \in mail :
         /\ m.kind = "notice" /\ m.route = r /\ m.pack = published.packs[r]
         /\ Pub!Cardinality({ d \in (m.sent + 1)..(published.day - 1) : d \notin Weekend })
               >= NoticeDays)'
  <2> HIDE DEF n
  <2> QED
    BY <1>1, <1>4, <1>5, <1>7, <1>8
<1>10. ASSUME Pub!RoutePack(r) # None
       PROVE  /\ Pub!RoutePack(r).close # None
              /\ \A c \in Pub!RoutePack(r).cells : c.start <= Pub!RoutePack(r).close
              /\ r \in Replication => \A c \in rec.copies : r \in c.withheld
  <2>1. Pub!HasPage(r) /\ Pub!RoutePack(r) = Pub!Page(r)
    BY <1>10 DEF Pub!RoutePack
  <2>2. /\ Pub!RoutePack(r).close = close[r] /\ Pub!RoutePack(r).cells = Pub!Manifests(r)
    BY <2>1 DEF Pub!Page
  <2>3. close[r] # None
    BY <1>2, <2>1 DEF Pub!RouteComplete
  <2>4. \A c \in cells[r] : close[r] >= c.start
    BY <1>3, <2>3 DEF Pub!ReadRouteCells
  <2>5. \A c \in Pub!Manifests(r) : c.start <= close[r]
    BY <2>4 DEF Pub!Manifests
  <2>6. r \in Replication => \A c \in rec.copies : r \in c.withheld
    BY <1>2 DEF Pub!Prereleased
  <2> QED
    BY <2>2, <2>3, <2>5, <2>6
<1>11. \A resp \in e.responses : /\ "account" \notin resp.text
                                 /\ ConfidentialRoutes # {} => "value" \notin resp.text
  <2>1. \A resp \in e.responses : Pub!Printed(resp.text)
    BY <1>2 DEF Pub!RouteComplete, Pub!ResponseOk
  <2> QED
    BY <2>1 DEF Pub!Printed
<1> HIDE DEF e
<1> QED
  BY <1>1, <1>4, <1>9, <1>10, <1>11 DEF Pub!RouteWasNoticed

\* Before anything is published nothing is said; the step that publishes is
\* a check of what was sent.
LEMMA PublicationNext ==
    ASSUME Pub!PublicationConstants, MailInv, Pub!PublishedWasNoticed, [Pub!Next]_(Pub!pubVars)
    PROVE  MailInv' /\ Pub!PublishedWasNoticed'
<1>1. CASE UNCHANGED Pub!pubVars
  BY <1>1 DEF Pub!pubVars, MailInv, Pub!PublishedWasNoticed, Pub!RouteWasNoticed
<1>2. CASE Pub!Next
  <2>1. published = None
    BY <1>2 DEF Pub!Next
  <2>2. ASSUME UNCHANGED published
        PROVE  Pub!PublishedWasNoticed'
    BY <2>1, <2>2 DEF Pub!PublishedWasNoticed
  <2>3. ASSUME NEW m, Pub!Send(m), m.sent \in Int, m.closes \in Int
        PROVE  MailInv' /\ UNCHANGED published
    BY <2>3 DEF Pub!Send, MailInv
  <2>4. CASE Pub!Tick \/ Pub!PagesCmd
    BY <2>2, <2>4 DEF Pub!Tick, Pub!PagesCmd, MailInv
  <2>5. ASSUME NEW f \in Pub!FileLists, NEW es \in Pub!EntryLists, NEW off, NEW told, NEW copies,
               Pub!Ready,
               Pub!PublishCheck([files |-> f, routes |-> es, off |-> off, told |-> told,
                                 copies |-> copies])
        PROVE  MailInv' /\ Pub!PublishedWasNoticed'
    <3> DEFINE rec == [files |-> f, routes |-> es, off |-> off, told |-> told, copies |-> copies]
    <3>1. rec.routes \in Pub!EntryLists /\ Pub!PublishCheck(rec)
      BY <2>5
    <3>2. MailInv'
      BY <2>5 DEF Pub!PublishCheck, MailInv
    <3> HIDE DEF rec
    <3> QED
      BY <2>5, <3>1, <3>2, CheckedWasNoticed
  <2>6. ASSUME NEW r \in Routes,
               Pub!BeginCell(r) \/ Pub!EndCell(r) \/ Pub!LabelCell(r) \/ Pub!WindowClose(r)
        PROVE  MailInv' /\ UNCHANGED published
    BY <2>6 DEF Pub!BeginCell, Pub!EndCell, Pub!LabelCell, Pub!WindowClose, Pub!RouteUnchanged, MailInv
  <2>7. ASSUME NEW r \in Routes, Pub!SendReplication(r)
        PROVE  MailInv' /\ UNCHANGED published
    <3> DEFINE m == [kind |-> "replication", route |-> r, sent |-> day, pack |-> Pub!RoutePack(r),
                     closes |-> 0]
    <3>1. Pub!Send(m) /\ m.sent \in Int /\ m.closes \in Int
      BY <2>7 DEF Pub!SendReplication, MailInv
    <3> HIDE DEF m
    <3> QED
      BY <2>3, <3>1
  <2>8. ASSUME NEW r \in Routes, NEW w \in Windows, Pub!SendNotice(r, day + w)
        PROVE  MailInv' /\ UNCHANGED published
    <3> DEFINE m == [kind |-> "notice", route |-> r, sent |-> day, pack |-> Pub!RoutePack(r),
                     closes |-> day + w]
    <3>1. Pub!Send(m) /\ m.sent \in Int /\ m.closes \in Int
      BY <2>8 DEF Pub!SendNotice, MailInv, Pub!PublicationConstants
    <3> HIDE DEF m
    <3> QED
      BY <2>3, <3>1
  <2> QED
    BY <1>2, <2>2, <2>4, <2>5, <2>6, <2>7, <2>8, Zenon DEF Pub!Next
<1> QED
  BY <1>1, <1>2

-----------------------------------------------------------------------------
(* Extremes, recursion and sums. *)

\* What Max returns of integers that are bounded.
LEMMA MaxIs ==
    ASSUME NEW S \in SUBSET Int, S # {}, NEW n \in Int, \A x \in S : x <= n
    PROVE  Max(S) \in S /\ \A x \in S : x <= Max(S)
<1> DEFINE T == {n - x : x \in S}
<1>1. T \subseteq Nat /\ T # {}
  <2>1. \A x \in S : n - x \in Nat
    OBVIOUS
  <2>2. PICK x \in S : TRUE
    OBVIOUS
  <2>3. n - x \in T
    OBVIOUS
  <2> QED
    BY <2>1, <2>3
<1>2. PICK m \in T : \A y \in T : ~(<<y, m>> \in OpToRel(<, Nat))
  BY <1>1, NatLessThanWellFounded, WFMin
<1>3. ASSUME NEW y \in T PROVE m <= y
  <2>1. y \in Nat /\ m \in Nat /\ ~(y < m)
    BY <1>1, <1>2 DEF OpToRel
  <2> QED
    BY <2>1
<1>4. PICK z \in S : m = n - z
  OBVIOUS
<1>5. ASSUME NEW x \in S PROVE z >= x
  <2>1. n - z <= n - x
    BY <1>3, <1>4
  <2>2. z \in Int /\ x \in Int
    OBVIOUS
  <2> QED
    BY <2>1, <2>2
<1> HIDE DEF T
<1> QED
  BY <1>5 DEF Max


\* What Min returns of natural numbers.
LEMMA MinIs ==
    ASSUME NEW S \in SUBSET Nat, S # {}
    PROVE  Min(S) \in S /\ \A x \in S : Min(S) <= x
<1>1. PICK m \in S : \A y \in S : ~(<<y, m>> \in OpToRel(<, Nat))
  BY NatLessThanWellFounded, WFMin
<1>2. ASSUME NEW y \in S PROVE m <= y
  <2>1. y \in Nat /\ m \in Nat /\ ~(y < m)
    BY <1>1 DEF OpToRel
  <2> QED
    BY <2>1
<1> QED
  BY <1>2 DEF Min

\* Induction up to n, on the set of the numbers reached.
LEMMA Climb ==
    ASSUME NEW n \in Nat, NEW A, 0 \in A, \A i \in 1..n : i - 1 \in A => i \in A
    PROVE  \A i \in 0..n : i \in A
<1> DEFINE T == (0..n) \ A
<1> SUFFICES ASSUME T # {} PROVE FALSE
  OBVIOUS
<1>1. T \subseteq Nat
  OBVIOUS
<1>2. Min(T) \in T /\ \A x \in T : Min(T) <= x
  <2> HIDE DEF T
  <2> QED
    BY <1>1, MinIs
<1>3. PICK m \in T : \A x \in T : m <= x
  BY <1>2
<1>4. m # 0 /\ m \in 1..n /\ m - 1 \in 0..n /\ ~(m <= m - 1)
  OBVIOUS
<1>5. m - 1 \notin T
  BY <1>3, <1>4
<1> QED
  BY <1>4, <1>5

\* f starts from b and goes on by g, up to n.
Unwinds(f, S, b, n, g) ==
    f \in [0..n -> S] /\ f[0] = b /\ \A i \in 1..n : f[i] = g[<<f[i - 1], i>>]

\* A function defined by recursion on 0..n: it exists.
LEMMA Recursion ==
    ASSUME NEW S, NEW b \in S, NEW n \in Nat, NEW g \in [S \X (1..n) -> S]
    PROVE  \E f : Unwinds(f, S, b, n, g)
<1> DEFINE Reaches(m) == \E f \in [0..m -> S] : f[0] = b /\ \A i \in 1..m : f[i] = g[<<f[i - 1], i>>]
           A == { m \in 0..n : Reaches(m) }
<1>1. 0 \in A
  <2> DEFINE f == [i \in 0..0 |-> b]
  <2>1. f \in [0..0 -> S] /\ f[0] = b
    OBVIOUS
  <2>2. \A i \in 1..0 : f[i] = g[<<f[i - 1], i>>]
    OBVIOUS
  <2> HIDE DEF f
  <2>3. Reaches(0)
    BY <2>1, <2>2
  <2> QED
    BY <2>3
<1>2. ASSUME NEW m \in 1..n, m - 1 \in A PROVE m \in A
  <2>1. PICK f \in [0..m - 1 -> S] : f[0] = b /\ \A i \in 1..m - 1 : f[i] = g[<<f[i - 1], i>>]
    BY <1>2
  <2> DEFINE h == [i \in 0..m |-> IF i = m THEN g[<<f[m - 1], m>>] ELSE f[i]]
  <2>2. m \in Nat /\ m >= 1 /\ m - 1 \in 0..m - 1 /\ m \in 1..n
    OBVIOUS
  <2>3. g[<<f[m - 1], m>>] \in S
    BY <2>2
  <2>4. \A i \in 0..m : i # m => i \in 0..m - 1
    BY <2>2
  <2>5. h \in [0..m -> S]
    BY <2>3, <2>4
  <2>6. h[0] = b
    BY <2>1, <2>2
  <2>7. ASSUME NEW i \in 1..m PROVE h[i] = g[<<h[i - 1], i>>]
    <3>1. CASE i = m
      <4>1. h[m] = g[<<f[m - 1], m>>] /\ h[m - 1] = f[m - 1]
        BY <2>2
      <4> QED
        BY <3>1, <4>1
    <3>2. CASE i # m
      <4>1. i \in 1..m - 1 /\ i \in 0..m /\ i - 1 \in 0..m /\ i - 1 # m
        BY <2>2, <3>2
      <4>2. h[i] = f[i] /\ h[i - 1] = f[i - 1]
        BY <3>2, <4>1
      <4> QED
        BY <2>1, <4>1, <4>2
    <3> QED
      BY <3>1, <3>2
  <2> HIDE DEF h
  <2>8. Reaches(m)
    BY <2>5, <2>6, <2>7
  <2> QED
    BY <2>2, <2>8
<1> HIDE DEF A
<1>3. n \in A
  BY <1>1, <1>2, Climb
<1> QED
  BY <1>3 DEF A, Unwinds

\* The modules' own sums.
LEMMA AddUpNames ==
    ASSUME NEW f, NEW i, NEW n
    PROVE  Disp!AddUp(f, i, n) = AddUp(f, i, n) /\ Ev!AddUp(f, i, n) = AddUp(f, i, n)
  BY DEF Disp!AddUp, Ev!AddUp, AddUp

\* The running sum of f[i], f[i + 1] and so on.
Adds(f, i, n, sum) ==
    /\ sum[0] = 0
    /\ \A k \in 1..n : sum[k] = sum[k - 1] + f[i + k - 1]
    /\ \A k \in 0..n : sum[k] \in Nat

\* The values a sum takes are counts.
Addends(f, i, n) == i \in Nat /\ n \in Nat /\ \A k \in 1..n : f[i + k - 1] \in Nat

\* A sum is what a running sum ends in.
LEMMA AddUpIs ==
    ASSUME NEW f, NEW i, NEW n, Addends(f, i, n)
    PROVE  \E sum : Adds(f, i, n, sum) /\ AddUp(f, i, n) = sum[n]
<1> DEFINE v == [k \in 1..n |-> f[i + k - 1]]
           g == [x \in Nat \X (1..n) |-> x[1] + v[x[2]]]
           Upto(s) == s = [k \in 0..n |-> IF k = 0 THEN 0 ELSE s[k - 1] + f[i + k - 1]]
<1>0. i \in Nat /\ n \in Nat
  BY DEF Addends
<1>1. v \in [1..n -> Nat]
  BY DEF Addends
<1>2. \A k \in 1..n : v[k] = f[i + k - 1]
  OBVIOUS
<1> HIDE DEF v
<1>3. g \in [Nat \X (1..n) -> Nat]
  BY <1>1
<1> HIDE DEF g
<1>4. PICK h : Unwinds(h, Nat, 0, n, g)
  BY <1>0, <1>3, Recursion
<1>5. h \in [0..n -> Nat] /\ h[0] = 0 /\ \A k \in 1..n : h[k] = g[<<h[k - 1], k>>]
  BY <1>4 DEF Unwinds
<1>6. ASSUME NEW k \in 1..n PROVE h[k] = h[k - 1] + v[k]
  <2>1. k - 1 \in 0..n
    BY <1>0
  <2>2. <<h[k - 1], k>> \in Nat \X (1..n)
    BY <1>5, <2>1
  <2> QED
    BY <1>5, <2>2 DEF g
<1>7. Upto(h)
  <2>1. ASSUME NEW k \in 0..n
        PROVE  h[k] = IF k = 0 THEN 0 ELSE h[k - 1] + f[i + k - 1]
    <3>1. k = 0 \/ k \in 1..n
      BY <1>0
    <3> QED
      BY <1>2, <1>5, <1>6, <3>1
  <2> QED
    BY <1>5, <2>1
<1>8. PICK s : Upto(s) /\ AddUp(f, i, n) = s[n]
  BY <1>7 DEF AddUp
<1>9. s[0] = 0 /\ \A k \in 1..n : s[k] = s[k - 1] + f[i + k - 1]
  <2>1. 0 \in 0..n /\ \A k \in 1..n : k \in 0..n /\ k # 0
    BY <1>0
  <2>2. \A k \in 0..n : s[k] = IF k = 0 THEN 0 ELSE s[k - 1] + f[i + k - 1]
    BY <1>8
  <2> QED
    BY <2>1, <2>2
<1> DEFINE A == { k \in 0..n : s[k] \in Nat }
<1>10. 0 \in A
  BY <1>0, <1>9
<1>11. ASSUME NEW k \in 1..n, k - 1 \in A PROVE k \in A
  <2>1. s[k - 1] \in Nat /\ v[k] \in Nat /\ s[k] = s[k - 1] + v[k]
    BY <1>1, <1>2, <1>9, <1>11
  <2>2. k \in 0..n
    BY <1>0
  <2> QED
    BY <2>1, <2>2
<1> HIDE DEF A
<1>12. \A k \in 0..n : k \in A
  BY <1>0, <1>10, <1>11, Climb
<1>13. \A k \in 0..n : s[k] \in Nat
  BY <1>12 DEF A
<1> QED
  BY <1>8, <1>9, <1>13 DEF Adds

\* Two running sums of what is the same up to n are the same up to n.
LEMMA AddsOnce ==
    ASSUME NEW f, NEW g, NEW i, NEW n \in Nat, NEW m \in Nat, NEW s, NEW t, n <= m,
           Adds(f, i, n, s), Adds(g, i, m, t), \A k \in 1..n : f[i + k - 1] = g[i + k - 1]
    PROVE  s[n] = t[n]
<1> DEFINE A == { k \in 0..n : s[k] = t[k] }
<1>1. 0 \in A
  BY DEF Adds
<1>2. ASSUME NEW k \in 1..n, k - 1 \in A PROVE k \in A
  <2>1. k \in 1..m /\ k \in 0..n
    OBVIOUS
  <2>2. s[k] = s[k - 1] + f[i + k - 1] /\ t[k] = t[k - 1] + g[i + k - 1]
    BY <2>1 DEF Adds
  <2>3. s[k - 1] = t[k - 1] /\ f[i + k - 1] = g[i + k - 1]
    BY <1>2
  <2> QED
    BY <2>1, <2>2, <2>3
<1> HIDE DEF A
<1>3. n \in A
  BY <1>1, <1>2, Climb
<1> QED
  BY <1>3 DEF A

\* The sum of nothing, and of one more.
LEMMA AddUpNext ==
    ASSUME NEW f, NEW i, NEW n, Addends(f, i, n)
    PROVE  /\ AddUp(f, i, 0) = 0 /\ AddUp(f, i, n) \in Nat
           /\ n # 0 => /\ Addends(f, i, n - 1)
                       /\ AddUp(f, i, n) = AddUp(f, i, n - 1) + f[i + n - 1]
<1>0. i \in Nat /\ n \in Nat
  BY DEF Addends
<1>1. Addends(f, i, 0)
  BY <1>0 DEF Addends
<1>2. AddUp(f, i, 0) = 0
  BY <1>1, AddUpIs DEF Adds
<1>3. PICK s : Adds(f, i, n, s) /\ AddUp(f, i, n) = s[n]
  BY AddUpIs
<1>4. s[n] \in Nat
  BY <1>0, <1>3 DEF Adds
<1>5. ASSUME n # 0
      PROVE  /\ Addends(f, i, n - 1)
             /\ AddUp(f, i, n) = AddUp(f, i, n - 1) + f[i + n - 1]
  <2>1. n - 1 \in Nat /\ n - 1 <= n /\ n \in 1..n
    BY <1>0, <1>5
  <2>2. Addends(f, i, n - 1)
    BY <1>0, <2>1 DEF Addends
  <2>3. PICK t : Adds(f, i, n - 1, t) /\ AddUp(f, i, n - 1) = t[n - 1]
    BY <2>2, AddUpIs
  <2>4. t[n - 1] = s[n - 1]
    BY <1>0, <1>3, <2>1, <2>3, AddsOnce
  <2>5. s[n] = s[n - 1] + f[i + n - 1]
    BY <1>3, <2>1 DEF Adds
  <2> QED
    BY <1>3, <2>2, <2>3, <2>4, <2>5
<1> QED
  BY <1>2, <1>3, <1>4, <1>5

\* The sum of a sum is the sum of the sums.
LEMMA AddUpPlus ==
    ASSUME NEW f, NEW g, NEW h, NEW i, NEW n,
           Addends(f, i, n), Addends(g, i, n), Addends(h, i, n),
           \A k \in 1..n : h[i + k - 1] = f[i + k - 1] + g[i + k - 1]
    PROVE  AddUp(h, i, n) = AddUp(f, i, n) + AddUp(g, i, n)
<1>0. n \in Nat
  BY DEF Addends
<1>1. PICK s : Adds(f, i, n, s) /\ AddUp(f, i, n) = s[n]
  BY AddUpIs
<1>2. PICK t : Adds(g, i, n, t) /\ AddUp(g, i, n) = t[n]
  BY AddUpIs
<1>3. PICK u : Adds(h, i, n, u) /\ AddUp(h, i, n) = u[n]
  BY AddUpIs
<1> DEFINE A == { k \in 0..n : u[k] = s[k] + t[k] }
<1>4. 0 \in A
  BY <1>0, <1>1, <1>2, <1>3 DEF Adds
<1>5. ASSUME NEW k \in 1..n, k - 1 \in A PROVE k \in A
  <2> DEFINE a == f[i + k - 1]
             b == g[i + k - 1]
             c == s[k - 1]
             d == t[k - 1]
  <2>1. s[k] = c + a /\ t[k] = d + b /\ u[k] = u[k - 1] + h[i + k - 1]
    BY <1>1, <1>2, <1>3 DEF Adds
  <2>2. u[k - 1] = c + d /\ h[i + k - 1] = a + b /\ k \in 0..n
    BY <1>0, <1>5
  <2>3. a \in Nat /\ b \in Nat /\ c \in Nat /\ d \in Nat
    <3>1. k - 1 \in 0..n
      BY <1>0
    <3> QED
      BY <1>1, <1>2, <3>1 DEF Adds, Addends
  <2> HIDE DEF a, b, c, d
  <2>4. u[k] = s[k] + t[k]
    BY <2>1, <2>2, <2>3
  <2> QED
    BY <2>2, <2>4
<1> HIDE DEF A
<1>6. n \in A
  BY <1>0, <1>4, <1>5, Climb
<1> QED
  BY <1>1, <1>2, <1>3, <1>6 DEF A

\* A table may be summed by columns or by rows.
LEMMA SumsExchange ==
    ASSUME NEW n \in Nat, NEW m \in Nat, NEW w \in [1..n -> [0..m - 1 -> Nat]]
    PROVE  AddUp([s \in 0..m - 1 |-> AddUp([i \in 1..n |-> w[i][s]], 1, n)], 0, m)
             = AddUp([i \in 1..n |-> AddUp(w[i], 0, m)], 1, n)
<1> DEFINE Row(s) == [i \in 1..n |-> w[i][s]]
           Col(p) == [s \in 0..m - 1 |-> AddUp(Row(s), 1, p)]
           rows == [i \in 1..n |-> AddUp(w[i], 0, m)]
           A == { p \in 0..n : AddUp(Col(p), 0, m) = AddUp(rows, 1, p) }
<1>1. \A p \in 0..n, s \in 0..m - 1 : Addends(Row(s), 1, p)
  <2> SUFFICES ASSUME NEW p \in 0..n, NEW s \in 0..m - 1, NEW k \in 1..p
               PROVE  Row(s)[1 + k - 1] \in Nat
    BY DEF Addends
  <2>1. k \in 1..n /\ 1 + k - 1 = k
    OBVIOUS
  <2> QED
    BY <2>1
<1>2. \A i \in 1..n : Addends(w[i], 0, m)
  BY DEF Addends
<1>3. ASSUME NEW p \in 0..n PROVE Addends(rows, 1, p)
  <2>1. ASSUME NEW k \in 1..p PROVE rows[1 + k - 1] \in Nat
    <3>1. k \in 1..n /\ 1 + k - 1 = k
      OBVIOUS
    <3> QED
      BY <1>2, <3>1, AddUpNext
  <2> HIDE DEF rows
  <2> QED
    BY <2>1 DEF Addends
<1>4. \A p \in 0..n : Addends(Col(p), 0, m)
  <2> SUFFICES ASSUME NEW p \in 0..n, NEW k \in 1..m PROVE Col(p)[0 + k - 1] \in Nat
    BY DEF Addends
  <2>1. k - 1 \in 0..m - 1 /\ 0 + k - 1 = k - 1
    OBVIOUS
  <2>2. Addends(Row(k - 1), 1, p)
    BY <1>1, <2>1
  <2>3. AddUp(Row(k - 1), 1, p) \in Nat
    BY <2>2, AddUpNext
  <2> QED
    BY <2>1, <2>3
<1>5. 0 \in A
  <2>1. ASSUME NEW k \in 1..m PROVE Col(0)[0 + k - 1] = Col(0)[0 + k - 1] + Col(0)[0 + k - 1]
    <3>1. k - 1 \in 0..m - 1 /\ 0 + k - 1 = k - 1
      OBVIOUS
    <3>2. AddUp(Row(k - 1), 1, 0) = 0
      BY <1>1, <3>1, AddUpNext
    <3> QED
      BY <3>1, <3>2
  <2>2. Addends(Col(0), 0, m) /\ Addends(rows, 1, 0)
    BY <1>3, <1>4
  <2> HIDE DEF Col, rows
  <2>3. AddUp(Col(0), 0, m) = AddUp(Col(0), 0, m) + AddUp(Col(0), 0, m)
    BY <2>1, <2>2, AddUpPlus
  <2>4. AddUp(Col(0), 0, m) \in Nat /\ AddUp(rows, 1, 0) = 0
    BY <2>2, AddUpNext
  <2>5. AddUp(Col(0), 0, m) = 0
    BY <2>3, <2>4
  <2> QED
    BY <2>4, <2>5
<1>6. ASSUME NEW p \in 1..n, p - 1 \in A PROVE p \in A
  <2>1. p \in 0..n /\ p - 1 \in 0..n /\ p # 0 /\ 1 + p - 1 = p
    OBVIOUS
  <2>2. ASSUME NEW k \in 1..m
        PROVE  Col(p)[0 + k - 1] = Col(p - 1)[0 + k - 1] + w[p][0 + k - 1]
    <3>1. k - 1 \in 0..m - 1 /\ 0 + k - 1 = k - 1
      OBVIOUS
    <3>2. AddUp(Row(k - 1), 1, p) = AddUp(Row(k - 1), 1, p - 1) + Row(k - 1)[1 + p - 1]
      <4>1. Addends(Row(k - 1), 1, p)
        BY <1>1, <2>1, <3>1
      <4> HIDE DEF Row
      <4> QED
        BY <2>1, <4>1, AddUpNext
    <3>3. Row(k - 1)[1 + p - 1] = w[p][k - 1]
      BY <2>1
    <3> QED
      BY <3>1, <3>2, <3>3
  <2>3. Addends(Col(p), 0, m) /\ Addends(Col(p - 1), 0, m) /\ Addends(rows, 1, p) /\ Addends(w[p], 0, m)
    BY <1>2, <1>3, <1>4, <2>1
  <2>4. rows[1 + p - 1] = AddUp(w[p], 0, m)
    BY <2>1
  <2>5. AddUp(Col(p - 1), 0, m) = AddUp(rows, 1, p - 1)
    BY <1>6
  <2> HIDE DEF Col, rows
  <2>6. AddUp(Col(p), 0, m) = AddUp(Col(p - 1), 0, m) + AddUp(w[p], 0, m)
    BY <2>2, <2>3, AddUpPlus
  <2>7. AddUp(rows, 1, p) = AddUp(rows, 1, p - 1) + rows[1 + p - 1]
    BY <2>1, <2>3, AddUpNext
  <2>8. AddUp(Col(p), 0, m) = AddUp(rows, 1, p)
    BY <2>4, <2>5, <2>6, <2>7
  <2> QED
    BY <2>1, <2>8
<1> HIDE DEF A
<1>7. \A p \in 0..n : p \in A
  BY <1>5, <1>6, Climb
<1>8. AddUp(Col(n), 0, m) = AddUp(rows, 1, n)
  BY <1>7 DEF A
<1> QED
  BY <1>8

\* The part of J that h takes to v.
Part(J, h, v) == { x \in J : h[x] = v }

\* f has the sizes of the parts that h divides J into.
Parts(J, h, f, i, n) ==
    /\ \A x \in J : h[x] \in i..(i + n - 1)
    /\ \A k \in 1..n : f[i + k - 1] = Cardinality(Part(J, h, i + k - 1))

\* The sizes of the parts of a finite set add up to its size.
LEMMA PartitionSum ==
    ASSUME NEW J, IsFiniteSet(J), NEW i \in Nat, NEW n \in Nat, NEW h, NEW f, Parts(J, h, f, i, n)
    PROVE  Addends(f, i, n) /\ AddUp(f, i, n) = Cardinality(J)
<1>0. /\ \A x \in J : h[x] \in i..(i + n - 1)
      /\ \A k \in 1..n : f[i + k - 1] = Cardinality({ x \in J : h[x] = i + k - 1 })
  BY DEF Parts, Part
<1> DEFINE D(k) == { x \in J : h[x] < i + k }
           E(k) == { x \in J : h[x] = i + k - 1 }
           A == { k \in 0..n : AddUp(f, i, k) = Cardinality(D(k)) }
<1>1. \A k \in 0..n : IsFiniteSet(D(k)) /\ Cardinality(D(k)) \in Nat
  <2> SUFFICES ASSUME NEW k \in 0..n PROVE IsFiniteSet(D(k)) /\ Cardinality(D(k)) \in Nat
    OBVIOUS
  <2>1. D(k) \in SUBSET J
    OBVIOUS
  <2> HIDE DEF D
  <2> QED
    BY <2>1, FS_Subset, FS_CardinalityType
<1>2. \A k \in 1..n : IsFiniteSet(E(k)) /\ Cardinality(E(k)) \in Nat /\ f[i + k - 1] = Cardinality(E(k))
  <2> SUFFICES ASSUME NEW k \in 1..n
               PROVE  IsFiniteSet(E(k)) /\ Cardinality(E(k)) \in Nat /\ f[i + k - 1] = Cardinality(E(k))
    OBVIOUS
  <2>1. E(k) \in SUBSET J /\ f[i + k - 1] = Cardinality(E(k))
    BY <1>0
  <2> HIDE DEF E
  <2> QED
    BY <2>1, FS_Subset, FS_CardinalityType
<1>3. \A k \in 0..n : Addends(f, i, k)
  <2> SUFFICES ASSUME NEW k \in 0..n, NEW j \in 1..k PROVE f[i + j - 1] \in Nat
    BY DEF Addends
  <2>1. j \in 1..n
    OBVIOUS
  <2> HIDE DEF E
  <2> QED
    BY <1>2, <2>1
<1>4. 0 \in A
  <2>1. D(0) = {}
    BY <1>0
  <2>2. 0 \in 0..n /\ AddUp(f, i, 0) = 0
    BY <1>3, AddUpNext
  <2> HIDE DEF D
  <2>3. Cardinality(D(0)) = 0
    BY <2>1, FS_EmptySet
  <2> QED
    BY <2>2, <2>3
<1>5. ASSUME NEW k \in 1..n, k - 1 \in A PROVE k \in A
  <2>1. k \in 0..n /\ k # 0 /\ k - 1 \in 0..n
    OBVIOUS
  <2>2. AddUp(f, i, k) = AddUp(f, i, k - 1) + f[i + k - 1]
    BY <1>3, <2>1, AddUpNext
  <2>3. AddUp(f, i, k - 1) = Cardinality(D(k - 1))
    BY <1>5
  <2>4. D(k) = D(k - 1) \cup E(k) /\ D(k - 1) \cap E(k) = {}
    <3>1. ASSUME NEW x \in J PROVE (h[x] < i + k <=> h[x] < i + (k - 1) \/ h[x] = i + k - 1)
                                   /\ ~(h[x] < i + (k - 1) /\ h[x] = i + k - 1)
      <4>1. h[x] \in Int
        BY <1>0
      <4> QED
        BY <4>1
    <3> QED
      BY <3>1
  <2> HIDE DEF D, E
  <2>5. Cardinality(D(k)) = Cardinality(D(k - 1)) + Cardinality(E(k)) - Cardinality(D(k - 1) \cap E(k))
    BY <1>1, <1>2, <2>1, <2>4, FS_Union
  <2>6. Cardinality(D(k - 1) \cap E(k)) = 0
    BY <2>4, FS_EmptySet
  <2>7. AddUp(f, i, k) = Cardinality(D(k))
    BY <1>1, <1>2, <2>1, <2>2, <2>3, <2>5, <2>6
  <2> QED
    BY <2>1, <2>7
<1> HIDE DEF A
<1>6. \A k \in 0..n : k \in A
  BY <1>4, <1>5, Climb
<1>7. AddUp(f, i, n) = Cardinality(D(n))
  BY <1>6 DEF A
<1>8. D(n) = J
  BY <1>0
<1> QED
  BY <1>3, <1>7, <1>8

\* The pairs of an index of I and a member of the set it has.
Pairs(I, D) == UNION { {i} \X D[i] : i \in I }

\* There are as many as the members of the sets add up to.
LEMMA PairsAdd ==
    ASSUME NEW n \in Nat, NEW I \in SUBSET (1..n), NEW D, NEW f,
           \A i \in I : IsFiniteSet(D[i]) /\ f[i] = Cardinality(D[i]),
           \A i \in (1..n) \ I : f[i] = 0
    PROVE  IsFiniteSet(Pairs(I, D)) /\ AddUp(f, 1, n) = Cardinality(Pairs(I, D))
<1> DEFINE J == Pairs(I, D)
           F == [i \in I |-> {i} \X D[i]]
           S == { F[i] : i \in I }
           h == [x \in J |-> x[1]]
<1>1. \A i \in I : IsFiniteSet(F[i]) /\ Cardinality(F[i]) = f[i]
  <2> SUFFICES ASSUME NEW i \in I PROVE IsFiniteSet({i} \X D[i]) /\ Cardinality({i} \X D[i]) = f[i]
    OBVIOUS
  <2>1. IsFiniteSet({i}) /\ Cardinality({i}) = 1
    BY FS_Singleton
  <2>2. IsFiniteSet(D[i]) /\ Cardinality(D[i]) \in Nat /\ f[i] = Cardinality(D[i])
    BY FS_CardinalityType
  <2>3. IsFiniteSet({i} \X D[i]) /\ Cardinality({i} \X D[i]) = Cardinality({i}) * Cardinality(D[i])
    BY <2>1, <2>2, FS_Product
  <2> QED
    BY <2>1, <2>2, <2>3
<1>2. IsFiniteSet(S)
  <2>1. IsFiniteSet(1..n)
    <3>1. 1 \in Int /\ n \in Int
      OBVIOUS
    <3> QED
      BY <3>1, FS_Interval
  <2>2. IsFiniteSet(I)
    BY <2>1, FS_Subset
  <2>3. F \in Surjection(I, S)
    BY DEF Surjection
  <2> HIDE DEF F, S
  <2> QED
    BY <2>2, <2>3, FS_Surjection
<1>3. J = UNION S
  BY DEF Pairs
<1>4. IsFiniteSet(J)
  <2>1. \A T \in S : IsFiniteSet(T)
    BY <1>1
  <2> HIDE DEF S, J
  <2> QED
    BY <1>2, <1>3, <2>1, FS_UNION
<1>5. \A x \in J : x[1] \in I /\ x \in {x[1]} \X D[x[1]]
  BY DEF Pairs
<1>6. ASSUME NEW k \in 1..n PROVE f[1 + k - 1] = Cardinality(Part(J, h, 1 + k - 1))
  <2>1. 1 + k - 1 = k
    OBVIOUS
  <2>2. CASE k \in I
    <3>1. Part(J, h, k) = F[k]
      <4>1. \A x \in J : x[1] = k => x \in {k} \X D[k]
        BY <1>5
      <4>2. \A x \in {k} \X D[k] : x \in J /\ x[1] = k
        BY <2>2 DEF Pairs
      <4> HIDE DEF J
      <4> QED
        BY <2>2, <4>1, <4>2 DEF Part
    <3> HIDE DEF J, F, h
    <3> QED
      BY <1>1, <2>1, <2>2, <3>1
  <2>3. CASE k \notin I
    <3>1. Part(J, h, k) = {}
      <4> HIDE DEF J
      <4> QED
        BY <1>5, <2>3 DEF Part
    <3>2. Cardinality(Part(J, h, k)) = 0
      <4> HIDE DEF J, h
      <4> QED
        BY <3>1, FS_EmptySet
    <3> HIDE DEF J, h
    <3> QED
      BY <2>1, <2>3, <3>2
  <2> QED
    BY <2>2, <2>3
<1>7. \A x \in J : h[x] \in 1..(1 + n - 1)
  BY <1>5
<1> HIDE DEF J, h
<1>8. Parts(J, h, f, 1, n)
  BY <1>6, <1>7 DEF Parts
<1>9. AddUp(f, 1, n) = Cardinality(J)
  BY <1>4, <1>8, PartitionSum
<1> QED
  BY <1>4, <1>9 DEF J

-----------------------------------------------------------------------------
(* CellEvidence: the directory of one cell. *)

\* No record and no series is taken for a missing one.
NoneIsNoRecord == \A f \in {"outcome", "final"} : f \notin DOMAIN None

FileNames == {"clock", "status", "refresh", "balance", "probe", "status-end", "balance-end", "pair"}

\* A process's own state, a cell's record and its manifest.
MemShape(m) ==
    m = [at |-> m.at, label |-> m.label, outcome |-> m.outcome, reasons |-> m.reasons, res |-> m.res,
         err |-> m.err, ferr |-> m.ferr, store |-> m.store, epoch |-> m.epoch]

RecShape(r) == r = [outcome |-> r.outcome, reasons |-> r.reasons, epoch |-> r.epoch]

ManShape(m) ==
    m = [outcome |-> m.outcome, reasons |-> m.reasons, ladder |-> m.ladder, route |-> m.route,
         own |-> m.own, gaps |-> m.gaps, canary |-> m.canary, gates |-> m.gates, attempts |-> m.attempts,
         files |-> m.files, endpoint |-> m.endpoint, frames |-> m.frames, pair |-> m.pair]

Shapes ==
    /\ files = [n \in FileNames |-> files[n]]
    /\ frames = [d \in {"start", "epoch"} |-> frames[d]]
    /\ MemShape(mem)
    /\ record # None => RecShape(record)
    /\ manifest # None => ManShape(manifest)

Early == {"started", "starting", "probed", "ladder"}
ToManifest == {"retain", "ends", "frames", "copies", "attempts", "manifest"}

ReqsOf(res) == IF res = None THEN <<>> ELSE res.reqs
Nothing == [sent |-> 0, final |-> TRUE]

\* What runCell may label a cell with that it runs itself.
LabelOK(res, outcome, reasons, epoch) ==
    \/ /\ res = None /\ outcome \in {"blocked", "stopped"} /\ reasons = {outcome} /\ ~epoch
    \/ /\ res \in Results
       /\ \E flag \in BOOLEAN : outcome = Ev!CellOutcome(res, flag)
       /\ reasons = IF outcome = "counted" THEN {} ELSE {outcome}

\* With no record nothing was written, and no process is at work.
FreshInv ==
    record = None => mem.at = "down" /\ series = None /\ attempts = None /\ manifest = None

RecInv ==
    record # None =>
        /\ record.outcome \in {"missed", "interrupted"} => record.reasons # {}
        /\ record.outcome = "missed" =>
             /\ ~record.epoch /\ (mem.at = "down" \/ mem.label)
             /\ mem.at \in {"down", "label"} => series \in {None, Nothing}
        /\ record.outcome = "counted" =>
             /\ mem.at = "down" /\ manifest # None
             /\ manifest.pair /\ manifest.outcome = "counted" /\ manifest.frames # None
             /\ Ev!Checked \subseteq frames[manifest.frames].copies

\* A process that runs the cell.
OwnInv ==
    mem.at # "down" /\ ~mem.label =>
        /\ mem.at \in Early \cup ToManifest \cup {"pair", "record"}
        /\ record.outcome = "running"
        /\ mem.at \in Early \cup (ToManifest \ {"manifest"}) => attempts = None
        /\ mem.at \in Early \cup ToManifest => manifest = None /\ ~mem.err
        /\ mem.at \in Early => ~mem.epoch
        /\ mem.at \in Early \ {"ladder"} => mem.res = None
        /\ mem.at = "ladder" => mem.res \in Results
        /\ mem.at \in ToManifest => LabelOK(mem.res, mem.outcome, mem.reasons, mem.epoch)
        /\ mem.at \in {"pair", "record"} /\ ~mem.err => mem.outcome \notin {"missed", "interrupted"}
        /\ mem.at \in ToManifest \ {"retain"} =>
             series = [sent |-> Ev!Sent(ReqsOf(mem.res)), final |-> TRUE]

\* A process that labels it.
LabelInv ==
    mem.label =>
        /\ mem.at \in {"label"} \cup ToManifest \cup {"pair", "record"}
        /\ ~mem.err /\ mem.res = None /\ attempts = <<>>
        /\ mem.outcome = record.outcome /\ mem.reasons # {} /\ mem.epoch = record.epoch
        /\ record.outcome \in {"missed", "interrupted"}
        /\ mem.at \in {"label"} \cup ToManifest => manifest = None
        /\ mem.at # "label" /\ mem.outcome = "missed" => series = Nothing

\* What is on disk by the time a process comes to a step.
StepInv ==
    /\ mem.at = "down" => mem = Ev!Idle
    /\ mem.at \in {"probed", "ladder"} \cup ToManifest =>
         files["clock"] # None /\ files["status"] # None /\ files["balance"] # None
    /\ mem.at \notin {"copies", "attempts", "manifest", "pair", "record"} => mem.store = None /\ ~mem.ferr
    /\ mem.at \in {"copies", "attempts", "manifest"} /\ mem.store # None =>
         /\ mem.store \in {"start", "epoch"}
         /\ frames[mem.store]
              = [lines |-> Len(ReqsOf(mem.res)), copies |-> frames[mem.store].copies]
    /\ mem.at = "copies" => mem.store # None /\ ~mem.ferr
    /\ mem.at \in {"attempts", "manifest"} =>
         mem.ferr \/ (mem.store # None /\ Ev!Checked \subseteq frames[mem.store].copies)
    /\ mem.at = "manifest" => attempts = ReqsOf(mem.res)
    /\ kept = attempts

\* A manifest is what the files hold.
ManOK(m) ==
    /\ attempts # None /\ attempts = m.attempts
    /\ \A n \in DOMAIN m.files : files[n] = m.files[n]
    /\ {"clock", "status", "balance"} \subseteq DOMAIN m.files
    /\ DOMAIN m.files \subseteq FileNames \ {"pair"}
    /\ Ev!RecordAgrees(m)
    /\ m.frames # None => frames[m.frames].lines = Len(attempts)
    /\ m.pair => files["pair"] # None

ManInv ==
    /\ manifest # None => mem.at \in {"down", "pair", "record"} /\ ManOK(manifest)
    /\ manifest = None => files["pair"] = None
    /\ mem.at = "pair" => ~mem.err
    /\ mem.at \in {"pair", "record"} /\ ~mem.err =>
         /\ manifest # None /\ manifest.outcome = mem.outcome
         /\ mem.ferr \/ (manifest.frames # None /\ Ev!Checked \subseteq frames[manifest.frames].copies)
         /\ mem.at = "record" => manifest.pair

EvInv == Shapes /\ FreshInv /\ RecInv /\ OwnInv /\ LabelInv /\ StepInv /\ ManInv

-----------------------------------------------------------------------------
\* What an assignment to a process's state keeps.
Keeps(n, m) ==
    /\ n.label = m.label /\ n.outcome = m.outcome /\ n.reasons = m.reasons /\ n.res = m.res
    /\ n.err = m.err /\ n.ferr = m.ferr /\ n.store = m.store /\ n.epoch = m.epoch

\* A process goes on to its next step.
LEMMA GoesOn ==
    ASSUME NEW m, MemShape(m), NEW pc
    PROVE  MemShape([m EXCEPT !.at = pc]) /\ [m EXCEPT !.at = pc].at = pc
           /\ Keeps([m EXCEPT !.at = pc], m)
  BY DEF MemShape, Keeps

\* A record is no missing one.
LEMMA RecordIsSome ==
    ASSUME NoneIsNoRecord, NEW o, NEW rs, NEW e
    PROVE  /\ Ev!Rec(o, rs, e) # None /\ RecShape(Ev!Rec(o, rs, e))
           /\ Ev!Rec(o, rs, e).outcome = o /\ Ev!Rec(o, rs, e).reasons = rs
           /\ Ev!Rec(o, rs, e).epoch = e
  BY DEF Ev!Rec, RecShape, NoneIsNoRecord

\* The idle process.
LEMMA IdleIs ==
    /\ MemShape(Ev!Idle) /\ Ev!Idle.at = "down" /\ ~Ev!Idle.label /\ Ev!Idle.res = None
    /\ ~Ev!Idle.err /\ ~Ev!Idle.ferr /\ Ev!Idle.store = None /\ ~Ev!Idle.epoch
  BY DEF Ev!Idle, MemShape

\* What a manifest says stays true while its files stay.
LEMMA ManStays ==
    ASSUME manifest # None, ManOK(manifest), UNCHANGED <<files, frames, attempts, manifest>>
    PROVE  ManOK(manifest)'
  BY DEF ManOK, Ev!RecordAgrees

\* The first steps of a cell.
LEMMA BeginKeeps ==
    ASSUME NoneIsNoRecord, Ev!EvidenceConstants, EvInv, Ev!Begin
    PROVE  EvInv'
<1> DEFINE no == FALSE
<1>1. record' # None /\ RecShape(record') /\ record'.outcome = "running"
  <2>1. record' = Ev!Rec("running", {}, no)
    BY DEF Ev!Begin
  <2> HIDE DEF no
  <2> QED
    BY <2>1, RecordIsSome
<1>2. /\ mem.at = "down" /\ record = None /\ mem' = [mem EXCEPT !.at = "started"] /\ MemShape(mem)
      /\ UNCHANGED <<files, series, frames, attempts, manifest, faults, kept>>
  BY DEF Ev!Begin, Ev!At, Ev!Goes, EvInv, Shapes
<1>3. MemShape(mem') /\ mem'.at = "started" /\ Keeps(mem', mem)
  BY <1>2, GoesOn
<1>4. ~mem.label /\ ~mem.epoch /\ ~mem.err /\ mem.res = None /\ mem.store = None /\ ~mem.ferr
  BY <1>2, IdleIs DEF EvInv, StepInv
<1>5. manifest = None /\ attempts = None /\ series = None
  BY <1>2 DEF EvInv, FreshInv
<1> QED
  BY <1>1, <1>2, <1>3, <1>4, <1>5
  DEF EvInv, Shapes, FreshInv, RecInv, OwnInv, LabelInv, StepInv, ManInv, Early, ToManifest, Keeps

\* The live series is written.
LEMMA StartSeriesKeeps ==
    ASSUME NoneIsNoRecord, Ev!EvidenceConstants, EvInv, Ev!StartSeries
    PROVE  EvInv'
<1>1. /\ mem.at = "started" /\ mem' = [mem EXCEPT !.at = "starting"] /\ MemShape(mem)
      /\ UNCHANGED <<files, frames, attempts, manifest, record, faults, kept>>
  BY DEF Ev!StartSeries, Ev!At, Ev!Goes, EvInv, Shapes
<1>2. MemShape(mem') /\ mem'.at = "starting" /\ Keeps(mem', mem)
  BY <1>1, GoesOn
<1> QED
  BY <1>1, <1>2
  DEF EvInv, Shapes, FreshInv, RecInv, OwnInv, LabelInv, StepInv, ManInv, Early, ToManifest, Keeps

\* The probe follows every start record.
LEMMA ProbeKeeps ==
    ASSUME NoneIsNoRecord, Ev!EvidenceConstants, EvInv, Ev!Probe
    PROVE  EvInv'
<1>1. /\ mem.at = "starting" /\ mem' = [mem EXCEPT !.at = "probed"] /\ MemShape(mem)
      /\ UNCHANGED <<series, frames, attempts, manifest, record, faults, kept>>
  BY DEF Ev!Probe, Ev!At, Ev!Goes, EvInv, Shapes
<1>2. MemShape(mem') /\ mem'.at = "probed" /\ Keeps(mem', mem)
  BY <1>1, GoesOn
<1>3. files' = [files EXCEPT !["probe"] = "cell"] /\ Ev!Unwritten = {}
  BY DEF Ev!Probe
<1>4. files["clock"] # None /\ files["status"] # None /\ files["balance"] # None
  BY <1>3 DEF Ev!Unwritten, Ev!Starts
<1>5. /\ files' = [n \in FileNames |-> files'[n]]
      /\ \A n \in FileNames \ {"probe"} : files'[n] = files[n]
  BY <1>3 DEF EvInv, Shapes
<1> QED
  BY <1>1, <1>2, <1>4, <1>5
  DEF EvInv, Shapes, FreshInv, RecInv, OwnInv, LabelInv, StepInv, ManInv, Early, ToManifest, Keeps, FileNames

\* A process that dies, or a label that fails, leaves what is written.
LEMMA DownKeeps ==
    ASSUME NoneIsNoRecord, Ev!EvidenceConstants, EvInv, mem' = Ev!Idle, mem.at # "down",
           UNCHANGED <<files, series, frames, attempts, manifest, record, kept>>
    PROVE  EvInv'
<1>1. manifest # None => ManOK(manifest)'
  BY ManStays DEF EvInv, ManInv
<1>2. record # None
  BY DEF EvInv, FreshInv
<1>3. record.outcome = "missed" => series \in {None, Nothing}
  BY <1>2 DEF EvInv, RecInv, LabelInv, ToManifest
<1> QED
  BY <1>1, <1>2, <1>3, IdleIs
  DEF EvInv, Shapes, FreshInv, RecInv, OwnInv, LabelInv, StepInv, ManInv, Early, ToManifest, Keeps

\* A failed step of a cell's own process ends in its record.
LEMMA FailKeeps ==
    ASSUME NoneIsNoRecord, Ev!EvidenceConstants, EvInv, mem.at # "down", ~mem.label,
           mem' = [mem EXCEPT !.at = "record", !.err = TRUE],
           UNCHANGED <<files, series, frames, attempts, manifest, record, kept>>
    PROVE  EvInv'
<1> DEFINE yes == TRUE
<1>1. mem' = [mem EXCEPT !.at = "record", !.err = yes]
  OBVIOUS
<1>2. yes
  OBVIOUS
<1> HIDE DEF yes
<1>3. /\ MemShape(mem') /\ mem'.at = "record" /\ mem'.err = yes /\ mem'.label = mem.label
  BY <1>1 DEF EvInv, Shapes, MemShape
<1>4. manifest # None => ManOK(manifest)'
  BY ManStays DEF EvInv, ManInv
<1> QED
  BY <1>2, <1>3, <1>4
  DEF EvInv, Shapes, FreshInv, RecInv, OwnInv, LabelInv, StepInv, ManInv, Early, ToManifest, Keeps

\* Ends before the manifest: a failure, a refusal, a death.
LEMMA EndsKeep ==
    ASSUME NoneIsNoRecord, Ev!EvidenceConstants, EvInv, Ev!StepFails \/ Ev!Refused \/ Ev!Die
    PROVE  EvInv'
<1>1. CASE Ev!StepFails
  <2>1. mem.at # "down"
    BY <1>1 DEF Ev!StepFails, Ev!EvidenceConstants
  <2> QED
    BY <1>1, <2>1, DownKeeps, FailKeeps DEF Ev!StepFails
<1>2. CASE Ev!Refused
  <2>1. mem.at # "down"
    BY <1>2 DEF Ev!Refused, Ev!At
  <2> QED
    BY <1>2, <2>1, DownKeeps, FailKeeps DEF Ev!Refused
<1>3. CASE Ev!Die
  BY <1>3, DownKeeps DEF Ev!Die, Ev!At
<1> QED
  BY <1>1, <1>2, <1>3

\* A run reached too late.
LEMMA MissKeeps ==
    ASSUME NoneIsNoRecord, Ev!EvidenceConstants, EvInv, Ev!Miss
    PROVE  EvInv'
<1> DEFINE no == FALSE
<1>1. record' = Ev!Rec("missed", {"late"}, no) /\ ~no
  BY DEF Ev!Miss
<1> HIDE DEF no
<1>2. /\ record' # None /\ RecShape(record') /\ record'.outcome = "missed"
      /\ record'.reasons # {} /\ ~record'.epoch
  BY <1>1, RecordIsSome
<1>3. /\ record = None /\ mem.at = "down"
      /\ UNCHANGED <<files, series, frames, attempts, manifest, mem, faults, kept>>
  BY DEF Ev!Miss, Ev!At
<1>4. ~mem.label
  BY <1>3, IdleIs DEF EvInv, StepInv
<1> QED
  BY <1>2, <1>3, <1>4
  DEF EvInv, Shapes, FreshInv, RecInv, OwnInv, LabelInv, StepInv, ManInv, Early, ToManifest, Keeps

\* The start records are written in their order.
LEMMA WriteStartKeeps ==
    ASSUME NoneIsNoRecord, Ev!EvidenceConstants, EvInv, Ev!WriteStart
    PROVE  EvInv'
<1> DEFINE U == Ev!Unwritten
           n == Ev!Starts[Ev!Min(U)]
<1>1. /\ mem.at = "starting" /\ U # {} /\ files' = [files EXCEPT ![n] = "cell"]
      /\ UNCHANGED <<series, frames, attempts, manifest, record, mem, faults, kept>>
  BY DEF Ev!WriteStart, Ev!At
<1>2. U \subseteq 1..4
  BY DEF Ev!Unwritten, Ev!Starts
<1>3. Ev!Min(U) \in U
  <2>1. \E x \in U : \A y \in U : x <= y
    <3>0. U # {}
      BY <1>1
    <3> HIDE DEF U, n
    <3>1. CASE 1 \in U
      BY <1>2, <3>1
    <3>2. CASE 1 \notin U /\ 2 \in U
      BY <1>2, <3>2
    <3>3. CASE 1 \notin U /\ 2 \notin U /\ 3 \in U
      BY <1>2, <3>3
    <3>4. CASE 1 \notin U /\ 2 \notin U /\ 3 \notin U
      <4>1. 4 \in U
        <5>1. PICK u \in U : TRUE
          BY <3>0
        <5>2. u \in 1..4 /\ u # 1 /\ u # 2 /\ u # 3
          BY <1>2, <3>4
        <5>3. u = 4
          BY <5>2
        <5> QED
          BY <5>3
      <4> QED
        BY <1>2, <3>4, <4>1
    <3> QED
      BY <3>1, <3>2, <3>3, <3>4
  <2> QED
    BY <2>1 DEF Ev!Min
<1>4. n \in {"clock", "status", "refresh", "balance"}
  <2>1. \A i \in 1..4 : Ev!Starts[i] \in {"clock", "status", "refresh", "balance"}
    BY DEF Ev!Starts
  <2>2. Ev!Min(U) \in 1..4
    BY <1>2, <1>3
  <2> QED
    BY <2>1, <2>2
<1> HIDE DEF U, n
<1>5. files' = [x \in FileNames |-> files'[x]] /\ files'["pair"] = files["pair"]
  BY <1>1, <1>4 DEF EvInv, Shapes, FileNames
<1> QED
  BY <1>1, <1>5
  DEF EvInv, Shapes, FreshInv, RecInv, OwnInv, LabelInv, StepInv, ManInv, Early, ToManifest, Keeps

\* A check or the probe ends the cell.
LEMMA FinishEarlyKeeps ==
    ASSUME NoneIsNoRecord, Ev!EvidenceConstants, EvInv, Ev!FinishEarly
    PROVE  EvInv'
<1>1. PICK o \in {"blocked", "stopped"} :
         mem' = [mem EXCEPT !.at = "retain", !.outcome = o, !.reasons = {o}]
  BY DEF Ev!FinishEarly
<1>2. /\ (mem.at = "starting" /\ Ev!Unwritten = {}) \/ mem.at = "probed"
      /\ UNCHANGED <<files, series, frames, attempts, manifest, record, faults, kept>>
  BY DEF Ev!FinishEarly, Ev!At
<1>3. /\ MemShape(mem') /\ mem'.at = "retain" /\ mem'.outcome = o /\ mem'.reasons = {o}
      /\ mem'.label = mem.label /\ mem'.res = mem.res /\ mem'.err = mem.err
      /\ mem'.ferr = mem.ferr /\ mem'.store = mem.store /\ mem'.epoch = mem.epoch
  BY <1>1 DEF EvInv, Shapes, MemShape
<1>4. files["clock"] # None /\ files["status"] # None /\ files["balance"] # None
  <2>1. CASE mem.at = "probed"
    BY <2>1 DEF EvInv, StepInv
  <2>2. CASE Ev!Unwritten = {}
    BY <2>2 DEF Ev!Unwritten, Ev!Starts
  <2> QED
    BY <1>2, <2>1, <2>2
<1>5. ~mem.label
  BY <1>2 DEF EvInv, LabelInv, ToManifest
<1>6. /\ mem.res = None /\ ~mem.epoch /\ ~mem.err /\ attempts = None /\ manifest = None
      /\ mem.store = None /\ ~mem.ferr /\ record.outcome = "running" /\ record # None
  BY <1>2, <1>5 DEF EvInv, OwnInv, Early, StepInv, FreshInv
<1>7. LabelOK(mem.res, o, {o}, mem.epoch)
  BY <1>6 DEF LabelOK
<1> QED
  BY <1>2, <1>3, <1>4, <1>5, <1>6, <1>7
  DEF EvInv, Shapes, FreshInv, RecInv, OwnInv, LabelInv, StepInv, ManInv, Early, ToManifest, Keeps

\* The ladder runs ...
LEMMA LadderKeeps ==
    ASSUME NoneIsNoRecord, Ev!EvidenceConstants, EvInv, Ev!Ladder
    PROVE  EvInv'
<1>1. PICK r \in Results : mem' = [mem EXCEPT !.at = "ladder", !.res = r]
  BY DEF Ev!Ladder
<1>2. /\ mem.at = "probed"
      /\ UNCHANGED <<files, series, frames, attempts, manifest, record, faults, kept>>
  BY DEF Ev!Ladder, Ev!At
<1>3. /\ MemShape(mem') /\ mem'.at = "ladder" /\ mem'.res = r
      /\ mem'.label = mem.label /\ mem'.err = mem.err
      /\ mem'.ferr = mem.ferr /\ mem'.store = mem.store /\ mem'.epoch = mem.epoch
  BY <1>1 DEF EvInv, Shapes, MemShape
<1>4. ~mem.label
  BY <1>2 DEF EvInv, LabelInv, ToManifest
<1> QED
  BY <1>2, <1>3, <1>4
  DEF EvInv, Shapes, FreshInv, RecInv, OwnInv, LabelInv, StepInv, ManInv, Early, ToManifest, Keeps

\* ... and the live series follows it.
LEMMA LiveWriteKeeps ==
    ASSUME NoneIsNoRecord, Ev!EvidenceConstants, EvInv, Ev!LiveWrite
    PROVE  EvInv'
<1>1. /\ mem.at = "ladder"
      /\ UNCHANGED <<files, frames, attempts, manifest, record, mem, faults, kept>>
  BY DEF Ev!LiveWrite, Ev!At
<1> QED
  BY <1>1
  DEF EvInv, Shapes, FreshInv, RecInv, OwnInv, LabelInv, StepInv, ManInv, Early, ToManifest, Keeps

\* A ladder that ended labels its cell.
LEMMA LadderEndsKeeps ==
    ASSUME NoneIsNoRecord, Ev!EvidenceConstants, EvInv, Ev!LadderEnds
    PROVE  EvInv'
<1> DEFINE yes == TRUE
           o(flag) == Ev!CellOutcome(mem.res, flag)
           why(flag) == IF o(flag) = "counted" THEN {} ELSE {o(flag)}
<1>1. PICK flag \in BOOLEAN :
         mem' = [mem EXCEPT !.at = "retain", !.outcome = o(flag), !.epoch = yes, !.reasons = why(flag)]
  BY DEF Ev!LadderEnds
<1>2. /\ mem.at = "ladder"
      /\ UNCHANGED <<files, series, frames, attempts, manifest, record, faults, kept>>
  BY DEF Ev!LadderEnds, Ev!At
<1>3. ~mem.label
  BY <1>2 DEF EvInv, LabelInv, ToManifest
<1>4. LabelOK(mem.res, o(flag), why(flag), yes)
  <2>1. mem.res \in Results
    BY <1>2, <1>3 DEF EvInv, OwnInv
  <2> QED
    BY <2>1 DEF LabelOK
<1> HIDE DEF yes, o, why
<1>5. /\ MemShape(mem') /\ mem'.at = "retain" /\ mem'.outcome = o(flag) /\ mem'.reasons = why(flag)
      /\ mem'.label = mem.label /\ mem'.res = mem.res /\ mem'.err = mem.err
      /\ mem'.ferr = mem.ferr /\ mem'.store = mem.store /\ mem'.epoch = yes
  BY <1>1 DEF EvInv, Shapes, MemShape
<1> QED
  BY <1>2, <1>3, <1>4, <1>5
  DEF EvInv, Shapes, FreshInv, RecInv, OwnInv, LabelInv, StepInv, ManInv, Early, ToManifest, Keeps

\* The final series replaces the live one.
LEMMA RetainSeriesKeeps ==
    ASSUME NoneIsNoRecord, Ev!EvidenceConstants, EvInv, Ev!RetainSeries
    PROVE  EvInv'
<1>1. /\ mem.at = "retain" /\ mem' = [mem EXCEPT !.at = "ends"] /\ MemShape(mem)
      /\ UNCHANGED <<files, frames, attempts, manifest, record, faults, kept>>
  BY DEF Ev!RetainSeries, Ev!At, Ev!Goes, EvInv, Shapes
<1>2. MemShape(mem') /\ mem'.at = "ends" /\ Keeps(mem', mem)
  BY <1>1, GoesOn
<1>3. /\ mem.label => series' = series
      /\ ~mem.label => series' = [sent |-> Ev!Sent(ReqsOf(mem.res)), final |-> TRUE]
  BY DEF Ev!RetainSeries, Ev!Reqs, ReqsOf
<1> QED
  BY <1>1, <1>2, <1>3
  DEF EvInv, Shapes, FreshInv, RecInv, OwnInv, LabelInv, StepInv, ManInv, Early, ToManifest, Keeps

\* The end records are written.
LEMMA EndRecordsKeeps ==
    ASSUME NoneIsNoRecord, Ev!EvidenceConstants, EvInv, Ev!EndRecords
    PROVE  EvInv'
<1>1. /\ mem.at = "ends" /\ mem' = [mem EXCEPT !.at = "frames"] /\ MemShape(mem)
      /\ UNCHANGED <<series, frames, attempts, manifest, record, faults, kept>>
  BY DEF Ev!EndRecords, Ev!At, Ev!Goes, EvInv, Shapes
<1>2. MemShape(mem') /\ mem'.at = "frames" /\ Keeps(mem', mem)
  BY <1>1, GoesOn
<1>3. /\ files' = [n \in FileNames |-> files'[n]]
      /\ \A n \in FileNames \ {"status-end", "balance-end"} : files'[n] = files[n]
  BY DEF Ev!EndRecords, EvInv, Shapes
<1> QED
  BY <1>1, <1>2, <1>3, ZenonT(40)
  DEF EvInv, Shapes, FreshInv, RecInv, OwnInv, LabelInv, StepInv, ManInv, Early, ToManifest, Keeps, FileNames

\* The frame store is written, or is refused or fails and is not named.
LEMMA WriteFramesKeeps ==
    ASSUME NoneIsNoRecord, Ev!EvidenceConstants, EvInv, Ev!WriteFrames
    PROVE  EvInv'
<1> DEFINE d == IF mem.res = None THEN "start" ELSE "epoch"
           yes == TRUE
           new == [lines |-> Len(ReqsOf(mem.res)), copies |-> {}]
<1>1. /\ mem.at = "frames" /\ MemShape(mem)
      /\ UNCHANGED <<files, series, attempts, manifest, record, kept>>
  BY DEF Ev!WriteFrames, Ev!At, EvInv, Shapes
<1>2. \/ /\ frames' = [frames EXCEPT ![d] = new]
         /\ mem' = [mem EXCEPT !.at = "copies", !.store = d]
      \/ /\ frames' = frames \/ \E store : frames' = [frames EXCEPT ![d] = store]
         /\ mem' = [mem EXCEPT !.at = "attempts", !.ferr = yes]
  BY DEF Ev!WriteFrames, Ev!Reqs, ReqsOf
<1>3. d \in {"start", "epoch"} /\ d # None /\ yes
  BY DEF Ev!EvidenceConstants
<1>4. manifest = None /\ mem.store = None /\ ~mem.ferr
  BY <1>1 DEF EvInv, OwnInv, LabelInv, StepInv, ToManifest
<1>5. new = [lines |-> Len(ReqsOf(mem.res)), copies |-> new.copies]
  OBVIOUS
<1>6. record # None => record.outcome # "counted"
  BY <1>1 DEF EvInv, RecInv
<1> HIDE DEF d, yes, new
<1>7. CASE /\ frames' = [frames EXCEPT ![d] = new]
           /\ mem' = [mem EXCEPT !.at = "copies", !.store = d]
  <2>1. /\ MemShape(mem') /\ mem'.at = "copies" /\ mem'.store = d
        /\ mem'.label = mem.label /\ mem'.outcome = mem.outcome /\ mem'.reasons = mem.reasons
        /\ mem'.res = mem.res /\ mem'.err = mem.err /\ mem'.ferr = mem.ferr /\ mem'.epoch = mem.epoch
    BY <1>1, <1>7 DEF MemShape
  <2>2. frames' = [x \in {"start", "epoch"} |-> frames'[x]] /\ frames'[d] = new
    BY <1>3, <1>7 DEF EvInv, Shapes
  <2> QED
    BY <1>1, <1>3, <1>4, <1>5, <1>6, <2>1, <2>2
    DEF EvInv, Shapes, FreshInv, RecInv, OwnInv, LabelInv, StepInv, ManInv, Early, ToManifest, Keeps
<1>8. CASE /\ frames' = frames \/ \E store : frames' = [frames EXCEPT ![d] = store]
           /\ mem' = [mem EXCEPT !.at = "attempts", !.ferr = yes]
  <2>1. /\ MemShape(mem') /\ mem'.at = "attempts" /\ mem'.ferr = yes
        /\ mem'.label = mem.label /\ mem'.outcome = mem.outcome /\ mem'.reasons = mem.reasons
        /\ mem'.res = mem.res /\ mem'.err = mem.err /\ mem'.store = mem.store /\ mem'.epoch = mem.epoch
    BY <1>1, <1>8 DEF MemShape
  <2>2. frames' = [x \in {"start", "epoch"} |-> frames'[x]]
    BY <1>3, <1>8 DEF EvInv, Shapes
  <2> QED
    BY <1>1, <1>3, <1>4, <1>6, <2>1, <2>2
    DEF EvInv, Shapes, FreshInv, RecInv, OwnInv, LabelInv, StepInv, ManInv, Early, ToManifest, Keeps
<1> QED
  BY <1>2, <1>7, <1>8

\* The copies are written beside it; one that fails leaves the store named.
LEMMA WriteCopiesKeeps ==
    ASSUME NoneIsNoRecord, Ev!EvidenceConstants, EvInv, Ev!WriteCopies
    PROVE  EvInv'
<1> DEFINE yes == TRUE
           s == mem.store
           more == frames[s].copies \cup {Ev!Copies[Ev!Min(Ev!Uncopied)]}
<1>1. /\ mem.at = "copies" /\ MemShape(mem)
      /\ UNCHANGED <<files, series, attempts, manifest, record, kept>>
  BY DEF Ev!WriteCopies, Ev!At, EvInv, Shapes
<1>2. \/ mem' = mem /\ frames' = [frames EXCEPT ![s].copies = more]
      \/ Ev!Uncopied = {} /\ mem' = [mem EXCEPT !.at = "attempts"] /\ frames' = frames
      \/ mem' = [mem EXCEPT !.at = "attempts", !.ferr = yes] /\ frames' = frames
  BY DEF Ev!WriteCopies, Ev!Goes
<1>3. /\ manifest = None /\ s \in {"start", "epoch"} /\ s # None /\ ~mem.ferr /\ yes
      /\ frames[s] = [lines |-> Len(ReqsOf(mem.res)), copies |-> frames[s].copies]
  BY <1>1 DEF EvInv, OwnInv, LabelInv, StepInv, ToManifest
<1>4. record # None => record.outcome # "counted"
  BY <1>1 DEF EvInv, RecInv
<1>5. Ev!Uncopied = {} => Ev!Checked \subseteq frames[s].copies
  <2> SUFFICES ASSUME Ev!Uncopied = {}
               PROVE  \A c \in {"operator", "records", "config"} : c \in frames[s].copies
    BY DEF Ev!Checked
  <2>1. \A i \in 1..4 : Ev!Copies[i] \in frames[s].copies
    BY DEF Ev!Uncopied, Ev!Copies
  <2>2. Ev!Copies[1] = "operator" /\ Ev!Copies[2] = "records" /\ Ev!Copies[3] = "config"
    BY DEF Ev!Copies
  <2>3. 1 \in 1..4 /\ 2 \in 1..4 /\ 3 \in 1..4
    OBVIOUS
  <2> QED
    BY <2>1, <2>2, <2>3
<1> HIDE DEF s, yes, more
<1>6. CASE mem' = mem /\ frames' = [frames EXCEPT ![s].copies = more]
  <2>1. frames' = [x \in {"start", "epoch"} |-> frames'[x]]
    BY <1>3, <1>6 DEF EvInv, Shapes
  <2>2. frames'[s] = [frames[s] EXCEPT !.copies = more]
    BY <1>3, <1>6 DEF EvInv, Shapes
  <2>3. frames'[s] = [lines |-> Len(ReqsOf(mem.res)), copies |-> frames'[s].copies]
    BY <1>3, <2>2
  <2> QED
    BY <1>1, <1>3, <1>4, <1>6, <2>1, <2>3
    DEF EvInv, Shapes, FreshInv, RecInv, OwnInv, LabelInv, StepInv, ManInv, Early, ToManifest, Keeps, s
<1>7. CASE Ev!Uncopied = {} /\ mem' = [mem EXCEPT !.at = "attempts"] /\ frames' = frames
  <2>1. MemShape(mem') /\ mem'.at = "attempts" /\ Keeps(mem', mem)
    BY <1>1, <1>7, GoesOn
  <2> QED
    BY <1>1, <1>3, <1>4, <1>5, <1>7, <2>1
    DEF EvInv, Shapes, FreshInv, RecInv, OwnInv, LabelInv, StepInv, ManInv, Early, ToManifest, Keeps, s
<1>8. CASE mem' = [mem EXCEPT !.at = "attempts", !.ferr = yes] /\ frames' = frames
  <2>1. /\ MemShape(mem') /\ mem'.at = "attempts" /\ mem'.ferr = yes
        /\ mem'.label = mem.label /\ mem'.outcome = mem.outcome /\ mem'.reasons = mem.reasons
        /\ mem'.res = mem.res /\ mem'.err = mem.err /\ mem'.store = mem.store /\ mem'.epoch = mem.epoch
    BY <1>1, <1>8 DEF MemShape
  <2> QED
    BY <1>1, <1>3, <1>4, <1>8, <2>1
    DEF EvInv, Shapes, FreshInv, RecInv, OwnInv, LabelInv, StepInv, ManInv, Early, ToManifest, Keeps, s
<1> QED
  BY <1>2, <1>6, <1>7, <1>8

\* The attempts are written once: by the process that ran the ladder, or
\* empty by the one that labels the cell.
LEMMA RetainAttemptsKeeps ==
    ASSUME NoneIsNoRecord, Ev!EvidenceConstants, EvInv, Ev!RetainAttempts
    PROVE  EvInv'
<1>1. /\ mem.at = "attempts" /\ mem' = [mem EXCEPT !.at = "manifest"] /\ MemShape(mem)
      /\ attempts' = ReqsOf(mem.res) /\ kept' = IF kept = None THEN ReqsOf(mem.res) ELSE kept
      /\ UNCHANGED <<files, series, frames, manifest, record, faults>>
  BY DEF Ev!RetainAttempts, Ev!WriteAttempts, Ev!At, Ev!Goes, Ev!Reqs, ReqsOf, EvInv, Shapes
<1>2. MemShape(mem') /\ mem'.at = "manifest" /\ Keeps(mem', mem)
  BY <1>1, GoesOn
<1>3. kept' = attempts' /\ (mem.label => attempts' = <<>>)
  <2>1. CASE mem.label
    <3>1. mem.res = None /\ attempts = <<>> /\ kept = attempts
      BY <2>1 DEF EvInv, LabelInv, StepInv
    <3> QED
      BY <1>1, <3>1 DEF ReqsOf
  <2>2. CASE ~mem.label
    BY <1>1, <2>2 DEF EvInv, OwnInv, StepInv, ToManifest
  <2> QED
    BY <2>1, <2>2
<1> QED
  BY <1>1, <1>2, <1>3
  DEF EvInv, Shapes, FreshInv, RecInv, OwnInv, LabelInv, StepInv, ManInv, Early, ToManifest, Keeps

\* The report pair, ...
LEMMA WritePairKeeps ==
    ASSUME NoneIsNoRecord, Ev!EvidenceConstants, EvInv, Ev!WritePair
    PROVE  EvInv'
<1>1. /\ mem.at = "pair" /\ files' = [files EXCEPT !["pair"] = "cell"]
      /\ UNCHANGED <<series, frames, attempts, manifest, record, mem, faults, kept>>
  BY DEF Ev!WritePair, Ev!At
<1>2. /\ files' = [n \in FileNames |-> files'[n]] /\ files'["pair"] # None
      /\ \A n \in FileNames \ {"pair"} : files'[n] = files[n]
  BY <1>1 DEF EvInv, Shapes, FileNames, Ev!EvidenceConstants
<1>3. manifest # None /\ ManOK(manifest)
  BY <1>1 DEF EvInv, ManInv
<1>4. ManOK(manifest)'
  BY <1>1, <1>2, <1>3 DEF ManOK, Ev!RecordAgrees
<1> QED
  BY <1>1, <1>2, <1>3, <1>4
  DEF EvInv, Shapes, FreshInv, RecInv, OwnInv, LabelInv, StepInv, ManInv, Early, ToManifest, Keeps

\* ... and the manifest again, with the pair in it.
LEMMA NamePairKeeps ==
    ASSUME NoneIsNoRecord, Ev!EvidenceConstants, EvInv, Ev!NamePair
    PROVE  EvInv'
<1> DEFINE yes == TRUE
<1>1. /\ mem.at = "pair" /\ mem' = [mem EXCEPT !.at = "record"] /\ MemShape(mem)
      /\ files["pair"] # None /\ manifest' = [manifest EXCEPT !.pair = yes]
      /\ UNCHANGED <<files, series, frames, attempts, record, faults, kept>>
  BY DEF Ev!NamePair, Ev!At, Ev!Goes, EvInv, Shapes
<1>2. MemShape(mem') /\ mem'.at = "record" /\ Keeps(mem', mem)
  BY <1>1, GoesOn
<1>3. manifest # None /\ ManOK(manifest) /\ ManShape(manifest) /\ yes
  BY <1>1 DEF EvInv, ManInv, Shapes
<1> HIDE DEF yes
<1>4. /\ ManShape(manifest') /\ manifest'.pair = yes /\ manifest'.outcome = manifest.outcome
      /\ manifest'.reasons = manifest.reasons /\ manifest'.ladder = manifest.ladder
      /\ manifest'.own = manifest.own /\ manifest'.gaps = manifest.gaps
      /\ manifest'.canary = manifest.canary /\ manifest'.gates = manifest.gates
      /\ manifest'.attempts = manifest.attempts /\ manifest'.files = manifest.files
      /\ manifest'.endpoint = manifest.endpoint /\ manifest'.frames = manifest.frames
      /\ manifest'.route = manifest.route
  BY <1>1, <1>3 DEF ManShape
<1>5. manifest' # None
  BY <1>4 DEF ManShape, NoneIsNoRecord
<1>6. ManOK(manifest)'
  <2>1. Ev!RecordAgrees(manifest)'
    BY <1>1, <1>3, <1>4 DEF ManOK, Ev!RecordAgrees, Ev!CheckLabel, Ev!OwnFinal, Ev!CanaryAgrees
  <2> QED
    BY <1>1, <1>3, <1>4, <2>1 DEF ManOK
<1> QED
  BY <1>1, <1>2, <1>3, <1>4, <1>5, <1>6
  DEF EvInv, Shapes, FreshInv, RecInv, OwnInv, LabelInv, StepInv, ManInv, Early, ToManifest, Keeps

\* The record is written last.
LEMMA WriteRecordKeeps ==
    ASSUME NoneIsNoRecord, Ev!EvidenceConstants, EvInv, Ev!WriteRecord
    PROVE  EvInv'
<1>1. /\ mem.at = "record" /\ mem' = Ev!Idle
      /\ UNCHANGED <<files, series, frames, attempts, manifest, faults, kept>>
  BY DEF Ev!WriteRecord, Ev!At
<1>2. manifest # None => ManOK(manifest)'
  BY <1>1, ManStays DEF EvInv, ManInv
<1>3. record # None
  BY <1>1 DEF EvInv, FreshInv
<1>4. \/ mem.label /\ mem.ferr /\ record' = record
      \/ mem.label /\ record' = Ev!Rec(mem.outcome, mem.reasons, mem.epoch)
      \/ ~mem.label /\ record' = Ev!Rec("interrupted", mem.reasons \cup {"error"}, mem.epoch)
      \/ /\ ~mem.label /\ ~mem.err /\ ~mem.ferr
         /\ record' = Ev!Rec(mem.outcome, mem.reasons, mem.epoch)
  BY DEF Ev!WriteRecord
<1>5. CASE mem.label
  <2>1. /\ record' # None /\ RecShape(record') /\ record'.outcome = record.outcome
        /\ record'.reasons # {} /\ record'.epoch = record.epoch
    BY <1>3, <1>4, <1>5, RecordIsSome DEF EvInv, LabelInv, RecInv, Shapes
  <2>2. record.outcome \in {"missed", "interrupted"} /\ (record.outcome = "missed" => series = Nothing)
    BY <1>1, <1>5 DEF EvInv, LabelInv
  <2> QED
    BY <1>1, <1>2, <1>3, <2>1, <2>2, IdleIs
    DEF EvInv, Shapes, FreshInv, RecInv, OwnInv, LabelInv, StepInv, ManInv, Early, ToManifest, Keeps
<1>6. CASE ~mem.label /\ record' = Ev!Rec("interrupted", mem.reasons \cup {"error"}, mem.epoch)
  <2>1. /\ record' # None /\ RecShape(record') /\ record'.outcome = "interrupted"
        /\ record'.reasons # {}
    BY <1>6, RecordIsSome
  <2> QED
    BY <1>1, <1>2, <2>1, IdleIs
    DEF EvInv, Shapes, FreshInv, RecInv, OwnInv, LabelInv, StepInv, ManInv, Early, ToManifest, Keeps
<1>7. CASE /\ ~mem.label /\ ~mem.err /\ ~mem.ferr
           /\ record' = Ev!Rec(mem.outcome, mem.reasons, mem.epoch)
  <2>1. record' # None /\ RecShape(record') /\ record'.outcome = mem.outcome
    BY <1>7, RecordIsSome
  <2>2. /\ manifest # None /\ manifest.outcome = mem.outcome /\ manifest.frames # None /\ manifest.pair
        /\ Ev!Checked \subseteq frames[manifest.frames].copies
    BY <1>1, <1>7 DEF EvInv, ManInv
  <2>3. mem.outcome \notin {"missed", "interrupted"}
    BY <1>1, <1>7 DEF EvInv, ManInv, OwnInv
  <2> QED
    BY <1>1, <1>2, <2>1, <2>2, <2>3, IdleIs
    DEF EvInv, Shapes, FreshInv, RecInv, OwnInv, LabelInv, StepInv, ManInv, Early, ToManifest, Keeps
<1> QED
  BY <1>4, <1>5, <1>6, <1>7

\* A record left running becomes interrupted.
LEMMA ReadStateKeeps ==
    ASSUME NoneIsNoRecord, Ev!EvidenceConstants, EvInv, Ev!ReadState
    PROVE  EvInv'
<1> DEFINE why == record.reasons \cup {"died"}
<1>1. /\ mem.at = "down" /\ record # None /\ record.outcome = "running" /\ RecShape(record)
      /\ record' = [record EXCEPT !.outcome = "interrupted", !.reasons = why]
      /\ UNCHANGED <<files, series, frames, attempts, manifest, mem, faults, kept>>
  BY DEF Ev!ReadState, Ev!At, EvInv, Shapes
<1>2. why # {}
  OBVIOUS
<1> HIDE DEF why
<1>3. /\ record' = [outcome |-> "interrupted", reasons |-> why, epoch |-> record.epoch]
  BY <1>1 DEF RecShape
<1>4. /\ RecShape(record') /\ record'.outcome = "interrupted" /\ record'.reasons # {} /\ record' # None
  BY <1>2, <1>3 DEF RecShape, NoneIsNoRecord
<1>5. ~mem.label
  BY <1>1, IdleIs DEF EvInv, StepInv
<1>6. manifest # None => ManOK(manifest)'
  BY <1>1, ManStays DEF EvInv, ManInv
<1> QED
  BY <1>1, <1>4, <1>5, <1>6
  DEF EvInv, Shapes, FreshInv, RecInv, OwnInv, LabelInv, StepInv, ManInv, Early, ToManifest, Keeps

\* The next process takes up a cell without a manifest or attempts ...
LEMMA LabelCellKeeps ==
    ASSUME NoneIsNoRecord, Ev!EvidenceConstants, EvInv, Ev!LabelCell
    PROVE  EvInv'
<1> DEFINE yes == TRUE
<1>1. /\ mem.at = "down" /\ record # None /\ record.outcome \in {"missed", "interrupted"}
      /\ manifest = None /\ attempts = None
      /\ mem' = [Ev!Idle EXCEPT !.at = "label", !.label = yes, !.outcome = record.outcome,
                                !.reasons = record.reasons, !.epoch = record.epoch]
      /\ attempts' = <<>> /\ kept' = IF kept = None THEN <<>> ELSE kept
      /\ UNCHANGED <<files, series, frames, manifest, record, faults>>
  BY DEF Ev!LabelCell, Ev!Unlabelled, Ev!At
<1>2. yes
  OBVIOUS
<1> HIDE DEF yes
<1>3. /\ MemShape(mem') /\ mem'.at = "label" /\ mem'.label = yes /\ mem'.outcome = record.outcome
      /\ mem'.reasons = record.reasons /\ mem'.epoch = record.epoch /\ mem'.res = Ev!Idle.res
      /\ mem'.err = Ev!Idle.err /\ mem'.ferr = Ev!Idle.ferr /\ mem'.store = Ev!Idle.store
  BY <1>1, IdleIs DEF MemShape
<1>4. kept' = attempts' /\ record.reasons # {}
  BY <1>1 DEF EvInv, StepInv, RecInv
<1> QED
  BY <1>1, <1>2, <1>3, <1>4, IdleIs
  DEF EvInv, Shapes, FreshInv, RecInv, OwnInv, LabelInv, StepInv, ManInv, Early, ToManifest, Keeps

\* ... and writes each start record the cell did not, and its series.
LEMMA LabelStartsKeeps ==
    ASSUME NoneIsNoRecord, Ev!EvidenceConstants, EvInv, Ev!LabelStarts
    PROVE  EvInv'
<1>1. PICK why \in SUBSET {"operator"} : mem' = [mem EXCEPT !.at = "retain", !.reasons = @ \cup why]
  BY DEF Ev!LabelStarts
<1>2. /\ mem.at = "label" /\ MemShape(mem)
      /\ series' = IF series = None THEN Nothing ELSE series
      /\ UNCHANGED <<frames, attempts, manifest, record, faults, kept>>
  BY DEF Ev!LabelStarts, Ev!At, EvInv, Shapes, Nothing
<1>3. /\ MemShape(mem') /\ mem'.at = "retain" /\ mem'.reasons = mem.reasons \cup why
      /\ mem'.label = mem.label /\ mem'.outcome = mem.outcome /\ mem'.res = mem.res
      /\ mem'.err = mem.err /\ mem'.ferr = mem.ferr /\ mem'.store = mem.store /\ mem'.epoch = mem.epoch
  BY <1>1, <1>2 DEF MemShape
<1>4. /\ files' = [n \in FileNames |-> files'[n]]
      /\ files'["clock"] # None /\ files'["status"] # None /\ files'["balance"] # None
      /\ files'["pair"] = files["pair"]
  <2>1. DOMAIN files = FileNames
    BY DEF EvInv, Shapes
  <2>2. files' = [n \in FileNames |->
                    IF n \in {"clock", "status", "balance"} /\ files[n] = None THEN "label" ELSE files[n]]
    BY <2>1 DEF Ev!LabelStarts
  <2> QED
    BY <2>2 DEF FileNames, Ev!EvidenceConstants
<1>5. mem.label /\ record # None /\ mem'.reasons # {}
  BY <1>2, <1>3 DEF EvInv, OwnInv, LabelInv, FreshInv, Early, ToManifest
<1>6. mem.outcome = "missed" => series' = Nothing
  BY <1>2, <1>5 DEF EvInv, RecInv, LabelInv
<1> QED
  BY <1>2, <1>3, <1>4, <1>5, <1>6
  DEF EvInv, Shapes, FreshInv, RecInv, OwnInv, LabelInv, StepInv, ManInv, Early, ToManifest, Keeps

-----------------------------------------------------------------------------
\* The instance's cardinality is the library's.
LEMMA EvCardinality ==
    ASSUME NEW S
    PROVE  Ev!Cardinality(S) = Cardinality(S)
  BY DEF Ev!Cardinality, Cardinality

\* Every gap has a bin.
LEMMA GapBinIs ==
    ASSUME Ev!EvidenceConstants, NEW us \in Int
    PROVE  Ev!GapBin(us) \in 1..Len(Edges)
<1> DEFINE S == {1} \cup { i \in DOMAIN Edges : Edges[i] <= us }
           n == Len(Edges)
<1>1. n \in Nat \ {0} /\ DOMAIN Edges = 1..n
  BY EmptySeq DEF Ev!EvidenceConstants
<1> HIDE DEF n
<1>2. S \in SUBSET Int /\ S # {} /\ n \in Int /\ \A x \in S : x <= n /\ x >= 1
  BY <1>1
<1>3. Ev!GapBin(us) = Max(S)
  BY DEF Ev!GapBin, Ev!Max, Max
<1> HIDE DEF S
<1>4. Max(S) \in S
  BY <1>2, MaxIs
<1>5. Ev!GapBin(us) \in 1..n
  <2> DEFINE v == Ev!GapBin(us)
  <2>1. v \in S
    BY <1>3, <1>4
  <2> HIDE DEF v
  <2>2. v \in 1..n
    BY <1>1, <1>2, <2>1
  <2> QED
    BY <2>2 DEF v
<1> QED
  BY <1>5 DEF n

\* What a ladder's requests give: those with gaps are the measured ones
\* with more than one content event, and have one gap less than events.
LEMMA WithIs ==
    ASSUME Ev!EvidenceConstants, NEW r \in Results
    PROVE  /\ Len(r.reqs) \in Nat /\ DOMAIN r.reqs = 1..Len(r.reqs)
           /\ Ev!With(r.reqs) = { i \in DOMAIN r.reqs : Ev!Measured(r.reqs[i]) /\ r.reqs[i].events > 1 }
           /\ \A i \in Ev!With(r.reqs) :
                /\ r.reqs[i].step \in Nat \ {0} /\ r.reqs[i].events \in Nat
                /\ r.reqs[i].itls \in Seq(Int) /\ r.reqs[i].itls # <<>>
                /\ r.reqs[i].events > 1 /\ Len(r.reqs[i].itls) = r.reqs[i].events - 1
<1>1. Ev!ResultAgrees(r)
  BY DEF Ev!EvidenceConstants
<1>2. ASSUME NEW i \in DOMAIN r.reqs, Ev!Measured(r.reqs[i])
      PROVE  /\ r.reqs[i].step \in Nat \ {0} /\ r.reqs[i].events \in Nat /\ r.reqs[i].itls \in Seq(Int)
             /\ r.reqs[i].itls # <<>> <=> r.reqs[i].events > 1
             /\ r.reqs[i].events > 1 => Len(r.reqs[i].itls) = r.reqs[i].events - 1
  <2> DEFINE l == r.reqs[i].itls
             e == r.reqs[i].events
  <2>1. r.reqs[i].step \in Nat \ {0} /\ l \in Seq(Int) /\ e \in Nat /\ Len(l) = IF e > 1 THEN e - 1 ELSE 0
    BY <1>1, <1>2 DEF Ev!ResultAgrees
  <2> HIDE DEF l, e
  <2>2. l # <<>> <=> Len(l) # 0
    BY <2>1, EmptySeq
  <2>3. l # <<>> <=> e > 1
    BY <2>1, <2>2
  <2> QED
    BY <2>1, <2>3 DEF l, e
<1>3. \A i \in DOMAIN r.reqs : Ev!Measured(r.reqs[i]) => r.reqs[i].step > 0
  BY <1>2
<1> QED
  BY <1>1, <1>2, <1>3 DEF Ev!ResultAgrees, Ev!With

\* The gaps of a step: as many as the events of its requests give, and each
\* counted in one bin.
LEMMA GapsAtIs ==
    ASSUME Ev!EvidenceConstants, NEW r \in Results, NEW k \in { r.reqs[i].step : i \in Ev!With(r.reqs) },
           NEW gaps, gaps = Ev!GapsAt(r.reqs, Ev!With(r.reqs), k)
    PROVE  /\ Cardinality(gaps) \in Nat \ {0}
           /\ AddUp(Ev!Bins(r.reqs, gaps), 1, Len(Edges)) = Cardinality(gaps)
           /\ AddUp([i \in DOMAIN r.reqs |->
                       IF i \in Ev!With(r.reqs) /\ r.reqs[i].step = k THEN r.reqs[i].events - 1 ELSE 0],
                    1, Len(r.reqs)) = Cardinality(gaps)
<1> DEFINE q == r.reqs
           W == Ev!With(q)
           n == Len(q)
           I == { i \in W : q[i].step = k }
           D == [i \in I |-> DOMAIN q[i].itls]
           f == [i \in DOMAIN q |-> IF i \in W /\ q[i].step = k THEN q[i].events - 1 ELSE 0]
           h == [x \in gaps |-> Ev!GapBin(q[x[1]].itls[x[2]])]
           b == Ev!Bins(q, gaps)
           m == Len(Edges)
<1>1. /\ n \in Nat /\ DOMAIN q = 1..n /\ W \subseteq 1..n
      /\ \A i \in W : /\ q[i].events \in Nat /\ q[i].events > 1 /\ q[i].itls \in Seq(Int) /\ q[i].itls # <<>>
                      /\ Len(q[i].itls) = q[i].events - 1
  BY WithIs
<1>2. m \in Nat /\ DOMAIN Edges = 1..m
  BY DEF Ev!EvidenceConstants
<1>3. gaps = Pairs(I, D)
  BY DEF Ev!GapsAt, Pairs
<1>4. PICK j \in I : TRUE
  OBVIOUS
<1> HIDE DEF q, W, n
<1>5. ASSUME NEW i \in I
      PROVE  /\ IsFiniteSet(D[i]) /\ f[i] = Cardinality(D[i]) /\ 1 \in D[i]
             /\ D[i] = DOMAIN q[i].itls /\ \A y \in D[i] : q[i].itls[y] \in Int
  <2> DEFINE l == q[i].itls
             e == q[i].events
  <2>1. /\ l \in Seq(Int) /\ l # <<>> /\ e \in Nat /\ e > 1 /\ Len(l) = e - 1
        /\ f[i] = e - 1 /\ D[i] = DOMAIN l
    BY <1>1
  <2> HIDE DEF l, e, f, D
  <2>2. D[i] = 1..e - 1 /\ \A y \in D[i] : l[y] \in Int
    BY <2>1, LenProperties
  <2>3. IsFiniteSet(1..e - 1) /\ Cardinality(1..e - 1) = IF 1 > e - 1 THEN 0 ELSE e - 1 - 1 + 1
    BY <2>1, FS_Interval
  <2>4. Cardinality(1..e - 1) = e - 1 /\ 1 \in 1..e - 1
    BY <2>1, <2>3
  <2> QED
    BY <2>1, <2>2, <2>3, <2>4 DEF l
<1>6. IsFiniteSet(gaps) /\ AddUp(f, 1, n) = Cardinality(gaps)
  <2>1. I \in SUBSET (1..n) /\ \A i \in (1..n) \ I : f[i] = 0
    BY <1>1
  <2>2. \A i \in I : IsFiniteSet(D[i]) /\ f[i] = Cardinality(D[i])
    BY <1>5
  <2> HIDE DEF I, D, f
  <2> QED
    BY <1>1, <1>3, <2>1, <2>2, PairsAdd
<1>7. \A x \in gaps : x[1] \in I /\ x[2] \in D[x[1]]
  <2> HIDE DEF I, D
  <2> QED
    BY <1>3 DEF Pairs
<1>8. Cardinality(gaps) \in Nat \ {0}
  <2>1. <<j, 1>> \in gaps
    <3>1. 1 \in D[j]
      BY <1>4, <1>5
    <3> HIDE DEF I, D
    <3> QED
      BY <1>3, <1>4, <3>1 DEF Pairs
  <2>2. gaps # {}
    BY <2>1
  <2> QED
    BY <1>6, <2>2, FS_CardinalityType, FS_EmptySet
<1>9. \A x \in gaps : h[x] \in 1..(1 + m - 1)
  <2> SUFFICES ASSUME NEW x \in gaps PROVE Ev!GapBin(q[x[1]].itls[x[2]]) \in 1..m
    BY <1>2
  <2>1. q[x[1]].itls[x[2]] \in Int
    BY <1>5, <1>7
  <2> QED
    BY <2>1, GapBinIs
<1>10. ASSUME NEW y \in 1..m PROVE b[1 + y - 1] = Cardinality(Part(gaps, h, 1 + y - 1))
  <2>1. 1 + y - 1 = y /\ y \in DOMAIN Edges
    BY <1>2
  <2>2. b[y] = Cardinality({ x \in gaps : Ev!GapBin(q[x[1]].itls[x[2]]) = y })
    BY <2>1, EvCardinality DEF Ev!Bins
  <2>3. { x \in gaps : Ev!GapBin(q[x[1]].itls[x[2]]) = y } = Part(gaps, h, y)
    BY DEF Part
  <2> QED
    BY <2>1, <2>2, <2>3
<1> HIDE DEF h, b
<1>11. Parts(gaps, h, b, 1, m)
  BY <1>9, <1>10 DEF Parts
<1>12. AddUp(b, 1, m) = Cardinality(gaps)
  BY <1>2, <1>6, <1>11, PartitionSum
<1> QED
  BY <1>6, <1>8, <1>12 DEF b, q, W, n

\* CheckGaps passes what StepGaps makes of a ladder's requests.
LEMMA GapsCheck ==
    ASSUME Ev!EvidenceConstants, NEW r \in Results
    PROVE  Ev!CheckGaps(Ev!StepGaps(r.reqs), r.reqs)
<1> DEFINE q == r.reqs
           W == Ev!With(q)
           K == { q[i].step : i \in W }
           A(k) == Ev!GapsAt(q, W, k)
           G(k) == [step |-> k, gaps |-> Ev!Cardinality(A(k)), counts |-> Ev!Bins(q, A(k))]
           f(k) == [i \in DOMAIN q |-> IF i \in W /\ q[i].step = k THEN q[i].events - 1 ELSE 0]
<1>1. Ev!StepGaps(q) = { G(k) : k \in K }
  BY DEF Ev!StepGaps, Ev!Histograms
<1>2. Ev!GapCounts(q) = { <<k, Ev!AddUp(f(k), 1, Len(q))>> : k \in K }
  <2> DEFINE V == { i \in DOMAIN q : Ev!Measured(q[i]) /\ q[i].events > 1 }
  <2>1. V = W
    BY WithIs
  <2>2. Ev!GapCounts(q)
          = { <<k, Ev!AddUp([i \in DOMAIN q |-> IF i \in V /\ q[i].step = k THEN q[i].events - 1 ELSE 0],
                            1, Len(q))>> : k \in { q[i].step : i \in V } }
    BY DEF Ev!GapCounts
  <2> HIDE DEF V, W
  <2> QED
    BY <2>1, <2>2
<1>3. ASSUME NEW k \in K
      PROVE  /\ G(k).step = k /\ k >= 1 /\ G(k).gaps >= 1
             /\ G(k).gaps = Ev!AddUp(G(k).counts, 1, Len(Edges))
             /\ G(k).gaps = Ev!AddUp(f(k), 1, Len(q))
  <2>1. k \in Nat \ {0}
    BY WithIs
  <2>2. /\ Cardinality(A(k)) \in Nat \ {0}
        /\ AddUp(Ev!Bins(q, A(k)), 1, Len(Edges)) = Cardinality(A(k))
        /\ AddUp(f(k), 1, Len(q)) = Cardinality(A(k))
    BY GapsAtIs
  <2>3. G(k).step = k /\ G(k).gaps = Cardinality(A(k)) /\ G(k).counts = Ev!Bins(q, A(k))
    BY EvCardinality
  <2> HIDE DEF A, G, f, q
  <2> QED
    BY <2>1, <2>2, <2>3, AddUpNames
<1> HIDE DEF q, W, K, G, f
<1>4. { <<g.step, g.gaps>> : g \in { G(k) : k \in K } } = { <<k, Ev!AddUp(f(k), 1, Len(q))>> : k \in K }
  <2>1. \A k \in K : <<G(k).step, G(k).gaps>> = <<k, Ev!AddUp(f(k), 1, Len(q))>>
    BY <1>3
  <2> QED
    BY <2>1
<1>5. \A g \in { G(k) : k \in K } :
         g.step >= 1 /\ g.gaps >= 1 /\ g.gaps = Ev!AddUp(g.counts, 1, Len(Edges))
  BY <1>3
<1> QED
  BY <1>1, <1>2, <1>4, <1>5 DEF Ev!CheckGaps, Ev!GapProblems, q

\* A result's mismatches are counted.
LEMMA MismatchesCount ==
    ASSUME Ev!EvidenceConstants, NEW r \in Results
    PROVE  Ev!Mismatches(r.reqs) \in Nat
<1> DEFINE S == { i \in DOMAIN r.reqs : r.reqs[i].others # {} }
<1>1. S \subseteq 1..Len(r.reqs)
  BY DEF Ev!EvidenceConstants, Ev!ResultAgrees
<1>2. Ev!Mismatches(r.reqs) = Cardinality(S)
  BY EvCardinality DEF Ev!Mismatches
<1> HIDE DEF S
<1>3. IsFiniteSet(S)
  <2>1. IsFiniteSet(1..Len(r.reqs))
    <3>1. CASE Len(r.reqs) \in Int
      BY <3>1, FS_Interval
    <3> QED
      BY <3>1
  <2> QED
    BY <1>1, <2>1, FS_Subset
<1> QED
  BY <1>2, <1>3, FS_CardinalityType

\* No request: no gap, no mismatch, no model, nothing sent.
LEMMA NoRequests ==
    /\ Ev!CheckGaps(Ev!StepGaps(<<>>), <<>>) /\ Ev!Mismatches(<<>>) = 0 /\ Ev!Sent(<<>>) = 0
<1>1. Cardinality({}) = 0
  BY FS_EmptySet
<1>2. Ev!StepGaps(<<>>) = {} /\ Ev!GapCounts(<<>>) = {}
  <2>1. Ev!With(<<>>) = {}
    BY DEF Ev!With
  <2>2. ASSUME NEW F(_)
        PROVE  { F(k) : k \in { <<>>[i].step : i \in {} } } = {}
    OBVIOUS
  <2>3. Ev!Histograms(<<>>, {}) = {}
    BY <2>2, Zenon DEF Ev!Histograms
  <2>4. Ev!GapCounts(<<>>) = {}
    <3> DEFINE with == { i \in DOMAIN <<>> : Ev!Measured(<<>>[i]) /\ <<>>[i].events > 1 }
    <3>1. with = {}
      OBVIOUS
    <3> HIDE DEF with
    <3> QED
      BY <3>1, Zenon DEF Ev!GapCounts, with
  <2> QED
    BY <2>1, <2>3, <2>4 DEF Ev!StepGaps
<1>3. Ev!CheckGaps({}, <<>>)
  BY <1>2 DEF Ev!CheckGaps, Ev!GapProblems
<1>4. Ev!Mismatches(<<>>) = Cardinality({}) /\ Ev!Sent(<<>>) = Cardinality({})
  BY EvCardinality DEF Ev!Mismatches, Ev!Sent
<1> QED
  BY <1>1, <1>2, <1>3, <1>4

\* The fields of a gate.
LEMMA GateIs ==
    ASSUME NEW id, NEW step, NEW pass, NEW only
    PROVE  /\ Ev!Gate(id, step, pass, only).id = id /\ Ev!Gate(id, step, pass, only).step = step
           /\ Ev!Gate(id, step, pass, only).pass = pass /\ Ev!Gate(id, step, pass, only).only = only
  BY DEF Ev!Gate

\* Hosted-G6 is reported only.
LEMMA G6Only ==
    ASSUME NEW recs, NEW g \in Ev!ReleaseG6(recs)
    PROVE  g.id = "G6" /\ g.only
<1> DEFINE yes == TRUE
<1>1. \E k, pass : g = Ev!Gate("G6", k, pass, yes)
  BY Zenon DEF Ev!ReleaseG6
<1>2. yes
  OBVIOUS
<1> HIDE DEF yes
<1>3. PICK k, pass : g = Ev!Gate("G6", k, pass, yes)
  BY <1>1
<1>4. g.id = "G6" /\ g.only = yes
  BY <1>3, GateIs
<1> QED
  BY <1>2, <1>4

\* A cell that counts ran its whole ladder, and every gate of it passed.
LEMMA CountedGates ==
    ASSUME Ev!EvidenceConstants, NEW r \in Results, NEW flag \in BOOLEAN,
           Ev!CellOutcome(r, flag) = "counted"
    PROVE  /\ Ev!Mismatches(r.reqs) = 0
           /\ \A g \in Ev!ReleaseGates(r) : g.pass \/ g.only
           /\ \E g \in Ev!ReleaseGates(r) : g.id = "G2" /\ g.step = 0
<1> DEFINE M == Ev!Mismatches(r.reqs)
           gates == IF r.stopped THEN { k \in DOMAIN r.steps : r.steps[k] = "fail" } = {} ELSE r.whole
           invalid == ~gates \/ r.cause = "emfile" \/ r.tripwire \/ flag
<1>1. M \in Nat
  BY MismatchesCount
<1>2. r # None /\ Ev!ResultAgrees(r)
  BY DEF Ev!EvidenceConstants, Ev!ResultAgrees
<1>3. "counted" = CASE r.cause = "stop" -> "stopped"
                    [] r.cause # "stop" /\ M > 0 -> "model_mismatch"
                    [] r.cause # "stop" /\ M = 0 /\ invalid -> "client_invalid"
                    [] OTHER -> "counted"
  BY DEF Ev!CellOutcome
<1> HIDE DEF M, invalid
<1>4. r.cause # "stop" /\ M = 0 /\ ~invalid
  BY <1>1, <1>3
<1>5. gates /\ r.cause # "emfile"
  BY <1>4 DEF invalid
<1>6. ~r.stopped
  BY <1>2, <1>4, <1>5 DEF Ev!ResultAgrees
<1>7. r.whole
  BY <1>5, <1>6
<1>8. \A k \in DOMAIN r.steps : r.steps[k] = "pass"
  BY <1>2, <1>6, <1>7 DEF Ev!ResultAgrees
<1> DEFINE whole == Ev!Gate("G2", 0, r.whole, FALSE)
           steps == { Ev!Gate("G2", k, r.steps[k] = "pass", FALSE) : k \in DOMAIN r.steps }
<1>9. Ev!ReleaseGates(r) = ({whole} \cup steps) \cup Ev!ReleaseG6(r.reqs)
  BY <1>2, <1>6 DEF Ev!ReleaseGates
<1>10. whole.id = "G2" /\ whole.step = 0 /\ whole.pass
  BY <1>7 DEF Ev!Gate
<1>11. \A g \in steps : g.pass
  <2> SUFFICES ASSUME NEW k \in DOMAIN r.steps
               PROVE  Ev!Gate("G2", k, r.steps[k] = "pass", FALSE).pass
    OBVIOUS
  <2> DEFINE pass == r.steps[k] = "pass"
             no == FALSE
  <2>1. pass
    BY <1>8
  <2> HIDE DEF pass, no
  <2>2. Ev!Gate("G2", k, pass, no).pass = pass
    BY GateIs
  <2>3. Ev!Gate("G2", k, pass, no).pass
    BY <2>1, <2>2
  <2> QED
    BY <2>3 DEF pass, no
<1>12. \A g \in Ev!ReleaseG6(r.reqs) : g.only
  BY G6Only
<1> HIDE DEF whole, steps
<1> QED
  BY <1>4, <1>9, <1>10, <1>11, <1>12 DEF M

\* The steps' gates are as many as the steps.
LEMMA StepGates ==
    ASSUME Ev!EvidenceConstants, NEW r \in Results
    PROVE  Ev!Cardinality({ g \in Ev!ReleaseGates(r) : g.id = "G2" /\ g.step > 0 }) = Len(r.steps)
<1> DEFINE n == Len(r.steps)
           G(k) == Ev!Gate("G2", k, r.steps[k] = "pass", FALSE)
           steps == { G(k) : k \in 1..n }
           whole == Ev!Gate("G2", 0, r.whole, FALSE)
           f == [k \in 1..n |-> G(k)]
<1>1. r # None /\ n \in Nat /\ DOMAIN r.steps = 1..n
  <2>1. r # None /\ r.steps \in Seq({"pass", "fail", "none"})
    BY DEF Ev!EvidenceConstants, Ev!ResultAgrees
  <2> QED
    BY <2>1
<1>2. Ev!ReleaseGates(r) =
         ((IF r.stopped THEN {} ELSE {whole}) \cup steps) \cup Ev!ReleaseG6(r.reqs)
  BY <1>1 DEF Ev!ReleaseGates
<1>3. \A k : G(k).id = "G2" /\ G(k).step = k
  BY DEF Ev!Gate
<1>4. whole.step = 0
  BY DEF Ev!Gate
<1>5. \A g \in Ev!ReleaseG6(r.reqs) : g.id = "G6"
  BY G6Only
<1>6. { g \in Ev!ReleaseGates(r) : g.id = "G2" /\ g.step > 0 } = steps
  <2>1. \A g \in steps : g.id = "G2" /\ g.step > 0
    <3> HIDE DEF G
    <3> QED
      BY <1>1, <1>3
  <2> HIDE DEF steps, whole
  <2> QED
    BY <1>2, <1>4, <1>5, <2>1
<1>7. f \in Bijection(1..n, steps)
  <2> HIDE DEF G
  <2>1. f \in [1..n -> steps]
    OBVIOUS
  <2>2. \A i, j \in 1..n : f[i] = f[j] => i = j
    BY <1>3
  <2>3. \A g \in steps : \E k \in 1..n : f[k] = g
    OBVIOUS
  <2> HIDE DEF f, steps
  <2> QED
    BY <2>1, <2>2, <2>3 DEF Bijection, Injection, IsInjective, Surjection
<1>8. Cardinality(steps) = n
  <2> HIDE DEF f, steps, n
  <2> QED
    BY <1>1, <1>7, FS_CountingElements DEF ExistsBijection
<1> QED
  BY <1>6, <1>8, EvCardinality

\* The fields of a cell's record in its manifest.
LEMMA CellIs ==
    ASSUME NoneIsNoRecord, NEW terms
    PROVE  /\ ManShape(Ev!Cell(terms)) /\ Ev!Cell(terms) # None
           /\ Ev!Cell(terms).outcome = mem.outcome /\ Ev!Cell(terms).reasons = mem.reasons
           /\ Ev!Cell(terms).ladder = (mem.res # None \/ mem.epoch \/ (mem.label /\ series.sent > 0))
           /\ Ev!Cell(terms).route = terms.route
           /\ Ev!Cell(terms).own = series /\ Ev!Cell(terms).gaps = Ev!StepGaps(ReqsOf(mem.res))
           /\ Ev!Cell(terms).canary = (IF mem.res = None THEN None ELSE Len(mem.res.steps))
           /\ Ev!Cell(terms).gates = Ev!ReleaseGates(mem.res) /\ Ev!Cell(terms).attempts = attempts
           /\ Ev!Cell(terms).files = [n \in Ev!Named |-> files[n]]
           /\ Ev!Cell(terms).endpoint = [mismatches |-> Ev!Mismatches(ReqsOf(mem.res)),
                                  reported |-> Ev!Reported(ReqsOf(mem.res))]
           /\ Ev!Cell(terms).frames = mem.store /\ ~Ev!Cell(terms).pair
<1> DEFINE ladder == mem.res # None \/ mem.epoch \/ (mem.label /\ series.sent > 0)
           gaps == Ev!StepGaps(Ev!Reqs)
           canary == IF mem.res = None THEN None ELSE Len(mem.res.steps)
           gates == Ev!ReleaseGates(mem.res)
           fs == Ev!Restrict(files, Ev!Named)
           e == [mismatches |-> Ev!Mismatches(Ev!Reqs), reported |-> Ev!Reported(Ev!Reqs)]
           no == FALSE
<1>1. Ev!Cell(terms) = [outcome |-> mem.outcome, reasons |-> mem.reasons, ladder |-> ladder,
                 route |-> terms.route, own |-> series, gaps |-> gaps, canary |-> canary,
                 gates |-> gates, attempts |-> attempts, files |-> fs, endpoint |-> e, frames |-> mem.store, pair |-> no]
  BY DEF Ev!Cell
<1>2. Ev!Reqs = ReqsOf(mem.res)
  BY DEF Ev!Reqs, ReqsOf
<1>3. fs = [n \in Ev!Named |-> files[n]]
  BY DEF Ev!Restrict
<1>4. ~no
  OBVIOUS
<1> HIDE DEF ladder, gaps, canary, gates, fs, e, no
<1>5. ManShape(Ev!Cell(terms)) /\ Ev!Cell(terms) # None
  BY <1>1 DEF ManShape, NoneIsNoRecord
<1>6. /\ Ev!Cell(terms).outcome = mem.outcome /\ Ev!Cell(terms).reasons = mem.reasons
      /\ Ev!Cell(terms).ladder = ladder /\ Ev!Cell(terms).route = terms.route
      /\ Ev!Cell(terms).own = series /\ Ev!Cell(terms).gaps = gaps /\ Ev!Cell(terms).canary = canary
      /\ Ev!Cell(terms).gates = gates /\ Ev!Cell(terms).attempts = attempts /\ Ev!Cell(terms).files = fs
      /\ Ev!Cell(terms).endpoint = e /\ Ev!Cell(terms).frames = mem.store /\ Ev!Cell(terms).pair = no
  BY <1>1
<1> QED
  BY <1>2, <1>3, <1>4, <1>5, <1>6 DEF ladder, gaps, canary, gates, e

\* At the manifest: the attempts are the ladder's, and its gaps, models,
\* dispatches and canary agree with them.
LEMMA GivenAgrees ==
    ASSUME NoneIsNoRecord, Ev!EvidenceConstants, EvInv, mem.at = "manifest"
    PROVE  /\ attempts = ReqsOf(mem.res) /\ attempts # None
           /\ Ev!CheckGaps(Ev!StepGaps(ReqsOf(mem.res)), ReqsOf(mem.res))
           /\ \A i \in DOMAIN ReqsOf(mem.res) :
                /\ ReqsOf(mem.res)[i].model \in {"", "expected"} \cup ReqsOf(mem.res)[i].others
                /\ "expected" \notin ReqsOf(mem.res)[i].others
           /\ mem.outcome # "interrupted" => series.final /\ series.sent = Ev!Sent(ReqsOf(mem.res))
           /\ mem.res # None =>
                Len(mem.res.steps)
                  = Ev!Cardinality({ g \in Ev!ReleaseGates(mem.res) : g.id = "G2" /\ g.step > 0 })
<1> DEFINE reqs == ReqsOf(mem.res)
<1>1. mem.at = "manifest"
  OBVIOUS
<1>5. attempts = reqs /\ reqs # None
  <2>1. mem.res = None \/ mem.res \in Results
    BY <1>1 DEF EvInv, OwnInv, LabelInv, LabelOK, ToManifest
  <2> QED
    BY <1>1, <2>1 DEF EvInv, StepInv, ReqsOf, Ev!EvidenceConstants, Ev!ResultAgrees
<1>7. mem.res = None \/ mem.res \in Results
  BY <1>1 DEF EvInv, OwnInv, LabelInv, LabelOK, ToManifest
<1>8. reqs = <<>> \/ \E r \in Results : reqs = r.reqs
  BY <1>7 DEF ReqsOf
<1>9. Ev!CheckGaps(Ev!StepGaps(reqs), reqs)
  <2> HIDE DEF reqs
  <2>1. CASE reqs = <<>>
    BY <2>1, NoRequests
  <2>2. ASSUME NEW r \in Results, reqs = r.reqs
        PROVE  Ev!CheckGaps(Ev!StepGaps(reqs), reqs)
    BY <2>2, GapsCheck
  <2> QED
    BY <1>8, <2>1, <2>2
<1>10. \A i \in DOMAIN reqs : /\ reqs[i].model \in {"", "expected"} \cup reqs[i].others
                              /\ "expected" \notin reqs[i].others
  <2> HIDE DEF reqs
  <2>1. CASE reqs = <<>>
    <3>1. DOMAIN reqs = {}
      <4>1. DOMAIN <<>> = {}
        OBVIOUS
      <4> QED
        BY <2>1, <4>1, Zenon
    <3> QED
      BY <3>1, Zenon
  <2>2. ASSUME NEW r \in Results, reqs = r.reqs
        PROVE  \A i \in DOMAIN reqs : /\ reqs[i].model \in {"", "expected"} \cup reqs[i].others
                                      /\ "expected" \notin reqs[i].others
    BY <2>2 DEF Ev!EvidenceConstants, Ev!ResultAgrees
  <2> QED
    BY <1>8, <2>1, <2>2
<1>11. mem.outcome # "interrupted" => series.final /\ series.sent = Ev!Sent(reqs)
  <2>1. CASE mem.label
    <3>1. mem.outcome # "interrupted" => series = Nothing
      BY <1>1, <2>1 DEF EvInv, LabelInv
    <3>2. reqs = <<>>
      BY <2>1 DEF EvInv, LabelInv, ReqsOf
    <3> HIDE DEF reqs
    <3> QED
      BY <3>1, <3>2, NoRequests DEF Nothing
  <2>2. CASE ~mem.label
    <3>1. series = [sent |-> Ev!Sent(reqs), final |-> TRUE]
      BY <1>1, <2>2 DEF EvInv, OwnInv, ToManifest
    <3> QED
      BY <3>1
  <2> QED
    BY <2>1, <2>2
<1>12. mem.res # None =>
          Len(mem.res.steps)
            = Ev!Cardinality({ g \in Ev!ReleaseGates(mem.res) : g.id = "G2" /\ g.step > 0 })
  BY <1>7, StepGates
<1> QED
  BY <1>5, <1>9, <1>10, <1>11, <1>12

\* What retain gives NewManifest agrees with itself, so that only the
\* operator file or what the route gives is refused.
LEMMA AllowedHolds ==
    ASSUME NoneIsNoRecord, Ev!EvidenceConstants, EvInv, mem.at = "manifest", NEW terms
    PROVE  Ev!ManifestAllowed(Ev!Cell(terms), mem.res, terms) <=> terms.operator /\ terms.route
<1> DEFINE c == Ev!Cell(terms)
           M == Ev!Mismatches(ReqsOf(mem.res))
<1>1. /\ c.outcome = mem.outcome /\ c.reasons = mem.reasons
      /\ c.ladder = (mem.res # None \/ mem.epoch \/ (mem.label /\ series.sent > 0))
      /\ c.route = terms.route /\ c.own = series /\ c.gaps = Ev!StepGaps(ReqsOf(mem.res))
      /\ c.canary = (IF mem.res = None THEN None ELSE Len(mem.res.steps))
  BY CellIs
<1>2. /\ mem.outcome = "counted" =>
            /\ mem.res # None /\ mem.reasons = {} /\ M = 0
            /\ \A g \in Ev!ReleaseGates(mem.res) : g.pass \/ g.only
            /\ \E g \in Ev!ReleaseGates(mem.res) : g.id = "G2" /\ g.step = 0
      /\ mem.outcome # "counted" => mem.reasons # {}
      /\ mem.outcome = "model_mismatch" => M > 0
      /\ mem.outcome \in {"blocked", "missed"} =>
            mem.res = None /\ ~mem.epoch /\ (mem.label => ~(series.sent > 0))
      /\ mem.res = None \/ mem.outcome # "interrupted"
  <2>1. CASE mem.label
    <3>1. /\ mem.res = None /\ mem.outcome \in {"missed", "interrupted"} /\ mem.reasons # {}
          /\ mem.outcome = "missed" => ~mem.epoch /\ series = Nothing
      BY <2>1 DEF EvInv, LabelInv, RecInv, FreshInv
    <3>2. ~(Nothing.sent > 0)
      BY DEF Nothing
    <3> QED
      BY <3>1, <3>2
  <2>2. CASE ~mem.label
    <3>1. LabelOK(mem.res, mem.outcome, mem.reasons, mem.epoch)
      BY <2>2 DEF EvInv, OwnInv, ToManifest
    <3>2. CASE /\ mem.res = None /\ mem.outcome \in {"blocked", "stopped"}
               /\ mem.reasons = {mem.outcome} /\ ~mem.epoch
      BY <2>2, <3>2
    <3>3. ASSUME mem.res \in Results, NEW flag \in BOOLEAN,
                 mem.outcome = Ev!CellOutcome(mem.res, flag),
                 mem.reasons = IF mem.outcome = "counted" THEN {} ELSE {mem.outcome}
          PROVE  <1>2
      <4>1. mem.res # None /\ M = Ev!Mismatches(mem.res.reqs) /\ M \in Nat
        BY <3>3, MismatchesCount DEF Ev!EvidenceConstants, Ev!ResultAgrees, ReqsOf
      <4>2. mem.outcome \in {"stopped", "model_mismatch", "client_invalid", "counted"}
        BY <3>3 DEF Ev!CellOutcome
      <4>3. mem.outcome = "model_mismatch" => M > 0
        BY <3>3, <4>1 DEF Ev!CellOutcome
      <4>4. mem.outcome = "counted" =>
              /\ M = 0
              /\ \A g \in Ev!ReleaseGates(mem.res) : g.pass \/ g.only
              /\ \E g \in Ev!ReleaseGates(mem.res) : g.id = "G2" /\ g.step = 0
        BY <3>3, <4>1, CountedGates
      <4> HIDE DEF M
      <4> QED
        BY <3>3, <4>1, <4>2, <4>3, <4>4
    <3> QED
      BY <3>1, <3>2, <3>3 DEF LabelOK
  <2> QED
    BY <2>1, <2>2
<1>3. (IF mem.res = None THEN <<>> ELSE mem.res.reqs) = ReqsOf(mem.res)
  BY DEF ReqsOf
<1>4. mem.res = None => ReqsOf(mem.res) = <<>>
  BY DEF ReqsOf
<1> HIDE DEF c, M
<1>5. Ev!CheckLabel(c, Ev!ReleaseGates(mem.res), M)
  BY <1>1, <1>2 DEF Ev!CheckLabel
<1>6. ~c.ladder \/ c.outcome = "interrupted" => ReqsOf(mem.res) = <<>>
  BY <1>1, <1>2, <1>4
<1>7. Ev!CheckCell(c, Ev!ReleaseGates(mem.res)) <=> terms.route
  <2>1. Ev!OwnFinal(c)
    BY <1>1, GivenAgrees DEF Ev!OwnFinal
  <2>2. Ev!GapProblems(c.gaps) = {}
    BY <1>1, GivenAgrees DEF Ev!CheckGaps
  <2>3. Ev!CanaryAgrees(c, Ev!ReleaseGates(mem.res))
    BY <1>1, GivenAgrees DEF Ev!CanaryAgrees
  <2> QED
    BY <1>1, <2>1, <2>2, <2>3 DEF Ev!CheckCell
<1> QED
  BY <1>3, <1>5, <1>6, <1>7 DEF Ev!ManifestAllowed, c, M

\* The manifest is written.
LEMMA WriteManifestKeeps ==
    ASSUME NoneIsNoRecord, Ev!EvidenceConstants, EvInv, Ev!WriteManifest
    PROVE  EvInv'
<1>0. PICK terms \in Ev!Terms :
         Ev!ManifestAllowed(Ev!Cell(terms), mem.res, terms) /\ manifest' = Ev!Cell(terms)
  BY DEF Ev!WriteManifest
<1> DEFINE c == Ev!Cell(terms)
           reqs == ReqsOf(mem.res)
<1>1. /\ mem.at = "manifest" /\ mem' = [mem EXCEPT !.at = "pair"] /\ MemShape(mem)
      /\ UNCHANGED <<files, series, frames, attempts, record, faults, kept>>
  BY DEF Ev!WriteManifest, Ev!At, Ev!Goes, EvInv, Shapes
<1>2. MemShape(mem') /\ mem'.at = "pair" /\ Keeps(mem', mem)
  BY <1>1, GoesOn
<1>3. Ev!ManifestAllowed(c, mem.res, terms) /\ manifest' = c
  BY <1>0
<1>4. manifest = None /\ files["pair"] = None /\ record # None /\ ~mem.err
  BY <1>1 DEF EvInv, OwnInv, LabelInv, ManInv, FreshInv, ToManifest
<1>5. attempts = reqs /\ reqs # None
  BY <1>1, GivenAgrees
<1>6. /\ ManShape(c) /\ c # None
      /\ c.outcome = mem.outcome /\ c.own = series /\ c.gaps = Ev!StepGaps(reqs)
      /\ c.canary = (IF mem.res = None THEN None ELSE Len(mem.res.steps))
      /\ c.gates = Ev!ReleaseGates(mem.res) /\ c.attempts = attempts
      /\ c.files = [n \in Ev!Named |-> files[n]]
      /\ c.endpoint = [mismatches |-> Ev!Mismatches(reqs), reported |-> Ev!Reported(reqs)]
      /\ c.frames = mem.store /\ ~c.pair
  BY CellIs
<1>7. /\ Ev!CheckGaps(Ev!StepGaps(reqs), reqs)
      /\ \A i \in DOMAIN reqs : /\ reqs[i].model \in {"", "expected"} \cup reqs[i].others
                                /\ "expected" \notin reqs[i].others
      /\ mem.outcome # "interrupted" => series.final /\ series.sent = Ev!Sent(reqs)
      /\ mem.res # None =>
           Len(mem.res.steps)
             = Ev!Cardinality({ g \in Ev!ReleaseGates(mem.res) : g.id = "G2" /\ g.step > 0 })
  BY <1>1, GivenAgrees
<1>13. /\ Ev!CheckLabel(c, Ev!ReleaseGates(mem.res), Ev!Mismatches(reqs))
       /\ ~c.ladder \/ c.outcome = "interrupted" => reqs = <<>>
       /\ c.route
  BY <1>3 DEF Ev!ManifestAllowed, Ev!CheckCell, ReqsOf
<1> HIDE DEF c, reqs
<1>14. Ev!RecordAgrees(c)
  <2>1. c.endpoint.mismatches = Ev!Mismatches(reqs) /\ c.endpoint.reported = Ev!Reported(reqs)
    BY <1>6
  <2>2. Ev!ModelsAgree(c.endpoint, attempts)
    BY <1>5, <1>7, <2>1 DEF Ev!ModelsAgree
  <2>3. Ev!CanaryAgrees(c, c.gates)
    BY <1>6, <1>7 DEF Ev!CanaryAgrees
  <2>4. Ev!CheckGaps(c.gaps, attempts)
    BY <1>5, <1>6, <1>7
  <2>5. Ev!CheckLabel(c, c.gates, c.endpoint.mismatches)
    BY <1>6, <1>13, <2>1
  <2>6. Ev!OwnFinal(c) /\ (c.outcome # "interrupted" => c.own.sent = Ev!Sent(attempts))
    BY <1>5, <1>6, <1>7 DEF Ev!OwnFinal
  <2> QED
    BY <1>5, <1>13, <2>2, <2>3, <2>4, <2>5, <2>6 DEF Ev!RecordAgrees
<1>15. /\ DOMAIN c.files = Ev!Named /\ Ev!Named \subseteq FileNames \ {"pair"}
       /\ {"clock", "status", "balance"} \subseteq Ev!Named
       /\ \A n \in DOMAIN c.files : files[n] = c.files[n]
  <2>1. DOMAIN files = FileNames
    BY DEF EvInv, Shapes
  <2>2. files["clock"] # None /\ files["status"] # None /\ files["balance"] # None
    BY <1>1 DEF EvInv, StepInv, ToManifest
  <2>3. Ev!Named = { n \in FileNames : files[n] # None }
    BY <2>1 DEF Ev!Named
  <2> QED
    BY <1>4, <1>6, <2>2, <2>3 DEF FileNames
<1>16. mem.store # None => frames[mem.store].lines = Len(reqs)
  <2> SUFFICES ASSUME mem.store # None
               PROVE  frames[mem.store].lines = Len(reqs)
    OBVIOUS
  <2>1. frames[mem.store] = [lines |-> Len(reqs), copies |-> frames[mem.store].copies]
    BY <1>1 DEF EvInv, StepInv, reqs
  <2> QED
    BY <2>1
<1>17. ManOK(c)
  BY <1>5, <1>6, <1>14, <1>15, <1>16 DEF ManOK
<1>18. ManOK(manifest)'
  BY <1>1, <1>3, <1>17 DEF ManOK, Ev!RecordAgrees
<1>19. ~mem.label => mem.outcome \notin {"missed", "interrupted"}
  <2> SUFFICES ASSUME ~mem.label
               PROVE  mem.outcome \notin {"missed", "interrupted"}
    OBVIOUS
  <2>1. LabelOK(mem.res, mem.outcome, mem.reasons, mem.epoch)
    BY <1>1 DEF EvInv, OwnInv, ToManifest
  <2> QED
    BY <2>1 DEF LabelOK, Ev!CellOutcome
<1>20. mem.ferr \/ (mem.store # None /\ Ev!Checked \subseteq frames[mem.store].copies)
  BY <1>1 DEF EvInv, StepInv
<1> QED
  BY <1>1, <1>2, <1>3, <1>4, <1>6, <1>18, <1>19, <1>20
  DEF EvInv, Shapes, FreshInv, RecInv, OwnInv, LabelInv, StepInv, ManInv, Early, ToManifest, Keeps

\* Every step keeps the invariant.
LEMMA CellNext ==
    ASSUME NoneIsNoRecord, Ev!EvidenceConstants, EvInv, [Ev!Next]_(Ev!cellVars)
    PROVE  EvInv'
<1>1. CASE UNCHANGED Ev!cellVars
  <2>1. manifest # None => ManOK(manifest)'
    BY <1>1, ManStays DEF EvInv, ManInv, Ev!cellVars
  <2> QED
    BY <1>1, <2>1
    DEF EvInv, Shapes, FreshInv, RecInv, OwnInv, LabelInv, StepInv, ManInv, Early, ToManifest, Keeps, Ev!cellVars
<1>2. CASE Ev!Next
  BY <1>2, BeginKeeps, StartSeriesKeeps, WriteStartKeeps, FinishEarlyKeeps, ProbeKeeps, LadderKeeps,
     LiveWriteKeeps, LadderEndsKeeps, RetainSeriesKeeps, EndRecordsKeeps, WriteFramesKeeps,
     WriteCopiesKeeps, RetainAttemptsKeeps, WriteManifestKeeps, WritePairKeeps, NamePairKeeps, WriteRecordKeeps,
     MissKeeps, ReadStateKeeps, LabelCellKeeps, LabelStartsKeeps, EndsKeep
  DEF Ev!Next, Ev!Run, Ev!Label
<1> QED
  BY <1>1, <1>2

\* What the invariant says of the evidence.
LEMMA EvidenceFollows ==
    ASSUME NoneIsNoRecord, Ev!EvidenceConstants, EvInv
    PROVE  Ev!EvidenceSound
<1>1. Ev!At("manifest") => \A terms \in Ev!Terms :
         Ev!ManifestAllowed(Ev!Cell(terms), mem.res, terms) <=> terms.operator /\ terms.route
  BY AllowedHolds DEF Ev!At
<1>2. manifest # None /\ manifest.pair /\ manifest.frames # None /\
      Ev!Checked \subseteq frames[manifest.frames].copies => Ev!CheckRelease(manifest)
  BY DEF EvInv, ManInv, ManOK, Ev!CheckRelease, Ev!FilesAgree, Ev!StoreAgrees
<1>3. record # None /\ record.outcome = "counted" =>
         /\ manifest # None /\ manifest.pair /\ manifest.outcome = "counted" /\ manifest.frames # None
         /\ Ev!Checked \subseteq frames[manifest.frames].copies
  BY DEF EvInv, RecInv
<1>4. attempts # None => attempts = kept
  BY DEF EvInv, StepInv
<1>5. mem.label => mem.res = None /\ (attempts # None => attempts = <<>>)
  BY DEF EvInv, LabelInv
<1> QED
  BY <1>1, <1>2, <1>3, <1>4, <1>5 DEF Ev!EvidenceSound

\* Nothing is written yet.
LEMMA CellInit == ASSUME Ev!EvidenceConstants, Ev!Init PROVE EvInv
<1>1. /\ series = None /\ attempts = None /\ manifest = None /\ record = None /\ kept = None
      /\ mem = Ev!Idle /\ frames = [d \in {"start", "epoch"} |-> None]
  BY DEF Ev!Init
<1>2. Ev!Range(Ev!Starts) = {"clock", "status", "refresh", "balance"}
  BY DEF Ev!Range, Ev!Starts
<1>3. files = [n \in FileNames |-> None]
  BY <1>2 DEF Ev!Init, FileNames
<1>4. files["pair"] = None /\ files = [n \in FileNames |-> files[n]]
  BY <1>3 DEF FileNames
<1>5. frames = [d \in {"start", "epoch"} |-> frames[d]]
  BY <1>1
<1> QED
  BY <1>1, <1>4, <1>5, IdleIs
  DEF EvInv, Shapes, FreshInv, RecInv, OwnInv, LabelInv, StepInv, ManInv, Early, ToManifest, Keeps

-----------------------------------------------------------------------------
(* DispatchSeries: the cells of one host. *)

\* The seconds of a time: a second holds its Second ticks, and later times
\* are in later seconds.
LEMMA SecIs ==
    ASSUME Second \in Nat \ {0}, NEW t \in Nat
    PROVE  /\ Disp!Sec(t) \in Nat
           /\ Second * Disp!Sec(t) <= t /\ t < Second * (Disp!Sec(t) + 1)
<1> DEFINE q == t \div Second
<1>1. q \in Int /\ Second * q <= t /\ t < Second * (q + 1)
  OBVIOUS
<1>2. q >= 0
  OBVIOUS
<1> QED
  BY <1>1, <1>2 DEF Disp!Sec

\* A product grows with its factor.
LEMMA TimesGrows ==
    ASSUME NEW l \in Nat, NEW a \in Int, NEW b \in Int, a <= b
    PROVE  l * a \in Int /\ l * b \in Int /\ l * a <= l * b
  OBVIOUS

LEMMA SecGrows ==
    ASSUME Second \in Nat \ {0}, NEW a \in Nat, NEW b \in Nat, a <= b
    PROVE  Disp!Sec(a) <= Disp!Sec(b)
<1> DEFINE x == Disp!Sec(a)
           y == Disp!Sec(b)
<1>1. x \in Nat /\ y \in Nat /\ Second * x <= a /\ b < Second * (y + 1)
  BY SecIs
<1> HIDE DEF x, y
<1>2. ~(y + 1 <= x)
  <2> SUFFICES ASSUME y + 1 <= x PROVE FALSE
    OBVIOUS
  <2> DEFINE u == Second * (y + 1)
             v == Second * x
  <2>1. u \in Int /\ v \in Int /\ u <= v
    BY <1>1, TimesGrows
  <2>2. v <= a /\ b < u
    BY <1>1
  <2> HIDE DEF u, v
  <2> QED
    BY <2>1, <2>2
<1> QED
  BY <1>1, <1>2 DEF x, y

\* The module's own cardinality, finiteness and extremes.
LEMMA SeriesNames ==
    ASSUME NEW S
    PROVE  /\ Disp!Cardinality(S) = Cardinality(S) /\ Disp!IsFiniteSet(S) = IsFiniteSet(S)
           /\ Disp!Max(S) = Max(S) /\ Disp!Min(S) = Min(S)
  BY DEF Disp!Cardinality, Cardinality, Disp!IsFiniteSet, IsFiniteSet, Disp!Max, Max, Disp!Min, Min

\* The dispatches J of those sent, per second.
Tally(sent, J) == [s \in Disp!Secs |-> Cardinality({ i \in J : Disp!Sec(sent[i]) = s })]

\* The dispatches of J in the seconds from a to b.
InSeconds(sent, J, a, b) == { i \in J : Disp!Sec(sent[i]) \in a..b }

\* A tally cut to the seconds from a to b.
Cut(c, a, b) == [s \in Disp!Secs |-> IF s \in a..b THEN c[s] ELSE 0]

\* A series cut to some seconds is a count for each of them.
LEMMA CutCounts ==
    ASSUME Disp!SeriesConstants, NEW sent, NEW J, IsFiniteSet(J), NEW a \in Nat, NEW b \in Nat
    PROVE  Cut(Tally(sent, J), a, b) \in [Disp!Secs -> Nat]
<1> SUFFICES ASSUME NEW s \in Disp!Secs
             PROVE  Cardinality({ i \in J : Disp!Sec(sent[i]) = s }) \in Nat
  BY DEF Cut, Tally
<1> DEFINE T == { i \in J : Disp!Sec(sent[i]) = s }
<1>1. T \in SUBSET J
  OBVIOUS
<1> HIDE DEF T
<1>2. IsFiniteSet(T)
  BY <1>1, FS_Subset
<1>3. Cardinality(T) \in Nat
  BY <1>2, FS_CardinalityType
<1> QED
  BY <1>3 DEF T

\* The sum of a tally counts every dispatch once.
LEMMA TallySum ==
    ASSUME Disp!SeriesConstants, NEW sent, NEW J, IsFiniteSet(J), \A i \in J : sent[i] \in 0..DispatchTime,
           NEW a \in Nat, NEW b \in Nat
    PROVE  Disp!Total(Cut(Tally(sent, J), a, b)) = Cardinality(InSeconds(sent, J, a, b))
<1> DEFINE f == Cut(Tally(sent, J), a, b)
           m == Disp!Sec(DispatchTime) + 1
           I == InSeconds(sent, J, a, b)
           h == [x \in I |-> Disp!Sec(sent[x])]
<1>1. Second \in Nat \ {0} /\ DispatchTime \in Nat
  BY DEF Disp!SeriesConstants
<1>2. m \in Nat /\ Disp!Secs = 0..m - 1
  <2>1. Disp!Sec(DispatchTime) \in Nat
    BY <1>1, SecIs
  <2> QED
    BY <2>1 DEF Disp!Secs
<1>3. \A i \in I : h[i] \in 0..(0 + m - 1)
  <2> SUFFICES ASSUME NEW i \in I PROVE Disp!Sec(sent[i]) \in 0..(0 + m - 1)
    OBVIOUS
  <2>1. sent[i] \in Nat /\ sent[i] <= DispatchTime
    BY <1>1 DEF InSeconds
  <2>2. Disp!Sec(sent[i]) \in Nat /\ Disp!Sec(sent[i]) <= Disp!Sec(DispatchTime) /\ Disp!Sec(DispatchTime) \in Nat
    BY <1>1, <2>1, SecIs, SecGrows
  <2> QED
    BY <2>2
<1>4. IsFiniteSet(I)
  <2>1. I \in SUBSET J
    BY DEF InSeconds
  <2> HIDE DEF I
  <2> QED
    BY <2>1, FS_Subset
<1>5. ASSUME NEW k \in 1..m
      PROVE  f[0 + k - 1] = Cardinality(Part(I, h, 0 + k - 1))
  <2> DEFINE s == 0 + k - 1
             P == { x \in J : Disp!Sec(sent[x]) = s }
             Q == Part(I, h, s)
  <2>1. s \in Disp!Secs
    BY <1>2
  <2>2. f[s] = IF s \in a..b THEN Cardinality(P) ELSE 0
    BY <2>1 DEF Cut, Tally
  <2>3. CASE s \in a..b
    <3>1. P = Q
      BY <2>3 DEF InSeconds, Part
    <3> HIDE DEF P, Q
    <3> QED
      BY <2>2, <2>3, <3>1 DEF Q
  <2>4. CASE s \notin a..b
    <3>1. Q = {}
      BY <2>4 DEF InSeconds, Part
    <3>2. Cardinality(Q) = 0
      <4> HIDE DEF Q
      <4> QED
        BY <3>1, FS_EmptySet
    <3> QED
      BY <2>2, <2>4, <3>2
  <2> QED
    BY <2>3, <2>4
<1> HIDE DEF f, m, h, I
<1>6. AddUp(f, 0, m) = Cardinality(I)
  <2>1. Parts(I, h, f, 0, m)
    BY <1>3, <1>5 DEF Parts
  <2> QED
    BY <1>2, <1>4, <2>1, PartitionSum
<1> QED
  BY <1>6, AddUpNames DEF Disp!Total, f, m, I

\* A cell of the host.
HostFields ==
    {"pc", "start", "end", "died", "sent", "counted", "file", "own", "to", "deadline", "runs", "agg"}

HostShape(c) == c = [x \in HostFields |-> c[x]]

\* A series of the cell c: it counts some of c's dispatches, all of them
\* when it is final, and else all up to the time it says.
SeriesOf(c, f, t) ==
    f # None =>
        \E J \in SUBSET DOMAIN c.sent :
            /\ f.counts = Tally(c.sent, J) /\ f.final \in BOOLEAN
            /\ f.final => J = DOMAIN c.sent
            /\ ~f.final => /\ f.through \in Int /\ f.through <= t
                           /\ \A i \in DOMAIN c.sent \ J : c.sent[i] >= f.through

\* When the cell c sent what it sent.
SentInv(c, t) ==
    /\ c.sent \in Seq(Nat) /\ c.counted \in SUBSET DOMAIN c.sent
    /\ c.start # None => c.start \in Nat /\ c.start <= t
    /\ c.start = None => c.pc = "idle" /\ c.sent = <<>>
    /\ \A i \in DOMAIN c.sent : c.start <= c.sent[i] /\ c.sent[i] <= t
    /\ c.pc = "live" => \A i \in DOMAIN c.sent \ c.counted : t <= c.sent[i] + Lag
    /\ c.end # None => /\ c.end \in Nat /\ c.pc = "done"
                       /\ \A i \in DOMAIN c.sent : c.sent[i] <= c.end

\* What the cell c has at each stage.
StageInv(c, t) ==
    /\ c.pc \in {"idle", "begun"} => c.file = None /\ c.own = None /\ c.sent = <<>>
    /\ c.pc = "live" => c.own = None /\ c.file # None /\ ~c.file.final
    /\ c.pc \in {"final", "listed"} => c.own # None /\ (c.died = None => c.own.final)
    /\ c.pc = "dead" => c.died # None
    /\ c.agg # None => c.pc \in {"read", "done"}
    /\ c.to # None => /\ c.pc \in {"listed", "read", "done"}
                      /\ c.to \in Nat /\ c.start <= c.to /\ c.to <= t
    /\ c.pc = "listed" => c.to # None

CellInv(c, t) ==
    HostShape(c) /\ SentInv(c, t) /\ StageInv(c, t) /\ SeriesOf(c, c.file, t) /\ SeriesOf(c, c.own, t)

\* The dispatches of a cell between two times, and that there is none.
SentIn(sent, from, to) == { i \in DOMAIN sent : from < sent[i] /\ sent[i] < to }

Silent(sent, from, to) == \A i \in DOMAIN sent : sent[i] <= from \/ sent[i] >= to

\* A cell that listed the concurrent runs listed every other route that
\* sent anything while it ran.
Listing(r, H) ==
    H[r].to # None =>
        /\ H[r].runs \in Seq(Hosted \ {r})
        /\ \A q \in Hosted \ {r} :
             (\E i \in DOMAIN H[r].runs : H[r].runs[i] = q) \/ Silent(H[q].sent, H[r].start, H[r].to)

\* The sum d passes the completeness check.
SumChecks(r, c, d) ==
    /\ [i \in DOMAIN d.sources |-> d.sources[i].run] = <<r>> \o c.runs
    /\ d.sources[1].final \/ c.died # None
    /\ d.from <= d.to
    /\ Disp!Total(d.counts)
         = AddUp([i \in DOMAIN d.sources |-> d.sources[i].n], 1, Len(d.sources))
    /\ d.max = Disp!Max({ d.counts[s] : s \in DOMAIN d.counts })

\* What source s of the sum d counts of what its route sent.
Covering(sent, s, d) ==
    /\ s.final \/ s.through # None => s.n >= Cardinality(SentIn(sent, d.from, Disp!UpTo(s, d)))
    /\ s.n <= Cardinality(SentIn(sent, Second * Disp!Sec(d.from) - 1, Second * (Disp!Sec(d.to) + 1)))

\* The sum d accounts for what q sent.
Accounts(sent, q, d) ==
    \/ /\ \A i \in DOMAIN d.sources : d.sources[i].run # q
       /\ SentIn(sent, d.from, d.to) = {}
    \/ /\ \E i \in DOMAIN d.sources : d.sources[i].run = q
       /\ \A i \in DOMAIN d.sources : d.sources[i].run = q => Covering(sent, d.sources[i], d)

SumTypes(d, t) ==
    /\ d.from \in Nat /\ d.to \in Nat /\ d.to <= t
    /\ \A i \in DOMAIN d.sources :
         d.sources[i].n \in Nat /\ (d.sources[i].through = None \/ d.sources[i].through \in Int)

\* A sum that was made stays right.
SumInv(r, H, t) ==
    H[r].agg # None =>
        /\ SumTypes(H[r].agg, t) /\ SumChecks(r, H[r], H[r].agg)
        /\ \A q \in Hosted : Accounts(H[q].sent, q, H[r].agg)

HostInv(H, t) ==
    /\ t \in Nat /\ t <= DispatchTime /\ H = [r \in Hosted |-> H[r]]
    /\ \A r \in Hosted : CellInv(H[r], t) /\ Listing(r, H) /\ SumInv(r, H, t)

\* SetToSeq lists a finite set.
LEMMA ListsAll ==
    ASSUME NEW S, IsFiniteSet(S)
    PROVE  /\ Disp!SetToSeq(S) \in Seq(S)
           /\ \A x \in S : \E i \in DOMAIN Disp!SetToSeq(S) : Disp!SetToSeq(S)[i] = x
<1> DEFINE n == Cardinality(S)
           l == Disp!SetToSeq(S)
           D == 1..n
<1>1. n \in Nat /\ ExistsBijection(1..n, S)
  BY FS_CardinalityType
<1>2. PICK f : f \in Bijection(1..n, S)
  BY <1>1 DEF ExistsBijection
<1>3. f \in [1..n -> S] /\ \A a, b \in 1..n : f[a] = f[b] => a = b
  BY <1>2 DEF Bijection, Injection, IsInjective
<1>4. Disp!Cardinality(S) = n
  BY SeriesNames
<1>5. l \in [1..n -> S] /\ \A a, b \in 1..n : l[a] = l[b] => a = b
  <2>1. \E g \in [1..n -> S] : Disp!IsInjective(g)
    BY <1>3 DEF Disp!IsInjective
  <2>2. l \in [1..n -> S] /\ Disp!IsInjective(l)
    BY <1>4, <2>1 DEF Disp!SetToSeq
  <2> HIDE DEF l
  <2> QED
    BY <2>2 DEF Disp!IsInjective
<1> HIDE DEF l
<1>6. l \in Injection(D, S)
  BY <1>5 DEF Injection, IsInjective
<1>7. Cardinality(D) = n
  <2>1. Cardinality(1..n) = IF 1 > n THEN 0 ELSE n - 1 + 1
    BY <1>1, FS_Interval
  <2> HIDE DEF n
  <2> QED
    BY <1>1, <2>1
<1>8. l \in Surjection(D, S)
  <2> HIDE DEF D
  <2> QED
    BY <1>6, <1>7, FS_Injection
<1>9. \A x \in S : \E i \in D : l[i] = x
  BY <1>8 DEF Surjection
<1>10. l \in Seq(S) /\ DOMAIN l = D
  <2> HIDE DEF n
  <2> QED
    BY <1>1, <1>5
<1> QED
  BY <1>9, <1>10 DEF l

\* The earlier of two times.
LEMMA MinOfTwo ==
    ASSUME NEW a \in Int, NEW b \in Int
    PROVE  /\ Disp!Min({a, b}) \in {a, b} /\ Disp!Min({a, b}) <= a /\ Disp!Min({a, b}) <= b
<1>1. \E x \in {a, b} : \A y \in {a, b} : x <= y
  <2>1. CASE a <= b
    BY <2>1
  <2>2. CASE ~(a <= b)
    BY <2>2
  <2> QED
    BY <2>1, <2>2
<1> QED
  BY <1>1 DEF Disp!Min

\* What was sent is finite, and so is any part of it.
LEMMA SentFinite ==
    ASSUME NEW sent \in Seq(Nat), NEW J \in SUBSET DOMAIN sent
    PROVE  IsFiniteSet(J) /\ Cardinality(J) \in Nat
<1>1. DOMAIN sent = 1..Len(sent) /\ Len(sent) \in Nat
  OBVIOUS
<1>2. IsFiniteSet(DOMAIN sent)
  BY <1>1, FS_Interval
<1> QED
  BY <1>2, FS_Subset, FS_CardinalityType

\* A series of q, cut to the seconds of the sum, counts what q sent during
\* the cell up to the time the source says, and nothing that was not sent.
LEMMA SourceIsSound ==
    ASSUME Disp!SeriesConstants, NEW q, NEW f, NEW d, NEW t \in Nat, t <= DispatchTime,
           SentInv(cell[q], t), SeriesOf(cell[q], f, t),
           d.from \in Nat, d.to \in Nat
    PROVE  /\ Disp!SourceCounts(q, Disp!Source(q, d.from, d.to, f), d)
           /\ \/ Disp!Source(q, d.from, d.to, f).through = None
              \/ Disp!Source(q, d.from, d.to, f).through \in Int
<1> DEFINE s == Disp!Source(q, d.from, d.to, f)
           sent == cell[q].sent
           a == Disp!Sec(d.from)
           b == Disp!Sec(d.to)
           whole == Disp!Between(q, Second * a - 1, Second * (b + 1))
<1>0. /\ Second \in Nat \ {0} /\ DispatchTime \in Nat /\ None \notin Int
      /\ a \in Nat /\ b \in Nat
  BY SecIs DEF Disp!SeriesConstants
<1>1. sent \in Seq(Nat) /\ \A i \in DOMAIN sent : sent[i] \in Nat /\ sent[i] <= t
  <2>1. sent \in Seq(Nat)
    BY DEF SentInv
  <2>2. \A i \in DOMAIN sent : sent[i] \in Nat
    <3> HIDE DEF sent
    <3> QED
      BY <2>1, ElementOfSeq
  <2> QED
    BY <2>1, <2>2 DEF SentInv
<1>2. \A x, y : Disp!Between(q, x, y) \in SUBSET DOMAIN sent
  BY DEF Disp!Between
<1>3. \A x, y : IsFiniteSet(Disp!Between(q, x, y)) /\ Cardinality(Disp!Between(q, x, y)) \in Nat
  <2> HIDE DEF sent
  <2> QED
    BY <1>1, <1>2, SentFinite
<1>4. CASE f = None
  <2>1. s = [run |-> q, n |-> 0, final |-> FALSE, through |-> None]
    BY <1>4 DEF Disp!Source
  <2>2. s.n = 0 /\ ~s.final /\ s.through = None
    BY <2>1
  <2>3. 0 <= Disp!Cardinality(whole)
    BY <1>3, SeriesNames
  <2> HIDE DEF s
  <2> QED
    BY <2>2, <2>3 DEF Disp!SourceCounts, s
<1>5. CASE f # None
  <2>1. PICK J \in SUBSET DOMAIN sent :
            /\ f.counts = Tally(sent, J) /\ f.final \in BOOLEAN
            /\ f.final => J = DOMAIN sent
            /\ ~f.final => /\ f.through \in Int
                           /\ \A i \in DOMAIN sent \ J : sent[i] >= f.through
    BY <1>5 DEF SeriesOf
  <2> DEFINE I == InSeconds(sent, J, a, b)
  <2>2. /\ s.n = Disp!Total(Disp!Within(f.counts, d.from, d.to)) /\ s.final = f.final
        /\ s.through = IF f.final THEN None ELSE f.through
    BY <1>5 DEF Disp!Source
  <2>3. Disp!Within(f.counts, d.from, d.to) = Cut(Tally(sent, J), a, b)
    BY <2>1 DEF Disp!Within, Cut
  <2>4. IsFiniteSet(J) /\ \A i \in J : sent[i] \in 0..DispatchTime
    <3>1. IsFiniteSet(J)
      <4> HIDE DEF sent
      <4> QED
        BY <1>1, SentFinite
    <3>2. \A i \in J : sent[i] \in 0..DispatchTime
      BY <1>0, <1>1
    <3> QED
      BY <3>1, <3>2
  <2>5. s.n = Cardinality(I)
    BY <1>0, <2>2, <2>3, <2>4, TallySum
  <2>6. I \in SUBSET DOMAIN sent /\ I \in SUBSET J
    BY DEF InSeconds
  <2>7. IsFiniteSet(I) /\ Cardinality(I) \in Nat
    <3> HIDE DEF I, sent
    <3> QED
      BY <1>1, <2>6, SentFinite
  <2>8. s.n <= Disp!Cardinality(whole)
    <3>1. ASSUME NEW i \in I PROVE i \in whole
      <4> DEFINE x == Disp!Sec(sent[i])
                 u == sent[i]
      <4>1. u \in Nat /\ i \in DOMAIN sent /\ x \in a..b
        BY <1>1, <2>6 DEF InSeconds
      <4>2. x \in Nat /\ Second * x <= u /\ u < Second * (x + 1)
        BY <1>0, <4>1, SecIs
      <4> HIDE DEF x, u, a, b
      <4>3. /\ Second * a \in Int /\ Second * x \in Int /\ Second * a <= Second * x
            /\ Second * (x + 1) \in Int /\ Second * (b + 1) \in Int
            /\ Second * (x + 1) <= Second * (b + 1)
        BY <1>0, <4>1, <4>2, TimesGrows
      <4>4. Second * a - 1 < u /\ u < Second * (b + 1)
        <5> DEFINE h == Second * a
                   j == Second * x
                   k == Second * (x + 1)
                   l == Second * (b + 1)
        <5>1. h \in Int /\ j \in Int /\ h <= j /\ k \in Int /\ l \in Int /\ k <= l /\ j <= u /\ u < k
          BY <4>2, <4>3
        <5> HIDE DEF h, j, k, l
        <5>2. h - 1 < u /\ u < l
          BY <4>1, <5>1
        <5> QED
          BY <5>2 DEF h, l
      <4> QED
        BY <4>1, <4>4 DEF Disp!Between, u
    <3>2. I \in SUBSET whole
      BY <3>1
    <3>3. Cardinality(I) <= Cardinality(whole)
      <4> HIDE DEF I
      <4> QED
        BY <1>3, <3>2, FS_Subset
    <3> QED
      BY <2>5, <3>3, SeriesNames
  <2>9. ASSUME NEW u \in Int, u <= d.to, ~f.final => u <= f.through
        PROVE  s.n >= Disp!Cardinality(Disp!Between(q, d.from, u))
    <3>1. ASSUME NEW i \in Disp!Between(q, d.from, u) PROVE i \in I
      <4>1. i \in DOMAIN sent /\ d.from < sent[i] /\ sent[i] < u
        BY DEF Disp!Between
      <4>2. sent[i] \in Nat
        BY <1>1, <4>1
      <4>3. i \in J
        <5>1. CASE f.final
          BY <2>1, <4>1, <5>1
        <5>2. CASE ~f.final
          <6>1. ~(sent[i] >= f.through) /\ f.through \in Int
            BY <2>1, <2>9, <4>1, <4>2, <5>2
          <6> QED
            BY <2>1, <4>1, <5>2, <6>1
        <5> QED
          BY <5>1, <5>2
      <4>4. sent[i] <= d.to /\ d.from <= sent[i]
        BY <2>9, <4>1, <4>2
      <4>5. a <= Disp!Sec(sent[i]) /\ Disp!Sec(sent[i]) <= b /\ Disp!Sec(sent[i]) \in Nat
        BY <1>0, <4>2, <4>4, SecGrows, SecIs
      <4> QED
        BY <1>0, <4>3, <4>5 DEF InSeconds
    <3>2. Disp!Between(q, d.from, u) \in SUBSET I
      BY <3>1
    <3>3. Cardinality(Disp!Between(q, d.from, u)) <= Cardinality(I)
      <4> HIDE DEF I
      <4> QED
        BY <2>7, <3>2, FS_Subset
    <3>4. Cardinality(Disp!Between(q, d.from, u)) \in Nat
      BY <1>3
    <3> HIDE DEF I
    <3> QED
      BY <2>5, <2>7, <3>3, <3>4, SeriesNames
  <2>10. ASSUME s.final \/ s.through # None
         PROVE  s.n >= Disp!Cardinality(Disp!Between(q, d.from, Disp!UpTo(s, d)))
    <3>1. CASE f.final
      <4>1. Disp!UpTo(s, d) = d.to
        BY <2>2, <3>1 DEF Disp!UpTo
      <4> QED
        BY <2>9, <3>1, <4>1
    <3>2. CASE ~f.final
      <4>1. f.through \in Int /\ s.through = f.through /\ ~s.final
        BY <2>1, <2>2, <3>2
      <4>2. Disp!UpTo(s, d) = Disp!Min({f.through, d.to})
        <5> HIDE DEF s
        <5> QED
          BY <1>0, <4>1 DEF Disp!UpTo
      <4>3. Disp!UpTo(s, d) \in Int /\ Disp!UpTo(s, d) <= d.to /\ Disp!UpTo(s, d) <= f.through
        <5> DEFINE x == f.through
                   y == d.to
        <5>1. x \in Int /\ y \in Int
          BY <4>1
        <5> HIDE DEF x, y, s
        <5>2. Disp!Min({x, y}) \in {x, y} /\ Disp!Min({x, y}) <= x /\ Disp!Min({x, y}) <= y
          BY <5>1, MinOfTwo
        <5>3. Disp!UpTo(s, d) = Disp!Min({x, y})
          BY <4>2 DEF x, y
        <5>4. Disp!UpTo(s, d) \in Int /\ Disp!UpTo(s, d) <= y /\ Disp!UpTo(s, d) <= x
          BY <5>1, <5>2, <5>3
        <5> QED
          BY <5>4 DEF x, y
      <4> HIDE DEF s
      <4> QED
        BY <2>9, <4>3
    <3> QED
      BY <3>1, <3>2
  <2>11. s.through = None \/ s.through \in Int
    BY <2>1, <2>2
  <2> HIDE DEF s
  <2> QED
    BY <2>8, <2>10, <2>11 DEF Disp!SourceCounts, s
<1> QED
  BY <1>4, <1>5

\* What a cell sent, after it sends one more: the times before now stay as
\* they were.
LEMMA SentGrows ==
    ASSUME NEW t \in Nat, NEW sent \in Seq(Nat), NEW more, more = sent \/ more = Append(sent, t)
    PROVE  /\ \A from, to : to \in Int /\ to <= t /\ Silent(sent, from, to) => Silent(more, from, to)
           /\ \A x, y : y \in Int /\ y <= t => SentIn(more, x, y) = SentIn(sent, x, y)
           /\ \A x, y : /\ Cardinality(SentIn(sent, x, y)) \in Nat
                        /\ Cardinality(SentIn(more, x, y)) \in Nat
                        /\ Cardinality(SentIn(sent, x, y)) <= Cardinality(SentIn(more, x, y))
<1>1. /\ more \in Seq(Nat) /\ DOMAIN sent \subseteq DOMAIN more
      /\ \A i \in DOMAIN sent : more[i] = sent[i]
      /\ \A i \in DOMAIN more \ DOMAIN sent : more[i] = t
  <2>1. CASE more = sent
    BY <2>1
  <2>2. CASE more = Append(sent, t)
    BY <2>2
  <2> QED
    BY <2>1, <2>2
<1>2. \A i \in DOMAIN sent : sent[i] \in Nat
  BY ElementOfSeq
<1>3. \A from, to : to \in Int /\ to <= t /\ Silent(sent, from, to) => Silent(more, from, to)
  BY <1>1, <1>2 DEF Silent
<1>4. \A x, y : y \in Int /\ y <= t => SentIn(more, x, y) = SentIn(sent, x, y)
  BY <1>1, <1>2 DEF SentIn
<1>5. ASSUME NEW x, NEW y
      PROVE  /\ Cardinality(SentIn(sent, x, y)) \in Nat /\ Cardinality(SentIn(more, x, y)) \in Nat
             /\ Cardinality(SentIn(sent, x, y)) <= Cardinality(SentIn(more, x, y))
  <2>1. /\ SentIn(sent, x, y) \in SUBSET DOMAIN sent /\ SentIn(more, x, y) \in SUBSET DOMAIN more
        /\ SentIn(sent, x, y) \in SUBSET SentIn(more, x, y)
    BY <1>1 DEF SentIn
  <2>2. IsFiniteSet(SentIn(more, x, y)) /\ Cardinality(SentIn(more, x, y)) \in Nat
    BY <1>1, <2>1, SentFinite
  <2>3. Cardinality(SentIn(sent, x, y)) \in Nat
    BY <2>1, SentFinite
  <2> QED
    BY <2>1, <2>2, <2>3, FS_Subset
<1> QED
  BY <1>3, <1>4, <1>5

\* A sum goes on accounting for a route that sends more after it.
LEMMA AccountsStays ==
    ASSUME None \notin Int,
           NEW t \in Nat, NEW sent \in Seq(Nat), NEW more, more = sent \/ more = Append(sent, t),
           NEW q, NEW d, SumTypes(d, t), Accounts(sent, q, d)
    PROVE  Accounts(more, q, d)
<1>1. /\ \A x, y : y \in Int /\ y <= t => SentIn(more, x, y) = SentIn(sent, x, y)
      /\ \A x, y : /\ Cardinality(SentIn(sent, x, y)) \in Nat
                   /\ Cardinality(SentIn(more, x, y)) \in Nat
                   /\ Cardinality(SentIn(sent, x, y)) <= Cardinality(SentIn(more, x, y))
  BY SentGrows
<1>2. d.to \in Nat /\ d.to <= t
  BY DEF SumTypes
<1>3. ASSUME NEW i \in DOMAIN d.sources, Covering(sent, d.sources[i], d)
      PROVE  Covering(more, d.sources[i], d)
  <2> DEFINE s == d.sources[i]
             u == Disp!UpTo(s, d)
             x == Second * Disp!Sec(d.from) - 1
             y == Second * (Disp!Sec(d.to) + 1)
  <2>1. u \in Int /\ u <= t
    <3>1. s.through = None \/ s.through \in Int
      BY DEF SumTypes
    <3>2. CASE s.final \/ s.through = None
      <4>1. u = d.to
        BY <3>2 DEF Disp!UpTo
      <4> QED
        BY <1>2, <4>1
    <3>3. CASE ~(s.final \/ s.through = None)
      <4> DEFINE a == s.through
                 b == d.to
      <4>1. u = Disp!Min({a, b}) /\ a \in Int /\ b \in Int /\ b <= t
        BY <1>2, <3>1, <3>3 DEF Disp!UpTo
      <4> HIDE DEF a, b, u
      <4>2. Disp!Min({a, b}) \in {a, b} /\ Disp!Min({a, b}) <= b
        BY <4>1, MinOfTwo
      <4> QED
        BY <4>1, <4>2
    <3> QED
      BY <3>2, <3>3
  <2>2. SentIn(more, d.from, u) = SentIn(sent, d.from, u)
    BY <1>1, <2>1
  <2>3. /\ s.final \/ s.through # None => s.n >= Cardinality(SentIn(sent, d.from, u))
        /\ s.n <= Cardinality(SentIn(sent, x, y))
    BY <1>3 DEF Covering
  <2>4. s.n \in Nat
    BY DEF SumTypes
  <2> HIDE DEF u, x, y, s
  <2>5. s.n <= Cardinality(SentIn(more, x, y))
    BY <1>1, <2>3, <2>4
  <2> QED
    BY <2>2, <2>3, <2>5 DEF Covering, s, u, x, y
<1>4. SentIn(more, d.from, d.to) = SentIn(sent, d.from, d.to)
  BY <1>1, <1>2
<1> QED
  BY <1>3, <1>4 DEF Accounts

\* What a step of the cell c may change while its sum stays the sum it was.
SameSum(c, d) ==
    /\ d.to = c.to /\ d.runs = c.runs /\ d.agg = c.agg
    /\ c.to # None => d.start = c.start
    /\ c.died # None => d.died # None

\* A step of r's cell: the other cells' lists and sums stay right, and r's
\* own when it does not touch them.
LEMMA CellStep ==
    ASSUME Disp!SeriesConstants, NEW H, NEW t, HostInv(H, t), NEW r \in Hosted, NEW d,
           CellInv(d, t), d.sent = H[r].sent \/ d.sent = Append(H[r].sent, t),
           NEW G, G = [H EXCEPT ![r] = d],
           SameSum(H[r], d) \/ (Listing(r, G) /\ SumInv(r, G, t))
    PROVE  HostInv(G, t)
<1>0. None \notin Int /\ t \in Nat /\ t <= DispatchTime
  BY DEF Disp!SeriesConstants, HostInv
<1>1. G = [q \in Hosted |-> G[q]] /\ G[r] = d /\ \A q \in Hosted : q # r => G[q] = H[q]
  BY DEF HostInv
<1>2. \A q \in Hosted : CellInv(H[q], t) /\ Listing(q, H) /\ SumInv(q, H, t) /\ H[q].sent \in Seq(Nat)
  BY DEF HostInv, CellInv, SentInv
<1>3. \A q \in Hosted : G[q].sent = H[q].sent \/ G[q].sent = Append(H[q].sent, t)
  BY <1>1
<1>4. ASSUME NEW q \in Hosted, SameSum(H[q], G[q]) PROVE Listing(q, G) /\ SumInv(q, G, t)
  <2>1. Listing(q, G)
    <3> SUFFICES ASSUME H[q].to # None PROVE Listing(q, G)
      BY <1>4 DEF Listing, SameSum
    <3>1. H[q].to \in Nat /\ H[q].to <= t
      BY <1>2 DEF CellInv, StageInv
    <3>2. ASSUME NEW p \in Hosted, Silent(H[p].sent, H[q].start, H[q].to)
          PROVE  Silent(G[p].sent, H[q].start, H[q].to)
      <4> DEFINE s == H[p].sent
                 m == G[p].sent
                 a == H[q].start
                 b == H[q].to
      <4>1. s \in Seq(Nat) /\ (m = s \/ m = Append(s, t)) /\ b \in Int /\ b <= t /\ Silent(s, a, b)
        BY <1>2, <1>3, <3>1, <3>2
      <4> HIDE DEF s, m, a, b
      <4>2. Silent(m, a, b)
        BY <1>0, <4>1, SentGrows
      <4> QED
        BY <4>2 DEF m, a, b
    <3>3. G[q].to = H[q].to /\ G[q].runs = H[q].runs /\ G[q].start = H[q].start
      BY <1>4 DEF SameSum
    <3> QED
      BY <1>2, <3>2, <3>3 DEF Listing
  <2>2. SumInv(q, G, t)
    <3>1. G[q].agg = H[q].agg /\ G[q].runs = H[q].runs /\ (H[q].died # None => G[q].died # None)
      BY <1>4 DEF SameSum
    <3> SUFFICES ASSUME H[q].agg # None PROVE SumInv(q, G, t)
      BY <3>1 DEF SumInv
    <3>2. /\ SumTypes(H[q].agg, t) /\ SumChecks(q, H[q], H[q].agg)
          /\ \A p \in Hosted : Accounts(H[p].sent, p, H[q].agg)
      BY <1>2 DEF SumInv
    <3>3. SumChecks(q, G[q], H[q].agg)
      BY <3>1, <3>2 DEF SumChecks
    <3>4. ASSUME NEW p \in Hosted PROVE Accounts(G[p].sent, p, H[q].agg)
      <4> DEFINE s == H[p].sent
                 m == G[p].sent
                 e == H[q].agg
      <4>1. s \in Seq(Nat) /\ (m = s \/ m = Append(s, t)) /\ SumTypes(e, t) /\ Accounts(s, p, e)
        BY <1>2, <1>3, <3>2
      <4> HIDE DEF s, m, e
      <4>2. Accounts(m, p, e)
        BY <1>0, <4>1, AccountsStays
      <4> QED
        BY <4>2 DEF m, e
    <3> QED
      BY <3>1, <3>2, <3>3, <3>4 DEF SumInv
  <2> QED
    BY <2>1, <2>2
<1>5. ASSUME NEW q \in Hosted PROVE CellInv(G[q], t) /\ Listing(q, G) /\ SumInv(q, G, t)
  <2>1. CASE q # r
    <3>1. SameSum(H[q], G[q])
      BY <1>1, <2>1 DEF SameSum
    <3> QED
      BY <1>1, <1>2, <1>4, <2>1, <3>1
  <2>2. CASE q = r
    BY <1>1, <1>4, <2>2
  <2> QED
    BY <2>1, <2>2
<1> QED
  BY <1>0, <1>1, <1>5 DEF HostInv

\* A series of a cell stays one when nothing more is sent.
LEMMA SeriesSame ==
    ASSUME NEW c, NEW d, NEW f, NEW t \in Nat, NEW u \in Nat, t <= u, d.sent = c.sent, SeriesOf(c, f, t)
    PROVE  SeriesOf(d, f, u)
  BY DEF SeriesOf

\* Nor does a dispatch later than it change a series that is not final.
LEMMA SeriesGrows ==
    ASSUME NEW c, NEW d, NEW f, NEW t \in Nat, c.sent \in Seq(Nat), d.sent = Append(c.sent, t),
           SeriesOf(c, f, t), f # None => ~f.final
    PROVE  SeriesOf(d, f, t)
<1> SUFFICES ASSUME f # None PROVE SeriesOf(d, f, t)
  BY DEF SeriesOf
<1> DEFINE s == c.sent
           m == d.sent
<1>1. PICK J \in SUBSET DOMAIN s :
         /\ f.counts = Tally(s, J) /\ ~f.final /\ f.final \in BOOLEAN
         /\ f.through \in Int /\ f.through <= t
         /\ \A i \in DOMAIN s \ J : s[i] >= f.through
  BY DEF SeriesOf
<1>2. /\ DOMAIN s \subseteq DOMAIN m /\ \A i \in DOMAIN s : m[i] = s[i]
      /\ \A i \in DOMAIN m \ DOMAIN s : m[i] = t
  <2>1. s \in Seq(Nat) /\ m = Append(s, t)
    OBVIOUS
  <2> HIDE DEF s, m
  <2> QED
    BY <2>1
<1> HIDE DEF s, m
<1>3. Tally(m, J) = Tally(s, J)
  <2>1. \A x : { i \in J : Disp!Sec(m[i]) = x } = { i \in J : Disp!Sec(s[i]) = x }
    BY <1>1, <1>2
  <2> QED
    BY <2>1 DEF Tally
<1>4. J \in SUBSET DOMAIN m /\ \A i \in DOMAIN m \ J : m[i] >= f.through
  BY <1>1, <1>2
<1> QED
  BY <1>1, <1>3, <1>4 DEF SeriesOf, m

\* The module's counts.
LEMMA CountsIs ==
    ASSUME NEW r, NEW J
    PROVE  Disp!Counts(r, J) = Tally(cell[r].sent, J)
  BY SeriesNames DEF Disp!Counts, Tally

\* The cell is written, and then its first series.
LEMMA SeriesBeginKeeps ==
    ASSUME Disp!SeriesConstants, HostInv(cell, time), NEW r \in Hosted, Disp!Begin(r)
    PROVE  HostInv(cell', time')
<1> DEFINE c == cell[r]
           d == [c EXCEPT !.pc = "begun", !.start = time]
<1>1. c.pc = "idle" /\ cell' = [cell EXCEPT ![r] = d] /\ time' = time
  BY DEF Disp!Begin, Disp!Set
<1>2. CellInv(c, time) /\ time \in Nat /\ None \notin Int
  BY DEF HostInv, Disp!SeriesConstants
<1> HIDE DEF c
<1>3. /\ HostShape(d) /\ d.pc = "begun" /\ d.start = time /\ d.end = c.end /\ d.died = c.died
      /\ d.sent = c.sent /\ d.counted = c.counted /\ d.file = c.file /\ d.own = c.own
      /\ d.to = c.to /\ d.runs = c.runs /\ d.agg = c.agg
  BY <1>2 DEF CellInv, HostShape, HostFields
<1> HIDE DEF d
<1>4. c.sent = <<>> /\ c.end = None /\ c.to = None /\ c.agg = None
  BY <1>1, <1>2 DEF CellInv, SentInv, StageInv
<1>5. SentInv(d, time)
  BY <1>2, <1>3, <1>4 DEF CellInv, SentInv
<1>6. StageInv(d, time)
  BY <1>1, <1>2, <1>3, <1>4 DEF CellInv, StageInv
<1>7. CellInv(d, time)
  BY <1>2, <1>3, <1>5, <1>6, SeriesSame DEF CellInv
<1>8. SameSum(c, d)
  BY <1>3, <1>4 DEF SameSum
<1> QED
  BY <1>1, <1>3, <1>7, <1>8, CellStep DEF c

\* The live series flush writes is a series of the cell.
LEMMA LiveFileIs ==
    ASSUME Disp!SeriesConstants, NoneIsNoRecord, NEW r, time \in Nat, CellInv(cell[r], time),
           cell[r].pc = "live" \/ cell[r].sent = <<>>
    PROVE  SeriesOf(cell[r], Disp!LiveFile(r), time) /\ Disp!LiveFile(r) # None /\ ~Disp!LiveFile(r).final
<1> DEFINE c == cell[r]
           f == Disp!LiveFile(r)
<1>1. f = [counts |-> Tally(c.sent, c.counted), final |-> FALSE, through |-> time - Lag]
  BY CountsIs DEF Disp!LiveFile
<1>2. f # None
  BY <1>1 DEF NoneIsNoRecord
<1>3. Lag \in Nat /\ c.counted \in SUBSET DOMAIN c.sent
  BY DEF CellInv, SentInv, Disp!SeriesConstants
<1>4. \A i \in DOMAIN c.sent \ c.counted : c.sent[i] >= time - Lag
  <2> SUFFICES ASSUME NEW i \in DOMAIN c.sent \ c.counted PROVE c.sent[i] >= time - Lag
    OBVIOUS
  <2>1. c.sent # <<>>
    OBVIOUS
  <2>2. c.sent[i] \in Nat /\ time <= c.sent[i] + Lag
    <3>1. c.sent \in Seq(Nat)
      BY DEF CellInv, SentInv
    <3>2. c.sent[i] \in Nat
      BY <3>1, ElementOfSeq
    <3> QED
      BY <2>1, <3>2 DEF CellInv, SentInv
  <2> QED
    BY <1>3, <2>2
<1> HIDE DEF c, f
<1>5. f.counts = Tally(c.sent, c.counted) /\ f.final = FALSE /\ f.through = time - Lag
  BY <1>1
<1>6. time - Lag \in Int /\ time - Lag <= time
  BY <1>3
<1> QED
  BY <1>2, <1>3, <1>4, <1>5, <1>6 DEF SeriesOf, c, f

\* startLiveSeries, and every later flush.
LEMMA FlushKeeps ==
    ASSUME Disp!SeriesConstants, NoneIsNoRecord, HostInv(cell, time), NEW r \in Hosted,
           Disp!StartLive(r) \/ Disp!Flush(r)
    PROVE  HostInv(cell', time')
<1> DEFINE c == cell[r]
           f == Disp!LiveFile(r)
           d == [c EXCEPT !.pc = "live", !.file = f]
<1>2. CellInv(c, time) /\ time \in Nat /\ None \notin Int
  BY DEF HostInv, Disp!SeriesConstants
<1>1. c.pc \in {"begun", "live"} /\ cell' = [cell EXCEPT ![r] = d] /\ time' = time
  <2>1. CASE Disp!StartLive(r)
    BY <2>1 DEF Disp!StartLive, Disp!Set
  <2>2. CASE Disp!Flush(r)
    <3>1. c.pc = "live" /\ cell' = [cell EXCEPT ![r] = [c EXCEPT !.file = f]] /\ time' = time
      BY <2>2 DEF Disp!Flush, Disp!Set
    <3>2. [c EXCEPT !.file = f] = d
      <4>1. HostShape(c)
        BY <1>2 DEF CellInv
      <4> HIDE DEF c, f
      <4> QED
        BY <3>1, <4>1 DEF HostShape, HostFields
    <3> QED
      BY <3>1, <3>2
  <2> QED
    BY <2>1, <2>2
<1>a. c.pc = "live" \/ c.sent = <<>>
  BY <1>1, <1>2 DEF CellInv, StageInv
<1>b. SeriesOf(c, f, time) /\ f # None /\ ~f.final
  BY <1>2, <1>a, LiveFileIs
<1> HIDE DEF c, f
<1>3. /\ HostShape(d) /\ d.pc = "live" /\ d.start = c.start /\ d.end = c.end /\ d.died = c.died
      /\ d.sent = c.sent /\ d.counted = c.counted /\ d.file = f /\ d.own = c.own
      /\ d.to = c.to /\ d.runs = c.runs /\ d.agg = c.agg
  BY <1>2 DEF CellInv, HostShape, HostFields
<1> HIDE DEF d
<1>5. SentInv(d, time)
  BY <1>1, <1>2, <1>3, <1>a DEF CellInv, SentInv
<1>6. StageInv(d, time)
  BY <1>1, <1>2, <1>3, <1>b DEF CellInv, StageInv
<1>7. CellInv(d, time)
  BY <1>2, <1>3, <1>5, <1>6, <1>b, SeriesSame DEF CellInv
<1>8. SameSum(c, d)
  BY <1>3 DEF SameSum
<1> QED
  BY <1>1, <1>3, <1>7, <1>8, CellStep DEF c

\* A request is dispatched now.
LEMMA DispatchKeeps ==
    ASSUME Disp!SeriesConstants, HostInv(cell, time), NEW r \in Hosted, Disp!Dispatch(r)
    PROVE  HostInv(cell', time')
<1> DEFINE c == cell[r]
           d == [c EXCEPT !.sent = Append(c.sent, time)]
<1>1. c.pc = "live" /\ cell' = [cell EXCEPT ![r] = d] /\ time' = time
  BY DEF Disp!Dispatch, Disp!Set
<1>2. CellInv(c, time) /\ time \in Nat /\ None \notin Int /\ Lag \in Nat
  BY DEF HostInv, Disp!SeriesConstants
<1> HIDE DEF c
<1>3. /\ HostShape(d) /\ d.pc = c.pc /\ d.start = c.start /\ d.end = c.end /\ d.died = c.died
      /\ d.sent = Append(c.sent, time) /\ d.counted = c.counted /\ d.file = c.file /\ d.own = c.own
      /\ d.to = c.to /\ d.runs = c.runs /\ d.agg = c.agg
  BY <1>2 DEF CellInv, HostShape, HostFields
<1> HIDE DEF d
<1>4. /\ c.end = None /\ c.start \in Nat /\ c.start <= time /\ c.sent \in Seq(Nat)
      /\ c.counted \in SUBSET DOMAIN c.sent
      /\ \A i \in DOMAIN c.sent : c.start <= c.sent[i] /\ c.sent[i] <= time
      /\ \A i \in DOMAIN c.sent \ c.counted : time <= c.sent[i] + Lag
  BY <1>1, <1>2 DEF CellInv, SentInv
<1>5. SentInv(d, time)
  <2> DEFINE s == c.sent
             m == d.sent
  <2>1. /\ m \in Seq(Nat) /\ DOMAIN s \subseteq DOMAIN m
        /\ \A i \in DOMAIN s : m[i] = s[i]
        /\ \A i \in DOMAIN m \ DOMAIN s : m[i] = time
    <3>1. s \in Seq(Nat) /\ m = Append(s, time)
      BY <1>3, <1>4
    <3> HIDE DEF s, m
    <3> QED
      BY <1>2, <3>1
  <2>2. \A i \in DOMAIN m : d.start <= m[i] /\ m[i] <= time
    BY <1>2, <1>3, <1>4, <2>1
  <2>3. \A i \in DOMAIN m \ d.counted : time <= m[i] + Lag
    BY <1>2, <1>3, <1>4, <2>1
  <2>4. d.counted \in SUBSET DOMAIN m /\ d.end = None /\ d.start \in Nat /\ d.start <= time
    BY <1>3, <1>4, <2>1
  <2> QED
    BY <1>2, <2>1, <2>2, <2>3, <2>4 DEF SentInv
<1>6. StageInv(d, time)
  BY <1>1, <1>2, <1>3 DEF CellInv, StageInv
<1>7. SeriesOf(d, d.file, time) /\ SeriesOf(d, d.own, time)
  <2>1. c.own = None /\ ~c.file.final /\ SeriesOf(c, c.file, time)
    BY <1>1, <1>2 DEF CellInv, StageInv
  <2>2. SeriesOf(d, c.file, time)
    BY <1>2, <1>3, <1>4, <2>1, SeriesGrows
  <2> QED
    BY <1>3, <2>1, <2>2 DEF SeriesOf
<1>8. SameSum(c, d)
  BY <1>3 DEF SameSum
<1> QED
  BY <1>1, <1>3, <1>5, <1>6, <1>7, <1>8, CellStep DEF c, CellInv

\* Its goroutine counts it.
LEMMA CountKeeps ==
    ASSUME Disp!SeriesConstants, HostInv(cell, time), NEW r \in Hosted, NEW i, Disp!Count(r, i)
    PROVE  HostInv(cell', time')
<1> DEFINE c == cell[r]
           d == [c EXCEPT !.counted = c.counted \cup {i}]
<1>1. /\ c.pc = "live" /\ cell' = [cell EXCEPT ![r] = d] /\ time' = time /\ i \in DOMAIN c.sent
  BY DEF Disp!Count, Disp!Set
<1>2. CellInv(c, time) /\ time \in Nat
  BY DEF HostInv
<1> HIDE DEF c
<1>3. /\ HostShape(d) /\ d.pc = c.pc /\ d.start = c.start /\ d.end = c.end /\ d.died = c.died
      /\ d.sent = c.sent /\ d.counted = c.counted \cup {i} /\ d.file = c.file /\ d.own = c.own
      /\ d.to = c.to /\ d.runs = c.runs /\ d.agg = c.agg
  BY <1>2 DEF CellInv, HostShape, HostFields
<1> HIDE DEF d
<1>4. SentInv(d, time)
  BY <1>1, <1>2, <1>3 DEF CellInv, SentInv
<1>5. StageInv(d, time)
  BY <1>2, <1>3 DEF CellInv, StageInv
<1>6. CellInv(d, time)
  BY <1>2, <1>3, <1>4, <1>5, SeriesSame DEF CellInv
<1>7. SameSum(c, d)
  BY <1>3 DEF SameSum
<1> QED
  BY <1>1, <1>3, <1>6, <1>7, CellStep DEF c

\* The final series counts everything the cell sent.
LEMMA FinalFileIs ==
    ASSUME NoneIsNoRecord, NEW r, NEW t
    PROVE  SeriesOf(cell[r], Disp!FinalFile(r), t) /\ Disp!FinalFile(r) # None /\ Disp!FinalFile(r).final
<1> DEFINE c == cell[r]
           f == Disp!FinalFile(r)
<1>1. f = [counts |-> Tally(c.sent, DOMAIN c.sent), final |-> TRUE, through |-> None]
  BY CountsIs DEF Disp!FinalFile
<1>2. f # None
  BY <1>1 DEF NoneIsNoRecord
<1> HIDE DEF c, f
<1>3. f.counts = Tally(c.sent, DOMAIN c.sent) /\ f.final = TRUE
  BY <1>1
<1> QED
  BY <1>2, <1>3 DEF SeriesOf, c, f

\* The ladder ended: the final series replaces the live one.
LEMMA StopKeeps ==
    ASSUME Disp!SeriesConstants, NoneIsNoRecord, HostInv(cell, time), NEW r \in Hosted, Disp!Stop(r)
    PROVE  HostInv(cell', time')
<1> DEFINE c == cell[r]
           f == Disp!FinalFile(r)
           d == [c EXCEPT !.pc = "final", !.counted = {}, !.file = f, !.own = f]
<1>1. c.pc = "live" /\ cell' = [cell EXCEPT ![r] = d] /\ time' = time
  BY DEF Disp!Stop, Disp!Set
<1>2. CellInv(c, time) /\ time \in Nat /\ SeriesOf(c, f, time) /\ f # None /\ f.final
  BY FinalFileIs DEF HostInv
<1> HIDE DEF c, f
<1>3. /\ HostShape(d) /\ d.pc = "final" /\ d.start = c.start /\ d.end = c.end /\ d.died = c.died
      /\ d.sent = c.sent /\ d.counted = {} /\ d.file = f /\ d.own = f
      /\ d.to = c.to /\ d.runs = c.runs /\ d.agg = c.agg
  BY <1>2 DEF CellInv, HostShape, HostFields
<1> HIDE DEF d
<1>4. SentInv(d, time)
  BY <1>1, <1>2, <1>3 DEF CellInv, SentInv
<1>5. StageInv(d, time)
  BY <1>1, <1>2, <1>3 DEF CellInv, StageInv
<1>6. CellInv(d, time)
  BY <1>2, <1>3, <1>4, <1>5, SeriesSame DEF CellInv
<1>7. SameSum(c, d)
  BY <1>3 DEF SameSum
<1> QED
  BY <1>1, <1>3, <1>6, <1>7, CellStep DEF c

\* The record's end, and the end of the process.
LEMMA RecordKeeps ==
    ASSUME Disp!SeriesConstants, HostInv(cell, time), NEW r \in Hosted, Disp!Record(r)
    PROVE  HostInv(cell', time')
<1> DEFINE c == cell[r]
           e == IF c.died = None THEN time ELSE None
           d == [c EXCEPT !.pc = "done", !.end = e]
<1>1. c.pc = "read" /\ cell' = [cell EXCEPT ![r] = d] /\ time' = time
  BY DEF Disp!Record, Disp!Set
<1>2. CellInv(c, time) /\ time \in Nat /\ (e = time \/ e = None)
  BY DEF HostInv
<1> HIDE DEF c, e
<1>3. /\ HostShape(d) /\ d.pc = "done" /\ d.start = c.start /\ d.end = e /\ d.died = c.died
      /\ d.sent = c.sent /\ d.counted = c.counted /\ d.file = c.file /\ d.own = c.own
      /\ d.to = c.to /\ d.runs = c.runs /\ d.agg = c.agg
  BY <1>2 DEF CellInv, HostShape, HostFields
<1> HIDE DEF d
<1>4. SentInv(d, time)
  BY <1>1, <1>2, <1>3 DEF CellInv, SentInv
<1>5. StageInv(d, time)
  BY <1>1, <1>2, <1>3 DEF CellInv, StageInv
<1>6. CellInv(d, time)
  BY <1>2, <1>3, <1>4, <1>5, SeriesSame DEF CellInv
<1>7. SameSum(c, d)
  BY <1>3 DEF SameSum
<1> QED
  BY <1>1, <1>3, <1>6, <1>7, CellStep DEF c

LEMMA SeriesCrashKeeps ==
    ASSUME Disp!SeriesConstants, HostInv(cell, time), NEW r \in Hosted, NEW labelled \in BOOLEAN,
           Disp!Crash(r, labelled)
    PROVE  HostInv(cell', time')
<1> DEFINE c == cell[r]
           p == IF labelled THEN "dead" ELSE "done"
           d == [c EXCEPT !.pc = p, !.died = time, !.counted = {}, !.deadline = None]
<1>1. /\ c.pc \in {"begun", "live", "final", "listed", "read"}
      /\ p = "dead" => c.pc \in {"begun", "live", "final"}
      /\ cell' = [cell EXCEPT ![r] = d] /\ time' = time
  BY DEF Disp!Crash, Disp!Set
<1>2. CellInv(c, time) /\ time \in Nat /\ None \notin Int /\ p \in {"dead", "done"}
  BY DEF HostInv, Disp!SeriesConstants
<1> HIDE DEF c, p
<1>3. /\ HostShape(d) /\ d.pc = p /\ d.start = c.start /\ d.end = c.end /\ d.died = time
      /\ d.sent = c.sent /\ d.counted = {} /\ d.file = c.file /\ d.own = c.own
      /\ d.to = c.to /\ d.runs = c.runs /\ d.agg = c.agg
  BY <1>2 DEF CellInv, HostShape, HostFields
<1> HIDE DEF d
<1>4. SentInv(d, time)
  BY <1>1, <1>2, <1>3 DEF CellInv, SentInv
<1>5. StageInv(d, time)
  BY <1>1, <1>2, <1>3 DEF CellInv, StageInv
<1>6. CellInv(d, time)
  BY <1>2, <1>3, <1>4, <1>5, SeriesSame DEF CellInv
<1>7. SameSum(c, d)
  BY <1>2, <1>3 DEF SameSum
<1> QED
  BY <1>1, <1>3, <1>6, <1>7, CellStep DEF c

\* Time passes: only what is not counted yet has to be young.
LEMMA TickKeeps ==
    ASSUME Disp!SeriesConstants, HostInv(cell, time), Disp!Tick
    PROVE  HostInv(cell', time')
<1>1. /\ time < DispatchTime /\ time' = time + 1 /\ cell' = cell
      /\ \A r \in Hosted : cell[r].pc = "live" =>
           \A i \in DOMAIN cell[r].sent \ cell[r].counted : time < cell[r].sent[i] + Lag
  BY DEF Disp!Tick
<1>2. /\ time \in Nat /\ DispatchTime \in Nat /\ Lag \in Nat /\ cell = [r \in Hosted |-> cell[r]]
      /\ time + 1 \in Nat /\ time <= time + 1 /\ time + 1 <= DispatchTime
  BY <1>1 DEF HostInv, Disp!SeriesConstants
<1>3. ASSUME NEW r \in Hosted
      PROVE  CellInv(cell[r], time + 1) /\ Listing(r, cell) /\ SumInv(r, cell, time + 1)
  <2> DEFINE c == cell[r]
  <2>1. CellInv(c, time) /\ Listing(r, cell) /\ SumInv(r, cell, time)
    BY DEF HostInv
  <2>2. c.pc = "live" => \A i \in DOMAIN c.sent \ c.counted : time < c.sent[i] + Lag
    BY <1>1
  <2>3. SumInv(r, cell, time + 1)
    <3>1. ASSUME NEW e, SumTypes(e, time) PROVE SumTypes(e, time + 1)
      BY <1>2, <3>1 DEF SumTypes
    <3> QED
      BY <2>1, <3>1 DEF SumInv
  <2> HIDE DEF c
  <2>4. \A i \in DOMAIN c.sent : c.sent[i] \in Nat
    BY <2>1, ElementOfSeq DEF CellInv, SentInv
  <2>5. SentInv(c, time + 1)
    BY <1>2, <2>1, <2>2, <2>4 DEF CellInv, SentInv
  <2>6. StageInv(c, time + 1)
    BY <1>2, <2>1 DEF CellInv, StageInv
  <2>7. SeriesOf(c, c.file, time + 1) /\ SeriesOf(c, c.own, time + 1)
    BY <1>2, <2>1, SeriesSame DEF CellInv
  <2> QED
    BY <2>1, <2>3, <2>5, <2>6, <2>7 DEF CellInv, c
<1> QED
  BY <1>1, <1>2, <1>3 DEF HostInv

\* concurrent lists every route that sent anything while the cell ran.
LEMMA ListedRuns ==
    ASSUME Disp!SeriesConstants, HostInv(cell, time), NEW r \in Hosted,
           cell[r].start \in Nat, NEW to \in Nat, to <= time
    PROVE  /\ Disp!ConcurrentRuns(r, to) \in Seq(Hosted \ {r})
           /\ \A q \in Hosted \ {r} :
                \/ \E i \in DOMAIN Disp!ConcurrentRuns(r, to) : Disp!ConcurrentRuns(r, to)[i] = q
                \/ Silent(cell[q].sent, cell[r].start, to)
<1> DEFINE from == cell[r].start
           S == { q \in Hosted \ {r} : Disp!Overlaps(q, from, to) }
           l == Disp!SetToSeq(S)
<1>1. l = Disp!ConcurrentRuns(r, to)
  BY DEF Disp!ConcurrentRuns
<1>2. S \in SUBSET Hosted /\ S \in SUBSET (Hosted \ {r})
  OBVIOUS
<1>3. IsFiniteSet(Hosted)
  BY SeriesNames DEF Disp!SeriesConstants
<1>4. l \in Seq(S) /\ \A x \in S : \E i \in DOMAIN l : l[i] = x
  <2> HIDE DEF S
  <2>1. IsFiniteSet(S)
    BY <1>2, <1>3, FS_Subset
  <2> QED
    BY <2>1, ListsAll
<1>5. l \in Seq(Hosted \ {r})
  <2> HIDE DEF S, l
  <2> QED
    BY <1>2, <1>4, SeqMonotonic
<1>6. ASSUME NEW q \in Hosted \ {r}, q \notin S PROVE Silent(cell[q].sent, from, to)
  <2> DEFINE c == cell[q]
             s == c.sent
  <2>1. SentInv(c, time)
    BY DEF HostInv, CellInv
  <2>2. ~Disp!Overlaps(q, from, to)
    BY <1>6
  <2>3. \/ c.start = None \/ ~(c.start < to)
        \/ c.end = None /\ ~(to > from)
        \/ c.end # None /\ ~(c.end > from)
    BY <2>2 DEF Disp!Overlaps
  <2>4. s \in Seq(Nat)
    BY <2>1 DEF SentInv
  <2>5. \A i \in DOMAIN s : s[i] \in Nat
    <3> HIDE DEF s
    <3> QED
      BY <2>4, ElementOfSeq
  <2>6. ASSUME NEW i \in DOMAIN s PROVE s[i] <= from \/ s[i] >= to
    <3>1. c.start \in Nat /\ c.start <= s[i] /\ c.start # None
      BY <2>1 DEF SentInv
    <3>2. c.end # None => c.end \in Nat /\ s[i] <= c.end
      BY <2>1 DEF SentInv
    <3>3. s[i] \in Nat
      BY <2>5
    <3> DEFINE v == s[i]
               a == c.start
               b == c.end
               u == from
    <3>4. /\ v \in Nat /\ a \in Nat /\ u \in Nat /\ a <= v
          /\ b # None => b \in Nat /\ v <= b
          /\ ~(a < to) \/ (b = None /\ ~(to > u)) \/ (b # None /\ ~(b > u))
      BY <2>3, <3>1, <3>2, <3>3
    <3> HIDE DEF v, a, b, u
    <3>5. v <= u \/ v >= to
      BY <3>4
    <3> QED
      BY <3>5 DEF v, u
  <2> QED
    BY <2>6 DEF Silent
<1> QED
  BY <1>1, <1>4, <1>5, <1>6

\* A cell that gets its list of the concurrent runs: the list is right.
LEMMA ListingKeeps ==
    ASSUME Disp!SeriesConstants, HostInv(cell, time), NEW r \in Hosted,
           NEW to \in Nat, to <= time, NEW f, NEW o, NEW x,
           cell[r].start \in Nat, cell[r].start <= to, cell[r].pc \in {"final", "dead"},
           f # None => SeriesOf(cell[r], f, time), o # None, SeriesOf(cell[r], o, time),
           cell[r].died = None => o.final,
           cell' = [cell EXCEPT ![r] =
                        [cell[r] EXCEPT !.pc = "listed", !.file = f, !.own = o, !.to = to,
                                        !.deadline = x, !.runs = Disp!ConcurrentRuns(r, to)]],
           time' = time
    PROVE  HostInv(cell', time')
<1> DEFINE c == cell[r]
           l == Disp!ConcurrentRuns(r, to)
           d == [c EXCEPT !.pc = "listed", !.file = f, !.own = o, !.to = to, !.deadline = x, !.runs = l]
           G == [cell EXCEPT ![r] = d]
<1>1. CellInv(c, time) /\ time \in Nat /\ None \notin Int
  BY DEF HostInv, Disp!SeriesConstants
<1>2. /\ l \in Seq(Hosted \ {r})
      /\ \A q \in Hosted \ {r} : (\E i \in DOMAIN l : l[i] = q) \/ Silent(cell[q].sent, c.start, to)
  BY ListedRuns
<1>3. cell' = G
  OBVIOUS
<1>4. c.pc \in {"final", "dead"} /\ c.start \in Nat /\ c.start <= to /\ (c.died = None => o.final)
      /\ (f # None => SeriesOf(c, f, time)) /\ SeriesOf(c, o, time)
  OBVIOUS
<1>5. G[r] = d /\ \A q \in Hosted \ {r} : G[q] = cell[q]
  BY DEF HostInv
<1> HIDE DEF c, l
<1>6. /\ HostShape(d) /\ d.pc = "listed" /\ d.start = c.start /\ d.end = c.end /\ d.died = c.died
      /\ d.sent = c.sent /\ d.counted = c.counted /\ d.file = f /\ d.own = o
      /\ d.to = to /\ d.runs = l /\ d.agg = c.agg
  BY <1>1 DEF CellInv, HostShape, HostFields
<1> HIDE DEF d
<1>7. SentInv(d, time)
  BY <1>1, <1>4, <1>6 DEF CellInv, SentInv
<1>8. c.agg = None
  BY <1>1, <1>4 DEF CellInv, StageInv
<1>9. StageInv(d, time)
  BY <1>1, <1>4, <1>6, <1>8 DEF StageInv
<1>10. SeriesOf(d, f, time) /\ SeriesOf(d, o, time)
  BY <1>1, <1>4, <1>6 DEF SeriesOf
<1>11. CellInv(d, time)
  BY <1>6, <1>7, <1>9, <1>10 DEF CellInv
<1> HIDE DEF G
<1>12. Listing(r, G)
  BY <1>2, <1>5, <1>6 DEF Listing
<1>13. SumInv(r, G, time)
  BY <1>5, <1>6, <1>8 DEF SumInv
<1>14. HostInv(G, time)
  BY <1>6, <1>11, <1>12, <1>13, CellStep DEF c, G
<1> QED
  BY <1>3, <1>14

\* retain lists the concurrent runs at the cell's end.
LEMMA ListKeeps ==
    ASSUME Disp!SeriesConstants, HostInv(cell, time), NEW r \in Hosted, Disp!List(r)
    PROVE  HostInv(cell', time')
<1> DEFINE c == cell[r]
           l == Disp!ConcurrentRuns(r, time)
           d == [c EXCEPT !.pc = "listed", !.to = time, !.deadline = time + WaitMax, !.runs = l]
           e == [c EXCEPT !.pc = "listed", !.file = c.file, !.own = c.own, !.to = time,
                          !.deadline = time + WaitMax, !.runs = l]
<1>1. c.pc = "final" /\ cell' = [cell EXCEPT ![r] = d] /\ time' = time
  BY DEF Disp!List, Disp!Set
<1>2. CellInv(c, time) /\ time \in Nat /\ time <= time
  BY DEF HostInv
<1>3. /\ c.start \in Nat /\ c.start <= time /\ c.own # None /\ (c.died = None => c.own.final)
      /\ SeriesOf(c, c.file, time) /\ SeriesOf(c, c.own, time)
  BY <1>1, <1>2 DEF CellInv, SentInv, StageInv
<1>4. d = e
  <2> HIDE DEF c, l
  <2> QED
    BY <1>2 DEF CellInv, HostShape, HostFields
<1> QED
  BY <1>1, <1>2, <1>3, <1>4, ListingKeeps

\* The latest time a dead cell's records show is not before its start, and
\* not in the future.
LEMMA LastUTCIs ==
    ASSUME Disp!SeriesConstants, NEW r, time \in Nat, CellInv(cell[r], time), cell[r].start \in Nat
    PROVE  Disp!LastUTC(r) \in Nat /\ cell[r].start <= Disp!LastUTC(r) /\ Disp!LastUTC(r) <= time
<1> DEFINE c == cell[r]
           f == c.file
           A == IF f = None \/ f.final THEN {} ELSE {f.through}
           B == IF f = None THEN {} ELSE { Second * s : s \in { x \in Disp!Secs : f.counts[x] > 0 } }
           S == {c.start} \cup A \cup B
<1>0. Second \in Nat \ {0} /\ DispatchTime \in Nat /\ Disp!Sec(DispatchTime) \in Nat
  BY SecIs DEF Disp!SeriesConstants
<1>1. Disp!LastUTC(r) = Disp!Max(S)
  BY DEF Disp!LastUTC
<1>2. c.start \in Nat /\ c.start <= time /\ c.sent \in Seq(Nat)
  <2>1. c.start # None => c.start \in Nat /\ c.start <= time
    BY DEF CellInv, SentInv
  <2>2. c.start # None
    BY DEF Disp!SeriesConstants
  <2> QED
    BY <2>1, <2>2 DEF CellInv, SentInv
<1>3. \A y \in A : y \in Int /\ y <= time
  BY DEF CellInv, SeriesOf
<1>4. ASSUME NEW s \in Disp!Secs, f # None, f.counts[s] > 0
      PROVE  Second * s \in Int /\ Second * s <= time
  <2>1. PICK J \in SUBSET DOMAIN c.sent : f.counts = Tally(c.sent, J)
    BY <1>4 DEF CellInv, SeriesOf
  <2> DEFINE I == { i \in J : Disp!Sec(c.sent[i]) = s }
  <2>2. Cardinality(I) > 0
    BY <1>4, <2>1 DEF Tally
  <2>3. I # {}
    <3> HIDE DEF I
    <3> QED
      BY <2>2, FS_EmptySet
  <2>4. PICK i \in J : Disp!Sec(c.sent[i]) = s
    BY <2>3
  <2> DEFINE v == c.sent[i]
  <2>5. v \in Nat
    <3>1. i \in DOMAIN c.sent
      BY <2>1
    <3> QED
      BY <1>2, <3>1, ElementOfSeq
  <2>6. v <= time
    BY <2>1 DEF CellInv, SentInv
  <2>7. s \in Nat /\ Second * s <= v
    BY <1>0, <2>4, <2>5, SecIs
  <2>8. Second * s \in Int
    BY <1>0, <2>7, TimesGrows
  <2> DEFINE w == Second * s
  <2>9. w \in Int /\ w <= v
    BY <2>7, <2>8
  <2> HIDE DEF v, w
  <2>10. w <= time
    BY <2>5, <2>6, <2>9
  <2> QED
    BY <2>8, <2>10 DEF w
<1>5. \A y \in B : y \in Int /\ y <= time
  BY <1>4
<1> HIDE DEF A, B
<1>6. S \in SUBSET Int /\ S # {} /\ time \in Int /\ c.start \in S /\ \A y \in S : y <= time
  BY <1>2, <1>3, <1>5
<1> HIDE DEF S
<1>7. Max(S) \in S /\ \A y \in S : y <= Max(S)
  BY <1>6, MaxIs
<1>8. Disp!Max(S) \in S /\ \A y \in S : y <= Disp!Max(S)
  BY <1>7, SeriesNames
<1> HIDE DEF c
<1>9. Disp!Max(S) \in Nat /\ c.start <= Disp!Max(S) /\ Disp!Max(S) <= time
  <2> DEFINE m == Disp!Max(S)
             b == c.start
  <2>1. m \in S /\ \A y \in S : y <= m
    BY <1>8
  <2>2. b \in Nat /\ b \in S
    BY <1>2, <1>6
  <2> HIDE DEF m, b
  <2>3. m \in Int /\ m <= time /\ b <= m
    BY <1>6, <2>1, <2>2
  <2>4. m \in Nat
    BY <2>2, <2>3
  <2> QED
    BY <2>3, <2>4 DEF m, b
<1> QED
  BY <1>1, <1>9 DEF c

\* labelCell lists them at the latest time the records of the cell show.
LEMMA SeriesLabelKeeps ==
    ASSUME Disp!SeriesConstants, NoneIsNoRecord, HostInv(cell, time), NEW r \in Hosted,
           Disp!LabelCell(r)
    PROVE  HostInv(cell', time')
<1> DEFINE c == cell[r]
           o == IF c.file = None THEN Disp!FinalFile(r) ELSE c.file
           to == Disp!LastUTC(r)
<1>1. /\ c.pc = "dead" /\ time' = time
      /\ cell' = [cell EXCEPT ![r] =
                     [c EXCEPT !.pc = "listed", !.file = o, !.own = o, !.to = to,
                               !.deadline = time + WaitMax, !.runs = Disp!ConcurrentRuns(r, to)]]
  BY DEF Disp!LabelCell, Disp!Set
<1>2. CellInv(c, time) /\ time \in Nat
  BY DEF HostInv
<1>3. c.start \in Nat /\ c.died # None
  BY <1>1, <1>2 DEF CellInv, SentInv, StageInv
<1>4. o # None /\ SeriesOf(c, o, time)
  <2>1. CASE c.file = None
    BY <2>1, FinalFileIs
  <2>2. CASE c.file # None
    BY <1>2, <2>2 DEF CellInv
  <2> QED
    BY <2>1, <2>2
<1>5. to \in Nat /\ c.start <= to /\ to <= time
  BY <1>2, <1>3, LastUTCIs
<1> HIDE DEF o, to
<1> QED
  BY <1>1, <1>3, <1>4, <1>5, ListingKeeps

\* Nothing adds up to nothing.
LEMMA ZeroSum ==
    ASSUME NEW m \in Nat
    PROVE  AddUp([s \in 0..m - 1 |-> 0], 0, m) = 0
<1> DEFINE z == [s \in 0..m - 1 |-> 0]
<1>1. \A k \in 1..m : 0 + k - 1 \in 0..m - 1 /\ z[0 + k - 1] = 0
  OBVIOUS
<1> HIDE DEF z
<1>2. Addends(z, 0, m) /\ \A k \in 1..m : z[0 + k - 1] = z[0 + k - 1] + z[0 + k - 1]
  BY <1>1 DEF Addends
<1>3. AddUp(z, 0, m) = AddUp(z, 0, m) + AddUp(z, 0, m) /\ AddUp(z, 0, m) \in Nat
  BY <1>2, AddUpPlus, AddUpNext
<1>4. AddUp(z, 0, m) = 0
  <2> DEFINE x == AddUp(z, 0, m)
  <2>1. x \in Nat /\ x = x + x
    BY <1>3
  <2> HIDE DEF x
  <2>2. x = 0
    BY <2>1
  <2> QED
    BY <2>2 DEF x
<1> QED
  BY <1>4 DEF z

\* The part of a series inside the seconds of a sum is a count per second.
LEMMA WithinCounts ==
    ASSUME Disp!SeriesConstants, NEW c, NEW f, NEW t, SentInv(c, t), SeriesOf(c, f, t), f # None,
           NEW a \in Nat, NEW b \in Nat
    PROVE  Disp!Within(f.counts, a, b) \in [Disp!Secs -> Nat]
<1>1. PICK J \in SUBSET DOMAIN c.sent : f.counts = Tally(c.sent, J)
  BY DEF SeriesOf
<1>2. IsFiniteSet(J)
  BY SentFinite DEF SentInv
<1>3. Disp!Sec(a) \in Nat /\ Disp!Sec(b) \in Nat
  BY SecIs DEF Disp!SeriesConstants
<1>4. Disp!Within(f.counts, a, b) = Cut(Tally(c.sent, J), Disp!Sec(a), Disp!Sec(b))
  BY <1>1 DEF Disp!Within, Cut
<1> QED
  BY <1>2, <1>3, <1>4, CutCounts

\* hostDispatch makes a sum that checks and that accounts for every route.
LEMMA AggregateIs ==
    ASSUME Disp!SeriesConstants, HostInv(cell, time), NEW r \in Hosted, cell[r].pc = "listed",
           NEW d, d = Disp!Aggregate(r)
    PROVE  /\ SumTypes(d, time) /\ SumChecks(r, cell[r], d)
           /\ \A q \in Hosted : Accounts(cell[q].sent, q, d)
<1> DEFINE c == cell[r]
           runs == <<r>> \o c.runs
           n == Len(runs)
           m == Disp!Sec(DispatchTime) + 1
           F == [i \in 1..n |-> IF runs[i] = r THEN c.own ELSE cell[runs[i]].file]
           w == [i \in 1..n |-> IF F[i] = None THEN [s \in 0..m - 1 |-> 0]
                                ELSE Disp!Within(F[i].counts, c.start, c.to)]
<1>0. /\ time \in Nat /\ time <= DispatchTime /\ None \notin Int
      /\ \A q \in Hosted : CellInv(cell[q], time) /\ SentInv(cell[q], time) /\ StageInv(cell[q], time)
                           /\ SeriesOf(cell[q], cell[q].file, time)
                           /\ SeriesOf(cell[q], cell[q].own, time)
      /\ Listing(r, cell)
  BY DEF HostInv, CellInv, Disp!SeriesConstants
<1>1. /\ c.to # None /\ c.to \in Nat /\ c.start <= c.to /\ c.to <= time /\ c.own # None
      /\ c.died = None => c.own.final
  BY <1>0 DEF StageInv
<1>2. c.start \in Nat
  BY <1>0 DEF SentInv
<1>3. /\ c.runs \in Seq(Hosted \ {r})
      /\ \A q \in Hosted \ {r} : (\E i \in DOMAIN c.runs : c.runs[i] = q) \/ Silent(cell[q].sent, c.start, c.to)
  BY <1>0, <1>1 DEF Listing
<1>4. /\ n \in Nat /\ runs \in [1..n -> Hosted] /\ DOMAIN runs = 1..n /\ 1 \in 1..n /\ runs[1] = r
      /\ \A q : (\E i \in DOMAIN c.runs : c.runs[i] = q) => \E i \in 1..n : runs[i] = q
  <2> DEFINE l == c.runs
  <2>1. l \in Seq(Hosted)
    <3> HIDE DEF c
    <3> QED
      BY <1>3, SeqMonotonic
  <2> HIDE DEF l
  <2>2. /\ Len(<<r>> \o l) = 1 + Len(l) /\ Len(l) \in Nat /\ DOMAIN l = 1..Len(l)
        /\ <<r>> \o l \in [1..1 + Len(l) -> Hosted] /\ (<<r>> \o l)[1] = r
        /\ \A i \in 1..Len(l) : (<<r>> \o l)[1 + i] = l[i] /\ 1 + i \in 1..1 + Len(l)
    <3> DEFINE e == <<r>>
               o == e \o l
               k == Len(l)
    <3>1. e \in Seq(Hosted) /\ Len(e) = 1 /\ e[1] = r /\ k \in Nat /\ DOMAIN l = 1..k
      BY <2>1
    <3> HIDE DEF e
    <3>2. /\ o \in Seq(Hosted) /\ Len(o) = Len(e) + k
          /\ \A i \in 1..Len(e) + k : o[i] = IF i <= Len(e) THEN e[i] ELSE l[i - Len(e)]
      BY <2>1, <3>1, ConcatProperties
    <3> HIDE DEF o, k
    <3>3. /\ Len(o) = 1 + k
          /\ \A i \in 1..1 + k : o[i] = IF i <= 1 THEN e[i] ELSE l[i - 1]
      BY <3>1, <3>2
    <3>4. o \in [1..1 + k -> Hosted]
      BY <3>2, <3>3, LenProperties
    <3>5. 1 \in 1..1 + k /\ \A i \in 1..k : 1 + i \in 1..1 + k /\ ~(1 + i <= 1) /\ 1 + i - 1 = i
      BY <3>1
    <3>6. o[1] = r /\ \A i \in 1..k : o[1 + i] = l[i]
      BY <3>1, <3>3, <3>5
    <3> QED
      BY <3>1, <3>3, <3>4, <3>5, <3>6 DEF o, k, e
  <2> QED
    BY <2>2 DEF l
<1>5. /\ d.from = c.start /\ d.to = c.to
      /\ d.counts = [s \in Disp!Secs |->
            Disp!AddUp([i \in DOMAIN runs |->
               IF (IF runs[i] = r THEN c.own ELSE cell[runs[i]].file) = None THEN 0
               ELSE Disp!Within((IF runs[i] = r THEN c.own ELSE cell[runs[i]].file).counts, c.start, c.to)[s]],
               1, Len(runs))]
      /\ d.sources = [i \in DOMAIN runs |->
            Disp!Source(runs[i], c.start, c.to, IF runs[i] = r THEN c.own ELSE cell[runs[i]].file)]
      /\ d.max = Disp!Max({ d.counts[s] : s \in Disp!Secs })
  BY DEF Disp!Aggregate
<1> HIDE DEF runs, n
<1>6. m \in Nat /\ Disp!Secs = 0..m - 1
  <2>1. Disp!Sec(DispatchTime) \in Nat
    BY SecIs DEF Disp!SeriesConstants
  <2> QED
    BY <2>1 DEF Disp!Secs
<1>7. ASSUME NEW i \in 1..n
      PROVE  /\ runs[i] \in Hosted /\ SeriesOf(cell[runs[i]], F[i], time)
             /\ w[i] \in [0..m - 1 -> Nat]
             /\ F[i] = None => AddUp(w[i], 0, m) = 0
  <2>1. runs[i] \in Hosted
    BY <1>4
  <2>2. SeriesOf(cell[runs[i]], F[i], time)
    BY <1>0, <2>1
  <2> DEFINE z == [s \in 0..m - 1 |-> 0]
             v == Disp!Within(F[i].counts, c.start, c.to)
  <2>3. w[i] = IF F[i] = None THEN z ELSE v
    OBVIOUS
  <2>4. z \in [0..m - 1 -> Nat] /\ AddUp(z, 0, m) = 0
    BY <1>6, ZeroSum
  <2>5. ASSUME F[i] # None PROVE v \in [0..m - 1 -> Nat]
    <3>1. SentInv(cell[runs[i]], time)
      BY <1>0, <2>1
    <3> HIDE DEF F, c, m
    <3> QED
      BY <1>1, <1>2, <1>6, <2>2, <2>5, <3>1, WithinCounts
  <2> HIDE DEF F, w, z, v, m, c
  <2> QED
    BY <2>1, <2>2, <2>3, <2>4, <2>5
<1>8. w \in [1..n -> [0..m - 1 -> Nat]]
  BY <1>7
<1>9. d.counts = [s \in 0..m - 1 |-> AddUp([i \in 1..n |-> w[i][s]], 1, n)]
  <2> DEFINE Row(s) == [i \in DOMAIN runs |->
                          IF (IF runs[i] = r THEN c.own ELSE cell[runs[i]].file) = None THEN 0
                          ELSE Disp!Within((IF runs[i] = r THEN c.own ELSE cell[runs[i]].file).counts,
                                           c.start, c.to)[s]]
             Col(s) == [i \in 1..n |-> w[i][s]]
  <2>1. d.counts = [s \in Disp!Secs |-> Disp!AddUp(Row(s), 1, Len(runs))]
    BY <1>5
  <2>2. ASSUME NEW s \in 0..m - 1 PROVE Row(s) = Col(s)
    <3>1. ASSUME NEW i \in 1..n
          PROVE  w[i][s] = IF F[i] = None THEN 0 ELSE Disp!Within(F[i].counts, c.start, c.to)[s]
      OBVIOUS
    <3>2. \A i \in 1..n : F[i] = IF runs[i] = r THEN c.own ELSE cell[runs[i]].file
      OBVIOUS
    <3> HIDE DEF w, F, c
    <3> QED
      BY <1>4, <3>1, <3>2
  <2> HIDE DEF Row, Col
  <2>3. \A s \in 0..m - 1 : Disp!AddUp(Row(s), 1, Len(runs)) = AddUp(Col(s), 1, n)
    BY <2>2, AddUpNames DEF n
  <2>4. d.counts = [s \in 0..m - 1 |-> AddUp(Col(s), 1, n)]
    BY <1>6, <2>1, <2>3
  <2> QED
    BY <2>4 DEF Col
<1>10. /\ DOMAIN d.sources = 1..n
       /\ \A i \in 1..n : d.sources[i] = Disp!Source(runs[i], c.start, c.to, F[i])
  BY <1>4, <1>5
<1>11. ASSUME NEW i \in 1..n
       PROVE  /\ d.sources[i].run = runs[i] /\ d.sources[i].n = AddUp(w[i], 0, m)
              /\ F[i] # None => d.sources[i].final = F[i].final
  <2>1. w[i] = IF F[i] = None THEN [s \in 0..m - 1 |-> 0]
               ELSE Disp!Within(F[i].counts, c.start, c.to)
    OBVIOUS
  <2>2. F[i] = None => AddUp(w[i], 0, m) = 0
    BY <1>7
  <2>3. F[i] # None => AddUp(w[i], 0, m) = Disp!Total(Disp!Within(F[i].counts, c.start, c.to))
    BY <2>1, AddUpNames DEF Disp!Total
  <2> HIDE DEF w, F, c, m
  <2>4. d.sources[i] = Disp!Source(runs[i], c.start, c.to, F[i])
    BY <1>10
  <2>5. CASE F[i] = None
    BY <2>2, <2>4, <2>5 DEF Disp!Source
  <2>6. CASE F[i] # None
    BY <2>3, <2>4, <2>6 DEF Disp!Source
  <2> QED
    BY <2>5, <2>6
<1>12. \A i \in 1..n : d.sources[i].n \in Nat
  <2> SUFFICES ASSUME NEW i \in 1..n PROVE AddUp(w[i], 0, m) \in Nat
    BY <1>11
  <2>1. Addends(w[i], 0, m)
    <3>1. w[i] \in [0..m - 1 -> Nat]
      BY <1>7
    <3> HIDE DEF w, m
    <3>2. \A k \in 1..m : 0 + k - 1 \in 0..m - 1
      BY <1>6
    <3> QED
      BY <1>6, <3>1, <3>2 DEF Addends
  <2> QED
    BY <2>1, AddUpNext
<1>13. SumChecks(r, c, d)
  <2>1. [i \in DOMAIN d.sources |-> d.sources[i].run] = runs
    <3> HIDE DEF F, w, c, m
    <3> QED
      BY <1>4, <1>10, <1>11
  <2>2. d.sources[1].final \/ c.died # None
    <3>1. F[1] = c.own
      BY <1>4
    <3> HIDE DEF F, w, c, m
    <3> QED
      BY <1>1, <1>4, <1>11, <3>1
  <2>3. Disp!Total(d.counts) = AddUp([i \in DOMAIN d.sources |-> d.sources[i].n], 1, Len(d.sources))
    <3>1. [i \in DOMAIN d.sources |-> d.sources[i].n] = [i \in 1..n |-> AddUp(w[i], 0, m)]
      <4> HIDE DEF F, w, c, m
      <4> QED
        BY <1>10, <1>11
    <3>2. Len(d.sources) = n
      <4> DEFINE g == d.sources
                 V == { g[i] : i \in 1..n }
      <4>1. g \in [1..n -> V]
        BY <1>4, <1>5
      <4> HIDE DEF g, V
      <4>2. g \in Seq(V) /\ DOMAIN g = 1..n
        BY <1>4, <4>1
      <4>3. Len(g) = n
        BY <1>4, <4>2
      <4> QED
        BY <4>3 DEF g
    <3>3. Disp!Total(d.counts) = AddUp(d.counts, 0, m)
      BY AddUpNames DEF Disp!Total
    <3>4. AddUp(d.counts, 0, m) = AddUp([i \in 1..n |-> AddUp(w[i], 0, m)], 1, n)
      <4> HIDE DEF F, w, c, m
      <4> QED
        BY <1>4, <1>6, <1>8, <1>9, SumsExchange
    <3> QED
      BY <3>1, <3>2, <3>3, <3>4
  <2>4. d.max = Disp!Max({ d.counts[s] : s \in DOMAIN d.counts })
    <3>1. DOMAIN d.counts = Disp!Secs
      BY <1>6, <1>9
    <3> QED
      BY <1>5, <3>1
  <2> QED
    BY <1>1, <1>5, <2>1, <2>2, <2>3, <2>4 DEF SumChecks, runs
<1>14. ASSUME NEW i \in 1..n
       PROVE  /\ Covering(cell[runs[i]].sent, d.sources[i], d)
              /\ d.sources[i].through = None \/ d.sources[i].through \in Int
  <2>1. /\ Disp!SourceCounts(runs[i], d.sources[i], d)
        /\ d.sources[i].through = None \/ d.sources[i].through \in Int
    <3>1. SentInv(cell[runs[i]], time) /\ SeriesOf(cell[runs[i]], F[i], time)
      BY <1>0, <1>7
    <3> HIDE DEF F, w, c, m
    <3>2. d.from = c.start /\ d.to = c.to
      BY <1>5
    <3>3. d.from \in Nat /\ d.to \in Nat
      BY <1>1, <1>2, <3>2
    <3>4. d.sources[i] = Disp!Source(runs[i], d.from, d.to, F[i])
      BY <1>10, <3>2
    <3> QED
      BY <1>0, <3>1, <3>3, <3>4, SourceIsSound
  <2> QED
    BY <2>1, SeriesNames DEF Disp!SourceCounts, Covering, Disp!Between, SentIn
<1>15. SumTypes(d, time)
  BY <1>1, <1>2, <1>5, <1>10, <1>12, <1>14 DEF SumTypes
<1>16. ASSUME NEW q \in Hosted PROVE Accounts(cell[q].sent, q, d)
  <2>1. CASE \E i \in 1..n : runs[i] = q
    <3> HIDE DEF F, w, c, m
    <3> QED
      BY <1>10, <1>11, <1>14, <2>1 DEF Accounts
  <2>2. CASE \A i \in 1..n : runs[i] # q
    <3>1. q # r /\ ~\E i \in DOMAIN c.runs : c.runs[i] = q
      BY <1>4, <2>2
    <3>2. Silent(cell[q].sent, d.from, d.to)
      BY <1>3, <1>5, <3>1
    <3>3. cell[q].sent \in Seq(Nat)
      BY <1>0 DEF SentInv
    <3>4. SentIn(cell[q].sent, d.from, d.to) = {}
      <4> DEFINE u == cell[q].sent
      <4>1. u \in Seq(Nat) /\ Silent(u, d.from, d.to)
        BY <3>2, <3>3
      <4> HIDE DEF u
      <4>2. \A i \in DOMAIN u : u[i] \in Nat
        BY <4>1, ElementOfSeq
      <4>3. SentIn(u, d.from, d.to) = {}
        BY <1>1, <1>2, <1>5, <4>1, <4>2 DEF SentIn, Silent
      <4> QED
        BY <4>3 DEF u
    <3> HIDE DEF F, w, c, m
    <3> QED
      BY <1>10, <1>11, <2>2, <3>4 DEF Accounts
  <2> QED
    BY <2>1, <2>2
<1> QED
  BY <1>13, <1>15, <1>16

\* The sum is made once every concurrent run's series was waited for.
LEMMA ReadKeeps ==
    ASSUME Disp!SeriesConstants, HostInv(cell, time), NEW r \in Hosted, Disp!Read(r)
    PROVE  HostInv(cell', time')
<1> DEFINE c == cell[r]
           a == Disp!Aggregate(r)
           d == [c EXCEPT !.pc = "read", !.own = None, !.deadline = None, !.agg = a]
           G == [cell EXCEPT ![r] = d]
<1>1. c.pc = "listed" /\ cell' = G /\ time' = time
  BY DEF Disp!Read, Disp!Set
<1>2. CellInv(c, time) /\ Listing(r, cell) /\ time \in Nat /\ None \notin Int
  BY DEF HostInv, Disp!SeriesConstants
<1>3. /\ SumTypes(a, time) /\ SumChecks(r, c, a)
      /\ \A q \in Hosted : Accounts(cell[q].sent, q, a)
  BY <1>1, AggregateIs
<1>4. G[r] = d /\ \A q \in Hosted \ {r} : G[q] = cell[q]
  BY DEF HostInv
<1> HIDE DEF a
<1>5. /\ HostShape(d) /\ d.pc = "read" /\ d.start = c.start /\ d.end = c.end /\ d.died = c.died
      /\ d.sent = c.sent /\ d.counted = c.counted /\ d.file = c.file /\ d.own = None
      /\ d.to = c.to /\ d.runs = c.runs /\ d.agg = a
  <2> HIDE DEF c
  <2> QED
    BY <1>2 DEF CellInv, HostShape, HostFields
<1> HIDE DEF d, G
<1>6. SentInv(d, time)
  BY <1>1, <1>2, <1>5 DEF CellInv, SentInv
<1>7. StageInv(d, time)
  BY <1>1, <1>2, <1>5 DEF CellInv, StageInv
<1>8. SeriesOf(d, d.file, time) /\ SeriesOf(d, d.own, time)
  BY <1>2, <1>5, SeriesSame DEF CellInv, SeriesOf
<1>9. CellInv(d, time)
  BY <1>5, <1>6, <1>7, <1>8 DEF CellInv
<1>10. \A q \in Hosted : G[q].sent = cell[q].sent
  BY <1>4, <1>5
<1>11. Listing(r, G)
  BY <1>2, <1>4, <1>5, <1>10 DEF Listing
<1>12. SumInv(r, G, time)
  <2>1. SumChecks(r, d, a)
    BY <1>3, <1>5 DEF SumChecks
  <2> QED
    BY <1>3, <1>4, <1>5, <1>10, <2>1 DEF SumInv
<1>13. HostInv(G, time)
  BY <1>5, <1>9, <1>11, <1>12, CellStep DEF G, c
<1> QED
  BY <1>1, <1>13

\* Before anything runs.
LEMMA SeriesInit ==
    ASSUME Disp!SeriesConstants, Disp!Init PROVE HostInv(cell, time)
<1> DEFINE c == Disp!NoCell
<1>1. /\ c.pc = "idle" /\ c.start = None /\ c.end = None /\ c.died = None /\ c.sent = <<>>
      /\ c.counted = {} /\ c.file = None /\ c.own = None /\ c.to = None /\ c.agg = None
      /\ HostShape(c)
  BY DEF Disp!NoCell, HostShape, HostFields
<1>2. time = 0 /\ cell = [r \in Hosted |-> c] /\ DispatchTime \in Nat
  BY DEF Disp!Init, Disp!SeriesConstants
<1> HIDE DEF c
<1>3. SentInv(c, 0) /\ StageInv(c, 0) /\ SeriesOf(c, c.file, 0) /\ SeriesOf(c, c.own, 0)
  BY <1>1 DEF SentInv, StageInv, SeriesOf
<1>4. ASSUME NEW r \in Hosted PROVE CellInv(cell[r], 0) /\ Listing(r, cell) /\ SumInv(r, cell, 0)
  <2>1. cell[r] = c
    BY <1>2
  <2> QED
    BY <1>1, <1>3, <2>1 DEF CellInv, Listing, SumInv
<1> QED
  BY <1>2, <1>4 DEF HostInv

\* Every step of the host keeps the invariant.
LEMMA SeriesNext ==
    ASSUME Disp!SeriesConstants, NoneIsNoRecord, HostInv(cell, time), [Disp!Next]_(Disp!seriesVars)
    PROVE  HostInv(cell', time')
<1>1. CASE UNCHANGED Disp!seriesVars
  BY <1>1 DEF Disp!seriesVars
<1>2. CASE Disp!Tick
  BY <1>2, TickKeeps
<1>3. ASSUME NEW r \in Hosted,
             \/ Disp!Begin(r) \/ Disp!StartLive(r) \/ Disp!Dispatch(r) \/ Disp!Flush(r) \/ Disp!Stop(r)
             \/ \E i \in 1..MaxDispatches : Disp!Count(r, i)
             \/ Disp!List(r) \/ Disp!Read(r) \/ Disp!Record(r) \/ Disp!LabelCell(r)
             \/ \E labelled \in BOOLEAN : Disp!Crash(r, labelled)
      PROVE  HostInv(cell', time')
  BY <1>3, SeriesBeginKeeps, FlushKeeps, DispatchKeeps, CountKeeps, StopKeeps, ListKeeps, ReadKeeps,
     RecordKeeps, SeriesLabelKeeps, SeriesCrashKeeps
<1> QED
  BY <1>1, <1>2, <1>3 DEF Disp!Next

\* A host whose sums are right accounts for every dispatch.
LEMMA SeriesFollows ==
    ASSUME HostInv(cell, time) PROVE Disp!SeriesAccounted
<1> SUFFICES ASSUME NEW r \in Hosted, cell[r].agg # None
             PROVE  ~Disp!DispatchProblems(r) /\ \A q \in Hosted : Disp!Accounted(q, cell[r].agg)
  BY DEF Disp!SeriesAccounted
<1> DEFINE d == cell[r].agg
<1>1. /\ SumTypes(d, time) /\ SumChecks(r, cell[r], d)
      /\ \A q \in Hosted : Accounts(cell[q].sent, q, d)
  BY DEF HostInv, SumInv
<1>2. ~Disp!DispatchProblems(r)
  <2>1. ~(d.to < d.from)
    BY <1>1 DEF SumChecks, SumTypes
  <2> QED
    BY <1>1, <2>1, AddUpNames DEF SumChecks, Disp!DispatchProblems
<1>3. ASSUME NEW q \in Hosted PROVE Disp!Accounted(q, d)
  <2>1. \A i \in DOMAIN d.sources : Covering(cell[q].sent, d.sources[i], d)
                                      => Disp!SourceCounts(q, d.sources[i], d)
    BY SeriesNames DEF Covering, Disp!SourceCounts, Disp!Between, SentIn
  <2>2. Disp!Between(q, d.from, d.to) = SentIn(cell[q].sent, d.from, d.to)
    BY DEF Disp!Between, SentIn
  <2> HIDE DEF d
  <2> QED
    BY <1>1, <2>1, <2>2 DEF Accounts, Disp!Accounted
<1> QED
  BY <1>2, <1>3

-----------------------------------------------------------------------------
(* Detector. *)

\* Induction down from n, on the set of the indices reached.
LEMMA Descend ==
    ASSUME NEW n \in Nat, NEW A, \A i \in Nat : i >= n => i \in A,
           \A i \in Nat : (\A k \in Nat : k > i => k \in A) => i \in A
    PROVE  \A i \in Nat : i \in A
<1> DEFINE T == Nat \ A
<1> SUFFICES ASSUME T # {} PROVE FALSE
  OBVIOUS
<1>1. n \in Int /\ T \in SUBSET Int /\ \A i \in T : i <= n
  OBVIOUS
<1>2. Max(T) \in T /\ \A i \in T : i <= Max(T)
  <2> HIDE DEF T
  <2> QED
    BY <1>1, MaxIs
<1>3. PICK m \in T : \A i \in T : i <= m
  BY <1>2
<1>4. m \in Nat /\ m \notin A
  OBVIOUS
<1>5. ASSUME NEW k \in Nat, k > m PROVE k \in A
  BY <1>3, <1>4, <1>5
<1> QED
  BY <1>4, <1>5

\* The loop's running total.
Runs(f, i, n, sum) ==
    /\ sum[0] = 0
    /\ \A k \in 1..n : sum[k] = sum[k - 1] + Det!InSeries(f, i + k - 1)
    /\ \A k \in 0..n : sum[k] \in Nat

\* The loop adds up counts.
LEMMA TotalIs ==
    ASSUME NEW f, \A j \in DOMAIN f : f[j] \in Nat, NEW i \in Nat, NEW n \in Nat
    PROVE  \E sum : Runs(f, i, n, sum) /\ Det!Total(f, i, n) = sum[n]
<1> DEFINE v == [k \in 1..n |-> Det!InSeries(f, i + k - 1)]
           g == [x \in Nat \X (1..n) |-> x[1] + v[x[2]]]
           Upto(s) == s = [k \in 0..n |-> IF k = 0 THEN 0 ELSE s[k - 1] + Det!InSeries(f, i + k - 1)]
<1>1. v \in [1..n -> Nat]
  BY DEF Det!InSeries
<1>2. \A k \in 1..n : v[k] = Det!InSeries(f, i + k - 1)
  OBVIOUS
<1> HIDE DEF v
<1>3. g \in [Nat \X (1..n) -> Nat]
  BY <1>1
<1> HIDE DEF g
<1>4. PICK h : Unwinds(h, Nat, 0, n, g)
  BY <1>3, Recursion
<1>5. h \in [0..n -> Nat] /\ h[0] = 0 /\ \A k \in 1..n : h[k] = g[<<h[k - 1], k>>]
  BY <1>4 DEF Unwinds
<1>6. ASSUME NEW k \in 1..n PROVE h[k] = h[k - 1] + v[k]
  <2>1. k - 1 \in 0..n
    OBVIOUS
  <2>2. <<h[k - 1], k>> \in Nat \X (1..n)
    BY <1>5, <2>1
  <2> QED
    BY <1>5, <2>2 DEF g
<1>7. Upto(h)
  <2>1. ASSUME NEW k \in 0..n
        PROVE  h[k] = IF k = 0 THEN 0 ELSE h[k - 1] + Det!InSeries(f, i + k - 1)
    <3>1. k = 0 \/ k \in 1..n
      OBVIOUS
    <3> QED
      BY <1>2, <1>5, <1>6, <3>1
  <2> QED
    BY <1>5, <2>1
<1>8. PICK s : Upto(s) /\ Det!Total(f, i, n) = s[n]
  BY <1>7 DEF Det!Total
<1>9. s[0] = 0 /\ \A k \in 1..n : s[k] = s[k - 1] + Det!InSeries(f, i + k - 1)
  <2>1. 0 \in 0..n /\ \A k \in 1..n : k \in 0..n /\ k # 0
    OBVIOUS
  <2>2. \A k \in 0..n : s[k] = IF k = 0 THEN 0 ELSE s[k - 1] + Det!InSeries(f, i + k - 1)
    BY <1>8
  <2> QED
    BY <2>1, <2>2
<1> DEFINE A == { k \in 0..n : s[k] \in Nat }
<1>10. 0 \in A
  BY <1>9
<1>11. ASSUME NEW k \in 1..n, k - 1 \in A PROVE k \in A
  <2>1. s[k - 1] \in Nat /\ v[k] \in Nat /\ s[k] = s[k - 1] + v[k]
    BY <1>1, <1>2, <1>9, <1>11
  <2>2. k \in 0..n
    OBVIOUS
  <2> QED
    BY <2>1, <2>2
<1> HIDE DEF A
<1>12. \A k \in 0..n : k \in A
  BY <1>10, <1>11, Climb
<1>13. \A k \in 0..n : s[k] \in Nat
  BY <1>12 DEF A
<1> QED
  BY <1>8, <1>9, <1>13 DEF Runs

\* The seconds of [i, i + k) that a series of n does not have.
Missing(n, i, k) == IF i + k <= n THEN 0 ELSE IF i >= n THEN k ELSE i + k - n

\* One more of them, or not.
LEMMA MissingNext ==
    ASSUME NEW n \in Nat, NEW i \in Nat, NEW k \in Nat \ {0}
    PROVE  /\ Missing(n, i, k - 1) \in Nat /\ Missing(n, i, k) \in 0..k /\ Missing(n, i, 0) = 0
           /\ i + k - 1 \in 0..n - 1 => Missing(n, i, k) = Missing(n, i, k - 1)
           /\ i + k - 1 \notin 0..n - 1 => Missing(n, i, k) = Missing(n, i, k - 1) + 1
  BY DEF Missing

\* A product with the next number.
LEMMA TimesNext ==
    ASSUME NEW l \in Nat, NEW m \in Nat
    PROVE  l * m \in Nat /\ l * 0 = 0 /\ l * (m + 1) = l * m + l
  OBVIOUS

\* The series f of n seconds gone on at l a second, as far as the window
\* [i, i + w) needs it.
Continues(f, g, n, m, l, i, w) ==
    /\ n \in Nat /\ m \in Nat /\ n <= m /\ l \in Nat /\ i \in Nat /\ w \in Nat /\ i + w <= m
    /\ f \in [0..n - 1 -> Nat] /\ g \in [0..m - 1 -> Nat]
    /\ \A j \in 0..m - 1 : g[j] = IF j < n THEN f[j] ELSE l

\* A series gone on at l a second: the window's total has l more for every
\* second the series did not have.
LEMMA TotalExtended ==
    ASSUME NEW f, NEW g, NEW n, NEW m, NEW l, NEW i, NEW w, Continues(f, g, n, m, l, i, w)
    PROVE  /\ Det!Total(f, i, w) \in Nat
           /\ Det!Total(g, i, w) = Det!Total(f, i, w) + l * Missing(n, i, w)
<1> SUFFICES ASSUME n \in Nat, m \in Nat, n <= m, l \in Nat, i \in Nat, w \in Nat, i + w <= m,
                    f \in [0..n - 1 -> Nat], g \in [0..m - 1 -> Nat],
                    \A j \in 0..m - 1 : g[j] = IF j < n THEN f[j] ELSE l
             PROVE  /\ Det!Total(f, i, w) \in Nat
                    /\ Det!Total(g, i, w) = Det!Total(f, i, w) + l * Missing(n, i, w)
  BY DEF Continues
<1>1. PICK s : Runs(f, i, w, s) /\ Det!Total(f, i, w) = s[w]
  BY TotalIs
<1>2. PICK t : Runs(g, i, w, t) /\ Det!Total(g, i, w) = t[w]
  BY TotalIs
<1> DEFINE A == { k \in 0..w : t[k] = s[k] + l * Missing(n, i, k) }
<1>3. 0 \in A
  <2>1. Missing(n, i, 0) = 0 \/ Missing(n, i, 0) = 0
    BY DEF Missing
  <2>2. l * 0 = 0
    OBVIOUS
  <2>3. s[0] = 0 /\ t[0] = 0
    BY <1>1, <1>2 DEF Runs
  <2>4. t[0] = s[0] + l * Missing(n, i, 0)
    BY <2>1, <2>2, <2>3
  <2> QED
    BY <2>4
<1>4. ASSUME NEW k \in 1..w, k - 1 \in A PROVE k \in A
  <2> DEFINE j == i + k - 1
             a == s[k - 1]
             p == Missing(n, i, k - 1)
             q == Missing(n, i, k)
  <2>1. t[k - 1] = a + l * p
    BY <1>4
  <2>2. k - 1 \in 0..w /\ k \in 0..w /\ j \in 0..m - 1 /\ k \in Nat \ {0}
    OBVIOUS
  <2>3. a \in Nat /\ s[k] = a + Det!InSeries(f, j) /\ t[k] = t[k - 1] + Det!InSeries(g, j)
    BY <1>1, <1>2, <2>2 DEF Runs
  <2>4. p \in Nat /\ q \in Nat /\ l * p \in Nat /\ l * (p + 1) = l * p + l
    <3>1. p \in Nat /\ q \in Nat
      BY <2>2 DEF Missing
    <3> HIDE DEF p, q
    <3> QED
      BY <3>1, TimesNext
  <2>5. CASE j \in 0..n - 1
    <3>1. q = p
      BY <2>2, <2>5, MissingNext
    <3>2. Det!InSeries(g, j) = f[j] /\ Det!InSeries(f, j) = f[j] /\ f[j] \in Nat
      BY <2>2, <2>5 DEF Det!InSeries
    <3> HIDE DEF j, a, p, q
    <3>3. t[k] = s[k] + l * q
      BY <2>1, <2>3, <2>4, <3>1, <3>2, SMTT(30)
    <3> QED
      BY <2>2, <3>3 DEF q
  <2>6. CASE j \notin 0..n - 1
    <3>1. q = p + 1
      BY <2>2, <2>6, MissingNext
    <3>2. Det!InSeries(g, j) = l /\ Det!InSeries(f, j) = 0
      BY <2>2, <2>6 DEF Det!InSeries
    <3> HIDE DEF j, a, p, q
    <3>3. t[k] = s[k] + l * q
      BY <2>1, <2>3, <2>4, <3>1, <3>2
    <3> QED
      BY <2>2, <3>3 DEF q
  <2> QED
    BY <2>5, <2>6
<1>5. w \in A
  <2> HIDE DEF A
  <2>1. \A k \in 0..w : k \in A
    BY <1>3, <1>4, Climb
  <2> QED
    BY <2>1
<1>6. s[w] \in Nat
  BY <1>1 DEF Runs
<1> QED
  BY <1>1, <1>2, <1>5, <1>6

\* A series of l a second: the window's total is l for every second it has.
LEMMA TotalConstant ==
    ASSUME NEW n \in Nat, NEW l \in Nat, NEW f \in [0..n - 1 -> Nat], \A j \in 0..n - 1 : f[j] = l,
           NEW i \in Nat, NEW w \in Nat
    PROVE  Det!Total(f, i, w) = l * (w - Missing(n, i, w))
<1>1. PICK s : Runs(f, i, w, s) /\ Det!Total(f, i, w) = s[w]
  BY TotalIs
<1> DEFINE A == { k \in 0..w : s[k] = l * (k - Missing(n, i, k)) }
<1>2. 0 \in A
  <2>1. Missing(n, i, 0) = 0
    BY DEF Missing
  <2>2. l * (0 - 0) = 0
    OBVIOUS
  <2>3. s[0] = 0
    BY <1>1 DEF Runs
  <2>4. s[0] = l * (0 - Missing(n, i, 0))
    BY <2>1, <2>2, <2>3
  <2> QED
    BY <2>4
<1>3. ASSUME NEW k \in 1..w, k - 1 \in A PROVE k \in A
  <2> DEFINE j == i + k - 1
             p == Missing(n, i, k - 1)
             q == Missing(n, i, k)
             u == k - 1 - p
  <2>1. s[k - 1] = l * u
    BY <1>3
  <2>2. k \in 0..w /\ k \in Nat \ {0} /\ j \in Nat
    OBVIOUS
  <2>3. s[k] = s[k - 1] + Det!InSeries(f, j)
    BY <1>1, <2>2 DEF Runs
  <2>4. p \in 0..k - 1 /\ q \in 0..k
    <3>1. p \in Nat /\ p <= k - 1
      BY <2>2 DEF Missing
    <3> QED
      BY <2>2, <3>1, MissingNext
  <2>5. CASE j \in 0..n - 1
    <3>1. q = p
      BY <2>2, <2>5, MissingNext
    <3>2. Det!InSeries(f, j) = l
      BY <2>2, <2>5 DEF Det!InSeries
    <3>3. u \in Nat /\ k - q = u + 1
      BY <2>2, <2>4, <3>1
    <3> HIDE DEF j, p, q, u
    <3>4. l * (u + 1) = l * u + l
      BY <3>3, TimesNext
    <3>5. s[k] = l * (k - q)
      BY <2>1, <2>3, <3>2, <3>3, <3>4
    <3> QED
      BY <2>2, <3>5 DEF q
  <2>6. CASE j \notin 0..n - 1
    <3>1. q = p + 1
      BY <2>2, <2>6, MissingNext
    <3>2. Det!InSeries(f, j) = 0
      BY <2>2, <2>6 DEF Det!InSeries
    <3>3. u \in Nat /\ k - q = u
      BY <2>2, <2>4, <3>1
    <3> HIDE DEF j, p, q, u
    <3>4. l * u \in Nat
      BY <3>3, TimesNext
    <3>5. s[k] = l * (k - q)
      BY <2>1, <2>3, <3>2, <3>3, <3>4
    <3> QED
      BY <2>2, <3>5 DEF q
  <2> QED
    BY <2>5, <2>6
<1>4. w \in A
  <2> HIDE DEF A
  <2>1. \A k \in 0..w : k \in A
    BY <1>2, <1>3, Climb
  <2> QED
    BY <2>1
<1> QED
  BY <1>1, <1>4

-----------------------------------------------------------------------------

\* The series, and the window and the hold of a detection.
LEMMA InputIs ==
    ASSUME Det!DetectorConstants, NEW x \in Det!Input
    PROVE  /\ DOMAIN x.buckets = 0..Length - 1 /\ Length \in Nat /\ Det!Len(x) = Length
           /\ \A j \in 0..Length - 1 : x.buckets[j].good \in Nat /\ x.buckets[j].sched \in Nat
           /\ x.window \in Nat \ {0} /\ x.hold \in Nat /\ x.baseline \in Nat
           /\ x.first \in Nat /\ x.timeout \in Int
           /\ Det!Last(x) \in Int /\ Det!Last(x) <= Length
<1>1. /\ x.buckets \in [0..Length - 1 -> Det!Bucket] /\ x.window \in WindowSizes /\ x.hold \in Holds
      /\ x.baseline \in Baselines /\ x.first \in Firsts /\ x.timeout \in Timeouts
  BY DEF Det!Input
<1>2. /\ Length \in Nat /\ x.window \in Nat \ {0} /\ x.hold \in Nat /\ x.baseline \in Nat
      /\ x.first \in Nat /\ x.timeout \in Int
  BY <1>1 DEF Det!DetectorConstants
<1>3. Det!Len(x) = Length
  <2>1. 0 \in Int /\ Length - 1 \in Int
    BY <1>2
  <2>2. Cardinality(0..Length - 1) = IF 0 > Length - 1 THEN 0 ELSE Length - 1 - 0 + 1
    BY <2>1, FS_Interval
  <2>3. Cardinality(0..Length - 1) = Length
    BY <1>2, <2>2
  <2> QED
    BY <1>1, <2>3 DEF Det!Len, Det!Cardinality, Cardinality
<1>4. \A j \in 0..Length - 1 : x.buckets[j].good \in Nat /\ x.buckets[j].sched \in Nat
  <2>1. \A b \in Det!Bucket : b.good \in Nat /\ b.sched \in Nat
    <3> SUFFICES ASSUME NEW b \in Det!Bucket PROVE b.good \in Nat /\ b.sched \in Nat
      OBVIOUS
    <3>1. PICK l \in Loads : b \in [good : 0..l, sched : {l}]
      BY DEF Det!Bucket
    <3>2. l \in Nat
      BY DEF Det!DetectorConstants
    <3> QED
      BY <3>1, <3>2
  <2> QED
    BY <1>1, <2>1
<1> QED
  BY <1>1, <1>2, <1>3, <1>4 DEF Det!Last

\* What is seen of a window is what is not missing.
LEMMA ObservedIs ==
    ASSUME Det!DetectorConstants, NEW x \in Det!Input, NEW i \in Nat
    PROVE  /\ Det!Observed(x, i) = x.window - Missing(Length, i, x.window)
           /\ Missing(Length, i, x.window) \in 0..x.window
           /\ Missing(Length, i, x.window) = 0 <=> i + x.window <= Length
<1> DEFINE w == x.window
           n == Length
           c == IF i + w <= n THEN i + w - 1 ELSE n - 1
<1>1. n \in Nat /\ w \in Nat \ {0} /\ DOMAIN x.buckets = 0..n - 1
  BY InputIs
<1>2. Det!Cut(x, i) = i..c
  <2>1. Det!Cut(x, i) = { j \in i..i + w - 1 : j \in 0..n - 1 }
    BY <1>1 DEF Det!Cut
  <2> HIDE DEF w, n
  <2>2. { j \in i..i + w - 1 : j \in 0..n - 1 } = i..c
    BY <1>1
  <2> QED
    BY <2>1, <2>2
<1>3. c \in Int /\ i \in Int
  BY <1>1
<1>4. Cardinality(i..c) = IF i > c THEN 0 ELSE c - i + 1
  <2> HIDE DEF c
  <2> QED
    BY <1>3, FS_Interval
<1>5. Det!Observed(x, i) = IF i > c THEN 0 ELSE c - i + 1
  BY <1>2, <1>4 DEF Det!Observed, Det!Cardinality, Cardinality
<1> HIDE DEF w, n
<1>6. (IF i > c THEN 0 ELSE c - i + 1) = w - Missing(n, i, w)
  BY <1>1 DEF Missing
<1>7. Missing(n, i, w) \in 0..w /\ (Missing(n, i, w) = 0 <=> i + w <= n)
  BY <1>1 DEF Missing
<1> QED
  BY <1>5, <1>6, <1>7 DEF w, n

-----------------------------------------------------------------------------

\* What the scan finds.
Result == [verdict : {"notRecovered", "unobserved", "recovered"}, at : Int, canceled : Nat]

\* The windows that end the hold of a candidate, and the first of them.
Broken(x, i) == { j \in Det!HoldStarts(x, i) : Det!Breaks(x, j) }
Dip(x, i) == Det!Min(Broken(x, i))

\* It is one of them, after the candidate.
LEMMA DipIs ==
    ASSUME Det!DetectorConstants, NEW x \in Det!Input, NEW i \in Nat, Broken(x, i) # {}
    PROVE  /\ Dip(x, i) \in Nat /\ Dip(x, i) \in i + 1..i + x.hold /\ Det!Breaks(x, Dip(x, i))
           /\ Det!Resume(x, i, Dip(x, i)) = Dip(x, i) + 1
<1> DEFINE B == Broken(x, i)
<1>1. x.hold \in Nat
  BY InputIs
<1>2. \A j \in B : j \in Nat /\ j \in i + 1..i + x.hold /\ Det!Breaks(x, j)
  BY <1>1 DEF Broken, Det!HoldStarts
<1>3. B \in SUBSET Nat /\ B # {}
  BY <1>2
<1> HIDE DEF B
<1>4. Min(B) \in B
  BY <1>3, MinIs
<1>5. Dip(x, i) = Min(B)
  BY DEF Dip, B, Det!Min, Min
<1>6. Dip(x, i) \in B
  BY <1>4, <1>5
<1> QED
  BY <1>2, <1>6 DEF Det!Resume

\* The scan at a bucket looks only further on.
LEMMA ScanAtSame ==
    ASSUME Det!DetectorConstants, NEW x \in Det!Input, NEW i \in Nat, NEW h, NEW g,
           \A k \in Nat : k > i => h[k] = g[k]
    PROVE  Det!ScanAt(x, h, i) = Det!ScanAt(x, g, i)
<1>1. h[i + 1] = g[i + 1]
  OBVIOUS
<1>2. ASSUME Broken(x, i) # {}
      PROVE  h[Det!Resume(x, i, Dip(x, i))] = g[Det!Resume(x, i, Dip(x, i))]
  <2>1. Dip(x, i) + 1 \in Nat /\ Dip(x, i) + 1 > i /\ Det!Resume(x, i, Dip(x, i)) = Dip(x, i) + 1
    <3>1. /\ Dip(x, i) \in Nat /\ Dip(x, i) \in i + 1..i + x.hold
          /\ Det!Resume(x, i, Dip(x, i)) = Dip(x, i) + 1
      BY <1>2, DipIs
    <3>2. x.hold \in Nat
      BY InputIs
    <3> QED
      BY <3>1, <3>2
  <2> QED
    BY <2>1
<1> QED
  BY <1>1, <1>2 DEF Det!ScanAt, Broken, Dip

\* And it gives a result.
LEMMA ScanAtIs ==
    ASSUME Det!DetectorConstants, NEW x \in Det!Input, NEW i \in Nat, NEW h,
           \A k \in Nat : k > i => h[k] \in Result
    PROVE  Det!ScanAt(x, h, i) \in Result
<1>1. h[i + 1] \in Result
  OBVIOUS
<1>2. ASSUME Broken(x, i) # {}
      PROVE  [h[Det!Resume(x, i, Dip(x, i))] EXCEPT !.canceled = @ + 1] \in Result
  <2> DEFINE r == h[Det!Resume(x, i, Dip(x, i))]
  <2>1. Dip(x, i) + 1 \in Nat /\ Dip(x, i) + 1 > i /\ Det!Resume(x, i, Dip(x, i)) = Dip(x, i) + 1
    <3>1. /\ Dip(x, i) \in Nat /\ Dip(x, i) \in i + 1..i + x.hold
          /\ Det!Resume(x, i, Dip(x, i)) = Dip(x, i) + 1
      BY <1>2, DipIs
    <3>2. x.hold \in Nat
      BY InputIs
    <3> QED
      BY <3>1, <3>2
  <2>2. r \in Result
    BY <2>1
  <2> HIDE DEF r
  <2>3. [r EXCEPT !.canceled = @ + 1] \in Result
    BY <2>2 DEF Result
  <2> QED
    BY <2>3 DEF r
<1>3. \A v \in {"notRecovered", "unobserved", "recovered"} : \A a \in Int :
         [verdict |-> v, at |-> a, canceled |-> 0] \in Result
  BY DEF Result
<1>4. -1 \in Int /\ i \in Int
  OBVIOUS
<1> QED
  BY <1>1, <1>2, <1>3, <1>4 DEF Det!ScanAt, Broken, Dip

\* The scan, from every bucket: there is one.
Scans(x, s) == \A i \in Nat : s[i] = Det!ScanAt(x, s, i) /\ s[i] \in Result

\* Built from the last bucket down.
LEMMA ScanExists ==
    ASSUME Det!DetectorConstants, NEW x \in Det!Input
    PROVE  \E s \in [Nat -> Result] : \A i \in Nat : s[i] = Det!ScanAt(x, s, i)
<1> DEFINE n == IF Det!Last(x) < 0 THEN 0 ELSE Det!Last(x)
           From(k, s) == s \in [Nat -> Result] /\ \A i \in Nat : i >= n - k => s[i] = Det!ScanAt(x, s, i)
           A == { k \in 0..n : \E s : From(k, s) }
           none == [verdict |-> "notRecovered", at |-> -1, canceled |-> 0]
<1>1. n \in Nat /\ Det!Last(x) \in Int /\ Det!Last(x) <= n
  BY InputIs
<1>2. none \in Result
  BY DEF Result
<1> HIDE DEF n
<1>3. 0 \in A
  <2> DEFINE s == [i \in Nat |-> none]
  <2>1. \A i \in Nat : s[i] = none
    OBVIOUS
  <2>2. s \in [Nat -> Result]
    BY <1>2
  <2> HIDE DEF s
  <2>3. ASSUME NEW i \in Nat, i >= n - 0 PROVE s[i] = Det!ScanAt(x, s, i)
    <3>1. i >= Det!Last(x)
      BY <1>1, <2>3
    <3> QED
      BY <2>1, <3>1 DEF Det!ScanAt
  <2>4. From(0, s)
    BY <2>2, <2>3
  <2> QED
    BY <1>1, <2>4
<1>4. ASSUME NEW k \in 1..n, k - 1 \in A PROVE k \in A
  <2>1. PICK s : From(k - 1, s)
    BY <1>4
  <2> DEFINE m == n - k
             new == Det!ScanAt(x, s, m)
             t == [s EXCEPT ![m] = new]
  <2>2. m \in Nat /\ k \in 0..n
    BY <1>1
  <2>3. s \in [Nat -> Result] /\ \A i \in Nat : i >= n - (k - 1) => s[i] = Det!ScanAt(x, s, i)
    BY <2>1
  <2> HIDE DEF m
  <2>4. new \in Result
    BY <2>2, <2>3, ScanAtIs
  <2> HIDE DEF new
  <2>5. t \in [Nat -> Result] /\ t[m] = new /\ \A i \in Nat : i # m => t[i] = s[i]
    BY <2>2, <2>3, <2>4
  <2> HIDE DEF t
  <2>6. ASSUME NEW i \in Nat, i >= n - k PROVE t[i] = Det!ScanAt(x, t, i)
    <3>1. \A j \in Nat : j > i => j # m
      BY <1>1, <2>2, <2>6 DEF m
    <3>2. \A j \in Nat : j > i => s[j] = t[j]
      BY <2>5, <3>1
    <3>3. Det!ScanAt(x, s, i) = Det!ScanAt(x, t, i)
      BY <3>2, ScanAtSame
    <3>4. CASE i = m
      BY <2>5, <3>3, <3>4 DEF new
    <3>5. CASE i # m
      <4>1. i >= n - (k - 1)
        BY <1>1, <2>2, <2>6, <3>5 DEF m
      <4> QED
        BY <2>3, <2>5, <3>3, <3>5, <4>1
    <3> QED
      BY <3>4, <3>5
  <2>7. From(k, t)
    BY <2>5, <2>6
  <2> QED
    BY <2>2, <2>7
<1>5. n \in A
  <2> HIDE DEF A
  <2>1. \A k \in 0..n : k \in A
    BY <1>1, <1>3, <1>4, Climb
  <2> QED
    BY <1>1, <2>1
<1>6. PICK s : From(n, s)
  BY <1>5
<1>7. \A i \in Nat : i >= n - n
  BY <1>1
<1> QED
  BY <1>6, <1>7

\* What Scan returns is what the scan finds from the first bucket.
LEMMA ScanIs ==
    ASSUME Det!DetectorConstants, NEW x \in Det!Input
    PROVE  \E s : Scans(x, s) /\ Det!Scan(x) = s[x.first]
<1> DEFINE Is(s) == s = [i \in Nat |-> Det!ScanAt(x, s, i)]
           n == IF Det!Last(x) < 0 THEN 0 ELSE Det!Last(x)
<1>1. PICK h \in [Nat -> Result] : \A i \in Nat : h[i] = Det!ScanAt(x, h, i)
  BY ScanExists
<1>2. Is(h)
  BY <1>1
<1>3. PICK s : Is(s) /\ Det!Scan(x) = s[x.first]
  BY <1>2 DEF Det!Scan
<1>4. \A i \in Nat : s[i] = Det!ScanAt(x, s, i)
  BY <1>3
<1>5. n \in Nat /\ Det!Last(x) \in Int /\ Det!Last(x) <= n
  BY InputIs
<1> DEFINE A == { i \in Nat : s[i] \in Result }
<1> HIDE DEF n
<1>6. ASSUME NEW i \in Nat, i >= n PROVE i \in A
  <2>1. i >= Det!Last(x)
    BY <1>5, <1>6
  <2>2. s[i] = [verdict |-> "notRecovered", at |-> -1, canceled |-> 0]
    BY <1>4, <2>1 DEF Det!ScanAt
  <2> QED
    BY <2>2 DEF Result
<1>7. ASSUME NEW i \in Nat, \A k \in Nat : k > i => k \in A PROVE i \in A
  <2>1. Det!ScanAt(x, s, i) \in Result
    BY <1>7, ScanAtIs
  <2> QED
    BY <1>4, <2>1
<1>8. \A i \in Nat : i \in A
  <2> HIDE DEF A
  <2> QED
    BY <1>5, <1>6, <1>7, Descend
<1> QED
  BY <1>3, <1>4, <1>8 DEF Scans

-----------------------------------------------------------------------------

\* What the scan does at a bucket.
LEMMA ScanStep ==
    ASSUME Det!DetectorConstants, NEW x \in Det!Input, NEW s, Scans(x, s), NEW i \in Nat
    PROVE  \/ i >= Det!Last(x) /\ s[i].verdict = "notRecovered"
           \/ i < Det!Last(x) /\ Det!Unobserved(x, i) /\ s[i].verdict = "unobserved"
           \/ i < Det!Last(x) /\ ~Det!Unobserved(x, i) /\ ~Det!Candidate(x, i) /\ s[i] = s[i + 1]
           \/ /\ i < Det!Last(x) /\ Det!Candidate(x, i) /\ Broken(x, i) = {}
              /\ s[i].verdict = "recovered" /\ s[i].at = i
           \/ Broken(x, i) # {} /\ Dip(x, i) + x.window > Det!Len(x) /\ s[i].verdict = "unobserved"
           \/ /\ Broken(x, i) # {} /\ ~(Dip(x, i) + x.window > Det!Len(x))
              /\ s[i].verdict = s[Dip(x, i) + 1].verdict /\ s[i].at = s[Dip(x, i) + 1].at
<1>1. Det!Last(x) \in Int
  BY InputIs
<1>2. s[i] = Det!ScanAt(x, s, i)
  BY DEF Scans
<1>3. CASE i >= Det!Last(x)
  BY <1>2, <1>3 DEF Det!ScanAt
<1>4. CASE ~(i >= Det!Last(x)) /\ Det!Unobserved(x, i)
  BY <1>1, <1>2, <1>4 DEF Det!ScanAt
<1>5. CASE ~(i >= Det!Last(x)) /\ ~Det!Unobserved(x, i) /\ ~Det!Candidate(x, i)
  BY <1>1, <1>2, <1>5 DEF Det!ScanAt
<1>6. CASE ~(i >= Det!Last(x)) /\ ~Det!Unobserved(x, i) /\ Det!Candidate(x, i) /\ Broken(x, i) = {}
  BY <1>1, <1>2, <1>6 DEF Det!ScanAt, Broken
<1>7. CASE ~(i >= Det!Last(x)) /\ ~Det!Unobserved(x, i) /\ Det!Candidate(x, i) /\ Broken(x, i) # {}
  <2> DEFINE d == Dip(x, i)
             r == s[Det!Resume(x, i, d)]
  <2>1. s[i] = IF d + x.window > Det!Len(x)
               THEN [verdict |-> "unobserved", at |-> -1, canceled |-> 0]
               ELSE [r EXCEPT !.canceled = @ + 1]
    BY <1>2, <1>7 DEF Det!ScanAt, Broken, Dip
  <2>2. d + 1 \in Nat /\ Det!Resume(x, i, d) = d + 1
    BY <1>7, DipIs
  <2>3. r \in Result /\ r = s[d + 1]
    BY <2>2 DEF Scans
  <2> HIDE DEF r
  <2>4. [r EXCEPT !.canceled = @ + 1].verdict = r.verdict /\ [r EXCEPT !.canceled = @ + 1].at = r.at
    BY <2>3 DEF Result
  <2> QED
    BY <1>7, <2>1, <2>3, <2>4
<1> QED
  BY <1>3, <1>4, <1>5, <1>6, <1>7

\* The windows of a held entry.
LEMMA HeldIs ==
    ASSUME Det!DetectorConstants, NEW x \in Det!Input, NEW k \in Det!HeldAt(x)
    PROVE  /\ k \in Nat /\ k \in x.first..Det!Last(x) - 1
           /\ \A j \in k..k + x.hold : j + x.window <= Length /\ Det!AtEntry(x, j)
           /\ k + x.window <= Length /\ Det!AtEntry(x, k)
<1>1. x.first \in Nat /\ Det!Last(x) \in Int /\ x.hold \in Nat /\ Det!Len(x) = Length
  BY InputIs
<1>2. /\ k \in x.first..Det!Last(x) - 1
      /\ \A j \in k..k + x.hold : j + x.window <= Length /\ Det!AtEntry(x, j)
  BY <1>1 DEF Det!HeldAt
<1>3. k \in Nat /\ k \in k..k + x.hold
  BY <1>1, <1>2
<1> QED
  BY <1>2, <1>3

\* No entry is held from an unobserved window on.
LEMMA UnobservedEnds ==
    ASSUME Det!DetectorConstants, NEW x \in Det!Input, NEW i \in Nat, Det!Unobserved(x, i),
           NEW k \in Det!HeldAt(x)
    PROVE  k < i
<1>1. k \in Nat /\ k + x.window <= Length
  BY HeldIs
<1>2. x.window \in Nat /\ Length \in Nat
  BY InputIs
<1>3. Det!Observed(x, i) < x.window
  BY DEF Det!Unobserved
<1>4. ~(i + x.window <= Length)
  <2> DEFINE m == Missing(Length, i, x.window)
  <2>1. Det!Observed(x, i) = x.window - m /\ m \in 0..x.window /\ (m = 0 <=> i + x.window <= Length)
    BY ObservedIs
  <2> HIDE DEF m
  <2> QED
    BY <1>2, <1>3, <2>1
<1> QED
  BY <1>1, <1>2, <1>4

\* Nor at a window that is no candidate.
LEMMA HeldIsCandidate ==
    ASSUME Det!DetectorConstants, NEW x \in Det!Input, NEW k \in Det!HeldAt(x)
    PROVE  Det!Candidate(x, k)
<1>1. k \in Nat /\ k + x.window <= Length /\ Det!AtEntry(x, k)
  BY HeldIs
<1>2. x.window \in Nat
  BY InputIs
<1>3. Det!Observed(x, k) = x.window - 0
  BY <1>1, ObservedIs
<1> QED
  BY <1>1, <1>2, <1>3 DEF Det!Candidate

\* A candidate whose hold nothing breaks is held.
LEMMA CandidateHeld ==
    ASSUME Det!DetectorConstants, NEW x \in Det!Input, NEW i \in Nat, x.first <= i, i < Det!Last(x),
           Det!Candidate(x, i), Broken(x, i) = {}
    PROVE  i \in Det!HeldAt(x)
<1>1. /\ x.first \in Nat /\ Det!Last(x) \in Int /\ x.hold \in Nat /\ x.window \in Nat
      /\ Det!Len(x) = Length /\ Length \in Nat
  BY InputIs
<1>2. Det!AtEntry(x, i) /\ i + x.window <= Length
  <2> DEFINE m == Missing(Length, i, x.window)
  <2>1. Det!Observed(x, i) = x.window - m /\ m \in 0..x.window /\ (m = 0 <=> i + x.window <= Length)
    BY ObservedIs
  <2>2. Det!AtEntry(x, i) /\ Det!Observed(x, i) = x.window
    BY DEF Det!Candidate
  <2> HIDE DEF m
  <2> QED
    BY <1>1, <2>1, <2>2
<1>3. ASSUME NEW j \in i..i + x.hold PROVE j + x.window <= Det!Len(x) /\ Det!AtEntry(x, j)
  <2>1. CASE j = i
    BY <1>1, <1>2, <2>1
  <2>2. CASE j # i
    <3>1. j \in i + 1..i + x.hold
      BY <1>1, <2>2
    <3>2. ~Det!Breaks(x, j)
      BY <3>1 DEF Broken, Det!HoldStarts
    <3> QED
      BY <1>1, <3>1, <3>2 DEF Det!Breaks
  <2> QED
    BY <2>1, <2>2
<1>4. i \in x.first..Det!Last(x) - 1
  BY <1>1
<1> QED
  BY <1>3, <1>4 DEF Det!HeldAt

\* No entry from a candidate up to the dip that cancels it is held: resuming
\* after the dip skips none.
LEMMA DipEnds ==
    ASSUME Det!DetectorConstants, NEW x \in Det!Input, NEW i \in Nat, Broken(x, i) # {},
           NEW k \in Det!HeldAt(x), k >= i
    PROVE  k >= Dip(x, i) + 1 /\ ~(Dip(x, i) + x.window > Det!Len(x))
<1> DEFINE d == Dip(x, i)
<1>1. d \in Nat /\ d \in i + 1..i + x.hold /\ Det!Breaks(x, d)
  BY DipIs
<1>2. /\ k \in Nat /\ k + x.window <= Length
      /\ \A j \in k..k + x.hold : j + x.window <= Length /\ Det!AtEntry(x, j)
  BY HeldIs
<1>3. x.hold \in Nat /\ x.window \in Nat /\ Length \in Nat /\ Det!Len(x) = Length
  BY InputIs
<1> HIDE DEF d
<1>4. k > d
  <2> SUFFICES ASSUME k <= d PROVE FALSE
    BY <1>1, <1>2
  <2>1. d \in k..k + x.hold
    BY <1>1, <1>2, <1>3
  <2>2. d + x.window <= Length /\ Det!AtEntry(x, d)
    BY <1>2, <2>1
  <2> QED
    BY <1>1, <1>3, <2>2 DEF Det!Breaks
<1> QED
  BY <1>1, <1>2, <1>3, <1>4 DEF d

\* From any bucket on: a recovery is the first held entry, and without one
\* none is held.
FirstFrom(x, s, i) ==
    IF s[i].verdict = "recovered"
    THEN s[i].at \in Det!HeldAt(x) /\ \A k \in Det!HeldAt(x) : k >= i => s[i].at <= k
    ELSE \A k \in Det!HeldAt(x) : ~(k >= i)

\* By induction from the last bucket down.
LEMMA ScanFindsFirst ==
    ASSUME Det!DetectorConstants, NEW x \in Det!Input, NEW s, Scans(x, s)
    PROVE  FirstFrom(x, s, x.first)
<1> DEFINE n == IF Det!Last(x) < 0 THEN 0 ELSE Det!Last(x)
           A == { i \in Nat : i >= x.first => FirstFrom(x, s, i) }
<1>1. /\ n \in Nat /\ Det!Last(x) \in Int /\ Det!Last(x) <= n /\ x.first \in Nat
      /\ Det!HeldAt(x) \subseteq Nat /\ \A k \in Det!HeldAt(x) : k < Det!Last(x)
  <2>1. n \in Nat /\ Det!Last(x) \in Int /\ Det!Last(x) <= n /\ x.first \in Nat
    BY InputIs
  <2>2. \A k \in Det!HeldAt(x) : k \in Nat /\ k \in x.first..Det!Last(x) - 1
    BY HeldIs
  <2> QED
    BY <2>1, <2>2
<1> HIDE DEF n
<1>2. ASSUME NEW i \in Nat, i >= Det!Last(x) PROVE FirstFrom(x, s, i)
  <2>1. s[i].verdict = "notRecovered"
    <3>1. s[i] = Det!ScanAt(x, s, i)
      BY DEF Scans
    <3> QED
      BY <1>2, <3>1 DEF Det!ScanAt
  <2>2. \A k \in Det!HeldAt(x) : ~(k >= i)
    BY <1>1, <1>2
  <2> QED
    BY <2>1, <2>2 DEF FirstFrom
<1>3. ASSUME NEW i \in Nat, i >= n PROVE i \in A
  <2>1. i >= Det!Last(x)
    BY <1>1, <1>3
  <2> QED
    BY <1>2, <2>1
<1>4. ASSUME NEW i \in Nat, \A k \in Nat : k > i => k \in A PROVE i \in A
  <2> SUFFICES ASSUME i >= x.first PROVE FirstFrom(x, s, i)
    OBVIOUS
  <2>1. \A k \in Nat : k > i => FirstFrom(x, s, k)
    BY <1>1, <1>4
  <2>2. CASE i >= Det!Last(x)
    BY <1>2, <2>2
  <2>3. CASE Det!Unobserved(x, i) /\ s[i].verdict = "unobserved"
    <3>1. \A k \in Det!HeldAt(x) : k \in Nat /\ k < i
      BY <1>1, <2>3, UnobservedEnds
    <3>2. \A k \in Det!HeldAt(x) : ~(k >= i)
      BY <3>1
    <3> QED
      BY <2>3, <3>2 DEF FirstFrom
  <2>4. CASE ~Det!Candidate(x, i) /\ s[i] = s[i + 1]
    <3>1. FirstFrom(x, s, i + 1)
      BY <2>1
    <3>2. i \notin Det!HeldAt(x)
      BY <2>4, HeldIsCandidate
    <3>3. \A k \in Det!HeldAt(x) : k >= i <=> k >= i + 1
      BY <1>1, <3>2
    <3> QED
      BY <2>4, <3>1, <3>3 DEF FirstFrom
  <2>5. CASE /\ i < Det!Last(x) /\ Det!Candidate(x, i) /\ Broken(x, i) = {}
             /\ s[i].verdict = "recovered" /\ s[i].at = i
    <3>1. i \in Det!HeldAt(x)
      BY <1>1, <2>5, CandidateHeld
    <3>2. \A k \in Det!HeldAt(x) : k >= i => i <= k
      BY <1>1
    <3> QED
      BY <2>5, <3>1, <3>2 DEF FirstFrom
  <2>6. CASE Broken(x, i) # {} /\ Dip(x, i) + x.window > Det!Len(x) /\ s[i].verdict = "unobserved"
    <3>1. \A k \in Det!HeldAt(x) : ~(k >= i)
      BY <2>6, DipEnds
    <3> QED
      BY <2>6, <3>1 DEF FirstFrom
  <2>7. CASE /\ Broken(x, i) # {}
             /\ s[i].verdict = s[Dip(x, i) + 1].verdict /\ s[i].at = s[Dip(x, i) + 1].at
    <3> DEFINE d == Dip(x, i)
    <3>1. d \in Nat /\ d + 1 \in Nat /\ d + 1 > i
      <4>1. d \in Nat /\ d \in i + 1..i + x.hold
        BY <2>7, DipIs
      <4>2. x.hold \in Nat
        BY InputIs
      <4> HIDE DEF d
      <4> QED
        BY <4>1, <4>2
    <3>2. FirstFrom(x, s, d + 1)
      BY <2>1, <3>1
    <3>3. \A k \in Det!HeldAt(x) : k >= i => k >= d + 1
      BY <2>7, DipEnds
    <3>4. s[i].verdict = s[d + 1].verdict /\ s[i].at = s[d + 1].at
      BY <2>7
    <3> HIDE DEF d
    <3>5. \A k \in Det!HeldAt(x) : k >= d + 1 => k >= i
      BY <1>1, <3>1
    <3> QED
      BY <3>2, <3>3, <3>4, <3>5 DEF FirstFrom
  <2> QED
    BY <2>2, <2>3, <2>4, <2>5, <2>6, <2>7, ScanStep
<1>5. \A i \in Nat : i \in A
  <2> HIDE DEF A
  <2> QED
    BY <1>1, <1>3, <1>4, Descend
<1> QED
  BY <1>1, <1>5

-----------------------------------------------------------------------------

\* The series gone on, and its windows' totals.
LEMMA ExtendedIs ==
    ASSUME Det!DetectorConstants, NEW x \in Det!Input, NEW l \in Nat, NEW i \in Nat, i <= Length
    PROVE  LET e == Det!Extended(x, l)
               m == Missing(Length, i, x.window)
           IN  /\ e.window = x.window /\ e.hold = x.hold /\ e.baseline = x.baseline
               /\ e.first = x.first /\ Det!Last(e) = Det!Last(x)
               /\ Det!Good(x, i) \in Nat /\ Det!Sched(x, i) \in Nat
               /\ Det!Good(e, i) = Det!Good(x, i) + l * m
               /\ Det!Sched(e, i) = Det!Sched(x, i) + l * m
<1> DEFINE e == Det!Extended(x, l)
           n == Length
           w == x.window
           h == x.hold
           M == n + w + h + 1
           more == [j \in 0..n + w + h |-> IF j < n THEN x.buckets[j] ELSE [good |-> l, sched |-> l]]
           f1 == [j \in 0..n - 1 |-> x.buckets[j].good]
           f2 == [j \in 0..n - 1 |-> x.buckets[j].sched]
           g1 == [j \in 0..M - 1 |-> more[j].good]
           g2 == [j \in 0..M - 1 |-> more[j].sched]
<1>1. /\ DOMAIN x.buckets = 0..n - 1 /\ n \in Nat /\ Det!Len(x) = n
      /\ \A j \in 0..n - 1 : x.buckets[j].good \in Nat /\ x.buckets[j].sched \in Nat
      /\ w \in Nat \ {0} /\ h \in Nat /\ Det!Last(x) \in Int /\ Det!Last(x) <= n
  BY InputIs
<1>2. x = [buckets |-> x.buckets, window |-> w, hold |-> h, baseline |-> x.baseline,
           first |-> x.first, timeout |-> x.timeout]
  BY DEF Det!Input
<1>3. e = [x EXCEPT !.buckets = more, !.timeout = Det!Last(x)]
  BY <1>1 DEF Det!Extended
<1>4. /\ e.buckets = more /\ e.window = w /\ e.hold = h /\ e.baseline = x.baseline
      /\ e.first = x.first /\ e.timeout = Det!Last(x)
  <2> DEFINE B == x.buckets
             last == Det!Last(x)
             b == x.baseline
             u == x.first
             t == x.timeout
  <2>1. x = [buckets |-> B, window |-> w, hold |-> h, baseline |-> b, first |-> u, timeout |-> t]
    BY <1>2
  <2>2. e = [x EXCEPT !.buckets = more, !.timeout = last]
    BY <1>3
  <2> HIDE DEF e, more, w, h, n, B, last, b, u, t
  <2>3. /\ e.buckets = more /\ e.window = w /\ e.hold = h /\ e.baseline = b
        /\ e.first = u /\ e.timeout = last
    BY <2>1, <2>2
  <2> QED
    BY <2>3 DEF b, u, last
<1>5. M \in Nat /\ n <= M /\ M - 1 = n + w + h /\ i + w <= M
  BY <1>1, SMTT(30)
<1>6. DOMAIN more = 0..M - 1
  BY <1>5
<1>7. Det!Len(e) = M
  <2>1. 0 \in Int /\ M - 1 \in Int
    BY <1>5
  <2> HIDE DEF M, more
  <2>2. Cardinality(0..M - 1) = IF 0 > M - 1 THEN 0 ELSE M - 1 - 0 + 1
    BY <2>1, FS_Interval
  <2>3. Cardinality(0..M - 1) = M
    BY <1>5, <2>2
  <2> HIDE DEF e
  <2> QED
    BY <1>4, <1>6, <2>3 DEF Det!Len, Det!Cardinality, Cardinality
<1>8. Det!Last(e) = Det!Last(x)
  <2>1. ~(Det!Last(x) > M)
    BY <1>1, <1>5
  <2> HIDE DEF e, M
  <2>2. Det!Last(e) = IF e.timeout > Det!Len(e) THEN Det!Len(e) ELSE e.timeout
    BY DEF Det!Last
  <2> QED
    BY <1>4, <1>7, <2>1, <2>2
<1>9. f1 \in [0..n - 1 -> Nat] /\ f2 \in [0..n - 1 -> Nat]
  BY <1>1
<1>10. \A j \in 0..M - 1 : /\ more[j].good = IF j < n THEN f1[j] ELSE l
                           /\ more[j].sched = IF j < n THEN f2[j] ELSE l
  <2> SUFFICES ASSUME NEW j \in 0..M - 1
               PROVE  /\ more[j].good = IF j < n THEN f1[j] ELSE l
                      /\ more[j].sched = IF j < n THEN f2[j] ELSE l
    OBVIOUS
  <2>1. j \in 0..n + w + h /\ (j < n => j \in 0..n - 1)
    BY <1>1, <1>5
  <2>2. more[j] = IF j < n THEN x.buckets[j] ELSE [good |-> l, sched |-> l]
    BY <2>1
  <2>3. j < n => f1[j] = x.buckets[j].good /\ f2[j] = x.buckets[j].sched
    BY <2>1
  <2> HIDE DEF more, f1, f2
  <2> QED
    BY <2>2, <2>3
<1> HIDE DEF more
<1>11. \A j \in 0..M - 1 : g1[j] = IF j < n THEN f1[j] ELSE l
  BY <1>10
<1>12. \A j \in 0..M - 1 : g2[j] = IF j < n THEN f2[j] ELSE l
  BY <1>10
<1>13. \A j \in 0..M - 1 : j < n => j \in 0..n - 1
  BY <1>1, <1>5
<1>14. g1 \in [0..M - 1 -> Nat] /\ g2 \in [0..M - 1 -> Nat]
  <2>1. \A j \in 0..M - 1 : g1[j] \in Nat /\ g2[j] \in Nat
    <3> HIDE DEF g1, g2, f1, f2, M, n
    <3> QED
      BY <1>9, <1>11, <1>12, <1>13
  <2>2. DOMAIN g1 = 0..M - 1 /\ DOMAIN g2 = 0..M - 1 /\ g1 = [j \in 0..M - 1 |-> g1[j]] /\ g2 = [j \in 0..M - 1 |-> g2[j]]
    OBVIOUS
  <2> HIDE DEF g1, g2, M
  <2> QED
    BY <2>1, <2>2
<1>15. /\ Det!Good(x, i) = Det!Total(f1, i, w) /\ Det!Sched(x, i) = Det!Total(f2, i, w)
  BY <1>1 DEF Det!Good, Det!Sched
<1>16. /\ Det!Good(e, i) = Det!Total(g1, i, w) /\ Det!Sched(e, i) = Det!Total(g2, i, w)
  <2> HIDE DEF e
  <2> QED
    BY <1>4, <1>6 DEF Det!Good, Det!Sched
<1> HIDE DEF f1, f2, g1, g2, M, n, w, e
<1>19. Continues(f1, g1, n, M, l, i, w) /\ Continues(f2, g2, n, M, l, i, w)
  BY <1>1, <1>5, <1>9, <1>11, <1>12, <1>14 DEF Continues
<1>17. /\ Det!Total(f1, i, w) \in Nat
       /\ Det!Total(g1, i, w) = Det!Total(f1, i, w) + l * Missing(n, i, w)
  BY <1>19, TotalExtended
<1>18. /\ Det!Total(f2, i, w) \in Nat
       /\ Det!Total(g2, i, w) = Det!Total(f2, i, w) + l * Missing(n, i, w)
  BY <1>19, TotalExtended
<1> QED
  BY <1>4, <1>8, <1>15, <1>16, <1>17, <1>18 DEF e, n, w

\* A window that the series has is the same of the series gone on.
LEMMA EntryExtended ==
    ASSUME Det!DetectorConstants, NEW x \in Det!Input, NEW l \in Nat, NEW i \in Nat,
           i + x.window <= Length
    PROVE  Det!AtEntry(Det!Extended(x, l), i) <=> Det!AtEntry(x, i)
<1> DEFINE e == Det!Extended(x, l)
           m == Missing(Length, i, x.window)
<1>1. i <= Length /\ m = 0
  <2>1. x.window \in Nat /\ Length \in Nat
    BY InputIs
  <2> QED
    BY <2>1 DEF Missing
<1>2. /\ e.baseline = x.baseline /\ Det!Good(x, i) \in Nat /\ Det!Sched(x, i) \in Nat
      /\ Det!Good(e, i) = Det!Good(x, i) + l * m /\ Det!Sched(e, i) = Det!Sched(x, i) + l * m
  BY <1>1, ExtendedIs
<1> HIDE DEF m, e
<1>3. l * m = 0
  BY <1>1
<1>4. Det!Good(e, i) = Det!Good(x, i) /\ Det!Sched(e, i) = Det!Sched(x, i)
  BY <1>2, <1>3
<1>5. Det!AtEntry(e, i) <=> Det!AtEntry(x, i)
  BY <1>2, <1>4 DEF Det!AtEntry, Det!Reaches
<1> QED
  BY <1>5 DEF e

\* The best case of entryVerdict, scaled by the seconds seen, is the window
\* gone on at the load seen.
LEMMA BestCase ==
    ASSUME NEW good \in Nat, NEW l \in Nat, NEW seen \in Nat \ {0}, NEW miss \in Nat,
           NEW b \in Nat, NEW p \in Nat, l * (seen + miss) > 0,
           (good + l * miss) * 10000 >= l * (seen + miss) * b * p
    PROVE  LET m == miss * (l * seen)
               all == (l * seen) * seen + m
           IN  all > 0 /\ (good * seen + m) * 10000 >= all * b * p
<1> DEFINE m == miss * (l * seen)
           all == (l * seen) * seen + m
           c == l * (seen + miss)
           u == good + l * miss
           q == b * p
<1>1. m \in Nat /\ all \in Nat /\ c \in Nat /\ u \in Nat /\ q \in Nat /\ c > 0
  OBVIOUS
<1>2. all = c * seen
  OBVIOUS
<1>3. good * seen + m = u * seen
  OBVIOUS
<1>4. u * 10000 >= c * q
  <2>1. l * (seen + miss) * b * p = c * q
    OBVIOUS
  <2> QED
    BY <2>1
<1>5. all * b * p = all * q
  OBVIOUS
<1> HIDE DEF m, all, c, u, q
<1>6. c * seen > 0
  BY <1>1
<1>7. (u * seen) * 10000 >= (c * seen) * q
  <2>1. (u * seen) * 10000 = (u * 10000) * seen /\ (c * seen) * q = (c * q) * seen
    BY <1>1
  <2>2. c * q \in Nat /\ u * 10000 \in Nat
    BY <1>1
  <2>3. ASSUME NEW y \in Nat, NEW z \in Nat, y >= z PROVE y * seen >= z * seen
    BY <2>3
  <2> QED
    BY <1>4, <2>1, <2>2, <2>3
<1> QED
  BY <1>2, <1>3, <1>5, <1>6, <1>7 DEF m, all

\* A cut window that the scan passes over would not be at the bar if the run
\* had gone on at its load.
LEMMA PassedOver ==
    ASSUME Det!DetectorConstants, NEW x \in Det!Input, NEW l \in Nat, Det!ConstantLoad(x, l),
           NEW i \in Nat, i <= Length, Det!Observed(x, i) < x.window, ~Det!Unobserved(x, i)
    PROVE  ~Det!AtEntry(Det!Extended(x, l), i)
<1> DEFINE e == Det!Extended(x, l)
           n == Length
           w == x.window
           miss == Missing(n, i, w)
           seen == Det!Observed(x, i)
           good == Det!Good(x, i)
           f == [j \in 0..n - 1 |-> x.buckets[j].sched]
<1>1. n \in Nat /\ w \in Nat \ {0} /\ DOMAIN x.buckets = 0..n - 1 /\ x.baseline \in Nat
  BY InputIs
<1>2. seen = w - miss /\ miss \in 0..w
  BY ObservedIs
<1>3. seen \in Nat /\ miss \in Nat /\ w = seen + miss
  <2> HIDE DEF seen, miss, w
  <2> QED
    BY <1>1, <1>2
<1>4. Det!Sched(x, i) = l * seen
  <2>1. f \in [0..n - 1 -> Nat] /\ \A j \in 0..n - 1 : f[j] = l
    BY <1>1 DEF Det!ConstantLoad
  <2>2. Det!Sched(x, i) = Det!Total(f, i, w)
    BY <1>1 DEF Det!Sched
  <2> HIDE DEF f, n, w, seen
  <2>3. Det!Total(f, i, w) = l * (w - miss)
    BY <1>1, <2>1, TotalConstant
  <2> QED
    BY <1>2, <2>2, <2>3
<1>5. /\ e.baseline = x.baseline /\ good \in Nat
      /\ Det!Good(e, i) = good + l * miss /\ Det!Sched(e, i) = l * seen + l * miss
  BY <1>4, ExtendedIs
<1>6. /\ seen # 0
      /\ ~Det!Reaches(x, good * seen + (w - seen) * (l * seen), (l * seen) * seen + (w - seen) * (l * seen),
                      EntryPct)
  BY <1>4 DEF Det!Unobserved
<1>7. EntryPct \in Nat
  BY DEF Det!DetectorConstants
<1> SUFFICES ASSUME Det!AtEntry(e, i) PROVE FALSE
  OBVIOUS
<1> HIDE DEF e, n, w, miss, seen, good
<1>8. w - seen = miss /\ l * seen + l * miss = l * (seen + miss)
  BY <1>1, <1>3
<1>9. /\ l * (seen + miss) > 0
      /\ (good + l * miss) * 10000 >= l * (seen + miss) * x.baseline * EntryPct
  BY <1>5, <1>8 DEF Det!AtEntry, Det!Reaches
<1>10. /\ (l * seen) * seen + miss * (l * seen) > 0
       /\ (good * seen + miss * (l * seen)) * 10000
            >= ((l * seen) * seen + miss * (l * seen)) * x.baseline * EntryPct
  BY <1>1, <1>3, <1>5, <1>6, <1>7, <1>9, BestCase
<1> QED
  BY <1>6, <1>8, <1>10 DEF Det!Reaches

\* An entry held of the series gone on starts in the range scanned.
LEMMA HeldExtended ==
    ASSUME Det!DetectorConstants, NEW x \in Det!Input, NEW l \in Nat, NEW k \in Det!HeldAt(Det!Extended(x, l))
    PROVE  /\ k \in Nat /\ x.first <= k /\ k < Det!Last(x)
           /\ \A j \in k..k + x.hold : Det!AtEntry(Det!Extended(x, l), j)
<1> DEFINE e == Det!Extended(x, l)
<1>1. x.first \in Nat /\ Det!Last(x) \in Int /\ x.hold \in Nat /\ Length \in Nat
  BY InputIs
<1>2. e.hold = x.hold /\ e.first = x.first /\ Det!Last(e) = Det!Last(x)
  <2>1. 0 \in Nat /\ 0 <= Length
    BY <1>1
  <2> QED
    BY <2>1, ExtendedIs
<1>3. k \in Det!HeldAt(e)
  OBVIOUS
<1> HIDE DEF e
<1>4. k \in x.first..Det!Last(x) - 1 /\ \A j \in k..k + x.hold : Det!AtEntry(e, j)
  BY <1>2, <1>3 DEF Det!HeldAt
<1>5. k \in Nat /\ x.first <= k /\ k < Det!Last(x)
  BY <1>1, <1>4
<1> QED
  BY <1>4, <1>5 DEF e

\* A scan that ends without a recovery passed no entry that the series gone
\* on would hold.
LEMMA NotRecoveredEnds ==
    ASSUME Det!DetectorConstants, NEW x \in Det!Input, NEW l \in Nat, Det!ConstantLoad(x, l),
           NEW s, Scans(x, s), s[x.first].verdict = "notRecovered"
    PROVE  Det!HeldAt(Det!Extended(x, l)) = {}
<1> DEFINE e == Det!Extended(x, l)
           H == Det!HeldAt(e)
           n == IF Det!Last(x) < 0 THEN 0 ELSE Det!Last(x)
           NoneFrom(i) == s[i].verdict = "notRecovered" => \A k \in H : ~(k >= i)
           A == { i \in Nat : NoneFrom(i) }
<1>1. /\ n \in Nat /\ Det!Last(x) \in Int /\ Det!Last(x) <= n /\ x.first \in Nat /\ x.hold \in Nat
      /\ x.window \in Nat \ {0} /\ Length \in Nat /\ Det!Last(x) <= Length /\ Det!Len(x) = Length
  BY InputIs
<1>2. \A k \in H : /\ k \in Nat /\ x.first <= k /\ k < Det!Last(x)
                   /\ \A j \in k..k + x.hold : Det!AtEntry(e, j)
  BY HeldExtended
<1> HIDE DEF n, H
<1>3. ASSUME NEW i \in Nat, i >= Det!Last(x) PROVE NoneFrom(i)
  BY <1>1, <1>2, <1>3
<1>4. ASSUME NEW i \in Nat, i >= n PROVE i \in A
  <2>1. i >= Det!Last(x)
    BY <1>1, <1>4
  <2> QED
    BY <1>3, <2>1
<1>5. ASSUME NEW i \in Nat, \A k \in Nat : k > i => k \in A PROVE i \in A
  <2> SUFFICES ASSUME s[i].verdict = "notRecovered" PROVE \A k \in H : ~(k >= i)
    OBVIOUS
  <2>1. \A k \in Nat : k > i => NoneFrom(k)
    BY <1>5
  <2>2. CASE i >= Det!Last(x)
    BY <1>1, <1>2, <2>2
  <2>3. CASE i < Det!Last(x) /\ ~Det!Unobserved(x, i) /\ ~Det!Candidate(x, i) /\ s[i] = s[i + 1]
    <3>1. \A k \in H : ~(k >= i + 1)
      <4>1. NoneFrom(i + 1)
        BY <2>1
      <4> QED
        BY <2>3, <4>1
    <3>2. i <= Length
      BY <1>1, <2>3
    <3>3. ~Det!AtEntry(e, i)
      <4> DEFINE m == Missing(Length, i, x.window)
      <4>1. /\ Det!Observed(x, i) = x.window - m /\ m \in 0..x.window
            /\ (m = 0 <=> i + x.window <= Length)
        BY ObservedIs
      <4> HIDE DEF m
      <4>2. CASE m = 0
        <5>1. Det!Observed(x, i) = x.window /\ i + x.window <= Length
          BY <1>1, <4>1, <4>2
        <5>2. ~Det!AtEntry(x, i)
          BY <2>3, <5>1 DEF Det!Candidate
        <5> QED
          BY <5>1, <5>2, EntryExtended
      <4>3. CASE m # 0
        <5>1. Det!Observed(x, i) < x.window
          BY <1>1, <4>1, <4>3
        <5> QED
          BY <2>3, <3>2, <5>1, PassedOver
      <4> QED
        BY <4>2, <4>3
    <3> HIDE DEF e
    <3>4. i \notin H
      <4> SUFFICES ASSUME i \in H PROVE FALSE
        OBVIOUS
      <4>1. i \in i..i + x.hold
        BY <1>1
      <4> QED
        BY <1>2, <3>3, <4>1
    <3> QED
      BY <1>2, <3>1, <3>4
  <2>4. CASE /\ Broken(x, i) # {} /\ ~(Dip(x, i) + x.window > Det!Len(x))
             /\ s[i].verdict = s[Dip(x, i) + 1].verdict
    <3> DEFINE d == Dip(x, i)
    <3>1. d \in Nat /\ d \in i + 1..i + x.hold /\ Det!Breaks(x, d)
      BY <2>4, DipIs
    <3>2. ~(d + x.window > Det!Len(x)) /\ s[d + 1].verdict = "notRecovered"
      BY <2>4
    <3> HIDE DEF d
    <3>3. d + x.window <= Length /\ ~Det!AtEntry(x, d)
      BY <1>1, <3>1, <3>2 DEF Det!Breaks
    <3>4. ~Det!AtEntry(e, d)
      BY <3>1, <3>3, EntryExtended
    <3>5. \A k \in H : ~(k >= d + 1)
      <4>1. d + 1 \in Nat /\ d + 1 > i
        BY <1>1, <3>1
      <4>2. NoneFrom(d + 1)
        BY <2>1, <4>1
      <4> QED
        BY <3>2, <4>2
    <3> HIDE DEF e
    <3>6. ASSUME NEW k \in H, k >= i PROVE FALSE
      <4>1. k \in Nat /\ \A j \in k..k + x.hold : Det!AtEntry(e, j)
        BY <1>2
      <4>2. d \in k..k + x.hold
        BY <1>1, <3>1, <3>5, <3>6, <4>1
      <4> QED
        BY <3>4, <4>1, <4>2
    <3> QED
      BY <3>6
  <2> QED
    BY <2>2, <2>3, <2>4, ScanStep
<1>6. \A i \in Nat : i \in A
  <2> HIDE DEF A
  <2> QED
    BY <1>1, <1>4, <1>5, Descend
<1>7. \A k \in H : ~(k >= x.first)
  BY <1>1, <1>6
<1>8. H = {}
  BY <1>2, <1>7
<1> QED
  BY <1>8 DEF H

-----------------------------------------------------------------------------

\* An episode is on after j: it began at k and no window since was at the
\* entry bar.
EpisodeOn(x, from, j) ==
    \E k \in from..j : Det!BelowExit(x, k) /\ \A m \in k + 1..j : ~Det!AtEntry(x, m)

\* What the loop over the windows carries.
LEMMA EpisodeNext ==
    ASSUME NEW x, NEW from \in Nat, NEW j \in Nat
    PROVE  /\ j < from => ~EpisodeOn(x, from, j)
           /\ j >= from /\ Det!BelowExit(x, j) => EpisodeOn(x, from, j)
           /\ j >= from /\ ~Det!BelowExit(x, j) =>
                (EpisodeOn(x, from, j) <=> EpisodeOn(x, from, j - 1) /\ ~Det!AtEntry(x, j))
<1>1. j < from => ~EpisodeOn(x, from, j)
  BY DEF EpisodeOn
<1>2. ASSUME j >= from, Det!BelowExit(x, j) PROVE EpisodeOn(x, from, j)
  <2>1. j \in from..j /\ \A m \in j + 1..j : FALSE
    BY <1>2
  <2> QED
    BY <1>2, <2>1 DEF EpisodeOn
<1>3. ASSUME j >= from, ~Det!BelowExit(x, j), EpisodeOn(x, from, j)
      PROVE  EpisodeOn(x, from, j - 1) /\ ~Det!AtEntry(x, j)
  <2>1. PICK k \in from..j : Det!BelowExit(x, k) /\ \A m \in k + 1..j : ~Det!AtEntry(x, m)
    BY <1>3 DEF EpisodeOn
  <2>2. k # j
    BY <1>3, <2>1
  <2>3. k \in from..j - 1 /\ j \in k + 1..j /\ \A m \in k + 1..j - 1 : m \in k + 1..j
    BY <2>2
  <2> QED
    BY <2>1, <2>3 DEF EpisodeOn
<1>4. ASSUME j >= from, EpisodeOn(x, from, j - 1), ~Det!AtEntry(x, j) PROVE EpisodeOn(x, from, j)
  <2>1. PICK k \in from..j - 1 : Det!BelowExit(x, k) /\ \A m \in k + 1..j - 1 : ~Det!AtEntry(x, m)
    BY <1>4 DEF EpisodeOn
  <2>2. k \in from..j /\ \A m \in k + 1..j : m = j \/ m \in k + 1..j - 1
    OBVIOUS
  <2> QED
    BY <1>4, <2>1, <2>2 DEF EpisodeOn
<1> QED
  BY <1>1, <1>2, <1>3, <1>4

\* ReDegradations counts the episodes.
LEMMA EpisodesAre ==
    ASSUME Det!DetectorConstants, NEW x \in Det!Input, NEW at \in Nat
    PROVE  Det!ReDegradations(x, at) = Det!Cardinality(Det!Episodes(x, at + x.hold + 1))
<1> DEFINE from == at + x.hold + 1
           Step(f, j) == IF j < from THEN FALSE
                         ELSE IF Det!BelowExit(x, j) THEN TRUE
                         ELSE f[j - 1] /\ ~Det!EpisodeEnds(x, j)
           Is(f) == f = [j \in Nat |-> Step(f, j)]
           last == Det!Last(x)
           Starts(f) == { j \in from..last - 1 : Det!BelowExit(x, j) /\ (j = 0 \/ ~f[j - 1]) }
<1>1. from \in Nat /\ from >= 1 /\ last \in Int
  BY InputIs
<1>2. \E f : Is(f)
  <2> DEFINE g == [j \in Nat |-> EpisodeOn(x, from, j)]
  <2> HIDE DEF from
  <2>1. ASSUME NEW j \in Nat PROVE EpisodeOn(x, from, j) = Step(g, j)
    <3>1. j >= from => j - 1 \in Nat /\ g[j - 1] = EpisodeOn(x, from, j - 1)
      BY <1>1
    <3>2. EpisodeOn(x, from, j) \in BOOLEAN
      BY DEF EpisodeOn
    <3>3. Det!EpisodeEnds(x, j) = Det!AtEntry(x, j)
      BY DEF Det!EpisodeEnds
    <3>4. j < from \/ j >= from
      BY <1>1
    <3>5. j < from => ~(j >= from)
      BY <1>1
    <3> HIDE DEF g
    <3>6. EpisodeOn(x, from, j) <=> Step(g, j)
      BY <1>1, <3>1, <3>3, <3>4, <3>5, EpisodeNext
    <3>7. Step(g, j) \in BOOLEAN
      OBVIOUS
    <3> QED
      BY <3>2, <3>6, <3>7
  <2>2. g = [j \in Nat |-> Step(g, j)]
    <3>1. \A j \in Nat : EpisodeOn(x, from, j) = Step(g, j)
      BY <2>1
    <3> HIDE DEF Step
    <3> QED
      BY <3>1
  <2> QED
    BY <2>2
<1>3. PICK f : Is(f) /\ Det!ReDegradations(x, at) = Det!Cardinality(Starts(f))
  BY <1>2 DEF Det!ReDegradations
<1> HIDE DEF from, last
<1>4. \A j \in Nat : f[j] = Step(f, j)
  <2> HIDE DEF Step
  <2> QED
    BY <1>3
<1>5. ASSUME NEW n \in Nat PROVE f[n] <=> EpisodeOn(x, from, n)
  <2> DEFINE A == { j \in 0..n : f[j] <=> EpisodeOn(x, from, j) }
  <2>1. 0 \in A
    <3>1. 0 \in Nat /\ 0 < from /\ 0 \in 0..n
      BY <1>1
    <3>2. f[0] = Step(f, 0) /\ Step(f, 0) = FALSE
      BY <1>4, <3>1, Zenon
    <3>3. ~EpisodeOn(x, from, 0)
      BY <1>1, <3>1, EpisodeNext
    <3> QED
      BY <3>1, <3>2, <3>3, Zenon
  <2>2. ASSUME NEW j \in 1..n, j - 1 \in A PROVE j \in A
    <3>1. j \in Nat /\ (j < from \/ j >= from) /\ (j < from => ~(j >= from)) /\ j \in 0..n
      BY <1>1
    <3>4. f[j] = Step(f, j)
      BY <1>4, <3>1, Zenon
    <3>2. Det!EpisodeEnds(x, j) = Det!AtEntry(x, j) /\ (f[j - 1] <=> EpisodeOn(x, from, j - 1))
      BY <2>2 DEF Det!EpisodeEnds
    <3>3. f[j] <=> EpisodeOn(x, from, j)
      BY <1>1, <3>1, <3>2, <3>4, EpisodeNext, Zenon
    <3> QED
      BY <3>1, <3>3, Zenon
  <2> HIDE DEF A
  <2>3. \A j \in 0..n : j \in A
    BY <2>1, <2>2, Climb
  <2>4. n \in A
    BY <2>3
  <2> QED
    BY <2>4 DEF A
<1>6. ASSUME NEW j \in from..last - 1
      PROVE  j # 0 /\ (f[j - 1] <=> EpisodeOn(x, from, j - 1))
  BY <1>1, <1>5
<1>7. ASSUME NEW j \in from..last - 1
      PROVE  ~EpisodeOn(x, from, j - 1) <=>
               \A k \in from..last - 1 : k < j /\ Det!BelowExit(x, k) =>
                  \E m \in k + 1..j - 1 : Det!AtEntry(x, m)
  <2>1. \A k \in from..j - 1 : k \in from..last - 1 /\ k < j
    BY <1>1
  <2>2. \A k \in from..last - 1 : k < j => k \in from..j - 1
    BY <1>1
  <2> QED
    BY <2>1, <2>2, Zenon DEF EpisodeOn
<1>8. Det!Episodes(x, from) =
        { j \in from..last - 1 :
            /\ Det!BelowExit(x, j)
            /\ \A k \in from..last - 1 : k < j /\ Det!BelowExit(x, k) =>
                  \E m \in k + 1..j - 1 : Det!AtEntry(x, m) }
  BY DEF Det!Episodes, last
<1>9. Starts(f) = Det!Episodes(x, from)
  BY <1>6, <1>7, <1>8, Zenon
<1> QED
  BY <1>3, <1>9 DEF from

\* What a Detection says of the series it was made of.
Tells(x, d) ==
    /\ x.baseline > 0 =>
         IF d.verdict = "recovered"
         THEN d.at \in Det!HeldAt(x) /\ \A k \in Det!HeldAt(x) : d.at <= k
         ELSE Det!HeldAt(x) = {}
    /\ x.baseline > 0 /\ d.verdict = "notRecovered" =>
         \A l \in Loads : Det!ConstantLoad(x, l) => Det!HeldAt(Det!Extended(x, l)) = {}
    /\ d.verdict = "recovered" => d.again = Det!Cardinality(Det!Episodes(x, d.at + x.hold + 1))

\* Each Detection does.
LEMMA DetectionTells ==
    ASSUME Det!DetectorConstants, NEW x \in Det!Input
    PROVE  Tells(x, Det!Detection(x))
<1> DEFINE d == Det!Detection(x)
<1>1. x.baseline \in Nat /\ x.first \in Nat
  BY InputIs
<1>2. CASE x.baseline = 0
  <2>1. d.verdict = "notRecovered" /\ ~(x.baseline > 0)
    BY <1>2 DEF Det!Detection
  <2> HIDE DEF d
  <2>2. Tells(x, d)
    BY <2>1 DEF Tells
  <2> QED
    BY <2>2 DEF d
<1>3. CASE x.baseline # 0
  <2>1. PICK s : Scans(x, s) /\ Det!Scan(x) = s[x.first]
    BY ScanIs
  <2> DEFINE r == s[x.first]
  <2>2. /\ d.verdict = r.verdict /\ d.at = r.at
        /\ d.again = IF r.verdict = "recovered" THEN Det!ReDegradations(x, r.at) ELSE 0
    BY <1>3, <2>1 DEF Det!Detection
  <2>3. FirstFrom(x, s, x.first)
    BY <2>1, ScanFindsFirst
  <2>4. \A k \in Det!HeldAt(x) : k \in Nat /\ k >= x.first
    <3>1. \A k \in Det!HeldAt(x) : k \in Nat /\ k \in x.first..Det!Last(x) - 1
      BY HeldIs
    <3> QED
      BY <1>1, <3>1
  <2>5. IF r.verdict = "recovered"
        THEN r.at \in Det!HeldAt(x) /\ \A k \in Det!HeldAt(x) : r.at <= k
        ELSE Det!HeldAt(x) = {}
    BY <2>3, <2>4 DEF FirstFrom
  <2>6. r.verdict = "notRecovered" =>
          \A l \in Loads : Det!ConstantLoad(x, l) => Det!HeldAt(Det!Extended(x, l)) = {}
    <3>1. Loads \subseteq Nat
      BY DEF Det!DetectorConstants
    <3> QED
      BY <2>1, <3>1, NotRecoveredEnds
  <2>7. r.verdict = "recovered" =>
          Det!ReDegradations(x, r.at) = Det!Cardinality(Det!Episodes(x, r.at + x.hold + 1))
    BY <2>4, <2>5, EpisodesAre
  <2> HIDE DEF d, r
  <2>8. Tells(x, d)
    BY <2>2, <2>5, <2>6, <2>7 DEF Tells
  <2> QED
    BY <2>8 DEF d
<1> QED
  BY <1>2, <1>3

\* What Tells says is what DetectionSound says of it.
LEMMA TellsIsSound ==
    ASSUME Det!DetectorConstants, in \in Det!Input, Tells(in, det)
    PROVE  Det!DetectionSound
<1> DEFINE H == Det!HeldAt(in)
<1>1. \A k \in H : k \in Nat
  BY HeldIs
<1> HIDE DEF H
<1>2. ASSUME in.baseline > 0
      PROVE  IF H = {} THEN det.verdict # "recovered"
             ELSE det.verdict = "recovered" /\ det.at = Det!Min(H)
  <2>1. IF det.verdict = "recovered" THEN det.at \in H /\ \A k \in H : det.at <= k ELSE H = {}
    BY <1>2 DEF Tells, H
  <2>2. ASSUME H # {} PROVE det.at = Det!Min(H)
    <3>1. H \in SUBSET Nat
      BY <1>1
    <3>2. Min(H) \in H /\ \A k \in H : Min(H) <= k
      BY <2>2, <3>1, MinIs
    <3>3. Det!Min(H) = Min(H)
      BY DEF Det!Min, Min
    <3>4. det.at \in H /\ \A k \in H : det.at <= k
      BY <2>1, <2>2
    <3> DEFINE a == det.at
               b == Min(H)
    <3>5. a \in Nat /\ b \in Nat /\ a <= b /\ b <= a
      BY <1>1, <3>2, <3>4
    <3> HIDE DEF a, b
    <3>6. a = b
      BY <3>5
    <3> QED
      BY <3>3, <3>6 DEF a, b
  <2> QED
    BY <2>1, <2>2
<1>3. Det!FirstHeldEntry
  BY <1>2 DEF Det!FirstHeldEntry, H
<1>4. Det!NotRecoveredIsFinal
  BY DEF Det!NotRecoveredIsFinal, Tells
<1>5. Det!EpisodesCounted
  BY DEF Det!EpisodesCounted, Tells
<1> QED
  BY <1>3, <1>4, <1>5 DEF Det!DetectionSound

\* The invariant of the detector: it has not returned, or has returned the
\* Detection of what it was called with.
DetectorInv == in \in Det!Input /\ (det = Det!NotYet \/ det = Det!Detection(in))

\* Before it returns nothing is said; after, what DetectionTells proves.
LEMMA DetectorInvIsSound ==
    ASSUME Det!DetectorConstants, DetectorInv PROVE Det!DetectionSound
<1>1. CASE det = Det!NotYet
  <2>1. det.verdict # "recovered" /\ det.verdict # "notRecovered"
    BY <1>1 DEF Det!NotYet
  <2> QED
    BY <1>1, <2>1 DEF Det!DetectionSound, Det!FirstHeldEntry, Det!NotRecoveredIsFinal, Det!EpisodesCounted
<1>2. CASE det = Det!Detection(in)
  <2>1. in \in Det!Input
    BY DEF DetectorInv
  <2>2. Tells(in, Det!Detection(in))
    BY <2>1, DetectionTells
  <2>3. Tells(in, det)
    BY <1>2, <2>2
  <2> QED
    BY <2>1, <2>3, TellsIsSound
<1> QED
  BY <1>1, <1>2 DEF DetectorInv

-----------------------------------------------------------------------------
(* Evidence: each subject on its own. *)

\* A step of Evidence keeps the subject, and is a step of that subject or
\* leaves its variables as they are.
LEMMA EvidenceStep ==
    ASSUME [EvidenceNext]_evidenceVars
    PROVE  /\ subject' = subject
           /\ subject = "dispatch" => [Disp!Next]_(Disp!seriesVars)
           /\ subject = "cell" => [Ev!Next]_(Ev!cellVars)
           /\ subject = "publication" => [Pub!Next]_(Pub!pubVars)
           /\ subject = "detector" => [Det!Next]_Det!vars
           /\ subject = "records" => [Next]_vars
<1>1. CASE UNCHANGED evidenceVars
  BY <1>1
  DEF evidenceVars, dispatching, retaining, publishing, detecting, Disp!seriesVars, Ev!cellVars,
      Pub!pubVars, Det!vars
<1>2. CASE Answering
  BY <1>2 DEF Answering
<1>3. CASE Dispatching
  BY <1>3 DEF Dispatching
<1>4. CASE Retaining
  BY <1>4 DEF Retaining
<1>5. CASE Publishing
  BY <1>5 DEF Publishing
<1>6. CASE Detecting
  BY <1>6 DEF Detecting
<1>7. CASE Recording
  BY <1>7 DEF Recording
<1> QED
  BY <1>1, <1>2, <1>3, <1>4, <1>5, <1>6, <1>7 DEF EvidenceNext

\* Whatever the host's commands do, however the operator file is rewritten
\* and whenever a process dies: a cell sends its first request on records
\* that are its own and at the price the ledger charges, nothing the route
\* publishes carries a confidential value recorded or retained, and the
\* window-close record is one pages accepts.
THEOREM RecordsAreSound == EvidenceSpec => []RecordsSound
<1> DEFINE Inv == subject = "records" => IInv
<1>1. EvidenceInit => Inv
  BY Hypotheses, InitHolds DEF EvidenceInit
<1>2. Inv /\ [EvidenceNext]_evidenceVars => Inv'
  BY Hypotheses, EvidenceStep, NextKeeps
<1>3. Inv => RecordsSound
  BY Hypotheses, InvImplies DEF RecordsSound
<1> HIDE DEF Inv
<1> QED
  BY <1>1, <1>2, <1>3, PTL DEF EvidenceSpec

\* Whatever runs, dies, is labelled or closes while the notices are out, what
\* publish-check finds ready is what every provider was sent a notice of,
\* NoticeDays whole weekdays before, in a window closed after the route's
\* last cell, and it prints nothing a provider or a confidential limit
\* withholds.
THEOREM PublicationIsNoticed == EvidenceSpec => []PublishedWasNoticed
<1> DEFINE Inv == subject = "publication" => MailInv /\ Pub!PublishedWasNoticed
<1>1. EvidenceInit => Inv
  BY DEF EvidenceInit, Pub!Init, MailInv, Pub!PublishedWasNoticed
<1>2. Inv /\ [EvidenceNext]_evidenceVars => Inv'
  BY Hypotheses, EvidenceStep, PublicationNext
<1>3. Inv => PublishedWasNoticed
  BY DEF PublishedWasNoticed
<1> HIDE DEF Inv
<1> QED
  BY <1>1, <1>2, <1>3, PTL DEF EvidenceSpec

\* Any number of routes on a host, each dispatching, rewriting its series,
\* ending, dying and being labelled at any time, for any second, lag and
\* wait: in the sum a cell ends with, every route sent nothing during the
\* cell or is a source that counts all it sent up to the time the source
\* gives, and never more than was sent; and the sum passes the completeness
\* check, its counts per second adding up to what its sources sent.
THEOREM SeriesIsSound == NoneIsNoRecord => (EvidenceSpec => []SeriesSound)
<1> SUFFICES ASSUME NoneIsNoRecord PROVE EvidenceSpec => []SeriesSound
  OBVIOUS
<1> DEFINE Inv == subject = "dispatch" => HostInv(cell, time)
<1>1. EvidenceInit => Inv
  BY Hypotheses, SeriesInit DEF EvidenceInit
<1>2. Inv /\ [EvidenceNext]_evidenceVars => Inv'
  BY Hypotheses, EvidenceStep, SeriesNext
<1>3. Inv => SeriesSound
  BY SeriesFollows DEF SeriesSound
<1> HIDE DEF Inv
<1> QED
  BY <1>1, <1>2, <1>3, PTL DEF EvidenceSpec

\* Wherever a process dies or a step fails, whatever labels the cell
\* afterwards: NewManifest refuses only for the operator file or what the
\* route gives; a manifest that names its pair and a frame store with every
\* copy that is checked passes the completeness check; a counted record has a
\* counted manifest that passes it; and no attempts file is replaced.
THEOREM EvidenceIsSound == NoneIsNoRecord => (EvidenceSpec => []EvidenceSound)
<1> SUFFICES ASSUME NoneIsNoRecord PROVE EvidenceSpec => []EvidenceSound
  OBVIOUS
<1> DEFINE Inv == subject = "cell" => EvInv
<1>1. EvidenceInit => Inv
  BY Hypotheses, CellInit DEF EvidenceInit
<1>2. Inv /\ [EvidenceNext]_evidenceVars => Inv'
  BY Hypotheses, EvidenceStep, CellNext
<1>3. Inv => EvidenceSound
  BY Hypotheses, EvidenceFollows DEF EvidenceSound
<1> HIDE DEF Inv
<1> QED
  BY <1>1, <1>2, <1>3, PTL DEF EvidenceSpec

\* detectFrom, over a series of any length and load and for any window, hold
\* and bars: it recovers exactly when some entry of the range is held to the
\* end of its hold inside the series, and reports the first, however many
\* dips cancelled candidates before it; when it says "not recovered", no
\* going on of a constant-load run, however good, would have held one; and
\* it counts each re-degradation once, an oscillation between the two bars
\* neither starting nor ending one.
THEOREM DetectionIsSound == EvidenceSpec => []DetectionSound
<1> DEFINE Inv == subject = "detector" => DetectorInv
<1>1. EvidenceInit => Inv
  BY DEF EvidenceInit, Det!Init, DetectorInv
<1>2. DetectorInv /\ [Det!Next]_Det!vars => DetectorInv'
  BY DEF DetectorInv, Det!Next, Det!Detect, Det!vars
<1>3. Inv /\ [EvidenceNext]_evidenceVars => Inv'
  BY <1>2, EvidenceStep
<1>4. Inv => DetectionSound
  BY Hypotheses, DetectorInvIsSound DEF DetectionSound
<1> HIDE DEF Inv
<1> QED
  BY <1>1, <1>3, <1>4, PTL DEF EvidenceSpec
=============================================================================
