---------------------------- MODULE SetUpProofs ----------------------------
(***************************************************************************)
(* Proofs about SetUp, for any subjects, constants and inputs that satisfy *)
(* its Hypotheses, one section per subject and the theorems at the end.    *)
(*                                                                         *)
(* ReleaseStart: that a route's cells share their steps is a matter of     *)
(* what a verdict is a function of: the schedule's file freezes the        *)
(* configuration and the head of the ledger, which give the verdict        *)
(* whatever came later (Decided).  That a cell is priced is a matter of    *)
(* the ledger being the one the schedule names: another's open line        *)
(* differs, and one ledger only grows, so what covered the verdict when    *)
(* the process started covers it still (Covered).                          *)
(*                                                                         *)
(* The other parts are about what a start rests on: CeilingCheck, which    *)
(* chose the ceiling a configuration holds, for any hosts, responses and   *)
(* number of requests and records; CeilingRule, for any limits, prices and *)
(* ladders; Configuration, for any decoded file; and Schedule, for any     *)
(* window, routes and numbers drawn.  PilotSession has a module of its     *)
(* own, PilotSessionProofs, whose lemmas are cited here.                   *)
(***************************************************************************)
EXTENDS SetUp, SequenceTheorems, FiniteSetTheorems, WellFoundedInduction, TLAPS

\* A token bound; a line of the ledger.
Tokens == [in : Nat, out : Nat]

LineType ==
    [kind : {"price"}, route : Hosts, price : Prices, date : Dates, tok : Tokens]
        \cup [kind : {"settle"}, route : Hosts]

\* The file the schedule froze for a route, and the verdict it gives.
FileOf(s, h) == s.frozen[h].hmac[2]
VerdictOf(s, h) == Verdict(FileOf(s, h), FileOf(s, h).limit, RoutePrice(s.head, h))

\* A schedule names a ledger that was made and froze files and lines.
SchedOK(s) ==
    /\ s.head \in Seq(LineType) /\ s.lines = Len(s.head)
    /\ s.open.id \in Int /\ s.open.id < edits
    /\ \A h \in Hosts : FileOf(s, h) \in Files

TypeInv ==
    /\ edits \in Int /\ conf \in [Hosts -> Files]
    /\ ledger # None =>
         /\ ledger = [open |-> ledger.open, lines |-> ledger.lines]
         /\ ledger.lines \in Seq(LineType) /\ ledger.open.id \in Int /\ ledger.open.id < edits
    /\ pricing # None => pricing \in LineType
    /\ sched # None => SchedOK(sched)
    /\ procs = [h \in Hosts |-> procs[h]] /\ cells = [h \in Hosts |-> cells[h]]

\* A process's verdict is the one its schedule gives.
Decided ==
    \A h \in Hosts : \A p \in procs[h] :
        /\ SchedOK(p.sched) /\ RoutePrice(p.sched.head, h) # None
        /\ p.file = FileOf(p.sched, h) /\ p.verdict = VerdictOf(p.sched, h)
        /\ p.verdict.steps # {} /\ p.steps = Cardinality(p.verdict.steps)

\* The ledger, while it is the schedule's, covers it.
Covered ==
    \A h \in Hosts : \A p \in procs[h] :
        ledger # None /\ ledger.open = p.sched.open => Covers(ledger.lines, h, p.file, p.verdict)

\* The cells of a route are of one schedule, with its verdict's steps.
CellsOf ==
    \A h \in Hosts :
        /\ \A c \in cells[h] :
             c.verdict = VerdictOf(c.sched, h) /\ c.steps = Cardinality(c.verdict.steps)
        /\ \A c, d \in cells[h] : c.sched = d.sched

\* The inductive invariant.
IInv == TypeInv /\ Decided /\ Covered /\ CellsOf /\ CellsPriced

(***************************************************************************)
(* The operators.                                                          *)
(***************************************************************************)

\* What Max, which picks the last of the latest lines and the highest price,
\* returns of integers that are bounded.
LEMMA MaxIs ==
    ASSUME NEW S \in SUBSET Int, S # {}, NEW n \in Int, \A x \in S : x <= n
    PROVE  Max(S) \in S /\ \A x \in S : x <= Max(S)
<1> DEFINE T == {n - x : x \in S}
<1>1. T \subseteq Nat /\ T # {}
  <2>1. \A x \in S : n - x \in Nat
    OBVIOUS
  <2>2. PICK x \in S : TRUE
    OBVIOUS
  <2>3. n - x \in T
    OBVIOUS
  <2> QED
    BY <2>1, <2>3
<1>2. PICK m \in T : \A y \in T : ~(<<y, m>> \in OpToRel(<, Nat))
  BY <1>1, NatLessThanWellFounded, WFMin
<1>3. ASSUME NEW y \in T PROVE m <= y
  <2>1. y \in Nat /\ m \in Nat /\ ~(y < m)
    BY <1>1, <1>2 DEF OpToRel
  <2> QED
    BY <2>1
<1>4. PICK z \in S : m = n - z
  OBVIOUS
<1>5. ASSUME NEW x \in S PROVE z >= x
  <2>1. n - z <= n - x
    BY <1>3, <1>4
  <2>2. z \in Int /\ x \in Int
    OBVIOUS
  <2> QED
    BY <2>1, <2>2
<1> HIDE DEF T
<1> QED
  BY <1>5 DEF Max

\* A price line, by its index.
LEMMA PriceLineIs ==
    ASSUME NEW b, StartConstants(b), NEW lines \in Seq(LineType), NEW h,
           NEW i \in PriceLines(lines, h)
    PROVE  /\ i \in 1..Len(lines) /\ lines[i].price \in Prices /\ lines[i].price \in 0..b
           /\ lines[i].date \in 0..b
<1>1. i \in 1..Len(lines) /\ lines[i].kind = "price"
  BY DEF PriceLines
<1>2. lines[i] \in LineType
  <2> HIDE DEF LineType
  <2> QED
    BY <1>1
<1>3. lines[i].price \in Prices /\ lines[i].date \in Dates
  BY <1>1, <1>2 DEF LineType
<1> QED
  BY <1>1, <1>3 DEF StartConstants

\* The price of a route that has one is a list price.
LEMMA RoutePriceIs ==
    ASSUME NEW b, StartConstants(b), NEW lines \in Seq(LineType), NEW h,
           RoutePrice(lines, h) # None
    PROVE  RoutePrice(lines, h) \in Nat
<1> DEFINE ps == PriceLines(lines, h)
           latest == { i \in ps : \A j \in ps : lines[j].date <= lines[i].date }
           ds == { lines[i].date : i \in ps }
<1>1. ps # {} /\ RoutePrice(lines, h) = lines[Max(latest)].price
  BY DEF RoutePrice
<1>2. \A i \in ps : i \in 1..Len(lines) /\ lines[i].price \in 0..b /\ lines[i].date \in 0..b
  BY PriceLineIs
<1>3. b \in Nat /\ Len(lines) \in Nat
  BY DEF StartConstants
<1> HIDE DEF ps
<1>4. ds \in SUBSET Int /\ ds # {} /\ \A x \in ds : x <= b
  BY <1>1, <1>2, <1>3
<1>5. Max(ds) \in ds /\ \A x \in ds : x <= Max(ds)
  <2>1. b \in Int
    BY <1>3
  <2> HIDE DEF ds
  <2> QED
    BY <1>4, <2>1, MaxIs
<1>6. latest # {}
  <2>1. PICK i \in ps : Max(ds) = lines[i].date
    BY <1>5
  <2>2. \A j \in ps : lines[j].date <= lines[i].date
    BY <1>5, <2>1
  <2> QED
    BY <2>2
<1>7. latest \in SUBSET Int /\ \A x \in latest : x <= Len(lines)
  BY <1>2
<1>8. Max(latest) \in latest
  <2>1. Len(lines) \in Int
    BY <1>3
  <2> HIDE DEF latest
  <2> QED
    BY <1>6, <1>7, <2>1, MaxIs
<1>9. lines[Max(latest)].price \in 0..b
  BY <1>2, <1>8
<1> QED
  BY <1>1, <1>3, <1>9

\* What the ledger has for a bound is the highest of its lines.
LEMMA LedgerPriceIs ==
    ASSUME NEW b, StartConstants(b), NEW lines \in Seq(LineType), NEW h, NEW tok \in Tokens
    PROVE  LET S == {0} \cup { lines[i].price * (tok.in + tok.out) :
                                 i \in { j \in PriceLines(lines, h) : lines[j].tok = tok } }
           IN  /\ LedgerPrice(lines, h, tok) = Max(S)
               /\ Max(S) \in S /\ \A x \in S : x <= Max(S)
               /\ LedgerPrice(lines, h, tok) \in Nat
<1> DEFINE ps == { j \in PriceLines(lines, h) : lines[j].tok = tok }
           t == tok.in + tok.out
           S == {0} \cup { lines[i].price * t : i \in ps }
<1>1. b \in Nat /\ t \in Nat /\ b * t \in Nat
  BY DEF StartConstants, Tokens
<1>2. \A i \in ps : lines[i].price \in 0..b
  BY PriceLineIs
<1> HIDE DEF ps, t
<1>3. ASSUME NEW i \in ps PROVE lines[i].price * t \in Nat /\ lines[i].price * t <= b * t
  <2>1. lines[i].price \in 0..b
    BY <1>2
  <2>2. ASSUME NEW x \in 0..b PROVE x * t \in Nat /\ x * t <= b * t
    BY <1>1
  <2> QED
    BY <2>1, <2>2
<1>4. S \in SUBSET Int /\ S # {} /\ \A x \in S : x <= b * t
  BY <1>1, <1>3
<1>5. \A x \in S : x \in Nat
  BY <1>3
<1>6. Max(S) \in S /\ \A x \in S : x <= Max(S)
  <2>1. b * t \in Int
    BY <1>1
  <2> HIDE DEF S
  <2> QED
    BY <1>4, <2>1, MaxIs
<1>7. LedgerPrice(lines, h, tok) = Max(S)
  BY DEF LedgerPrice, ps, t
<1> QED
  BY <1>5, <1>6, <1>7 DEF ps, t

\* A ledger that grows admits at no less.
LEMMA LedgerGrows ==
    ASSUME NEW b, StartConstants(b), NEW lines \in Seq(LineType), NEW e \in LineType,
           NEW h, NEW tok \in Tokens
    PROVE  LedgerPrice(lines, h, tok) <= LedgerPrice(Append(lines, e), h, tok)
<1> DEFINE more == Append(lines, e)
           Found(ls) == { j \in PriceLines(ls, h) : ls[j].tok = tok }
           S(ls) == {0} \cup { ls[i].price * (tok.in + tok.out) : i \in Found(ls) }
<1>1. more \in Seq(LineType) /\ \A i \in DOMAIN lines : i \in DOMAIN more /\ more[i] = lines[i]
  <2> HIDE DEF LineType
  <2> QED
    BY AppendProperties
<1>2. \A i \in Found(lines) : i \in Found(more) /\ more[i] = lines[i]
  BY <1>1 DEF PriceLines
<1> HIDE DEF more
<1>3. S(lines) \subseteq S(more)
  <2> HIDE DEF Found
  <2> QED
    BY <1>2
<1>4. /\ LedgerPrice(lines, h, tok) = Max(S(lines)) /\ Max(S(lines)) \in S(lines)
      /\ LedgerPrice(lines, h, tok) \in Nat
  BY LedgerPriceIs
<1>5. LedgerPrice(more, h, tok) = Max(S(more)) /\ \A x \in S(more) : x <= Max(S(more))
  BY <1>1, LedgerPriceIs
<1> HIDE DEF S
<1> QED
  BY <1>3, <1>4, <1>5 DEF more

\* A ledger that covers a verdict covers it with a line more.
LEMMA CoversGrows ==
    ASSUME NEW b, StartConstants(b), NEW lines \in Seq(LineType), NEW e \in LineType,
           NEW h, NEW f \in Files, NEW v, v.perRequest \in Int, v.probe \in Int,
           Covers(lines, h, f, v)
    PROVE  Covers(Append(lines, e), h, f, v)
<1>1. CellTokens(f) \in Tokens /\ ProbeTokens(f) \in Tokens
  BY DEF CellTokens, ProbeTokens, Tokens, StartConstants
<1>2. Append(lines, e) \in Seq(LineType)
  BY AppendProperties
<1>3. ASSUME NEW tok \in Tokens, NEW n \in Int, LedgerPrice(lines, h, tok) >= n
      PROVE  LedgerPrice(Append(lines, e), h, tok) >= n
  <2>1. LedgerPrice(lines, h, tok) <= LedgerPrice(Append(lines, e), h, tok)
    BY LedgerGrows
  <2>2. LedgerPrice(lines, h, tok) \in Nat /\ LedgerPrice(Append(lines, e), h, tok) \in Nat
    BY <1>2, LedgerPriceIs
  <2> QED
    BY <1>3, <2>1, <2>2
<1> QED
  BY <1>1, <1>3 DEF Covers

\* The verdict of a schedule for a route it has a price for.
LEMMA VerdictIs ==
    ASSUME NEW b, StartConstants(b), NEW s, SchedOK(s), NEW h \in Hosts,
           RoutePrice(s.head, h) # None
    PROVE  /\ VerdictOf(s, h).perRequest \in Int /\ VerdictOf(s, h).probe \in Int
           /\ VerdictOf(s, h).steps \subseteq 1..2
<1>1. FileOf(s, h) \in Files /\ RoutePrice(s.head, h) \in Nat
  BY RoutePriceIs DEF SchedOK
<1>2. FileOf(s, h).input \in Nat /\ FileOf(s, h).ceiling \in Nat
  BY <1>1 DEF StartConstants
<1> QED
  BY <1>1, <1>2 DEF VerdictOf, Verdict

(***************************************************************************)
(* Every step keeps the invariant.                                         *)
(***************************************************************************)

\* A schedule that was sound stays so: ledgers' numbers only grow.
LEMMA SchedKept ==
    ASSUME NEW s, SchedOK(s), edits \in Int, edits' \in Int, edits <= edits'
    PROVE  SchedOK(s)'
BY DEF SchedOK, FileOf

\* A step that leaves processes and cells alone, and the ledger as it is or
\* with no line: another one has another number.
LEMMA FilesStep ==
    ASSUME NEW b, StartConstants(b), IInv, UNCHANGED <<procs, cells>>,
           edits' \in Int, edits <= edits', conf' \in [Hosts -> Files],
           \/ ledger' = ledger
           \/ ledger' = None
           \/ \E caps : /\ ledger' = [open |-> [id |-> edits, caps |-> caps], lines |-> <<>>]
                        /\ edits < edits',
           pricing' # None => pricing' \in LineType,
           sched' # None => SchedOK(sched)'
    PROVE  IInv'
<1>1. edits \in Int /\ TypeInv
  BY DEF IInv, TypeInv
<1>2. TypeInv'
  <2>1. ledger' # None =>
         /\ ledger' = [open |-> ledger'.open, lines |-> ledger'.lines]
         /\ ledger'.lines \in Seq(LineType) /\ ledger'.open.id \in Int /\ ledger'.open.id < edits'
    <3>1. CASE ledger' = ledger
      BY <1>1, <3>1 DEF TypeInv
    <3>2. ASSUME NEW caps, edits < edits',
                 ledger' = [open |-> [id |-> edits, caps |-> caps], lines |-> <<>>]
          PROVE  /\ ledger' = [open |-> ledger'.open, lines |-> ledger'.lines]
                 /\ ledger'.lines \in Seq(LineType) /\ ledger'.open.id \in Int /\ ledger'.open.id < edits'
      BY <1>1, <3>2
    <3> QED
      BY <3>1, <3>2
  <2>2. procs' = [h \in Hosts |-> procs'[h]] /\ cells' = [h \in Hosts |-> cells'[h]]
    BY <1>1 DEF TypeInv
  <2> QED
    BY <2>1, <2>2 DEF TypeInv
<1>3. Decided'
  <2> SUFFICES ASSUME NEW h \in Hosts, NEW p \in procs[h]
               PROVE  /\ SchedOK(p.sched)' /\ RoutePrice(p.sched.head, h) # None
                      /\ p.file = FileOf(p.sched, h) /\ p.verdict = VerdictOf(p.sched, h)
                      /\ p.verdict.steps # {} /\ p.steps = Cardinality(p.verdict.steps)
    BY DEF Decided
  <2> QED
    BY <1>1, SchedKept DEF IInv, Decided
<1>4. Covered'
  <2> SUFFICES ASSUME NEW h \in Hosts, NEW p \in procs[h], ledger' # None, ledger'.open = p.sched.open
               PROVE  Covers(ledger'.lines, h, p.file, p.verdict)
    BY DEF Covered
  <2>1. SchedOK(p.sched)
    BY DEF IInv, Decided
  <2>2. ledger'.open.id # edits
    BY <1>1, <2>1 DEF SchedOK
  <2>3. ledger' = ledger
    BY <2>2
  <2> QED
    BY <2>3 DEF IInv, Covered
<1>5. CellsOf' /\ CellsPriced'
  BY DEF IInv, CellsOf, CellsPriced
<1> QED
  BY <1>2, <1>3, <1>4, <1>5 DEF IInv

\* A line is appended.
LEMMA LineStep ==
    ASSUME NEW b, StartConstants(b), IInv, UNCHANGED <<conf, key, sched, procs, cells, edits>>,
           NEW e \in LineType, ledger # None, ledger' = [ledger EXCEPT !.lines = Append(@, e)],
           pricing' # None => pricing' \in LineType
    PROVE  IInv'
<1>1. /\ ledger = [open |-> ledger.open, lines |-> ledger.lines] /\ ledger.lines \in Seq(LineType)
      /\ ledger.open.id \in Int /\ ledger.open.id < edits /\ edits \in Int
  BY DEF IInv, TypeInv
<1>2. /\ ledger' = [open |-> ledger'.open, lines |-> ledger'.lines]
      /\ ledger'.open = ledger.open /\ ledger'.lines = Append(ledger.lines, e)
  <2> DEFINE o == ledger.open
             ls == ledger.lines
  <2>1. ledger = [open |-> o, lines |-> ls]
    BY <1>1
  <2> HIDE DEF o, ls
  <2> QED
    BY <2>1
<1>3. ledger'.lines \in Seq(LineType)
  BY <1>1, <1>2, AppendProperties
<1>4. TypeInv'
  BY <1>1, <1>2, <1>3 DEF IInv, TypeInv, SchedOK, FileOf
<1>5. Decided'
  BY <1>1 DEF IInv, Decided, SchedOK, FileOf, VerdictOf
<1>6. Covered'
  <2> SUFFICES ASSUME NEW h \in Hosts, NEW p \in procs[h], ledger'.open = p.sched.open
               PROVE  Covers(ledger'.lines, h, p.file, p.verdict)
    BY DEF Covered
  <2>1. Covers(ledger.lines, h, p.file, p.verdict)
    BY <1>2 DEF IInv, Covered
  <2>2. /\ SchedOK(p.sched) /\ RoutePrice(p.sched.head, h) # None
        /\ p.file = FileOf(p.sched, h) /\ p.verdict = VerdictOf(p.sched, h)
    BY DEF IInv, Decided
  <2>3. p.file \in Files
    BY <2>2 DEF SchedOK
  <2>4. p.verdict.perRequest \in Int /\ p.verdict.probe \in Int
    BY <2>2, VerdictIs
  <2> QED
    BY <1>1, <1>2, <2>1, <2>3, <2>4, CoversGrows
<1>7. CellsOf' /\ CellsPriced'
  BY DEF IInv, CellsOf, CellsPriced
<1> QED
  BY <1>4, <1>5, <1>6, <1>7 DEF IInv

\* The commands that append: price, its second line, and a check's settle.
LEMMA LinesKeep ==
    ASSUME NEW b, StartConstants(b), IInv,
           \/ RecordProbePrice
           \/ \E h \in Running : Settle(h) \/ \E p \in Prices, d \in Dates : RecordPrice(h, p, d)
    PROVE  IInv'
<1>1. Running \subseteq Hosts /\ conf \in [Hosts -> Files]
  BY DEF StartConstants, IInv, TypeInv
<1>2. CASE RecordProbePrice
  <2>1. pricing \in LineType
    BY <1>2 DEF RecordProbePrice, IInv, TypeInv
  <2> QED
    BY <1>2, <2>1, LineStep DEF RecordProbePrice
<1>3. ASSUME NEW h \in Running, Settle(h) PROVE IInv'
  <2>1. [kind |-> "settle", route |-> h] \in LineType
    BY <1>1 DEF LineType
  <2>2. pricing # None => pricing \in LineType
    BY DEF IInv, TypeInv
  <2> HIDE DEF LineType
  <2> QED
    BY <1>3, <2>1, <2>2, LineStep DEF Settle
<1>4. ASSUME NEW h \in Running, NEW p \in Prices, NEW d \in Dates, RecordPrice(h, p, d) PROVE IInv'
  <2> DEFINE Line(tok) == [kind |-> "price", route |-> h, price |-> p, date |-> d, tok |-> tok]
             bounds == Bounds(conf[h])
  <2>1. \A tok \in Tokens : Line(tok) \in LineType
    BY <1>1 DEF LineType
  <2>2. conf[h] \in Files
    BY <1>1
  <2>3. CellTokens(conf[h]) \in Tokens /\ ProbeTokens(conf[h]) \in Tokens
    BY <2>2 DEF StartConstants, Tokens, CellTokens, ProbeTokens
  <2>4. bounds[1] \in Tokens /\ (Len(bounds) # 1 => bounds[2] \in Tokens)
    BY <2>3 DEF Bounds
  <2>5. /\ ledger # None /\ ledger' = [ledger EXCEPT !.lines = Append(@, Line(bounds[1]))]
        /\ pricing' = IF Len(bounds) = 1 THEN None ELSE Line(bounds[2])
        /\ UNCHANGED <<conf, key, sched, procs, cells, edits>>
    BY <1>4 DEF RecordPrice, CheckRelease
  <2>6. Line(bounds[1]) \in LineType /\ (pricing' # None => pricing' \in LineType)
    BY <2>1, <2>4, <2>5
  <2> HIDE DEF Line, bounds, LineType
  <2> QED
    BY <2>5, <2>6, LineStep
<1> QED
  BY <1>2, <1>3, <1>4

\* The operator's hands, the ledger's and the schedule's commands.
LEMMA FilesKeep ==
    ASSUME NEW b, StartConstants(b), IInv,
           \/ CreateLedger \/ PriceDies \/ ScheduleCmd \/ RemoveLedger \/ RemoveSchedule
           \/ \E k \in Keys : ReplaceKey(k)
           \/ \E h \in Hosts, f \in Files : EditConfig(h, f)
    PROVE  IInv'
<1>1. /\ edits \in Int /\ conf \in [Hosts -> Files] /\ (pricing # None => pricing \in LineType)
      /\ (sched # None => SchedOK(sched))
  BY DEF IInv, TypeInv
<1>2. CASE CreateLedger
  <2>1. /\ UNCHANGED <<conf, key, pricing, sched, procs, cells>> /\ edits' = edits + 1
        /\ ledger' = [open |-> [id |-> edits, caps |-> Caps(conf)], lines |-> <<>>]
    BY <1>2 DEF CreateLedger, Edit
  <2>2. sched' # None => SchedOK(sched)'
    BY <1>1, <2>1 DEF SchedOK, FileOf
  <2>3. edits' \in Int /\ edits <= edits' /\ edits < edits'
    BY <1>1, <2>1
  <2>4. \E caps : /\ ledger' = [open |-> [id |-> edits, caps |-> caps], lines |-> <<>>]
                  /\ edits < edits'
    BY <2>1, <2>3
  <2> HIDE DEF LineType
  <2> QED
    BY <1>1, <2>1, <2>2, <2>3, <2>4, FilesStep
<1>3. CASE PriceDies
  <2>1. pricing' = None /\ UNCHANGED <<conf, key, ledger, sched, procs, cells, edits>>
    BY <1>3 DEF PriceDies
  <2>2. sched' # None => SchedOK(sched)'
    BY <1>1, <2>1 DEF SchedOK, FileOf
  <2>3. edits' \in Int /\ edits <= edits'
    BY <1>1, <2>1
  <2> HIDE DEF LineType
  <2> QED
    BY <1>1, <2>1, <2>2, <2>3, FilesStep
<1>4. CASE ScheduleCmd
  <2> DEFINE s == [open |-> ledger.open, lines |-> Len(ledger.lines), head |-> ledger.lines,
                   frozen |-> [h \in Hosts |-> FrozenConfig(h, conf[h], key)]]
  <2>1. sched' = s /\ UNCHANGED <<conf, key, ledger, pricing, procs, cells, edits>>
        /\ ledger # None
    BY <1>4 DEF ScheduleCmd, CheckRelease, StartConstants
  <2>2. \A h \in Hosts : FileOf(s, h) = conf[h]
    BY DEF FileOf, FrozenConfig
  <2>3. ledger.lines \in Seq(LineType) /\ ledger.open.id \in Int /\ ledger.open.id < edits
    BY <2>1 DEF IInv, TypeInv
  <2>4. edits' \in Int /\ edits <= edits'
    BY <1>1, <2>1
  <2>5. /\ s.head = ledger.lines /\ s.lines = Len(ledger.lines) /\ s.open = ledger.open
        /\ \A h \in Hosts : FileOf(s, h) \in Files
    BY <1>1, <2>2
  <2> HIDE DEF LineType, s
  <2>6. SchedOK(s)
    BY <2>3, <2>5 DEF SchedOK
  <2>7. SchedOK(sched)'
    BY <2>1, <2>6 DEF SchedOK, FileOf
  <2> QED
    BY <1>1, <2>1, <2>4, <2>7, FilesStep
<1>5. CASE RemoveLedger \/ RemoveSchedule \/ \E k \in Keys : ReplaceKey(k)
  <2>1. /\ UNCHANGED <<conf, pricing, procs, cells>> /\ edits' = edits + 1
        /\ ledger' \in {ledger, None} /\ sched' \in {sched, None}
    BY <1>5 DEF RemoveLedger, RemoveSchedule, ReplaceKey, Edit
  <2>2. sched' # None => SchedOK(sched)'
    BY <1>1, <2>1 DEF SchedOK, FileOf
  <2>3. edits' \in Int /\ edits <= edits'
    BY <1>1, <2>1
  <2> HIDE DEF LineType
  <2> QED
    BY <1>1, <2>1, <2>2, <2>3, FilesStep
<1>6. ASSUME NEW h \in Hosts, NEW f \in Files, EditConfig(h, f) PROVE IInv'
  <2>1. /\ UNCHANGED <<ledger, sched, pricing, procs, cells>> /\ edits' = edits + 1
        /\ conf' \in [Hosts -> Files]
    BY <1>1, <1>6 DEF EditConfig, Edit
  <2>2. sched' # None => SchedOK(sched)'
    BY <1>1, <2>1 DEF SchedOK, FileOf
  <2>3. edits' \in Int /\ edits <= edits'
    BY <1>1, <2>1
  <2> HIDE DEF LineType
  <2> QED
    BY <1>1, <2>1, <2>2, <2>3, FilesStep
<1> QED
  BY <1>2, <1>3, <1>4, <1>5, <1>6

\* newRoute: the file it runs is the frozen one, and the ledger up to the
\* frozen position the head, so its verdict is the schedule's.
LEMMA NewRouteKeeps ==
    ASSUME NEW b, StartConstants(b), IInv, NEW h \in Hosts, NewRoute(h)
    PROVE  IInv'
<1> DEFINE f == conf[h]
           v == Verdict(f, f.limit, RoutePrice(FrozenEntries(sched, ledger.lines), h))
           p == [verdict |-> v, steps |-> Cardinality(v.steps), file |-> f, sched |-> sched,
                 preWindow |-> SentBefore(ledger.lines, h)]
<1>1. /\ sched # None /\ SchedOK(sched) /\ ledger # None /\ ledger.open = sched.open
      /\ CheckFrozen(sched, h, f, key) /\ FrozenEntries(sched, ledger.lines) # None
      /\ RoutePrice(FrozenEntries(sched, ledger.lines), h) # None
      /\ Covers(ledger.lines, h, f, v) /\ v.steps # {}
      /\ UNCHANGED <<conf, key, ledger, pricing, sched, cells, edits>>
      /\ procs' = [procs EXCEPT ![h] = @ \cup {p}]
  BY DEF NewRoute, CheckLedger, CheckRelease, IInv, TypeInv
<1>2. f = FileOf(sched, h)
  BY <1>1 DEF CheckFrozen, FrozenConfig, FileOf
<1>3. FrozenEntries(sched, ledger.lines) = sched.head
  BY <1>1 DEF FrozenEntries
<1>4. v = VerdictOf(sched, h) /\ RoutePrice(sched.head, h) # None
  BY <1>1, <1>2, <1>3 DEF VerdictOf
<1>5. p.verdict = v /\ p.steps = Cardinality(v.steps) /\ p.file = f /\ p.sched = sched
  OBVIOUS
<1> HIDE DEF f, v, p
<1>6. procs = [g \in Hosts |-> procs[g]]
  BY DEF IInv, TypeInv
<1>7. \A g \in Hosts : procs'[g] \subseteq procs[g] \cup {p} /\ (g # h => procs'[g] = procs[g])
  BY <1>1, <1>6
<1>8. procs' = [g \in Hosts |-> procs'[g]]
  BY <1>1, <1>6
<1>9. TypeInv'
  BY <1>1, <1>8 DEF IInv, TypeInv, SchedOK, FileOf
<1>10. Decided'
  <2> SUFFICES ASSUME NEW g \in Hosts, NEW q \in procs'[g]
               PROVE  /\ SchedOK(q.sched)' /\ RoutePrice(q.sched.head, g) # None
                      /\ q.file = FileOf(q.sched, g) /\ q.verdict = VerdictOf(q.sched, g)
                      /\ q.verdict.steps # {} /\ q.steps = Cardinality(q.verdict.steps)
    BY DEF Decided
  <2>1. \A s : SchedOK(s) => SchedOK(s)'
    BY <1>1 DEF SchedOK, FileOf
  <2>2. CASE q \in procs[g]
    BY <2>1, <2>2 DEF IInv, Decided
  <2>3. CASE q = p /\ g = h
    <3>1. SchedOK(q.sched) /\ q.file = FileOf(q.sched, g) /\ q.verdict = VerdictOf(q.sched, g)
          /\ RoutePrice(q.sched.head, g) # None
      BY <1>1, <1>2, <1>4, <1>5, <2>3
    <3>2. q.verdict.steps # {} /\ q.steps = Cardinality(q.verdict.steps)
      BY <1>1, <1>5, <2>3
    <3> QED
      BY <2>1, <3>1, <3>2
  <2> QED
    BY <1>7, <2>2, <2>3
<1>11. Covered'
  <2> SUFFICES ASSUME NEW g \in Hosts, NEW q \in procs'[g], ledger.open = q.sched.open
               PROVE  Covers(ledger.lines, g, q.file, q.verdict)
    BY <1>1 DEF Covered
  <2>1. CASE q \in procs[g]
    BY <1>1, <2>1 DEF IInv, Covered
  <2>2. CASE q = p /\ g = h
    BY <1>1, <1>5, <2>2
  <2> QED
    BY <1>7, <2>1, <2>2
<1>12. CellsOf' /\ CellsPriced'
  BY <1>1 DEF IInv, CellsOf, CellsPriced
<1> QED
  BY <1>9, <1>10, <1>11, <1>12 DEF IInv

\* Steps that no limit or price read now stops: as many as there are, at
\* most two, are within both.
LEMMA StepsWithin ==
    ASSUME NEW f \in Files, NEW b, StartConstants(b), NEW read \in Int, NEW price \in Nat,
           NEW steps, steps # {}, steps \subseteq 1..2,
           \A k \in steps : Admits(f, read, price, k)
    PROVE  LET n == Cardinality(steps) IN
           2 * n <= read /\ n * price * (f.input + f.ceiling) + price * (f.input + 2) <= f.cap
<1> DEFINE n == Cardinality(steps)
           t == f.input + f.ceiling
<1>1. f.cap \in Int /\ f.input \in Nat /\ f.ceiling \in Nat
  BY DEF StartConstants
<1>2. \E k \in steps : n \in 1..k /\ k \in 1..2
  <2>1. CASE steps = {1, 2}
    <3>1. IsFiniteSet({1}) /\ Cardinality({1}) = 1
      BY FS_Singleton
    <3>2. Cardinality({1} \cup {2}) = 2
      BY <3>1, FS_AddElement
    <3>3. n = 2
      <4>1. {1, 2} = {1} \cup {2}
        OBVIOUS
      <4> QED
        BY <2>1, <3>2, <4>1
    <3> QED
      BY <2>1, <3>3
  <2>2. CASE steps # {1, 2}
    <3>1. PICK k \in 1..2 : steps = {k}
      <4>1. \A k \in steps : k = 1 \/ k = 2
        OBVIOUS
      <4>2. steps = {1} \/ steps = {2}
        BY <2>2, <4>1, Zenon
      <4> QED
        BY <4>2
    <3>2. n = 1
      BY <3>1, FS_Singleton
    <3> QED
      BY <3>1, <3>2
  <2> QED
    BY <2>1, <2>2
<1>3. PICK k \in steps : n \in 1..k /\ k \in 1..2
  BY <1>2
<1> HIDE DEF n
<1>4. 2 * k <= read /\ k * price * t + price * (f.input + 2) <= f.cap
  BY DEF Admits
<1>5. 2 * n <= read
  BY <1>3, <1>4
<1>6. n * price * t <= k * price * t
  <2> DEFINE w == price * t
  <2>1. w \in Nat /\ n * price * t = n * w /\ k * price * t = k * w
    BY <1>1, <1>3
  <2> HIDE DEF w
  <2>2. n * w <= k * w
    <3>1. CASE k = 1
      BY <1>3, <2>1, <3>1
    <3>2. CASE k = 2
      BY <1>3, <2>1, <3>2
    <3> QED
      BY <1>3, <3>1, <3>2
  <2> QED
    BY <2>1, <2>2
<1>7. n * price * t \in Int /\ k * price * t \in Int /\ price * (f.input + 2) \in Int
  BY <1>1, <1>3
<1> HIDE DEF t
<1>8. n * price * t + price * (f.input + 2) <= f.cap
  <2> DEFINE x == n * price * t
             y == k * price * t
             z == price * (f.input + 2)
  <2>1. x \in Int /\ y \in Int /\ z \in Int /\ x <= y /\ y + z <= f.cap
    BY <1>4, <1>6, <1>7
  <2> HIDE DEF x, y, z
  <2>2. x + z <= f.cap
    BY <1>1, <2>1
  <2> QED
    BY <2>2 DEF x, z
<1> QED
  BY <1>5, <1>8 DEF n, t

\* A cell: its process's verdict is the schedule's, the ledger is the one
\* the schedule names and covers it, and the limits read did not stop it.
LEMMA CellKeeps ==
    ASSUME NEW b, StartConstants(b), IInv, NEW h \in Hosts, NEW p \in procs[h],
           NEW limit \in Limits \cup {None}, Cell(h, p, limit)
    PROVE  IInv'
<1> DEFINE read == IF limit = None THEN p.file.limit ELSE limit
           price == RoutePrice(ledger.lines, h)
           admitted == [cell |-> LedgerPrice(ledger.lines, h, CellTokens(p.file)),
                        probe |-> LedgerPrice(ledger.lines, h, ProbeTokens(p.file))]
           c == [sched |-> p.sched, verdict |-> p.verdict, steps |-> p.steps, read |-> read,
                 price |-> price, admitted |-> admitted]
<1>1. /\ \A d \in cells[h] : d.sched = p.sched
      /\ ledger # None /\ ledger.open = p.sched.open /\ price # None
      /\ ~LimitsStop(p, read, price) /\ cells' = [cells EXCEPT ![h] = @ \cup {c}]
      /\ UNCHANGED <<conf, key, ledger, pricing, sched, procs, edits>>
  BY DEF Cell, SameSchedule, CheckLedger
<1>2. /\ SchedOK(p.sched) /\ RoutePrice(p.sched.head, h) # None
      /\ p.file = FileOf(p.sched, h) /\ p.verdict = VerdictOf(p.sched, h)
      /\ p.verdict.steps # {} /\ p.steps = Cardinality(p.verdict.steps)
  BY DEF IInv, Decided
<1>3. p.file \in Files /\ p.verdict.steps \subseteq 1..2
  BY <1>2, VerdictIs DEF SchedOK
<1>4. read \in Int /\ price \in Nat
  <2>1. ledger.lines \in Seq(LineType)
    BY <1>1 DEF IInv, TypeInv
  <2>2. price \in Nat
    BY <1>1, <2>1, RoutePriceIs
  <2>3. read \in Int
    BY <1>3 DEF StartConstants
  <2> QED
    BY <2>2, <2>3
<1>5. Covers(ledger.lines, h, p.file, p.verdict)
  BY <1>1 DEF IInv, Covered
<1>6. c.admitted.cell >= c.verdict.perRequest /\ c.admitted.probe >= c.verdict.probe
  BY <1>5 DEF Covers
<1>7. /\ c.sched = p.sched /\ c.verdict = p.verdict /\ c.steps = p.steps /\ c.read = read
      /\ c.price = price
  OBVIOUS
<1> HIDE DEF c, read, price, admitted
<1>8. \A k \in p.verdict.steps : Admits(p.file, read, price, k)
  BY <1>1 DEF LimitsStop, Verdict
<1>9. /\ 2 * p.steps <= read
      /\ p.steps * price * (p.file.input + p.file.ceiling) + price * (p.file.input + 2) <= p.file.cap
  BY <1>2, <1>3, <1>4, <1>8, StepsWithin
<1>10. cells = [g \in Hosts |-> cells[g]]
  BY DEF IInv, TypeInv
<1>11. /\ cells' = [g \in Hosts |-> cells'[g]]
       /\ \A g \in Hosts : cells'[g] \subseteq cells[g] \cup {c} /\ (g # h => cells'[g] = cells[g])
  BY <1>1, <1>10
<1>12. TypeInv'
  BY <1>1, <1>11 DEF IInv, TypeInv, SchedOK, FileOf
<1>13. Decided' /\ Covered'
  BY <1>1 DEF IInv, Decided, Covered, SchedOK, FileOf
<1>14. CellsOf'
  <2> SUFFICES ASSUME NEW g \in Hosts
               PROVE  /\ \A d \in cells'[g] : /\ d.verdict = VerdictOf(d.sched, g)
                                              /\ d.steps = Cardinality(d.verdict.steps)
                      /\ \A d, e \in cells'[g] : d.sched = e.sched
    BY DEF CellsOf
  <2>1. \A d \in cells[g] : d.verdict = VerdictOf(d.sched, g) /\ d.steps = Cardinality(d.verdict.steps)
    BY DEF IInv, CellsOf
  <2>2. \A d, e \in cells[g] : d.sched = e.sched
    BY DEF IInv, CellsOf
  <2>3. CASE g # h
    BY <1>11, <2>1, <2>2, <2>3
  <2>4. CASE g = h
    <3>1. c.verdict = VerdictOf(c.sched, g) /\ c.steps = Cardinality(c.verdict.steps)
      BY <1>2, <1>7, <2>4
    <3>2. \A d \in cells'[g] : d.sched = p.sched
      BY <1>1, <1>7, <1>11, <2>4
    <3> QED
      BY <1>11, <2>1, <3>1, <3>2
  <2> QED
    BY <2>3, <2>4
<1>15. CellsPriced'
  <2> DEFINE Priced(g, d) ==
        /\ d.admitted.cell >= d.verdict.perRequest /\ d.admitted.probe >= d.verdict.probe
        /\ 2 * d.steps <= d.read
        /\ d.steps * d.price * (FileOf(d.sched, g).input + FileOf(d.sched, g).ceiling)
             + d.price * (FileOf(d.sched, g).input + 2) <= FileOf(d.sched, g).cap
  <2>1. \A g \in Hosts : \A d \in cells[g] : Priced(g, d)
    BY DEF IInv, CellsPriced, FileOf
  <2>2. Priced(h, c)
    BY <1>2, <1>6, <1>7, <1>9
  <2> HIDE DEF Priced
  <2>3. \A g \in Hosts : \A d \in cells'[g] : Priced(g, d)
    BY <1>11, <2>1, <2>2
  <2> QED
    BY <2>3 DEF Priced, CellsPriced, FileOf
<1> QED
  BY <1>12, <1>13, <1>14, <1>15 DEF IInv

(***************************************************************************)
(* The invariant, initially and at every step.                             *)
(***************************************************************************)

\* No ledger, schedule, process or cell yet.
LEMMA InitInv == ASSUME NEW b, StartConstants(b), Init PROVE IInv
<1>1. TypeInv
  BY DEF Init, TypeInv, StartConstants
<1>2. Decided /\ Covered /\ CellsOf /\ CellsPriced
  BY DEF Init, Decided, Covered, CellsOf, CellsPriced
<1> QED
  BY <1>1, <1>2 DEF IInv

\* Every step keeps the invariant.
LEMMA NextInv ==
    ASSUME NEW b, StartConstants(b), IInv, [Next]_startVars
    PROVE  IInv'
<1>1. CASE UNCHANGED startVars
  BY <1>1 DEF startVars, IInv, TypeInv, SchedOK, FileOf, Decided, Covered, CellsOf, CellsPriced
<1>2. CASE \/ CreateLedger \/ PriceDies \/ ScheduleCmd \/ RemoveLedger \/ RemoveSchedule
           \/ \E k \in Keys : ReplaceKey(k)
           \/ \E h \in Hosts, f \in Files : EditConfig(h, f)
  BY <1>2, FilesKeep
<1>3. CASE \/ RecordProbePrice
           \/ \E h \in Running : Settle(h) \/ \E p \in Prices, d \in Dates : RecordPrice(h, p, d)
  BY <1>3, LinesKeep
<1>4. ASSUME NEW h \in Running,
             NewRoute(h) \/ \E p \in procs[h], l \in Limits \cup {None} : Cell(h, p, l)
      PROVE  IInv'
  <2>1. h \in Hosts
    BY DEF StartConstants
  <2> QED
    BY <1>4, <2>1, NewRouteKeeps, CellKeeps
<1> QED
  BY <1>1, <1>2, <1>3, <1>4 DEF Next

-----------------------------------------------------------------------------
(* CeilingCheck: the ceiling the hosts of one model start at. *)

\* A record's requests are checked responses, and it verifies unless it was
\* cut short.
RecordOK(r) ==
    /\ r.requests \in Seq({ Check!CheckRequest(x) : x \in Responses })
    /\ Check!Verify(r) \/ (Len(r.requests) < Requests /\ ~r.blocked)

\* A host runs on records that are on disk and that it may start on.
RanOK(h) ==
    \E rs \in SUBSET recs :
        /\ ran[h] = [choice |-> Check!ChooseCeiling(rs), records |-> rs]
        /\ Check!Startable(h, rs)

ChoiceInv ==
    /\ ceiling \in [Hosts -> {Low, High}]
    /\ ran = [h \in Hosts |-> ran[h]]
    /\ IsFiniteSet(recs)
    /\ \A r \in recs : RecordOK(r)
    /\ \A h \in Hosts : ran[h] # None => RanOK(h)

\* What a choice of rs is made from.
LeftOut(rs) == { h \in Hosts : Check!HostModelFault(h, { r \in rs : r.host = h }) }
Kept(rs) == { r \in rs : r.host \in Hosts \ LeftOut(rs) }
At(rs, h, c) == { r \in Kept(rs) : r.host = h /\ r.ceiling = c }
AllPassed(rs, c) == \A h \in Hosts \ LeftOut(rs) : \A r \in At(rs, h, c) : r.check.pass

\* A choice that runs the model kept records of open hosts only, one of a
\* host at a ceiling, and every kept host's passed at the ceiling chosen.
LEMMA ChosenOn ==
    ASSUME Check!CheckConstants, NEW rs, NEW ch, ch = Check!ChooseCeiling(rs), ch.ok, ch.ceiling # 0
    PROVE  /\ ch.leftOut = LeftOut(rs)
           /\ \A r \in Kept(rs) : ~r.blocked
           /\ \A h \in Hosts \ LeftOut(rs), c \in {Low, High} : ~(Check!Cardinality(At(rs, h, c)) > 1)
           /\ \A h \in Hosts \ LeftOut(rs) : At(rs, h, ch.ceiling) # {}
           /\ AllPassed(rs, ch.ceiling)
           /\ ch.ceiling = High => ~AllPassed(rs, Low)
<1> DEFINE routes == Hosts \ LeftOut(rs)
           bad == \/ \E r \in Kept(rs) : r.blocked \/ ~r.bound.pass \/ r.ceiling \notin {Low, High}
                  \/ \E h \in routes, c \in {Low, High} : Check!Cardinality(At(rs, h, c)) > 1
                  \/ ~\A h \in routes : At(rs, h, Low) # {}
           lacks == ~\A h \in routes : At(rs, h, High) # {}
           chosen(c) == [ok |-> TRUE, ceiling |-> c, leftOut |-> LeftOut(rs)]
<1>1. ch = IF routes = {} THEN chosen(0)
           ELSE IF bad THEN Check!Refused
           ELSE IF AllPassed(rs, Low) THEN chosen(Low)
           ELSE IF lacks THEN Check!Refused
           ELSE IF AllPassed(rs, High) THEN chosen(High)
           ELSE chosen(0)
  BY DEF Check!ChooseCeiling, LeftOut, Kept, At, AllPassed
<1>2. ~Check!Refused.ok /\ Check!Refused.ceiling = 0
  BY DEF Check!Refused
<1>3. \A c : chosen(c).ceiling = c /\ chosen(c).leftOut = LeftOut(rs)
  OBVIOUS
<1>4. Low # High
  BY DEF Check!CheckConstants
<1> HIDE DEF routes, bad, lacks, chosen
<1>5. /\ ~bad
      /\ \/ AllPassed(rs, Low) /\ ch = chosen(Low)
         \/ ~AllPassed(rs, Low) /\ ~lacks /\ AllPassed(rs, High) /\ ch = chosen(High)
  BY <1>1, <1>2, <1>3
<1>6. ch.leftOut = LeftOut(rs)
  BY <1>3, <1>5
<1>7. /\ AllPassed(rs, ch.ceiling)
      /\ ch.ceiling = High => ~AllPassed(rs, Low)
      /\ ch.ceiling = Low \/ (ch.ceiling = High /\ ~lacks)
  BY <1>3, <1>4, <1>5
<1>8. \A h \in Hosts \ LeftOut(rs) : At(rs, h, ch.ceiling) # {}
  BY <1>5, <1>7 DEF bad, lacks, routes
<1>9. /\ \A r \in Kept(rs) : ~r.blocked
      /\ \A h \in Hosts \ LeftOut(rs), c \in {Low, High} : ~(Check!Cardinality(At(rs, h, c)) > 1)
  BY <1>5 DEF bad, routes
<1> QED
  BY <1>6, <1>7, <1>8, <1>9

\* The instance's cardinality is the library's.
LEMMA CheckCardinality ==
    ASSUME NEW S
    PROVE  Check!Cardinality(S) = Cardinality(S)
  BY DEF Check!Cardinality, Cardinality

\* A subset of an interval is the interval when it is as large.
LEMMA AllCounted ==
    ASSUME NEW n \in Nat, NEW S, S \subseteq 1..n
    PROVE  Cardinality(S) = n <=> S = 1..n
<1>1. IsFiniteSet(1..n) /\ Cardinality(1..n) = n
  BY FS_Interval
<1> QED
  BY <1>1, FS_Subset

\* An open record that verifies passes when it has all its requests and no
\* request fails.
LEMMA PassedIsAll ==
    ASSUME Requests \in Nat, NEW r, RecordOK(r), Check!Verify(r), ~r.blocked
    PROVE  /\ Len(r.requests) = Requests
           /\ r.check.pass <=> \A q \in Check!ToSet(r.requests) : Check!CeilingFail(q.resp) = ""
<1> DEFINE qs == r.requests
           P == { i \in DOMAIN qs : qs[i].pass }
<1>1. qs \in Seq({ Check!CheckRequest(x) : x \in Responses })
  BY DEF RecordOK
<1>2. /\ Len(qs) = Requests /\ r.check = Check!CeilingResult(qs)
      /\ \A i \in DOMAIN qs : qs[i].fail = Check!CeilingFail(qs[i].resp) /\ qs[i].pass = (qs[i].fail = "")
  BY DEF Check!Verify
<1>3. r.check.pass <=> Cardinality(P) = Requests
  <2>1. Check!CeilingResult(qs).pass = (Check!Cardinality(P) = Requests)
    BY DEF Check!CeilingResult
  <2> HIDE DEF P, qs
  <2> QED
    BY <1>2, <2>1, CheckCardinality
<1>4. DOMAIN qs = 1..Requests
  <2> DEFINE S == { Check!CheckRequest(x) : x \in Responses }
  <2>1. qs \in Seq(S) /\ Len(qs) = Requests
    BY <1>1, <1>2
  <2> HIDE DEF qs, S
  <2> QED
    BY <2>1
<1>5. Cardinality(P) = Requests <=> P = 1..Requests
  <2>1. P \subseteq 1..Requests
    BY <1>4
  <2> HIDE DEF P
  <2> QED
    BY <2>1, AllCounted
<1>6. \A i \in DOMAIN qs : qs[i].pass <=> Check!CeilingFail(qs[i].resp) = ""
  <2> HIDE DEF qs
  <2> QED
    BY <1>2
<1>7. P = 1..Requests <=> \A i \in DOMAIN qs : Check!CeilingFail(qs[i].resp) = ""
  <2> HIDE DEF qs
  <2> QED
    BY <1>4, <1>6 DEF P
<1>8. (\A i \in DOMAIN qs : Check!CeilingFail(qs[i].resp) = "")
        <=> \A q \in Check!ToSet(qs) : Check!CeilingFail(q.resp) = ""
  BY DEF Check!ToSet
<1> QED
  BY <1>2, <1>3, <1>5, <1>7, <1>8

\* What a check writes: a record of its requests.
LEMMA CheckWrites ==
    ASSUME Check!CheckConstants, NEW h, NEW c, NEW rs \in Check!BoundedSeq(Responses, Requests),
           rs # <<>>, Check!Stopped(rs)
    PROVE  RecordOK(Check!Record(h, c, [i \in DOMAIN rs |-> Check!CheckRequest(rs[i])]))
<1> DEFINE qs == [i \in DOMAIN rs |-> Check!CheckRequest(rs[i])]
           rec == Check!Record(h, c, qs)
<1>1. Requests \in Nat
  BY DEF Check!CheckConstants
<1>2. PICK n \in 0..Requests : rs \in [1..n -> Responses]
  BY <1>1 DEF Check!BoundedSeq, Check!SeqOf
<1>3. /\ n \in Nat /\ n <= Requests /\ qs \in Seq({ Check!CheckRequest(x) : x \in Responses })
      /\ Len(qs) = n /\ Len(rs) = n /\ DOMAIN qs = 1..n
  <2>1. qs \in [1..n -> { Check!CheckRequest(x) : x \in Responses }]
    BY <1>2
  <2> HIDE DEF qs
  <2> QED
    BY <1>1, <1>2, <2>1
<1>4. \A i \in 1..n : /\ qs[i].resp = rs[i] /\ qs[i].fail = Check!CeilingFail(rs[i])
                      /\ qs[i].pass = (Check!CeilingFail(rs[i]) = "")
  BY <1>2 DEF Check!CheckRequest
<1>5. /\ rec.requests = qs /\ rec.blocked = Check!Blocked(qs)
      /\ rec.check = Check!CeilingResult(qs) /\ rec.bound = Check!InputResult(qs)
  BY DEF Check!Record
<1>6. \A i \in 1..n : i < n => ~Check!Gate(rs[i].status)
  BY <1>3 DEF Check!Stopped
<1>7. \A i \in 1..n : Check!CeilingFail(rs[i]) = "" => rs[i].status = 200 /\ rs[i].dispatched
  <2> SUFFICES ASSUME NEW x \in Responses, Check!CeilingFail(x) = ""
               PROVE  x.status = 200 /\ x.dispatched
    BY <1>2, ZenonT(40)
  <2>1. x.status \in {0, 200} /\ x.shape # "none"
    BY DEF Check!CeilingFail
  <2> QED
    BY <2>1 DEF Check!CheckConstants
<1> HIDE DEF qs, rec
<1>8. CASE rec.blocked \/ n = Requests
  <2>1. \A i \in DOMAIN qs :
          /\ qs[i].fail = Check!CeilingFail(qs[i].resp) /\ qs[i].pass = (qs[i].fail = "")
          /\ qs[i].pass => qs[i].resp.status = 200 /\ qs[i].resp.dispatched
          /\ i < Len(qs) => ~Check!Gate(qs[i].resp.status)
    <3> SUFFICES ASSUME NEW i \in 1..n
                 PROVE  /\ qs[i].fail = Check!CeilingFail(qs[i].resp) /\ qs[i].pass = (qs[i].fail = "")
                        /\ qs[i].pass => qs[i].resp.status = 200 /\ qs[i].resp.dispatched
                        /\ i < Len(qs) => ~Check!Gate(qs[i].resp.status)
      BY <1>3
    <3>1. /\ qs[i].resp = rs[i] /\ qs[i].fail = Check!CeilingFail(rs[i])
          /\ qs[i].pass = (Check!CeilingFail(rs[i]) = "")
      BY <1>4
    <3>2. qs[i].fail = Check!CeilingFail(qs[i].resp) /\ qs[i].pass = (qs[i].fail = "")
      BY <3>1
    <3>3. qs[i].pass => qs[i].resp.status = 200 /\ qs[i].resp.dispatched
      <4>1. Check!CeilingFail(rs[i]) = "" => rs[i].status = 200 /\ rs[i].dispatched
        BY <1>7
      <4>2. qs[i].pass => Check!CeilingFail(rs[i]) = ""
        BY <3>1
      <4> QED
        BY <3>1, <4>1, <4>2, Zenon
    <3>4. i < Len(qs) => ~Check!Gate(qs[i].resp.status)
      BY <1>3, <1>6, <3>1
    <3> QED
      BY <3>2, <3>3, <3>4, Zenon
  <2>2. Check!Verify(rec)
    BY <1>3, <1>5, <1>8, <2>1 DEF Check!Verify
  <2> QED
    BY <1>3, <1>5, <2>2 DEF RecordOK, rec, qs
<1>9. CASE ~rec.blocked /\ n < Requests
  BY <1>3, <1>5, <1>9 DEF RecordOK, rec, qs
<1> QED
  BY <1>1, <1>3, <1>8, <1>9

\* The records a host may start on: its ceiling is the one chosen, nothing
\* it reports keeps it out, and every record has all its requests.
LEMMA StartsOn ==
    ASSUME Check!CheckConstants, ChoiceInv, NEW h \in Hosts, NEW rs \in SUBSET recs,
           Check!Startable(h, rs)
    PROVE  /\ Check!ChooseCeiling(rs).ok /\ Check!ChooseCeiling(rs).ceiling \in {Low, High}
           /\ Check!ChooseCeiling(rs).ceiling # 0
           /\ h \notin LeftOut(rs) /\ \A r \in rs : Check!Verify(r) /\ RecordOK(r)
  BY DEF Check!CheckConstants, ChoiceInv, Check!Startable, LeftOut, Check!HostModelFault, Check!ModelFault

\* A host that started ran on its own evidence.
LEMMA EvidenceHolds ==
    ASSUME Check!CheckConstants, ChoiceInv
    PROVE  Check!RunsOnEvidence
<1> DEFINE Kst(h) == { r \in ran[h].records : r.host \notin ran[h].choice.leftOut }
           Passed(h, g, k) == \E r \in Kst(h) : r.host = g /\ r.ceiling = k
                                /\ Len(r.requests) = Requests
                                /\ \A q \in Check!ToSet(r.requests) : Check!CeilingFail(q.resp) = ""
<1> SUFFICES ASSUME NEW h \in Hosts, ran[h] # None
             PROVE  /\ h \notin ran[h].choice.leftOut
                    /\ \A g \in Hosts \ ran[h].choice.leftOut : Passed(h, g, ran[h].choice.ceiling)
                    /\ ran[h].choice.ceiling = High =>
                         \E g \in Hosts \ ran[h].choice.leftOut : ~Passed(h, g, Low)
  BY DEF Check!RunsOnEvidence
<1>1. PICK rs \in SUBSET recs : /\ ran[h] = [choice |-> Check!ChooseCeiling(rs), records |-> rs]
                                /\ Check!Startable(h, rs)
  BY DEF ChoiceInv, RanOK
<1> DEFINE ch == Check!ChooseCeiling(rs)
<1>2. ran[h].choice = ch /\ ran[h].records = rs
  BY <1>1
<1>3. /\ ch.ok /\ ch.ceiling \in {Low, High} /\ ch.ceiling # 0
      /\ h \notin LeftOut(rs) /\ \A r \in rs : Check!Verify(r) /\ RecordOK(r)
  BY <1>1, StartsOn
<1>4. ch = Check!ChooseCeiling(rs)
  OBVIOUS
<1> HIDE DEF ch
<1>5. /\ ch.leftOut = LeftOut(rs)
      /\ \A r \in Kept(rs) : ~r.blocked
      /\ \A g \in Hosts \ LeftOut(rs), c \in {Low, High} : ~(Check!Cardinality(At(rs, g, c)) > 1)
      /\ \A g \in Hosts \ LeftOut(rs) : At(rs, g, ch.ceiling) # {}
      /\ AllPassed(rs, ch.ceiling)
      /\ ch.ceiling = High => ~AllPassed(rs, Low)
  BY <1>3, <1>4, ChosenOn
<1>6. Requests \in Nat
  BY DEF Check!CheckConstants
<1>7. \A r \in Kept(rs) :
        /\ Len(r.requests) = Requests
        /\ r.check.pass <=> \A q \in Check!ToSet(r.requests) : Check!CeilingFail(q.resp) = ""
  <2> SUFFICES ASSUME NEW r \in Kept(rs)
               PROVE  /\ Len(r.requests) = Requests
                      /\ r.check.pass <=> \A q \in Check!ToSet(r.requests) : Check!CeilingFail(q.resp) = ""
    OBVIOUS
  <2>1. r \in rs
    BY DEF Kept
  <2> QED
    BY <1>3, <1>5, <1>6, <2>1, PassedIsAll
<1>8. \A g \in Hosts \ LeftOut(rs) : \A k, r : r \in At(rs, g, k) <=> (r \in Kst(h) /\ r.host = g /\ r.ceiling = k)
  <2> SUFFICES ASSUME NEW g \in Hosts \ LeftOut(rs), NEW k, NEW r
               PROVE  r \in At(rs, g, k) <=> (r \in Kst(h) /\ r.host = g /\ r.ceiling = k)
    OBVIOUS
  <2>1. Kst(h) = { x \in rs : x.host \notin LeftOut(rs) }
    BY <1>2, <1>5
  <2> HIDE DEF Kst
  <2> QED
    BY <2>1 DEF At, Kept
<1>9. \A g \in Hosts \ LeftOut(rs) : \A k : \A r \in At(rs, g, k) : r \in Kept(rs)
  BY DEF At
<1> HIDE DEF Kst
<1>10. \A g \in Hosts \ LeftOut(rs) : Passed(h, g, ch.ceiling)
  <2> SUFFICES ASSUME NEW g \in Hosts \ LeftOut(rs)
               PROVE  Passed(h, g, ch.ceiling)
    OBVIOUS
  <2>1. PICK r : r \in At(rs, g, ch.ceiling)
    BY <1>5
  <2>2. r.check.pass
    BY <1>5, <2>1 DEF AllPassed
  <2>3. /\ r \in Kst(h) /\ r.host = g /\ r.ceiling = ch.ceiling
        /\ Len(r.requests) = Requests
        /\ \A q \in Check!ToSet(r.requests) : Check!CeilingFail(q.resp) = ""
    <3>1. r \in Kept(rs)
      BY <1>9, <2>1
    <3>2. r \in Kst(h) /\ r.host = g /\ r.ceiling = ch.ceiling
      BY <1>8, <2>1
    <3>3. /\ Len(r.requests) = Requests
          /\ \A q \in Check!ToSet(r.requests) : Check!CeilingFail(q.resp) = ""
      BY <1>7, <2>2, <3>1
    <3> QED
      BY <3>2, <3>3
  <2> QED
    BY <2>3
<1>11. ASSUME ~AllPassed(rs, Low)
       PROVE  \E g \in Hosts \ LeftOut(rs) : ~Passed(h, g, Low)
  <2>1. PICK g \in Hosts \ LeftOut(rs) : \E r \in At(rs, g, Low) : ~r.check.pass
    BY <1>11 DEF AllPassed
  <2>2. PICK r \in At(rs, g, Low) : ~r.check.pass
    BY <2>1
  <2>3. \A x \in At(rs, g, Low) : x = r
    <3>1. At(rs, g, Low) \subseteq recs /\ IsFiniteSet(recs)
      BY DEF At, Kept, ChoiceInv
    <3>2. IsFiniteSet(At(rs, g, Low))
      BY <3>1, FS_Subset
    <3>3. ~(Cardinality(At(rs, g, Low)) > 1)
      BY <1>5, CheckCardinality
    <3> SUFFICES ASSUME NEW x \in At(rs, g, Low), x # r
                 PROVE  FALSE
      OBVIOUS
    <3>4. {x, r} \subseteq At(rs, g, Low)
      OBVIOUS
    <3>5. Cardinality({x, r}) = 2
      <4>1. IsFiniteSet({x}) /\ Cardinality({x}) = 1
        BY FS_Singleton
      <4>2. Cardinality({x} \cup {r}) = Cardinality({x}) + 1
        BY <4>1, FS_AddElement
      <4>3. {x} \cup {r} = {x, r}
        OBVIOUS
      <4> QED
        BY <4>1, <4>2, <4>3
    <3>6. Cardinality({x, r}) <= Cardinality(At(rs, g, Low)) /\ Cardinality(At(rs, g, Low)) \in Nat
      BY <3>2, <3>4, FS_Subset, FS_CardinalityType
    <3> QED
      BY <3>3, <3>5, <3>6
  <2>4. ~Passed(h, g, Low)
    BY <1>7, <1>8, <1>9, <2>2, <2>3
  <2> HIDE DEF Passed
  <2> QED
    BY <2>4
<1> HIDE DEF Passed
<1> QED
  BY <1>2, <1>3, <1>5, <1>10, <1>11

\* No host runs on records that leave it out.
LEMMA LeftOutHolds ==
    ASSUME Check!CheckConstants, ChoiceInv
    PROVE  Check!LeftOutNeverRuns
<1>1. ASSUME NEW h \in Hosts, ran[h] # None
      PROVE  /\ ran[h].choice.leftOut = LeftOut(ran[h].records)
             /\ h \notin LeftOut(ran[h].records)
  <2>1. PICK rs \in SUBSET recs : /\ ran[h] = [choice |-> Check!ChooseCeiling(rs), records |-> rs]
                                  /\ Check!Startable(h, rs)
    BY <1>1 DEF ChoiceInv, RanOK
  <2>2. ran[h].choice = Check!ChooseCeiling(rs) /\ ran[h].records = rs
    BY <2>1
  <2>3. /\ ran[h].choice.ok /\ ran[h].choice.ceiling # 0 /\ h \notin LeftOut(rs)
    BY <2>1, <2>2, StartsOn
  <2> QED
    BY <2>2, <2>3, ChosenOn
<1>2. ASSUME NEW g \in Hosts, NEW rs, g \in LeftOut(rs)
      PROVE  ~Check!Startable(g, rs)
  BY <1>2 DEF Check!Startable, LeftOut, Check!HostModelFault, Check!ModelFault
<1>3. ASSUME NEW h \in Hosts, NEW g \in Hosts, ran[h] # None, g \in ran[h].choice.leftOut
      PROVE  ~Check!Startable(g, ran[h].records)
  BY <1>1, <1>2, <1>3
<1>4. ASSUME Check!SameCeiling, NEW h \in Hosts, NEW g \in Hosts, ran[h] # None, ran[g] # None
      PROVE  ran[h].choice.ceiling = ran[g].choice.ceiling /\ g \notin ran[h].choice.leftOut
  <2>1. ran[h].choice = ran[g].choice
    BY <1>4 DEF Check!SameCeiling
  <2> QED
    BY <1>1, <1>4, <2>1
<1> QED
  BY <1>3, <1>4 DEF Check!LeftOutNeverRuns

\* Every step keeps the invariant.
LEMMA ChoiceNext ==
    ASSUME Check!CheckConstants, ChoiceInv, [Check!Next]_(Check!checkVars)
    PROVE  ChoiceInv'
<1>1. CASE UNCHANGED Check!checkVars
  BY <1>1 DEF Check!checkVars, ChoiceInv, RecordOK, RanOK, Check!Startable
<1>2. ASSUME NEW h \in Hosts, NEW c \in {Low, High},
             NEW rs \in Check!BoundedSeq(Responses, Requests), rs # <<>>, Check!CheckCeiling(h, c, rs)
      PROVE  ChoiceInv'
  <2> DEFINE new == Check!Record(h, c, [i \in DOMAIN rs |-> Check!CheckRequest(rs[i])])
  <2>1. Check!Stopped(rs) /\ recs' = recs \cup {new} /\ UNCHANGED <<ceiling, ran>>
    BY <1>2 DEF Check!CheckCeiling
  <2>2. RecordOK(new)
    BY <1>2, <2>1, CheckWrites
  <2> HIDE DEF new
  <2>3. IsFiniteSet(recs')
    BY <2>1, FS_AddElement DEF ChoiceInv
  <2>4. \A g \in Hosts : ran[g] # None => RanOK(g)'
    BY <2>1 DEF ChoiceInv, RanOK, Check!Startable
  <2> QED
    BY <2>1, <2>2, <2>3, <2>4 DEF ChoiceInv, RecordOK
<1>3. ASSUME NEW h \in Hosts, NEW rs \in SUBSET recs, Check!StartRoute(h, rs)
      PROVE  ChoiceInv'
  <2> DEFINE one == [choice |-> Check!ChooseCeiling(rs), records |-> rs]
  <2>1. /\ Check!Startable(h, rs) /\ ran' = [ran EXCEPT ![h] = one]
        /\ UNCHANGED <<ceiling, recs>>
    BY <1>3 DEF Check!StartRoute
  <2> HIDE DEF one
  <2>2. /\ ran' = [g \in Hosts |-> ran'[g]] /\ ran'[h] = one
        /\ \A g \in Hosts : g # h => ran'[g] = ran[g]
    BY <2>1 DEF ChoiceInv
  <2>3. Check!Startable(h, rs)' /\ RanOK(h)'
    <3>1. Check!Startable(h, rs)'
      BY <2>1 DEF Check!Startable
    <3> QED
      BY <2>1, <2>2, <3>1 DEF RanOK, one
  <2>4. \A g \in Hosts : g # h /\ ran[g] # None => RanOK(g)'
    BY <2>1, <2>2 DEF ChoiceInv, RanOK, Check!Startable
  <2>5. \A g \in Hosts : ran'[g] # None => RanOK(g)'
    BY <2>2, <2>3, <2>4
  <2> QED
    BY <2>1, <2>2, <2>5 DEF ChoiceInv, RecordOK
<1> QED
  BY <1>1, <1>2, <1>3 DEF Check!Next

\* No record and no host that runs yet.
LEMMA ChoiceInit == ASSUME Check!CheckConstants, Check!Init PROVE ChoiceInv
<1>1. IsFiniteSet({})
  BY FS_EmptySet
<1> QED
  BY <1>1 DEF Check!Init, ChoiceInv

\* What the invariant says of the records and of the hosts that run.
LEMMA ChoiceHolds == ASSUME Check!CheckConstants, ChoiceInv PROVE Check!ChoiceSound
<1>1. Check!WrittenVerify
  BY DEF ChoiceInv, RecordOK, Check!WrittenVerify
<1> QED
  BY <1>1, EvidenceHolds, LeftOutHolds DEF Check!ChoiceSound

-----------------------------------------------------------------------------
(* CeilingRule: the steps a route's limits and cap admit. *)

\* A cell's traffic: a warm-up and the counts of five steps.
Traffic(l) == l.warmup \in Nat /\ l.steps \in [1..5 -> Nat]

\* The requests of a cell up to a step, written out.
UpTo(l, k) ==
    l.warmup + (IF k >= 1 THEN l.steps[1] ELSE 0) + (IF k >= 2 THEN l.steps[2] ELSE 0)
             + (IF k >= 3 THEN l.steps[3] ELSE 0) + (IF k >= 4 THEN l.steps[4] ELSE 0)
             + (IF k >= 5 THEN l.steps[5] ELSE 0)

\* The running sum of CeilingRule's loop is that.
LEMMA RequestsAre ==
    ASSUME NEW l, Traffic(l), NEW k \in 0..5
    PROVE  Rate!CellRequests(l, k) = UpTo(l, k)
<1> DEFINE Sums(f) == f = [i \in 0..k |-> IF i = 0 THEN l.warmup ELSE f[i - 1] + l.steps[i]]
           g == [i \in 0..k |-> UpTo(l, i)]
           s1 == l.steps[1]
           s2 == l.steps[2]
           s3 == l.steps[3]
           s4 == l.steps[4]
           s5 == l.steps[5]
<1>1. l.warmup \in Nat /\ s1 \in Nat /\ s2 \in Nat /\ s3 \in Nat /\ s4 \in Nat /\ s5 \in Nat
  BY DEF Traffic
<1>2. UpTo(l, 0) = l.warmup
  BY <1>1 DEF UpTo
<1>3. ASSUME NEW i \in 1..k PROVE UpTo(l, i) = UpTo(l, i - 1) + l.steps[i]
  <2>1. i \in {1, 2, 3, 4, 5}
    OBVIOUS
  <2>2. CASE i = 1
    BY <1>1, <2>2 DEF UpTo
  <2>3. CASE i = 2
    BY <1>1, <2>3 DEF UpTo
  <2>4. CASE i = 3
    BY <1>1, <2>4 DEF UpTo
  <2>5. CASE i = 4
    BY <1>1, <2>5 DEF UpTo
  <2>6. CASE i = 5
    BY <1>1, <2>6 DEF UpTo
  <2> QED
    BY <2>1, <2>2, <2>3, <2>4, <2>5, <2>6
<1>4. Sums(g)
  <2>1. ASSUME NEW i \in 0..k
        PROVE  g[i] = IF i = 0 THEN l.warmup ELSE g[i - 1] + l.steps[i]
    BY <1>2, <1>3
  <2> QED
    BY <2>1
<1>5. PICK f : Sums(f) /\ Rate!CellRequests(l, k) = f[k]
  BY <1>4 DEF Rate!CellRequests
<1>6. f[0] = UpTo(l, 0)
  BY <1>2, <1>5
<1>7. ASSUME NEW i \in 1..k, f[i - 1] = UpTo(l, i - 1) PROVE f[i] = UpTo(l, i)
  BY <1>3, <1>5, <1>7
<1> HIDE DEF Sums
<1>8. /\ 1 <= k => f[1] = UpTo(l, 1)
      /\ 2 <= k => f[2] = UpTo(l, 2)
      /\ 3 <= k => f[3] = UpTo(l, 3)
      /\ 4 <= k => f[4] = UpTo(l, 4)
      /\ 5 <= k => f[5] = UpTo(l, 5)
  <2>1. 1 <= k => f[1] = UpTo(l, 1)
    BY <1>6, <1>7
  <2>2. 2 <= k => f[2] = UpTo(l, 2)
    BY <1>7, <2>1
  <2>3. 3 <= k => f[3] = UpTo(l, 3)
    BY <1>7, <2>2
  <2>4. 4 <= k => f[4] = UpTo(l, 4)
    BY <1>7, <2>3
  <2>5. 5 <= k => f[5] = UpTo(l, 5)
    BY <1>7, <2>4
  <2> QED
    BY <2>1, <2>2, <2>3, <2>4, <2>5
<1>9. k \in {0, 1, 2, 3, 4, 5}
  OBVIOUS
<1> QED
  BY <1>5, <1>6, <1>8, <1>9

\* A later step sends more, and so does a ladder with higher counts.
LEMMA RequestsGrow ==
    ASSUME NEW l, Traffic(l), NEW k \in 0..5, NEW j \in 0..5, k <= j
    PROVE  Rate!CellRequests(l, k) \in Nat /\ Rate!CellRequests(l, k) <= Rate!CellRequests(l, j)
<1>1. l.warmup \in Nat /\ \A i \in {1, 2, 3, 4, 5} : l.steps[i] \in Nat
  BY DEF Traffic
<1>2. UpTo(l, k) \in Nat /\ UpTo(l, k) <= UpTo(l, j)
  BY <1>1 DEF UpTo
<1> QED
  BY <1>2, RequestsAre

\* A ladder that asks no more in any step asks no more up to step k.
LEMMA RequestsBound ==
    ASSUME NEW l, Traffic(l), NEW m, Traffic(m), NEW k \in 0..5,
           l.warmup <= m.warmup, \A i \in 1..5 : l.steps[i] <= m.steps[i]
    PROVE  Rate!CellRequests(l, k) <= Rate!CellRequests(m, k)
<1>1. /\ l.warmup \in Nat /\ \A i \in {1, 2, 3, 4, 5} : l.steps[i] \in Nat
      /\ m.warmup \in Nat /\ \A i \in {1, 2, 3, 4, 5} : m.steps[i] \in Nat
      /\ \A i \in {1, 2, 3, 4, 5} : l.steps[i] <= m.steps[i]
  BY DEF Traffic
<1>2. UpTo(l, k) <= UpTo(m, k)
  BY <1>1 DEF UpTo
<1> QED
  BY <1>2, RequestsAre

\* Products of natural numbers.
LEMMA Times ==
    ASSUME NEW a \in Nat, NEW x \in Nat, NEW y \in Nat, x <= y
    PROVE  a * x \in Nat /\ a * x <= a * y
  OBVIOUS

\* A product grows with its factor.
LEMMA TimesLeft ==
    ASSUME NEW a \in Nat, NEW x \in Nat, NEW y \in Nat, x <= y
    PROVE  x * a \in Nat /\ x * a <= y * a
  OBVIOUS

\* The exact plan: its pinned parts, and counts that bound every ladder's.
LEMMA PlanIs ==
    ASSUME NEW cfg, NEW p, NEW ladders, NEW bound, Rate!RuleInput(cfg, p, ladders, bound)
    PROVE  LET plan == Rate!ExactPlan(ladders) IN
           /\ Traffic(plan) /\ plan.cells = 14 /\ plan.dayCells = 6 /\ plan.probe = 100
           /\ \A l \in ladders : /\ Traffic(l) /\ l.warmup <= plan.warmup
                                 /\ \A k \in 1..5 : l.steps[k] <= plan.steps[k]
<1> DEFINE plan == Rate!ExactPlan(ladders)
           warm == { l.warmup : l \in ladders }
           step(k) == { l.steps[k] : l \in ladders }
<1>1. DOMAIN Rate!Ladder = 1..5
  BY DEF Rate!Ladder
<1>2. /\ bound \in Nat /\ ladders # {}
      /\ \A l \in ladders : l.warmup \in 0..bound /\ l.steps \in [1..5 -> 0..bound]
  BY <1>1 DEF Rate!RuleInput
<1>3. /\ plan.warmup = Rate!Max(warm) /\ plan.steps = [k \in 1..5 |-> Rate!Max(step(k))]
      /\ plan.cells = 14 /\ plan.dayCells = 6 /\ plan.probe = 100
  BY <1>1 DEF Rate!ExactPlan, Rate!ExpectedPlan, Rate!ReleaseCells, Rate!ReleaseReruns,
              Rate!ReleaseDayCells, Rate!ReleaseProbeAllowance
<1>4. \A S : Rate!Max(S) = Max(S)
  BY DEF Rate!Max, Max
<1>5. plan.warmup \in warm /\ \A x \in warm : x <= plan.warmup
  <2>1. bound \in Int /\ warm \in SUBSET Int /\ warm # {} /\ \A x \in warm : x <= bound
    BY <1>2
  <2>2. plan.warmup = Max(warm)
    BY <1>3, <1>4
  <2> HIDE DEF warm
  <2>3. Max(warm) \in warm /\ \A x \in warm : x <= Max(warm)
    BY <2>1, MaxIs
  <2> QED
    BY <2>2, <2>3
<1>6. ASSUME NEW k \in 1..5
      PROVE  plan.steps[k] \in step(k) /\ \A x \in step(k) : x <= plan.steps[k]
  <2>1. bound \in Int /\ step(k) \in SUBSET Int /\ step(k) # {} /\ \A x \in step(k) : x <= bound
    BY <1>2
  <2>2. plan.steps[k] = Max(step(k))
    BY <1>3, <1>4
  <2> HIDE DEF step
  <2>3. Max(step(k)) \in step(k) /\ \A x \in step(k) : x <= Max(step(k))
    BY <2>1, MaxIs
  <2> QED
    BY <2>2, <2>3
<1>7. plan.warmup \in Nat /\ \A k \in 1..5 : plan.steps[k] \in Nat
  BY <1>2, <1>5, <1>6
<1>8. plan.steps = [k \in 1..5 |-> plan.steps[k]]
  BY <1>3
<1>9. Traffic(plan)
  <2> HIDE DEF plan
  <2> QED
    BY <1>7, <1>8 DEF Traffic
<1>10. ASSUME NEW l \in ladders
       PROVE  /\ Traffic(l) /\ l.warmup <= plan.warmup
              /\ \A k \in 1..5 : l.steps[k] <= plan.steps[k]
  <2>1. Traffic(l)
    BY <1>2 DEF Traffic
  <2> QED
    BY <1>5, <1>6, <2>1
<1> HIDE DEF plan
<1> QED
  BY <1>3, <1>9, <1>10 DEF plan

\* What a step is tested with: the plan's traffic and the two prices.
Setting(cfg, plan, c, cProbe) ==
    /\ Traffic(plan) /\ plan.cells = 14 /\ plan.dayCells = 6 /\ plan.probe = 100
    /\ {c, cProbe, cfg.input, cfg.ceiling, cfg.unpublished} \subseteq Nat

\* Every dollar figure rises with the step.
LEMMA CostsRise ==
    ASSUME NEW cfg, NEW plan, NEW c, NEW cProbe, Setting(cfg, plan, c, cProbe),
           NEW k \in 1..5, NEW j \in 1..5, k <= j
    PROVE  /\ Rate!EditionUSD(c, cProbe, plan, k) \in Nat
           /\ Rate!EditionUSD(c, cProbe, plan, k) <= Rate!EditionUSD(c, cProbe, plan, j)
           /\ Rate!CellUSD(c, plan, k) \in Nat
           /\ Rate!CellUSD(c, plan, k) <= Rate!CellUSD(c, plan, j)
<1> DEFINE x == Rate!CellRequests(plan, k)
           y == Rate!CellRequests(plan, j)
<1>1. c \in Nat /\ cProbe \in Nat /\ plan.cells = 14 /\ plan.probe = 100 /\ Traffic(plan)
  BY DEF Setting
<1>2. x \in Nat /\ y \in Nat /\ x <= y
  BY <1>1, RequestsGrow
<1> HIDE DEF x, y
<1>3. c * x \in Nat /\ c * x <= c * y
  BY <1>1, <1>2, Times
<1>4. c * 14 * x \in Nat /\ c * 14 * x <= c * 14 * y
  <2>1. c * 14 \in Nat
    BY <1>1
  <2> QED
    BY <1>2, <2>1, Times
<1>5. c * 14 * y \in Nat /\ c * y \in Nat
  <2>1. c * 14 \in Nat
    BY <1>1
  <2> QED
    BY <1>1, <1>2, <2>1, Times
<1>6. cProbe * 100 \in Nat
  BY <1>1
<1>7. /\ Rate!EditionUSD(c, cProbe, plan, k) = c * 14 * x + cProbe * 100
      /\ Rate!EditionUSD(c, cProbe, plan, j) = c * 14 * y + cProbe * 100
      /\ Rate!CellUSD(c, plan, k) = c * x /\ Rate!CellUSD(c, plan, j) = c * y
  BY <1>1 DEF Rate!EditionUSD, Rate!CellUSD, x, y
<1> QED
  BY <1>3, <1>4, <1>5, <1>6, <1>7

\* Every limit's demand rises with the step.
LEMMA DemandRises ==
    ASSUME NEW cfg, NEW plan, NEW c, NEW cProbe, Setting(cfg, plan, c, cProbe),
           NEW l, l.dim \in Rate!Dimensions, l.burndown \in Nat, l.window \in Nat,
           NEW k \in 1..5, NEW j \in 1..5, k <= j
    PROVE  /\ Rate!LimitDemand(l, cfg, plan, c, cProbe, k) \in Nat
           /\ Rate!LimitDemand(l, cfg, plan, c, cProbe, k)
                <= Rate!LimitDemand(l, cfg, plan, c, cProbe, j)
<1> DEFINE D(i) == Rate!LimitDemand(l, cfg, plan, c, cProbe, i)
           x == Rate!CellRequests(plan, k)
           y == Rate!CellRequests(plan, j)
           r == Rate!Ladder[k]
           s == Rate!Ladder[j]
           t == Rate!Tokens(l, cfg)
<1>1. c \in Nat /\ cProbe \in Nat /\ plan.dayCells = 6 /\ cfg.input \in Nat /\ cfg.ceiling \in Nat
  BY DEF Setting
<1>2. x \in Nat /\ y \in Nat /\ x <= y
  BY RequestsGrow DEF Setting
<1>3. r \in Nat /\ s \in Nat /\ r <= s
  <2>1. k \in {1, 2, 3, 4, 5} /\ j \in {1, 2, 3, 4, 5}
    OBVIOUS
  <2> QED
    BY <2>1 DEF Rate!Ladder
<1>4. t \in Nat
  <2>1. cfg.ceiling * l.burndown \in Nat
    BY <1>1
  <2> QED
    BY <1>1, <2>1 DEF Rate!Tokens
<1>5. /\ l.dim = "rpm" => D(k) = 60 * r /\ D(j) = 60 * s
      /\ l.dim = "rps" => D(k) = r /\ D(j) = s
      /\ l.dim = "tpm" => D(k) = 60 * r * t /\ D(j) = 60 * s * t
      /\ l.dim = "input_tpm" => D(k) = 60 * r * cfg.input /\ D(j) = 60 * s * cfg.input
      /\ l.dim = "output_tpm" => D(k) = 60 * r * cfg.ceiling /\ D(j) = 60 * s * cfg.ceiling
      /\ l.dim = "concurrency" => D(k) = r * 90 /\ D(j) = s * 90
      /\ l.dim = "rpd" => D(k) = 4 * (6 * x) /\ D(j) = 4 * (6 * y)
      /\ l.dim = "tpd" => D(k) = 4 * (6 * x) * t /\ D(j) = 4 * (6 * y) * t
      /\ l.dim = "spend_window" => D(k) = r * l.window * c /\ D(j) = s * l.window * c
      /\ l.dim = "spend_month" =>
           /\ D(k) = 4 * Rate!EditionUSD(c, cProbe, plan, k)
           /\ D(j) = 4 * Rate!EditionUSD(c, cProbe, plan, j)
      /\ l.dim = "reload_threshold" =>
           D(k) = 4 * Rate!CellUSD(c, plan, k) /\ D(j) = 4 * Rate!CellUSD(c, plan, j)
  BY <1>1 DEF Rate!LimitDemand, Rate!Quarters, Rate!HardTimeoutS
<1> SUFFICES D(k) \in Nat /\ D(k) <= D(j)
  OBVIOUS
<1> HIDE DEF D, x, y, r, s, t
<1>6. 60 * r \in Nat /\ 60 * s \in Nat /\ 60 * r <= 60 * s
  BY <1>3
<1>7. 4 * (6 * x) \in Nat /\ 4 * (6 * y) \in Nat /\ 4 * (6 * x) <= 4 * (6 * y)
  BY <1>2
<1>8. CASE l.dim \in {"rpm", "rps", "concurrency", "rpd"}
  BY <1>2, <1>3, <1>5, <1>6, <1>7, <1>8
<1>9. CASE l.dim \in {"tpm", "input_tpm", "output_tpm"}
  BY <1>1, <1>4, <1>5, <1>6, <1>9, TimesLeft
<1>10. CASE l.dim = "tpd"
  BY <1>4, <1>5, <1>7, <1>10, TimesLeft
<1>11. CASE l.dim = "spend_window"
  <2>1. r * l.window \in Nat /\ s * l.window \in Nat /\ r * l.window <= s * l.window
    BY <1>3, TimesLeft
  <2> QED
    BY <1>1, <1>5, <1>11, <2>1, TimesLeft
<1>12. CASE l.dim \in {"spend_month", "reload_threshold"}
  BY <1>5, <1>12, CostsRise
<1>13. l.dim \in {"rpm", "rps", "concurrency", "rpd", "tpm", "input_tpm", "output_tpm", "tpd",
                  "spend_window", "spend_month", "reload_threshold"}
  BY DEF Rate!Dimensions
<1> QED
  BY <1>8, <1>9, <1>10, <1>11, <1>12, <1>13

\* What Min, which picks the binding demand, returns of positive numbers.
LEMMA MinIs ==
    ASSUME NEW S \in SUBSET Nat, S # {}
    PROVE  Min(S) \in S /\ \A x \in S : Min(S) <= x
<1>1. PICK m \in S : \A y \in S : ~(<<y, m>> \in OpToRel(<, Nat))
  BY NatLessThanWellFounded, WFMin
<1>2. ASSUME NEW y \in S PROVE m <= y
  <2>1. y \in Nat /\ m \in Nat /\ ~(y < m)
    BY <1>1 DEF OpToRel
  <2> QED
    BY <2>1
<1> QED
  BY <1>2 DEF Min

\* A step's tests, in their order.
Rows(ds, cfg, plan, c, cProbe, k) ==
    /\ Len(cfg.limits) \in Nat /\ DOMAIN ds = 1..Len(cfg.limits) + cfg.unpublished + 1
    /\ Len(ds) = Len(cfg.limits) + cfg.unpublished + 1
    /\ \A i \in 1..Len(cfg.limits) : ds[i] = Rate!LimitRow(cfg, plan, c, cProbe, k, i)
    /\ \A i \in 1..cfg.unpublished : ds[Len(cfg.limits) + i] = Rate!UnpublishedRow(k, i)
    /\ ds[Len(cfg.limits) + cfg.unpublished + 1] =
         Rate!Demand("route_cap_usd", 0, cfg.routeUSD, Rate!Quarters(Rate!EditionUSD(c, cProbe, plan, k)), FALSE)

\* The demands of a step, row by row: the limits, the cap on an unpublished
\* one, the dollars.
LEMMA RowsAre ==
    ASSUME NEW cfg, NEW plan, NEW c, NEW cProbe, NEW k,
           cfg.limits \in Seq(Rate!Range(cfg.limits)), cfg.unpublished \in Nat
    PROVE  Rows(Rate!Demands(cfg, plan, c, cProbe, k), cfg, plan, c, cProbe, k)
<1> DEFINE n == Len(cfg.limits)
           u == cfg.unpublished
           L(i) == Rate!LimitRow(cfg, plan, c, cProbe, k, i)
           U(i) == Rate!UnpublishedRow(k, i)
           last == Rate!Demand("route_cap_usd", 0, cfg.routeUSD,
                     Rate!Quarters(Rate!EditionUSD(c, cProbe, plan, k)), FALSE)
           A == [i \in 1..n |-> L(i)]
           B == [i \in 1..u |-> U(i)]
           R == { L(i) : i \in 1..n } \cup { U(i) : i \in 1..u } \cup {last}
<1>1. n \in Nat /\ u \in Nat /\ DOMAIN cfg.limits = 1..n
  OBVIOUS
<1>2. Rate!Demands(cfg, plan, c, cProbe, k) = A \o B \o <<last>>
  BY <1>1 DEF Rate!Demands
<1> HIDE DEF n, u, L, U, last
<1>3. A \in Seq(R) /\ B \in Seq(R) /\ last \in R /\ Len(A) = n /\ Len(B) = u
  BY <1>1
<1>4. /\ \A i \in 1..n : A[i] = L(i)
      /\ \A i \in 1..u : B[i] = U(i)
  OBVIOUS
<1> HIDE DEF A, B, R
<1>5. /\ A \o B \in Seq(R) /\ Len(A \o B) = n + u
      /\ \A i \in 1..n : (A \o B)[i] = A[i]
      /\ \A i \in 1..u : (A \o B)[n + i] = B[i]
  BY <1>1, <1>3
<1>6. /\ A \o B \o <<last>> \in Seq(R) /\ Len(A \o B \o <<last>>) = n + u + 1
      /\ \A i \in 1..n + u : (A \o B \o <<last>>)[i] = (A \o B)[i]
      /\ (A \o B \o <<last>>)[n + u + 1] = last
  BY <1>1, <1>3, <1>5
<1>7. \A i \in 1..n : i \in 1..n + u
  BY <1>1
<1>8. \A i \in 1..u : n + i \in 1..n + u
  BY <1>1
<1>9. DOMAIN (A \o B \o <<last>>) = 1..n + u + 1
  BY <1>6
<1> QED
  BY <1>1, <1>2, <1>4, <1>5, <1>6, <1>7, <1>8, <1>9 DEF n, u, L, U, last, Rows

\* A step is admitted when each of its tests passes.
LEMMA AdmittedIs ==
    ASSUME NEW cfg, NEW plan, NEW c, NEW cProbe, NEW k,
           cfg.limits \in Seq(Rate!Range(cfg.limits)), cfg.unpublished \in Nat
    PROVE  Rate!Step(cfg, plan, c, cProbe, k).admitted
             <=> \A i \in DOMAIN Rate!Demands(cfg, plan, c, cProbe, k) :
                    Rate!Demands(cfg, plan, c, cProbe, k)[i].pass
<1> DEFINE ds == Rate!Demands(cfg, plan, c, cProbe, k)
           I == { i \in 1..Len(ds) : ~ds[i].pass }
<1>1. DOMAIN ds = 1..Len(ds)
  BY RowsAre DEF Rows
<1>2. Rate!Step(cfg, plan, c, cProbe, k).admitted <=> (IF I # {} THEN Min(I) ELSE 0) = 0
  BY DEF Rate!Step, Rate!SelectInSeq, Rate!Min, Min
<1>3. I # {} => Min(I) # 0
  <2>1. I \subseteq Nat /\ 0 \notin I
    OBVIOUS
  <2> HIDE DEF I
  <2> QED
    BY <2>1, MinIs
<1>4. I = {} <=> \A i \in DOMAIN ds : ds[i].pass
  BY <1>1
<1> HIDE DEF I, ds
<1> QED
  BY <1>2, <1>3, <1>4 DEF ds

\* The tests of a step, by what they compare.
Tests(cfg, plan, c, cProbe, k) ==
    /\ \A i \in 1..Len(cfg.limits) :
         Rate!Passes(Rate!LimitDemand(cfg.limits[i], cfg, plan, c, cProbe, k),
                     cfg.limits[i].value, cfg.limits[i].dim \notin Rate!CoverTests)
    /\ cfg.unpublished > 0 => Rate!Passes(Rate!Ladder[k], Rate!UnpublishedCap, FALSE)
    /\ Rate!Passes(Rate!Quarters(Rate!EditionUSD(c, cProbe, plan, k)), cfg.routeUSD, FALSE)

\* A step is admitted when they pass.
LEMMA TestsAre ==
    ASSUME NEW cfg, NEW plan, NEW c, NEW cProbe, NEW k,
           cfg.limits \in Seq(Rate!Range(cfg.limits)), cfg.unpublished \in Nat
    PROVE  Rate!Step(cfg, plan, c, cProbe, k).admitted <=> Tests(cfg, plan, c, cProbe, k)
<1> DEFINE ds == Rate!Demands(cfg, plan, c, cProbe, k)
           n == Len(cfg.limits)
           u == cfg.unpublished
           edition == Rate!Quarters(Rate!EditionUSD(c, cProbe, plan, k))
           P(i) == Rate!Passes(Rate!LimitDemand(cfg.limits[i], cfg, plan, c, cProbe, k),
                               cfg.limits[i].value, cfg.limits[i].dim \notin Rate!CoverTests)
           Q == Rate!Passes(Rate!Ladder[k], Rate!UnpublishedCap, FALSE)
           E == Rate!Passes(edition, cfg.routeUSD, FALSE)
<1>1. Rows(ds, cfg, plan, c, cProbe, k)
  BY RowsAre
<1>2. \A i \in 1..n : ds[i].pass = P(i)
  <2>1. \A i : Rate!LimitRow(cfg, plan, c, cProbe, k, i).pass = P(i)
    BY DEF Rate!LimitRow, Rate!Demand
  <2> HIDE DEF ds, P
  <2> QED
    BY <1>1, <2>1 DEF Rows
<1>3. \A i \in 1..u : ds[n + i].pass = Q
  <2>1. \A i : Rate!UnpublishedRow(k, i).pass = Q
    BY DEF Rate!UnpublishedRow, Rate!Demand
  <2> HIDE DEF ds, Q
  <2> QED
    BY <1>1, <2>1 DEF Rows
<1>4. ds[n + u + 1].pass = E
  <2>1. Rate!Demand("route_cap_usd", 0, cfg.routeUSD, edition, FALSE).pass = E
    BY DEF Rate!Demand
  <2> HIDE DEF ds, E
  <2> QED
    BY <1>1, <2>1 DEF Rows
<1>5. n \in Nat /\ u \in Nat /\ DOMAIN ds = 1..n + u + 1
  BY <1>1 DEF Rows
<1>6. Rate!Step(cfg, plan, c, cProbe, k).admitted <=> \A i \in DOMAIN ds : ds[i].pass
  BY AdmittedIs
<1>7. Tests(cfg, plan, c, cProbe, k) <=> (\A i \in 1..n : P(i)) /\ (u > 0 => Q) /\ E
  BY DEF Tests
<1> HIDE DEF ds, n, u, P, Q, E
<1>8. ASSUME \A i \in DOMAIN ds : ds[i].pass PROVE (\A i \in 1..n : P(i)) /\ (u > 0 => Q) /\ E
  <2>1. ASSUME NEW i \in 1..n PROVE P(i)
    BY <1>2, <1>5, <1>8
  <2>2. ASSUME u > 0 PROVE Q
    <3>1. 1 \in 1..u /\ n + 1 \in DOMAIN ds
      BY <1>5, <2>2
    <3> QED
      BY <1>3, <1>8, <3>1
  <2>3. E
    <3>1. n + u + 1 \in DOMAIN ds
      BY <1>5
    <3> QED
      BY <1>4, <1>8, <3>1
  <2> QED
    BY <2>1, <2>2, <2>3
<1>9. ASSUME \A i \in 1..n : P(i), u > 0 => Q, E, NEW i \in DOMAIN ds PROVE ds[i].pass
  <2>1. CASE i \in 1..n
    BY <1>2, <1>9, <2>1
  <2>2. CASE i \in n + 1..n + u
    <3>1. i - n \in 1..u /\ n + (i - n) = i /\ u > 0
      BY <1>5, <2>2
    <3> QED
      BY <1>3, <1>9, <3>1
  <2>3. CASE i = n + u + 1
    BY <1>4, <1>9, <2>3
  <2> QED
    BY <1>5, <2>1, <2>2, <2>3
<1> QED
  BY <1>6, <1>7, <1>8, <1>9

\* A demand that is no higher passes too.
LEMMA PassesBelow ==
    ASSUME NEW x \in Int, NEW y \in Int, x <= y, NEW value \in Int, NEW half,
           Rate!Passes(y, value, half)
    PROVE  Rate!Passes(x, value, half)
  BY DEF Rate!Passes

\* The limits, as the tests read them.
LEMMA LimitsAre ==
    ASSUME NEW cfg, NEW p, NEW ladders, NEW bound, Rate!RuleInput(cfg, p, ladders, bound)
    PROVE  /\ cfg.limits \in Seq(Rate!Range(cfg.limits)) /\ cfg.unpublished \in Nat
           /\ cfg.routeUSD \in Int /\ Len(cfg.limits) \in Nat
           /\ DOMAIN cfg.limits = 1..Len(cfg.limits)
           /\ \A i \in 1..Len(cfg.limits) :
                /\ cfg.limits[i].dim \in Rate!Dimensions /\ cfg.limits[i].value \in Int
                /\ cfg.limits[i].burndown \in Nat /\ cfg.limits[i].window \in Nat
                /\ cfg.limits[i].confidential \in BOOLEAN
                /\ LET plan == Rate!ExactPlan(ladders)
                       c == Rate!PerRequest(p, Rate!ReleaseTokens(cfg))
                       cProbe == Rate!PerRequest(p, Rate!ReleaseProbeTokens(cfg))
                   IN  \A k \in DOMAIN Rate!Ladder :
                         Rate!Rounds(cfg.limits[i],
                                     Rate!LimitDemand(cfg.limits[i], cfg, plan, c, cProbe, k))
<1> DEFINE R(l) == LET plan == Rate!ExactPlan(ladders)
                       c == Rate!PerRequest(p, Rate!ReleaseTokens(cfg))
                       cProbe == Rate!PerRequest(p, Rate!ReleaseProbeTokens(cfg))
                   IN  \A k \in DOMAIN Rate!Ladder :
                         Rate!Rounds(l, Rate!LimitDemand(l, cfg, plan, c, cProbe, k))
<1>1. /\ cfg.limits \in Seq(Rate!Range(cfg.limits)) /\ cfg.unpublished \in Nat /\ cfg.routeUSD \in Int
      /\ \A l \in Rate!Range(cfg.limits) :
           /\ l.dim \in Rate!Dimensions /\ l.value \in Int /\ l.burndown \in Nat /\ l.window \in Nat
           /\ l.confidential \in BOOLEAN /\ R(l)
  BY DEF Rate!RuleInput
<1> SUFFICES ASSUME NEW i \in 1..Len(cfg.limits)
             PROVE  /\ cfg.limits[i].dim \in Rate!Dimensions /\ cfg.limits[i].value \in Int
                    /\ cfg.limits[i].burndown \in Nat /\ cfg.limits[i].window \in Nat
                    /\ cfg.limits[i].confidential \in BOOLEAN /\ R(cfg.limits[i])
  BY <1>1
<1> HIDE DEF R
<1>2. \A n \in 1..Len(cfg.limits) : cfg.limits[n] \in Rate!Range(cfg.limits)
  BY <1>1, ElementOfSeq
<1> QED
  BY <1>1, <1>2

\* "every demand rises with the step": with a step, every step below it is
\* admitted.
LEMMA AdmittedBelow ==
    ASSUME NEW cfg, NEW p, NEW ladders, NEW bound, Rate!RuleInput(cfg, p, ladders, bound),
           NEW plan, NEW c, NEW cProbe, Setting(cfg, plan, c, cProbe),
           NEW k \in 1..5, NEW j \in 1..5, k <= j, Tests(cfg, plan, c, cProbe, j)
    PROVE  Tests(cfg, plan, c, cProbe, k)
<1>1. ASSUME NEW i \in 1..Len(cfg.limits)
      PROVE  Rate!Passes(Rate!LimitDemand(cfg.limits[i], cfg, plan, c, cProbe, k),
                         cfg.limits[i].value, cfg.limits[i].dim \notin Rate!CoverTests)
  <2> DEFINE x == Rate!LimitDemand(cfg.limits[i], cfg, plan, c, cProbe, k)
             y == Rate!LimitDemand(cfg.limits[i], cfg, plan, c, cProbe, j)
             half == cfg.limits[i].dim \notin Rate!CoverTests
  <2>1. /\ cfg.limits[i].dim \in Rate!Dimensions /\ cfg.limits[i].value \in Int
        /\ cfg.limits[i].burndown \in Nat /\ cfg.limits[i].window \in Nat
    BY <1>1, LimitsAre
  <2>2. x \in Nat /\ x <= y
    BY <2>1, DemandRises
  <2>3. y \in Nat
    BY <2>1, DemandRises, SMTT(30)
  <2>4. Rate!Passes(y, cfg.limits[i].value, half)
    BY <1>1 DEF Tests
  <2> HIDE DEF x, y, half
  <2>5. Rate!Passes(x, cfg.limits[i].value, half)
    BY <2>1, <2>2, <2>3, <2>4, PassesBelow
  <2> QED
    BY <2>5 DEF x, half
<1>2. cfg.unpublished > 0 => Rate!Passes(Rate!Ladder[k], Rate!UnpublishedCap, FALSE)
  <2>1. Rate!Ladder[k] \in Int /\ Rate!Ladder[j] \in Int /\ Rate!Ladder[k] <= Rate!Ladder[j]
    <3>1. k \in {1, 2, 3, 4, 5} /\ j \in {1, 2, 3, 4, 5}
      OBVIOUS
    <3> QED
      BY <3>1 DEF Rate!Ladder
  <2>2. Rate!UnpublishedCap \in Int
    BY DEF Rate!UnpublishedCap
  <2> QED
    BY <2>1, <2>2, PassesBelow DEF Tests
<1>3. Rate!Passes(Rate!Quarters(Rate!EditionUSD(c, cProbe, plan, k)), cfg.routeUSD, FALSE)
  <2> DEFINE x == Rate!Quarters(Rate!EditionUSD(c, cProbe, plan, k))
             y == Rate!Quarters(Rate!EditionUSD(c, cProbe, plan, j))
  <2>1. x \in Int /\ y \in Int /\ x <= y
    BY CostsRise DEF Rate!Quarters
  <2>2. Rate!Passes(y, cfg.routeUSD, FALSE)
    BY DEF Tests
  <2> HIDE DEF x, y
  <2>3. cfg.routeUSD \in Int
    BY LimitsAre
  <2>4. Rate!Passes(x, cfg.routeUSD, FALSE)
    BY <2>1, <2>2, <2>3, PassesBelow
  <2> QED
    BY <2>4 DEF x
<1> QED
  BY <1>1, <1>2, <1>3 DEF Tests

\* A failed test whose demand was rounded down to the bound.
AtBound(cfg, d) ==
    /\ Rate!RowNames(cfg, d) /\ d.confidential /\ ~d.pass
    /\ cfg.limits[d.limit].value = IF d.half THEN 2 * d.demand ELSE d.demand

\* A test made again with the rounded demand.
LEMMA TestAgain ==
    ASSUME NEW x \in Nat, NEW f \in Int, NEW v \in Int, NEW half \in BOOLEAN,
           LET twice == IF half THEN 2 ELSE 1
           IN  IF Rate!Passes(x, v, half) THEN twice * f <= v ELSE twice * f >= v
    PROVE  /\ Rate!Passes(x, v, half) \in BOOLEAN
           /\ Rate!Passes(x, v, half) => Rate!Passes(f, v, half)
           /\ ~Rate!Passes(x, v, half) =>
                ~Rate!Passes(f, v, half) \/ v = IF half THEN 2 * f ELSE f
<1>1. CASE half
  BY <1>1 DEF Rate!Passes
<1>2. CASE ~half
  BY <1>2 DEF Rate!Passes
<1> QED
  BY <1>1, <1>2

\* A row of a verdict agrees with the limit it was made of, or its demand
\* was rounded down to the bound: rounding does not cross a float64.
LEMMA RowsAgree ==
    ASSUME NEW cfg, NEW plan, NEW c, NEW cProbe, NEW k,
           cfg.limits \in Seq(Rate!Range(cfg.limits)), cfg.unpublished \in Nat,
           \A i \in 1..Len(cfg.limits) :
             /\ cfg.limits[i].confidential \in BOOLEAN /\ cfg.limits[i].value \in Int
             /\ Rate!LimitDemand(cfg.limits[i], cfg, plan, c, cProbe, k) \in Nat
             /\ Rate!Rounds(cfg.limits[i], Rate!LimitDemand(cfg.limits[i], cfg, plan, c, cProbe, k)),
           NEW i \in DOMAIN Rate!Demands(cfg, plan, c, cProbe, k)
    PROVE  LET d == Rate!Demands(cfg, plan, c, cProbe, k)[i]
           IN  Rate!RowAgrees(cfg, d) \/ AtBound(cfg, d)
<1> DEFINE ds == Rate!Demands(cfg, plan, c, cProbe, k)
           n == Len(cfg.limits)
           u == cfg.unpublished
<1>1. Rows(ds, cfg, plan, c, cProbe, k) /\ DOMAIN cfg.limits = 1..n
  BY RowsAre
<1>2. n \in Nat /\ u \in Nat /\ i \in 1..n + u + 1
  BY <1>1 DEF Rows
<1> DEFINE Goal == Rate!RowAgrees(cfg, ds[i]) \/ AtBound(cfg, ds[i])
<1> SUFFICES Goal
  OBVIOUS
<1> HIDE DEF ds, Goal
<1>3. CASE i \in 1..n
  <2> DEFINE l == cfg.limits[i]
             half == l.dim \notin Rate!CoverTests
             demand == Rate!LimitDemand(l, cfg, plan, c, cProbe, k)
             pass == Rate!Passes(demand, l.value, half)
             d == ds[i]
             row == Rate!Demand(l.dim, i, l.value, demand, half)
             yes == TRUE
  <2>1. d = IF l.confidential
            THEN [row EXCEPT !.value = 0, !.confidential = yes, !.source = l.source]
            ELSE row
    BY <1>1, <1>3 DEF Rows, Rate!LimitRow
  <2>2. row = [dim |-> row.dim, limit |-> row.limit, unpublished |-> row.unpublished,
               confidential |-> row.confidential, source |-> row.source, value |-> row.value,
               demand |-> row.demand, half |-> row.half, pass |-> row.pass]
    BY DEF Rate!Demand
  <2>3. /\ row.limit = i /\ row.dim = l.dim /\ row.half = half /\ row.demand = Float64(demand)
        /\ row.pass = pass /\ row.value = l.value /\ row.source = "" /\ row.confidential = FALSE
    <3>1. Rate!Rounds(l, demand)
      BY <1>1, <1>3
    <3>2. Float64(l.value) = l.value
      BY <3>1 DEF Rate!Rounds
    <3> QED
      BY <3>2 DEF Rate!Demand
  <2>4. i \in DOMAIN cfg.limits /\ l.confidential \in BOOLEAN /\ l.value \in Int
    BY <1>1, <1>3
  <2>8. /\ Float64(demand) \in Int /\ half \in BOOLEAN /\ pass \in BOOLEAN
        /\ pass => Rate!Passes(Float64(demand), l.value, half)
        /\ ~pass => ~Rate!Passes(Float64(demand), l.value, half)
                      \/ l.value = IF half THEN 2 * Float64(demand) ELSE Float64(demand)
    <3>1. Rate!Rounds(l, demand)
      BY <1>1, <1>3
    <3>2. /\ Float64(demand) \in Int
          /\ LET twice == IF half THEN 2 ELSE 1
             IN  IF pass THEN twice * Float64(demand) <= l.value
                 ELSE twice * Float64(demand) >= l.value
      BY <3>1 DEF Rate!Rounds
    <3>3. demand \in Nat /\ half \in BOOLEAN
      BY <1>1, <1>3
    <3> HIDE DEF half, demand
    <3> QED
      BY <2>4, <3>2, <3>3, TestAgain
  <2> HIDE DEF d, row, yes
  <2>5. /\ d.limit = row.limit /\ d.dim = row.dim /\ d.half = row.half
        /\ d.demand = row.demand /\ d.pass = row.pass
        /\ l.confidential => d.value = 0 /\ d.source = l.source /\ d.confidential = yes
        /\ ~l.confidential => d.value = l.value /\ d.source = "" /\ d.confidential = FALSE
    <3> HIDE DEF l, half, demand, pass
    <3>1. CASE l.confidential
      <4> DEFINE e == [row EXCEPT !.value = 0, !.confidential = yes, !.source = l.source]
      <4>1. d = e
        BY <2>1, <3>1
      <4>2. /\ e.limit = row.limit /\ e.dim = row.dim /\ e.half = row.half /\ e.demand = row.demand
            /\ e.pass = row.pass /\ e.value = 0 /\ e.source = l.source /\ e.confidential = yes
        BY <2>2
      <4> QED
        BY <3>1, <4>1, <4>2
    <3>2. CASE ~l.confidential
      BY <2>1, <2>3, <3>2
    <3> QED
      BY <3>1, <3>2
  <2>6. d.confidential = l.confidential
    BY <2>4, <2>5 DEF yes
  <2>7. Rate!RowAgrees(cfg, d) \/ AtBound(cfg, d)
    <3>1. d.limit = i /\ d.dim = l.dim /\ d.half = half /\ d.demand = Float64(demand) /\ d.pass = pass
      BY <2>3, <2>5
    <3>2. cfg.limits[d.limit] = l
      BY <3>1
    <3>3. Rate!RowNames(cfg, d)
      BY <2>4, <2>5, <2>6, <3>1, <3>2 DEF Rate!RowNames
    <3> HIDE DEF l, half, demand, pass
    <3>4. CASE pass
      <4>1. d.pass = Rate!Passes(d.demand, cfg.limits[d.limit].value, d.half)
        BY <2>8, <3>1, <3>2, <3>4 DEF Rate!Passes
      <4> QED
        BY <3>3, <4>1 DEF Rate!RowAgrees
    <3>5. CASE ~pass /\ ~Rate!Passes(Float64(demand), l.value, half)
      <4>1. d.pass = Rate!Passes(d.demand, cfg.limits[d.limit].value, d.half)
        BY <2>8, <3>1, <3>2, <3>5 DEF Rate!Passes
      <4> QED
        BY <3>3, <4>1 DEF Rate!RowAgrees
    <3>6. CASE ~pass /\ l.value = IF half THEN 2 * Float64(demand) ELSE Float64(demand)
      <4>1. CASE d.confidential
        BY <3>1, <3>2, <3>3, <3>6, <4>1 DEF AtBound
      <4>2. CASE ~d.confidential
        BY <3>3, <4>2 DEF Rate!RowAgrees
      <4> QED
        BY <4>1, <4>2
    <3> QED
      BY <2>8, <3>4, <3>5, <3>6
  <2> QED
    BY <2>7 DEF d, Goal
<1>4. CASE i \in n + 1..n + u
  <2>1. i - n \in 1..u /\ n + (i - n) = i
    BY <1>2, <1>4
  <2>2. ds[i] = Rate!UnpublishedRow(k, i - n)
    BY <1>1, <2>1 DEF Rows
  <2>3. ds[i].unpublished
    BY <2>2 DEF Rate!UnpublishedRow, Rate!Demand
  <2> QED
    BY <2>3 DEF Rate!RowAgrees, Goal
<1>5. CASE i = n + u + 1
  <2> DEFINE cap == Rate!Demand("route_cap_usd", 0, cfg.routeUSD,
                      Rate!Quarters(Rate!EditionUSD(c, cProbe, plan, k)), FALSE)
  <2>1. ds[i] = cap
    BY <1>1, <1>5 DEF Rows
  <2>2. cap.dim = "route_cap_usd"
    BY DEF Rate!Demand
  <2> HIDE DEF cap
  <2>3. ds[i].dim = "route_cap_usd"
    BY <2>1, <2>2
  <2> QED
    BY <2>3 DEF Rate!RowAgrees, Goal
<1> HIDE DEF n, u
<1> QED
  BY <1>2, <1>3, <1>4, <1>5

\* A verdict of CeilingRule admits a prefix of the ladder, and a route that
\* sends every cell, re-run and probe request up to its last step stays
\* within its cap and its limits, for any price, limits and seeded ladders.
LEMMA VerdictHolds ==
    ASSUME NEW cfg, NEW p, NEW ladders, NEW bound, Rate!RuleInput(cfg, p, ladders, bound)
    PROVE  Rate!VerdictSound(cfg, p, ladders, Rate!Verdict(cfg, p, Rate!ExactPlan(ladders)))
<1> DEFINE plan == Rate!ExactPlan(ladders)
           v == Rate!Verdict(cfg, p, plan)
           c == p.in * cfg.input + p.out * cfg.ceiling
           cProbe == p.in * cfg.input + p.out * 1024
           S(k) == Rate!Step(cfg, plan, c, cProbe, k)
           I == { k \in 1..5 : S(k).admitted }
           Cost(n) == 14 * n * c + 100 * cProbe
<1>1. /\ Traffic(plan) /\ plan.cells = 14 /\ plan.dayCells = 6 /\ plan.probe = 100
      /\ \A l \in ladders : /\ Traffic(l) /\ l.warmup <= plan.warmup
                            /\ \A k \in 1..5 : l.steps[k] <= plan.steps[k]
  BY PlanIs
<1>2. /\ p.in \in Nat /\ p.out \in Nat /\ cfg.input \in Nat /\ cfg.ceiling \in Nat
      /\ cfg.unpublished \in Nat
  BY DEF Rate!RuleInput
<1>3. c \in Nat /\ cProbe \in Nat
  <2>1. p.in * cfg.input \in Nat /\ p.out * cfg.ceiling \in Nat /\ p.out * 1024 \in Nat
    BY <1>2
  <2> QED
    BY <2>1
<1>4. /\ Rate!PerRequest(p, Rate!ReleaseTokens(cfg)) = c
      /\ Rate!PerRequest(p, Rate!ReleaseProbeTokens(cfg)) = cProbe
  <2>1. Rate!Max(Rate!Ceilings) = 1024
    <3>1. \A x \in {512, 1024} : (\A y \in {512, 1024} : x >= y) => x = 1024
      OBVIOUS
    <3>2. \A y \in {512, 1024} : 1024 >= y
      OBVIOUS
    <3> QED
      BY <3>1, <3>2 DEF Rate!Max, Rate!Ceilings
  <2> QED
    BY <2>1 DEF Rate!PerRequest, Rate!ReleaseTokens, Rate!ReleaseProbeTokens
<1> HIDE DEF plan, c, cProbe
<1>5. Setting(cfg, plan, c, cProbe)
  BY <1>1, <1>2, <1>3 DEF Setting
<1>6. v.steps = [k \in 1..5 |-> S(k)] /\ v.top = IF I # {} THEN Max(I) ELSE 0
  <2>1. DOMAIN Rate!Ladder = 1..5
    BY DEF Rate!Ladder
  <2> DEFINE steps == [k \in 1..5 |-> S(k)]
  <2>2. v.steps = steps /\ v.top = Rate!SelectLastInSeq(steps, LAMBDA s : s.admitted)
    BY <1>4, <2>1 DEF Rate!Verdict
  <2>3. Len(steps) = 5 /\ \A k \in 1..5 : steps[k] = S(k)
    OBVIOUS
  <2>4. I = { k \in 1..Len(steps) : steps[k].admitted }
    BY <2>3
  <2>5. \A T : Rate!Max(T) = Max(T)
    BY DEF Rate!Max, Max
  <2> HIDE DEF steps, I
  <2>6. Rate!SelectLastInSeq(steps, LAMBDA s : s.admitted) = IF I # {} THEN Max(I) ELSE 0
    BY <2>4, <2>5 DEF Rate!SelectLastInSeq
  <2> QED
    BY <2>2, <2>6 DEF steps
<1>7. \A k \in 1..5 : S(k).admitted <=> Tests(cfg, plan, c, cProbe, k)
  BY LimitsAre, TestsAre
<1> HIDE DEF v, S
<1>8. v.top \in 0..5 /\ (v.top > 0 => v.top \in I) /\ \A k \in I : k <= v.top
  <2>1. I \in SUBSET Int /\ \A k \in I : k <= 5 /\ k >= 1
    OBVIOUS
  <2> HIDE DEF I
  <2>2. CASE I = {}
    BY <1>6, <2>2
  <2>3. CASE I # {}
    <3>1. Max(I) \in I /\ \A x \in I : x <= Max(I)
      BY <2>1, <2>3, MaxIs
    <3>2. v.top = Max(I)
      BY <1>6, <2>3
    <3>3. Max(I) \in Int /\ Max(I) >= 1 /\ Max(I) <= 5
      BY <2>1, <3>1
    <3>4. Max(I) \in 0..5
      BY <3>3
    <3> QED
      BY <3>1, <3>2, <3>4
  <2> QED
    BY <2>2, <2>3
<1>9. Rate!Admitted(v) = 1..v.top
  <2>1. Rate!Admitted(v) = I
    BY <1>6 DEF Rate!Admitted
  <2>2. ASSUME NEW k \in 1..v.top PROVE k \in I
    <3>1. v.top \in I /\ k \in 1..5 /\ v.top \in 1..5 /\ k <= v.top
      BY <1>8
    <3>2. Tests(cfg, plan, c, cProbe, v.top)
      BY <1>7, <3>1
    <3> QED
      BY <1>5, <1>7, <3>1, <3>2, AdmittedBelow
  <2>3. \A k \in I : k \in 1..v.top
    BY <1>8
  <2> QED
    BY <2>1, <2>2, <2>3
<1>10. ASSUME v.top > 0, NEW l \in ladders
       PROVE  /\ 4 * Cost(Rate!CellRequests(l, v.top)) <= cfg.routeUSD
              /\ \A i \in DOMAIN cfg.limits :
                   LET m == cfg.limits[i]
                       n == Rate!CellRequests(l, v.top)
                       r == Rate!Ladder[v.top]
                   IN  /\ m.dim \in Rate!Dimensions
                       /\ m.dim = "rps" => 2 * r <= m.value
                       /\ m.dim = "rpm" => 120 * r <= m.value
                       /\ m.dim = "concurrency" => 180 * r <= m.value
                       /\ m.dim = "tpm" => 120 * r * Rate!Tokens(m, cfg) <= m.value
                       /\ m.dim = "input_tpm" => 120 * r * cfg.input <= m.value
                       /\ m.dim = "output_tpm" => 120 * r * cfg.ceiling <= m.value
                       /\ m.dim = "rpd" => 48 * n <= m.value
                       /\ m.dim = "tpd" => 48 * n * Rate!Tokens(m, cfg) <= m.value
                       /\ m.dim = "spend_window" => 2 * r * m.window * c <= m.value
                       /\ m.dim = "spend_month" => 4 * Cost(n) <= m.value
                       /\ m.dim = "reload_threshold" => 4 * n * c <= m.value
              /\ cfg.unpublished > 0 => Rate!Ladder[v.top] <= Rate!UnpublishedCap
  <2> DEFINE k == v.top
             n == Rate!CellRequests(l, k)
             N == Rate!CellRequests(plan, k)
             E == Rate!EditionUSD(c, cProbe, plan, k)
             r == Rate!Ladder[k]
  <2>1. k \in 1..5 /\ Tests(cfg, plan, c, cProbe, k)
    BY <1>7, <1>8, <1>10
  <2>2. n \in Nat /\ N \in Nat /\ n <= N
    BY <1>1, <2>1, RequestsGrow, RequestsBound
  <2>3. r \in Nat
    <3>1. k \in {1, 2, 3, 4, 5}
      BY <2>1
    <3> QED
      BY <3>1 DEF Rate!Ladder
  <2>4. E \in Nat /\ Cost(n) \in Nat /\ Cost(n) <= E
    <3>1. E = c * 14 * N + cProbe * 100
      BY <1>1 DEF Rate!EditionUSD
    <3> HIDE DEF n, N, E
    <3>2. c * 14 * n \in Nat /\ c * 14 * N \in Nat /\ c * 14 * n <= c * 14 * N
      <4>1. c * 14 \in Nat
        BY <1>3
      <4> QED
        BY <2>2, <4>1, Times
    <3>3. 14 * n * c = c * 14 * n /\ 100 * cProbe = cProbe * 100 /\ cProbe * 100 \in Nat
      BY <1>3, <2>2
    <3> QED
      BY <3>1, <3>2, <3>3
  <2>5. \A i \in 1..Len(cfg.limits) :
           Rate!Passes(Rate!LimitDemand(cfg.limits[i], cfg, plan, c, cProbe, k),
                       cfg.limits[i].value, cfg.limits[i].dim \notin Rate!CoverTests)
    BY <2>1 DEF Tests
  <2>6. cfg.unpublished > 0 => r <= Rate!UnpublishedCap
    BY <2>1 DEF Tests, Rate!Passes
  <2>7. 4 * E <= cfg.routeUSD
    BY <2>1 DEF Tests, Rate!Passes, Rate!Quarters
  <2>8. DOMAIN cfg.limits = 1..Len(cfg.limits) /\ cfg.routeUSD \in Int
    BY LimitsAre
  <2>9. ASSUME NEW i \in 1..Len(cfg.limits)
        PROVE  LET m == cfg.limits[i] IN
               /\ m.dim \in Rate!Dimensions
               /\ m.dim = "rps" => 2 * r <= m.value
               /\ m.dim = "rpm" => 120 * r <= m.value
               /\ m.dim = "concurrency" => 180 * r <= m.value
               /\ m.dim = "tpm" => 120 * r * Rate!Tokens(m, cfg) <= m.value
               /\ m.dim = "input_tpm" => 120 * r * cfg.input <= m.value
               /\ m.dim = "output_tpm" => 120 * r * cfg.ceiling <= m.value
               /\ m.dim = "rpd" => 48 * n <= m.value
               /\ m.dim = "tpd" => 48 * n * Rate!Tokens(m, cfg) <= m.value
               /\ m.dim = "spend_window" => 2 * r * m.window * c <= m.value
               /\ m.dim = "spend_month" => 4 * Cost(n) <= m.value
               /\ m.dim = "reload_threshold" => 4 * n * c <= m.value
    <3> DEFINE m == cfg.limits[i]
               t == Rate!Tokens(m, cfg)
               D == Rate!LimitDemand(m, cfg, plan, c, cProbe, k)
    <3>1. /\ m.dim = "rps" => D = r
          /\ m.dim = "rpm" => D = 60 * r
          /\ m.dim = "concurrency" => D = r * 90
          /\ m.dim = "tpm" => D = 60 * r * t
          /\ m.dim = "input_tpm" => D = 60 * r * cfg.input
          /\ m.dim = "output_tpm" => D = 60 * r * cfg.ceiling
          /\ m.dim = "rpd" => D = 4 * (6 * N)
          /\ m.dim = "tpd" => D = 4 * (6 * N) * t
          /\ m.dim = "spend_window" => D = r * m.window * c
          /\ m.dim = "spend_month" => D = 4 * E
          /\ m.dim = "reload_threshold" => D = 4 * (c * N)
      BY <1>1 DEF Rate!LimitDemand, Rate!Quarters, Rate!HardTimeoutS, Rate!CellUSD
    <3>2. /\ m.dim \in {"spend_month", "reload_threshold"} => D <= m.value
          /\ m.dim \notin {"spend_month", "reload_threshold"} => 2 * D <= m.value
      BY <2>5, <2>9 DEF Rate!Passes, Rate!CoverTests
    <3>3. m.value \in Int /\ m.dim \in Rate!Dimensions /\ m.burndown \in Nat /\ m.window \in Nat
      BY <2>9, LimitsAre
    <3>4. t \in Nat
      <4>1. cfg.ceiling * m.burndown \in Nat
        BY <1>2, <3>3
      <4> HIDE DEF m
      <4> QED
        BY <1>2, <4>1 DEF Rate!Tokens
    <3> DEFINE Goal ==
               /\ m.dim \in Rate!Dimensions
               /\ m.dim = "rps" => 2 * r <= m.value
               /\ m.dim = "rpm" => 120 * r <= m.value
               /\ m.dim = "concurrency" => 180 * r <= m.value
               /\ m.dim = "tpm" => 120 * r * t <= m.value
               /\ m.dim = "input_tpm" => 120 * r * cfg.input <= m.value
               /\ m.dim = "output_tpm" => 120 * r * cfg.ceiling <= m.value
               /\ m.dim = "rpd" => 48 * n <= m.value
               /\ m.dim = "tpd" => 48 * n * t <= m.value
               /\ m.dim = "spend_window" => 2 * r * m.window * c <= m.value
               /\ m.dim = "spend_month" => 4 * Cost(n) <= m.value
               /\ m.dim = "reload_threshold" => 4 * n * c <= m.value
    <3> SUFFICES Goal
      OBVIOUS
    <3> HIDE DEF m, D, E, N, n, r, t, Cost
    <3>5. CASE m.dim \in {"rps", "rpm", "concurrency", "rpd"}
      BY <2>2, <2>3, <3>1, <3>2, <3>3, <3>5
    <3>6. CASE m.dim \in {"tpm", "input_tpm", "output_tpm"}
      <4>1. \A x \in Nat : 2 * (60 * r * x) = 120 * r * x
        BY <2>3
      <4> QED
        BY <1>2, <3>1, <3>2, <3>3, <3>4, <3>6, <4>1
    <3>7. CASE m.dim = "tpd"
      <4>1. n * t \in Nat /\ N * t \in Nat /\ n * t <= N * t
        BY <2>2, <3>4, TimesLeft
      <4>2. 2 * (4 * (6 * N) * t) = 48 * (N * t) /\ 48 * n * t = 48 * (n * t)
        BY <2>2, <3>4
      <4>3. 2 * (4 * (6 * N) * t) <= m.value
        BY <3>1, <3>2, <3>7
      <4>4. 48 * n * t <= m.value
        BY <3>3, <4>1, <4>2, <4>3
      <4> QED
        BY <3>3, <3>7, <4>4
    <3>8. CASE m.dim = "spend_window"
      <4>1. 2 * (r * m.window * c) = 2 * r * m.window * c
        BY <1>3, <2>3, <3>3
      <4> QED
        BY <3>1, <3>2, <3>3, <3>8, <4>1
    <3>9. CASE m.dim = "spend_month"
      BY <2>4, <3>1, <3>2, <3>3, <3>9
    <3>10. CASE m.dim = "reload_threshold"
      <4>1. c * n \in Nat /\ c * N \in Nat /\ c * n <= c * N
        BY <1>3, <2>2, Times
      <4>2. 4 * n * c = 4 * (c * n)
        BY <1>3, <2>2
      <4>3. 4 * (c * N) <= m.value
        BY <3>1, <3>2, <3>10
      <4>4. 4 * n * c <= m.value
        BY <3>3, <4>1, <4>2, <4>3
      <4> QED
        BY <3>3, <3>10, <4>4
    <3>11. m.dim \in {"rps", "rpm", "concurrency", "rpd", "tpm", "input_tpm", "output_tpm", "tpd",
                       "spend_window", "spend_month", "reload_threshold"}
      BY <3>3 DEF Rate!Dimensions
    <3> QED
      BY <3>5, <3>6, <3>7, <3>8, <3>9, <3>10, <3>11
  <2>10. 4 * Cost(n) <= cfg.routeUSD
    <3> HIDE DEF E, n, Cost
    <3> QED
      BY <2>4, <2>7, <2>8
  <2> HIDE DEF Cost
  <2> QED
    BY <2>6, <2>8, <2>9, <2>10
<1>11. ASSUME NEW d \in Rate!Problems(cfg, v) PROVE AtBound(cfg, d)
  <2>1. PICK k \in DOMAIN v.steps : d \in Rate!Range(v.steps[k].demands) /\ ~Rate!RowAgrees(cfg, d)
    BY <1>11 DEF Rate!Problems
  <2>2. k \in 1..5 /\ v.steps[k].demands = Rate!Demands(cfg, plan, c, cProbe, k)
    BY <1>6, <2>1 DEF S, Rate!Step
  <2>3. PICK i \in DOMAIN Rate!Demands(cfg, plan, c, cProbe, k) :
              d = Rate!Demands(cfg, plan, c, cProbe, k)[i]
    BY <2>1, <2>2 DEF Rate!Range
  <2>4. DOMAIN Rate!Ladder = 1..5
    BY DEF Rate!Ladder
  <2>5. /\ cfg.limits \in Seq(Rate!Range(cfg.limits)) /\ cfg.unpublished \in Nat
        /\ \A j \in 1..Len(cfg.limits) :
             /\ cfg.limits[j].confidential \in BOOLEAN /\ cfg.limits[j].value \in Int
             /\ Rate!LimitDemand(cfg.limits[j], cfg, plan, c, cProbe, k) \in Nat
             /\ Rate!Rounds(cfg.limits[j], Rate!LimitDemand(cfg.limits[j], cfg, plan, c, cProbe, k))
    <3>1. /\ cfg.limits \in Seq(Rate!Range(cfg.limits)) /\ cfg.unpublished \in Nat
          /\ \A j \in 1..Len(cfg.limits) :
               /\ cfg.limits[j].confidential \in BOOLEAN /\ cfg.limits[j].value \in Int
               /\ Rate!Rounds(cfg.limits[j], Rate!LimitDemand(cfg.limits[j], cfg, plan, c, cProbe, k))
      BY <1>4, <2>2, <2>4, LimitsAre DEF plan
    <3>2. ASSUME NEW j \in 1..Len(cfg.limits)
          PROVE  Rate!LimitDemand(cfg.limits[j], cfg, plan, c, cProbe, k) \in Nat
      <4> DEFINE l == cfg.limits[j]
      <4>1. l.dim \in Rate!Dimensions /\ l.burndown \in Nat /\ l.window \in Nat
        BY LimitsAre
      <4> HIDE DEF l
      <4>2. Rate!LimitDemand(l, cfg, plan, c, cProbe, k) \in Nat
        BY <1>5, <2>2, <4>1, DemandRises
      <4> QED
        BY <4>2 DEF l
    <3> QED
      BY <3>1, <3>2
  <2> QED
    BY <2>1, <2>3, <2>5, RowsAgree
<1> HIDE DEF Cost
<1> DEFINE Within(m, n) ==
             CASE m.dim = "rps" -> 2 * Rate!Ladder[v.top] <= m.value
               [] m.dim = "rpm" -> 120 * Rate!Ladder[v.top] <= m.value
               [] m.dim = "concurrency" -> 180 * Rate!Ladder[v.top] <= m.value
               [] m.dim = "tpm" -> 120 * Rate!Ladder[v.top] * Rate!Tokens(m, cfg) <= m.value
               [] m.dim = "input_tpm" -> 120 * Rate!Ladder[v.top] * cfg.input <= m.value
               [] m.dim = "output_tpm" -> 120 * Rate!Ladder[v.top] * cfg.ceiling <= m.value
               [] m.dim = "rpd" -> 48 * n <= m.value
               [] m.dim = "tpd" -> 48 * n * Rate!Tokens(m, cfg) <= m.value
               [] m.dim = "spend_window" -> 2 * Rate!Ladder[v.top] * m.window * c <= m.value
               [] m.dim = "spend_month" -> 4 * Cost(n) <= m.value
               [] m.dim = "reload_threshold" -> 4 * n * c <= m.value
<1>12. ASSUME v.top > 0, NEW l \in ladders, NEW i \in DOMAIN cfg.limits
       PROVE  Within(cfg.limits[i], Rate!CellRequests(l, v.top))
  <2> DEFINE m == cfg.limits[i]
             n == Rate!CellRequests(l, v.top)
             r == Rate!Ladder[v.top]
             t == Rate!Tokens(m, cfg)
  <2>1. /\ m.dim \in Rate!Dimensions
        /\ m.dim = "rps" => 2 * r <= m.value
        /\ m.dim = "rpm" => 120 * r <= m.value
        /\ m.dim = "concurrency" => 180 * r <= m.value
        /\ m.dim = "tpm" => 120 * r * t <= m.value
        /\ m.dim = "input_tpm" => 120 * r * cfg.input <= m.value
        /\ m.dim = "output_tpm" => 120 * r * cfg.ceiling <= m.value
        /\ m.dim = "rpd" => 48 * n <= m.value
        /\ m.dim = "tpd" => 48 * n * t <= m.value
        /\ m.dim = "spend_window" => 2 * r * m.window * c <= m.value
        /\ m.dim = "spend_month" => 4 * Cost(n) <= m.value
        /\ m.dim = "reload_threshold" => 4 * n * c <= m.value
    BY <1>10, <1>12
  <2> HIDE DEF m, n, Within
  <2>2. Within(m, n)
    <3>1. CASE m.dim = "rps"
      BY <2>1, <3>1 DEF Within
    <3>2. CASE m.dim = "rpm"
      BY <2>1, <3>2 DEF Within
    <3>3. CASE m.dim = "concurrency"
      BY <2>1, <3>3 DEF Within
    <3>4. CASE m.dim = "tpm"
      BY <2>1, <3>4 DEF Within
    <3>5. CASE m.dim = "input_tpm"
      BY <2>1, <3>5 DEF Within
    <3>6. CASE m.dim = "output_tpm"
      BY <2>1, <3>6 DEF Within
    <3>7. CASE m.dim = "rpd"
      BY <2>1, <3>7 DEF Within
    <3>8. CASE m.dim = "tpd"
      BY <2>1, <3>8 DEF Within
    <3>9. CASE m.dim = "spend_window"
      BY <2>1, <3>9 DEF Within
    <3>10. CASE m.dim = "spend_month"
      BY <2>1, <3>10 DEF Within
    <3>11. CASE m.dim = "reload_threshold"
      BY <2>1, <3>11 DEF Within
    <3> QED
      BY <2>1, <3>1, <3>2, <3>3, <3>4, <3>5, <3>6, <3>7, <3>8, <3>9, <3>10, <3>11 DEF Rate!Dimensions
  <2> QED
    BY <2>2 DEF m, n
<1>13. /\ Rate!Admitted(v) = 1..v.top
       /\ v.top > 0 => \A l \in ladders :
            /\ 4 * Cost(Rate!CellRequests(l, v.top)) <= cfg.routeUSD
            /\ \A i \in DOMAIN cfg.limits : Within(cfg.limits[i], Rate!CellRequests(l, v.top))
            /\ cfg.unpublished > 0 => Rate!Ladder[v.top] <= Rate!UnpublishedCap
       /\ \A d \in Rate!Problems(cfg, v) : AtBound(cfg, d)
  <2> HIDE DEF Within
  <2> QED
    BY <1>9, <1>10, <1>11, <1>12
<1>14. Rate!VerdictSound(cfg, p, ladders, v)
  BY <1>13 DEF Rate!VerdictSound, AtBound, Cost, c, cProbe
<1> QED
  BY <1>14 DEF v, plan

-----------------------------------------------------------------------------
(* Configuration: the file whose ceiling was chosen. *)

\* An entry that covers another matches every name the other matches.
LEMMA CoversMatches ==
    ASSUME NEW r, NEW e, NEW n \in Seq(STRING), r.name \in Seq(STRING), e.name \in Seq(STRING),
           Conf!headerCovers(r, e), Conf!headerMatch(e, n)
    PROVE  Conf!headerMatch(r, n)
<1> DEFINE Prefix(s, u) == Len(s) <= Len(u) /\ \A i \in 1..Len(s) : s[i] = u[i]
<1>1. ASSUME NEW s \in Seq(STRING), NEW u \in Seq(STRING)
      PROVE  Conf!IsPrefix(s, u) <=> Prefix(s, u)
  <2>1. Len(s) <= Len(u) => SubSeq(s, 1, Len(s)) = [i \in 1..Len(s) |-> s[i]]
                          /\ SubSeq(u, 1, Len(s)) = [i \in 1..Len(s) |-> u[i]]
    OBVIOUS
  <2> QED
    BY <2>1 DEF Conf!IsPrefix
<1>2. CASE r.star
  <2>1. Prefix(r.name, e.name)
    BY <1>1, <1>2 DEF Conf!headerCovers
  <2>2. Prefix(e.name, n) \/ e.name = n
    BY <1>1 DEF Conf!headerMatch
  <2>3. Prefix(r.name, n)
    BY <2>1, <2>2
  <2> QED
    BY <1>1, <1>2, <2>3 DEF Conf!headerMatch
<1>3. CASE ~r.star
  BY <1>3 DEF Conf!headerCovers, Conf!headerMatch
<1> QED
  BY <1>2, <1>3

\* What a recorded header is: one that an entry allows, in clear when no
\* entry retains it.
LEMMA RecordedHeader ==
    ASSUME NEW t, NEW names, NEW n \in DOMAIN Conf!Recorded(t, names)
    PROVE  /\ n \in names /\ Conf!HeaderAllowed(t.headers, n)
           /\ Conf!Recorded(t, names)[n] # "[retained]" => ~Conf!HeaderRetained(t, n)
  BY DEF Conf!Recorded

\* Of a confidential target nothing is recorded in clear but its own.
LEMMA MarkedIsRetained ==
    ASSUME NEW t, NEW names, names \subseteq Seq(STRING), Conf!Confidential(t),
           \A e \in Conf!Range(t.headers) \cup Conf!Range(t.retained) : e.name \in Seq(STRING),
           Conf!ConfidentialRetentionOK(t)
    PROVE  Conf!ExposedByMarking(t, Conf!Recorded(t, names)) = {}
<1> SUFFICES ASSUME NEW n \in DOMAIN Conf!Recorded(t, names),
                    Conf!Recorded(t, names)[n] # "[retained]",
                    n # Conf!RetryAfter, ~Conf!RequestIDHeader(n)
             PROVE  FALSE
  BY DEF Conf!ExposedByMarking
<1>1. n \in Seq(STRING) /\ Conf!HeaderAllowed(t.headers, n) /\ ~Conf!HeaderRetained(t, n)
  BY RecordedHeader
<1>2. PICK e \in Conf!Range(t.headers) : Conf!headerMatch(e, n)
  BY <1>1 DEF Conf!HeaderAllowed
<1>3. ASSUME NEW r \in Conf!Range(t.retained), Conf!headerCovers(r, e) PROVE FALSE
  <2>1. Conf!headerMatch(r, n)
    BY <1>1, <1>2, <1>3, CoversMatches
  <2> QED
    BY <1>1, <2>1 DEF Conf!HeaderRetained
<1>4. ~e.star /\ (e.name = Conf!RetryAfter \/ Conf!RequestIDHeader(e.name))
  BY <1>3 DEF Conf!ConfidentialRetentionOK
<1>5. e.name = n
  BY <1>2, <1>4 DEF Conf!headerMatch
<1> QED
  BY <1>4, <1>5

\* The body at either ceiling differs from the file's in the ceiling alone.
LEMMA BodyAtCeiling ==
    ASSUME NEW body, NEW adapter, NEW old \in {"512", "1024"}, NEW k \in {"512", "1024"},
           \A i \in DOMAIN body : body[i] = [key |-> body[i].key, value |-> body[i].value],
           Conf!LiteralBodyOK(body), Conf!ReleaseBodyOK(body, adapter, old)
    PROVE  /\ Conf!LiteralBodyOK(Conf!ReleaseBodyAt(body, adapter, k))
           /\ Conf!ReleaseBodyOK(Conf!ReleaseBodyAt(body, adapter, k), adapter, k)
<1> DEFINE sent == Conf!ReleaseBodyAt(body, adapter, k)
           keys == Conf!CeilingKeys(adapter)
           Set(b) == { i \in DOMAIN b : b[i].key \in keys }
           Case(b) == { i \in DOMAIN b : b[i].value = "{{case}}" }
<1>1. keys \subseteq {"max_tokens", "max_completion_tokens"}
  BY DEF Conf!CeilingKeys
<1> HIDE DEF keys
<1>2. DOMAIN sent = DOMAIN body
  BY DEF Conf!ReleaseBodyAt
<1>3. ASSUME NEW i \in DOMAIN body
      PROVE  /\ sent[i] = [key |-> sent[i].key, value |-> sent[i].value] /\ sent[i].key = body[i].key
             /\ body[i].key \in keys => sent[i].value = k
             /\ body[i].key \notin keys => sent[i] = body[i]
  <2>1. sent[i] = IF body[i].key \in keys THEN [body[i] EXCEPT !.value = k] ELSE body[i]
    BY <1>3 DEF Conf!ReleaseBodyAt, keys
  <2>2. body[i] = [key |-> body[i].key, value |-> body[i].value]
    BY <1>3
  <2> HIDE DEF sent
  <2>3. CASE body[i].key \in keys
    <3>1. sent[i] = [key |-> body[i].key, value |-> k]
      BY <2>1, <2>2, <2>3
    <3> QED
      BY <2>3, <3>1
  <2>4. CASE body[i].key \notin keys
    BY <2>1, <2>2, <2>4
  <2> QED
    BY <2>3, <2>4
<1>4. \A i \in Set(body) : body[i].value = old
  BY DEF Conf!ReleaseBodyOK, keys
<1> HIDE DEF sent
<1>5. Case(sent) = Case(body)
  <2>1. ASSUME NEW i \in DOMAIN body
        PROVE  (sent[i].value = "{{case}}") <=> (body[i].value = "{{case}}")
    <3>1. k # "{{case}}" /\ old # "{{case}}"
      OBVIOUS
    <3>2. CASE body[i].key \in keys
      <4>1. sent[i].value = k
        BY <1>3, <3>2
      <4>2. body[i].value = old
        BY <1>4, <3>2
      <4> QED
        BY <3>1, <4>1, <4>2
    <3>3. CASE body[i].key \notin keys
      <4>1. sent[i].value = body[i].value
        BY <1>3, <3>3
      <4> QED
        BY <4>1
    <3> QED
      BY <3>2, <3>3
  <2> QED
    BY <1>2, <2>1
<1>6. Set(sent) = Set(body)
  BY <1>2, <1>3
<1>7. Conf!NoRepeat(Conf!BodyKeys(sent))
  <2>1. Conf!BodyKeys(sent) = Conf!BodyKeys(body)
    BY <1>2, <1>3 DEF Conf!BodyKeys
  <2> QED
    BY <2>1 DEF Conf!LiteralBodyOK
<1>8. [key |-> "stream", value |-> "true"] \in Conf!Range(sent)
  <2>1. PICK i \in DOMAIN body : body[i] = [key |-> "stream", value |-> "true"]
    BY DEF Conf!LiteralBodyOK, Conf!Range
  <2>2. body[i].key \notin keys
    <3>1. body[i].key = "stream"
      BY <2>1
    <3> QED
      BY <1>1, <3>1
  <2>3. sent[i] = [key |-> "stream", value |-> "true"]
    BY <1>3, <2>1, <2>2
  <2> QED
    BY <1>2, <2>1, <2>3 DEF Conf!Range
<1>9. Conf!LiteralBodyOK(sent)
  <2>1. Conf!Cardinality(Case(body)) = 1
    BY DEF Conf!LiteralBodyOK
  <2> QED
    BY <1>5, <1>7, <1>8, <2>1 DEF Conf!LiteralBodyOK
<1>10. Conf!ReleaseBodyOK(sent, adapter, k)
  <2>1. Conf!Cardinality(Set(body)) = 1
    BY DEF Conf!ReleaseBodyOK, keys
  <2>2. \A i \in Set(sent) : sent[i].value = k
    BY <1>2, <1>3
  <2>3. \A i \in DOMAIN sent \ Set(sent) : sent[i].key = body[i].key /\ i \in DOMAIN body \ Set(body)
    BY <1>2, <1>3, <1>6
  <2>4. \A i \in DOMAIN body \ Set(body) :
           body[i].key \notin Conf!releaseUnsentKeys \cup {"max_tokens", "max_completion_tokens"}
    BY DEF Conf!ReleaseBodyOK, keys
  <2> QED
    BY <1>6, <2>1, <2>2, <2>3, <2>4 DEF Conf!ReleaseBodyOK, keys
<1> QED
  BY <1>9, <1>10 DEF sent

\* What is published of a file holds no confidential value but in a fixed
\* identifier or in another's field.
LEMMA PublishedHides ==
    ASSUME NEW c, Conf!Published(c) # None,
           \A y \in c.texts : y = [kind |-> y.kind, in |-> y.in, carries |-> y.carries, fixed |-> y.fixed],
           NEW x \in Conf!Published(c), NEW l \in Conf!Range(c.target.limits),
           l.marking = "confidential", l.value \in x.carries
    PROVE  x.fixed \/ (x.kind = "value" /\ x.in # l)
<1> DEFINE held == { m \in Conf!Range(c.target.limits) : m.marking = "confidential" }
           Carries(y) == y.carries \cap { m.value : m \in held } # {} /\ ~y.fixed
<1>1. /\ \A y \in c.texts : ~(y.kind # "value" /\ Carries(y))
      /\ Conf!Published(c) =
           { IF y.kind = "value" /\ y.in \in held THEN [y EXCEPT !.carries = {}] ELSE y : y \in c.texts }
  BY DEF Conf!Published
<1>2. PICK y \in c.texts : x = IF y.kind = "value" /\ y.in \in held THEN [y EXCEPT !.carries = {}] ELSE y
  BY <1>1
<1>3. l \in held
  OBVIOUS
<1> HIDE DEF held
<1>4. ~(y.kind = "value" /\ y.in \in held) /\ x = y
  <2>1. CASE y.kind = "value" /\ y.in \in held
    <3>1. x.carries = {}
      BY <1>2, <2>1
    <3> QED
      BY <3>1
  <2> QED
    BY <1>2, <2>1
<1>5. CASE y.kind = "value"
  BY <1>3, <1>4, <1>5
<1>6. CASE y.kind # "value"
  BY <1>1, <1>3, <1>4, <1>6
<1> QED
  BY <1>5, <1>6

\* An accepted release target withholds what it marks and sends one body.
LEMMA TargetIsSound ==
    ASSUME NEW c, NEW names, names \subseteq Seq(STRING),
           c.profile = "release", Conf!Decoded(c), Conf!validateRelease(c)
    PROVE  Conf!TargetSound(c, names)
<1> DEFINE t == c.target
           rec == Conf!Recorded(t, names)
<1>1. Conf!validateReleaseTarget(t, c.ceiling) /\ c.ceiling \in {"512", "1024"}
  BY DEF Conf!validateRelease
<1>0. /\ \A e \in Conf!Range(t.headers) \cup Conf!Range(t.retained) : e.name \in Seq(STRING)
      /\ \A i \in DOMAIN t.body : t.body[i] = [key |-> t.body[i].key, value |-> t.body[i].value]
      /\ \A x \in c.texts : x = [kind |-> x.kind, in |-> x.in, carries |-> x.carries, fixed |-> x.fixed]
  BY DEF Conf!Decoded, Conf!Range
<1>2. Conf!Exposed(t, rec) = {}
  BY RecordedHeader DEF Conf!Exposed
<1>3. Conf!ExposedByMarking(t, rec) = {}
  <2>1. CASE Conf!Confidential(t)
    BY <1>0, <1>1, <2>1, MarkedIsRetained DEF Conf!validateReleaseTarget
  <2>2. CASE ~Conf!Confidential(t)
    BY <2>2 DEF Conf!ExposedByMarking
  <2> QED
    BY <2>1, <2>2
<1>4. Conf!RetryAfter \in names => rec[Conf!RetryAfter] = "value"
  <2>1. Conf!HeaderAllowed(t.headers, Conf!RetryAfter) /\ ~Conf!HeaderRetained(t, Conf!RetryAfter)
    BY <1>1 DEF Conf!validateReleaseTarget, Conf!RetainedHeadersOK, Conf!HeaderRetained
  <2> QED
    BY <2>1 DEF Conf!Recorded
<1>5. DOMAIN rec \cap Conf!credentialHeaders = {}
  BY RecordedHeader DEF Conf!HeaderAllowed, Conf!CredentialHeader
<1>6. \A k \in {"512", "1024"} :
         /\ Conf!LiteralBodyOK(Conf!ReleaseBodyAt(t.body, t.adapter, k))
         /\ Conf!ReleaseBodyOK(Conf!ReleaseBodyAt(t.body, t.adapter, k), t.adapter, k)
  BY <1>0, <1>1, BodyAtCeiling DEF Conf!validateReleaseTarget
<1>7. Conf!Published(c) # None =>
        \A x \in Conf!Published(c), l \in Conf!Range(t.limits) :
            l.marking = "confidential" /\ l.value \in x.carries =>
                x.fixed \/ (x.kind = "value" /\ x.in # l)
  BY <1>0, PublishedHides
<1> QED
  BY <1>2, <1>3, <1>4, <1>5, <1>6, <1>7 DEF Conf!TargetSound

\* A window that comes later in the order starts after the end of every
\* window before it.
LEMMA LaterStartsAfter ==
    ASSUME NEW mock \in Seq([start : Int, duration : Int]),
           NEW order \in [1..Len(mock) -> 1..Len(mock)],
           \A i \in 1..Len(mock) : mock[i].duration > 0,
           \A i \in 2..Len(mock) : mock[order[i]].start >= Conf!Ends(mock[order[i - 1]]),
           NEW a \in 1..Len(mock), NEW b \in 1..Len(mock), a < b
    PROVE  Conf!Ends(mock[order[a]]) <= mock[order[b]].start
<1> DEFINE n == Len(mock)
           From(i) == mock[order[i]].start
           Until(i) == Conf!Ends(mock[order[i]])
           T == { j \in Nat : a < j /\ j <= n /\ ~(Until(a) <= From(j)) }
<1>1. n \in Nat /\ a \in 1..n /\ b \in 1..n /\ a < b
  OBVIOUS
<1>2. ASSUME NEW i \in 1..n PROVE From(i) \in Int /\ Until(i) \in Int /\ From(i) < Until(i)
  <2>1. order[i] \in 1..n
    BY <1>2
  <2>2. mock[order[i]] \in [start : Int, duration : Int] /\ mock[order[i]].duration > 0
    BY <2>1, ElementOfSeq
  <2> QED
    BY <2>2, SMTT(30) DEF Conf!Ends
<1>3. \A i \in 2..n : From(i) >= Until(i - 1)
  OBVIOUS
<1>4. SUFFICES Until(a) <= From(b)
  OBVIOUS
<1> HIDE DEF From, Until, n
<1>5. CASE T = {}
  <2>1. b \in Nat /\ a < b /\ b <= n
    BY <1>1
  <2>2. b \notin T
    <3> HIDE DEF T
    <3> QED
      BY <1>5
  <2> QED
    BY <2>1, <2>2
<1>6. CASE T # {}
  <2>1. PICK j \in T : \A i \in T : ~(<<i, j>> \in OpToRel(<, Nat))
    <3>1. T \subseteq Nat
      OBVIOUS
    <3> HIDE DEF T
    <3> QED
      BY <1>6, <3>1, NatLessThanWellFounded, WFMin
  <2>2. j \in Nat /\ a < j /\ j <= n /\ ~(Until(a) <= From(j))
    OBVIOUS
  <2>3. From(j) >= Until(j - 1)
    BY <1>1, <1>3, <2>2
  <2>4. CASE j - 1 = a
    BY <1>1, <1>2, <2>2, <2>3, <2>4
  <2>5. CASE j - 1 # a
    <3>1. j - 1 \in Nat /\ a < j - 1 /\ j - 1 <= n /\ j - 1 < j /\ j - 1 \in 1..n /\ j \in 1..n
      BY <1>1, <2>2, <2>5
    <3>2. j - 1 \notin T
      BY <2>1, <2>2, <3>1 DEF OpToRel
    <3>3. Until(a) <= From(j - 1)
      BY <3>1, <3>2
    <3> HIDE DEF T
    <3> QED
      BY <1>1, <1>2, <2>2, <2>3, <3>1, <3>3
  <2> QED
    BY <2>4, <2>5
<1> QED
  BY <1>5, <1>6

\* At most one mock fault of an accepted file is active at a time.
LEMMA OneFaultAtATime ==
    ASSUME NEW c, c.mock # None, c.mock \in Seq([start : Int, duration : Int]), Conf!MockOK(c),
           NEW i \in DOMAIN c.mock, NEW j \in DOMAIN c.mock, NEW x \in Int,
           \A k \in {i, j} : c.mock[k].start <= x /\ x < Conf!Ends(c.mock[k])
    PROVE  i = j
<1> DEFINE mock == c.mock
           n == Len(mock)
<1>1. PICK order \in Conf!ByStart(mock) :
         \A k \in 2..n : mock[order[k]].start >= Conf!Ends(mock[order[k - 1]])
  BY DEF Conf!MockOK
<1>2. /\ order \in [1..n -> 1..n] /\ DOMAIN mock = 1..n
      /\ \A k \in 1..n : \E d \in 1..n : order[d] = k
  <2>1. DOMAIN mock = 1..n
    OBVIOUS
  <2>2. order \in Conf!Bijection(DOMAIN mock, DOMAIN mock)
    BY <1>1 DEF Conf!ByStart
  <2> QED
    BY <2>1, <2>2 DEF Conf!Bijection, Conf!Surjection, Conf!Injection
<1>3. \A k \in 1..n : mock[k].duration > 0
  BY <1>2 DEF Conf!MockOK, Conf!Range
<1>4. PICK a \in 1..n : order[a] = i
  BY <1>2
<1>5. PICK b \in 1..n : order[b] = j
  BY <1>2
<1>6. \A k \in 1..n : mock[k].start \in Int /\ Conf!Ends(mock[k]) \in Int
  <2>1. \A k \in 1..n : mock[k] \in [start : Int, duration : Int]
    BY ElementOfSeq
  <2> QED
    BY <2>1 DEF Conf!Ends
<1>7. ~(a < b)
  <2>1. a < b => Conf!Ends(mock[i]) <= mock[j].start
    BY <1>1, <1>2, <1>3, <1>4, <1>5, LaterStartsAfter
  <2>2. mock[j].start <= x /\ x < Conf!Ends(mock[i]) /\ i \in 1..n /\ j \in 1..n
    BY <1>2
  <2> HIDE DEF mock, n
  <2> QED
    BY <1>6, <2>1, <2>2, SMTT(30)
<1>8. ~(b < a)
  <2>1. b < a => Conf!Ends(mock[j]) <= mock[i].start
    BY <1>1, <1>2, <1>3, <1>4, <1>5, LaterStartsAfter
  <2>2. mock[i].start <= x /\ x < Conf!Ends(mock[j]) /\ i \in 1..n /\ j \in 1..n
    BY <1>2
  <2> HIDE DEF mock, n
  <2> QED
    BY <1>6, <2>1, <2>2, SMTT(30)
<1> QED
  BY <1>4, <1>5, <1>7, <1>8

\* An accepted experiment or ac file gives the runner what it relies on.
LEMMA RunsAreSound ==
    ASSUME NaN \notin Int, NEW c, NEW instants, instants \subseteq Int,
           c.profile \in {"experiment", "ac"}, Conf!Decoded(c),
           Conf!checkFinite(c), Conf!validateRuns(c)
    PROVE  Conf!RunsSound(c, instants)
<1>1. /\ c.baseline \in Int \cup {NaN} /\ c.offset \in Int \cup {NaN} /\ c.timeout \in Int \cup {NaN}
      /\ c.grace \in Int /\ c.partition \in Int
      /\ c.mock # None => c.mock \in Seq([start : Int, duration : Int])
  BY DEF Conf!Decoded
<1>2. c.baseline \in Int /\ c.offset \in Int /\ c.timeout \in Int
  BY <1>1 DEF Conf!checkFinite
<1>3. Conf!RunOK(c) /\ Conf!FaultOK(c) /\ Conf!PinsOK(c) /\ Conf!MockOK(c)
  BY DEF Conf!validateRuns
<1>4. Conf!Less(0, c.baseline) /\ Conf!Less(0, c.timeout)
  BY <1>2, <1>3 DEF Conf!RunOK, Conf!Less, Conf!AtMost
<1>5. c.variant # "none" => Conf!AtMost(c.baseline, c.offset)
  BY <1>2, <1>3 DEF Conf!FaultOK, Conf!Less, Conf!AtMost
<1>6. c.variant = "black_hole" => 0 < c.grace /\ c.grace < c.partition
  BY <1>1, <1>3 DEF Conf!FaultOK, Conf!PinsOK
<1>7. c.mock # None =>
        \A i, j \in DOMAIN c.mock, x \in instants :
            (\A k \in {i, j} : c.mock[k].start <= x /\ x < Conf!Ends(c.mock[k])) => i = j
  BY <1>1, <1>3, OneFaultAtATime
<1> QED
  BY <1>4, <1>5, <1>6, <1>7 DEF Conf!RunsSound

\* The targets of an accepted pilot file are sent the same settings.
LEMMA PilotIsSound ==
    ASSUME NEW c, c.profile = "pilot", Conf!Decoded(c), Conf!validatePilot(c)
    PROVE  Conf!PilotSound(c)
<1> DEFINE ts == c.targets
<1>1. DOMAIN ts = 1..2 /\ Conf!PilotSettingsOK(ts)
  BY DEF Conf!validatePilot, Conf!Decoded
<1>2. 1 \in 1..2 /\ 2 \in 1..2 /\ 2 > 1
  OBVIOUS
<1> HIDE DEF ts
<1>3. ASSUME NEW k \in Conf!pilotSettings
      PROVE  \/ ts[1].params[k] = ts[2].params[k]
             \/ \E i \in 1..2 : k \in Conf!Range(ts[i].notApplied) /\ ts[i].params[k] = None
  <2>1. \A i \in 1..2 : k \in Conf!Range(ts[i].notApplied) => ts[i].params[k] = None
    BY <1>1 DEF Conf!PilotSettingsOK
  <2>2. \A a, b \in 1..2 :
           a # b /\ ts[a].params[k] # None /\ k \notin Conf!Range(ts[b].notApplied) =>
               ts[b].params[k] # None /\ (b > a => ts[b].params[k] = ts[a].params[k])
    BY <1>1 DEF Conf!PilotSettingsOK
  <2> QED
    BY <1>2, <2>1, <2>2
<1> QED
  BY <1>3 DEF Conf!PilotSound, ts

\* A file the rules accept keeps what the code downstream relies on, however
\* long its lists are, whatever headers a response carries and at every
\* instant of the mock (config.Validate).
LEMMA ConfigurationHolds ==
    ASSUME NaN \notin Int, NEW c, Conf!Decoded(c),
           NEW names, names \subseteq Seq(STRING), NEW instants, instants \subseteq Int
    PROVE  Conf!ConfigurationSound(c, names, instants)
<1> SUFFICES ASSUME Conf!Validate(c)
             PROVE  CASE c.profile = "release" -> Conf!TargetSound(c, names)
                      [] c.profile = "pilot" -> Conf!PilotSound(c)
                      [] OTHER -> Conf!RunsSound(c, instants)
  BY DEF Conf!ConfigurationSound
<1>1. CASE c.profile = "release"
  BY <1>1, TargetIsSound DEF Conf!Validate
<1>2. CASE c.profile = "pilot"
  BY <1>2, PilotIsSound DEF Conf!Validate
<1>3. CASE c.profile \in {"experiment", "ac"}
  BY <1>3, RunsAreSound DEF Conf!Validate
<1>4. c.profile \in {"release", "pilot", "experiment", "ac"}
  BY DEF Conf!Validate
<1> QED
  BY <1>1, <1>2, <1>3, <1>4

-----------------------------------------------------------------------------
(* Schedule: when the cells run. *)

\* Induction up to n, on the set of the numbers reached.
LEMMA Climb ==
    ASSUME NEW n \in Nat, NEW A, 0 \in A, \A i \in 1..n : i - 1 \in A => i \in A
    PROVE  \A i \in 0..n : i \in A
<1> DEFINE T == (0..n) \ A
<1> SUFFICES ASSUME T # {} PROVE FALSE
  OBVIOUS
<1>1. T \subseteq Nat
  OBVIOUS
<1>2. Min(T) \in T /\ \A x \in T : Min(T) <= x
  <2> HIDE DEF T
  <2> QED
    BY <1>1, MinIs
<1>3. PICK m \in T : \A x \in T : m <= x
  BY <1>2
<1>4. m # 0 /\ m \in 1..n /\ m - 1 \in 0..n /\ ~(m <= m - 1)
  OBVIOUS
<1>5. m - 1 \notin T
  BY <1>3, <1>4
<1> QED
  BY <1>4, <1>5

\* f starts from b and goes on by g, up to n.
Unwinds(f, S, b, n, g) ==
    f \in [0..n -> S] /\ f[0] = b /\ \A i \in 1..n : f[i] = g[<<f[i - 1], i>>]

\* A function defined by recursion on 0..n: it exists.
LEMMA Recursion ==
    ASSUME NEW S, NEW b \in S, NEW n \in Nat, NEW g \in [S \X (1..n) -> S]
    PROVE  \E f : Unwinds(f, S, b, n, g)
<1> DEFINE Reaches(m) == \E f \in [0..m -> S] : f[0] = b /\ \A i \in 1..m : f[i] = g[<<f[i - 1], i>>]
           A == { m \in 0..n : Reaches(m) }
<1>1. 0 \in A
  <2> DEFINE f == [i \in 0..0 |-> b]
  <2>1. f \in [0..0 -> S] /\ f[0] = b
    OBVIOUS
  <2>2. \A i \in 1..0 : f[i] = g[<<f[i - 1], i>>]
    OBVIOUS
  <2> HIDE DEF f
  <2>3. Reaches(0)
    BY <2>1, <2>2
  <2> QED
    BY <2>3
<1>2. ASSUME NEW m \in 1..n, m - 1 \in A PROVE m \in A
  <2>1. PICK f \in [0..m - 1 -> S] : f[0] = b /\ \A i \in 1..m - 1 : f[i] = g[<<f[i - 1], i>>]
    BY <1>2
  <2> DEFINE h == [i \in 0..m |-> IF i = m THEN g[<<f[m - 1], m>>] ELSE f[i]]
  <2>2. m \in Nat /\ m >= 1 /\ m - 1 \in 0..m - 1 /\ m \in 1..n
    OBVIOUS
  <2>3. g[<<f[m - 1], m>>] \in S
    BY <2>2
  <2>4. \A i \in 0..m : i # m => i \in 0..m - 1
    BY <2>2
  <2>5. h \in [0..m -> S]
    BY <2>3, <2>4
  <2>6. h[0] = b
    BY <2>1, <2>2
  <2>7. ASSUME NEW i \in 1..m PROVE h[i] = g[<<h[i - 1], i>>]
    <3>1. CASE i = m
      <4>1. h[m] = g[<<f[m - 1], m>>] /\ h[m - 1] = f[m - 1]
        BY <2>2
      <4> QED
        BY <3>1, <4>1
    <3>2. CASE i # m
      <4>1. i \in 1..m - 1 /\ i \in 0..m /\ i - 1 \in 0..m /\ i - 1 # m
        BY <2>2, <3>2
      <4>2. h[i] = f[i] /\ h[i - 1] = f[i - 1]
        BY <3>2, <4>1
      <4> QED
        BY <2>1, <4>1, <4>2
    <3> QED
      BY <3>1, <3>2
  <2> HIDE DEF h
  <2>8. Reaches(m)
    BY <2>5, <2>6, <2>7
  <2> QED
    BY <2>2, <2>8
<1> HIDE DEF A
<1>3. n \in A
  BY <1>1, <1>2, Climb
<1> QED
  BY <1>3 DEF A, Unwinds

\* A remainder.
LEMMA Remainder ==
    ASSUME NEW x \in Nat, NEW n \in Nat \ {0}
    PROVE  x % n \in 0..n - 1
  OBVIOUS

\* A list of days, strictly increasing and below n: all those of a type.
DaysBelow(in, type, w, n) ==
    /\ w \in Seq(Nat) /\ \A i \in 1..Len(w) : w[i] < n /\ Sched!DayType(in, w[i]) = type
    /\ \A i, j \in 1..Len(w) : i < j => w[i] < w[j]
    /\ \A d \in 0..n - 1 : Sched!DayType(in, d) = type => \E i \in 1..Len(w) : w[i] = d

\* The loop over the window's dates gives them in order.
LEMMA WindowIs ==
    ASSUME NEW in, in.days \in Nat, NEW type
    PROVE  DaysBelow(in, type, Sched!Window(in, type), in.days)
<1> DEFINE n == in.days
           Is(d) == Sched!DayType(in, d) = type
           Upto(f) == f = [i \in 0..n |-> IF i = 0 THEN <<>>
                                          ELSE IF Sched!DayType(in, i - 1) = type
                                               THEN Append(f[i - 1], i - 1) ELSE f[i - 1]]
           g == [x \in Seq(Nat) \X (1..n) |-> IF Is(x[2] - 1) THEN Append(x[1], x[2] - 1) ELSE x[1]]
<1>1. n \in Nat
  OBVIOUS
<1>2. g \in [Seq(Nat) \X (1..n) -> Seq(Nat)]
  <2>1. ASSUME NEW x \in Seq(Nat) \X (1..n)
        PROVE  (IF Is(x[2] - 1) THEN Append(x[1], x[2] - 1) ELSE x[1]) \in Seq(Nat)
    <3>1. x[1] \in Seq(Nat) /\ x[2] - 1 \in Nat
      BY <1>1, <2>1
    <3> HIDE DEF Is
    <3> QED
      BY <3>1
  <2> HIDE DEF Is
  <2> QED
    BY <2>1
<1>3. <<>> \in Seq(Nat)
  OBVIOUS
<1>4. PICK f : Unwinds(f, Seq(Nat), <<>>, n, g)
  <2> HIDE DEF n, g
  <2> QED
    BY <1>1, <1>2, <1>3, Recursion
<1>4a. f \in [0..n -> Seq(Nat)] /\ f[0] = <<>> /\ \A i \in 1..n : f[i] = g[<<f[i - 1], i>>]
  BY <1>4 DEF Unwinds
<1>5. ASSUME NEW i \in 1..n
      PROVE  f[i] = IF Is(i - 1) THEN Append(f[i - 1], i - 1) ELSE f[i - 1]
  <2>1. i - 1 \in 0..n /\ f[i - 1] \in Seq(Nat)
    BY <1>1, <1>4a
  <2>2. <<f[i - 1], i>> \in Seq(Nat) \X (1..n)
    BY <2>1
  <2>3. f[i] = g[<<f[i - 1], i>>]
    BY <1>4a, <1>5
  <2> HIDE DEF Is
  <2> QED
    BY <2>2, <2>3
<1>6. Upto(f)
  <2>1. ASSUME NEW i \in 0..n
        PROVE  f[i] = IF i = 0 THEN <<>>
                      ELSE IF Sched!DayType(in, i - 1) = type THEN Append(f[i - 1], i - 1) ELSE f[i - 1]
    <3>1. i = 0 \/ i \in 1..n
      BY <1>1
    <3> QED
      BY <1>4a, <1>5, <3>1
  <2> HIDE DEF n, g
  <2> QED
    BY <1>4a, <2>1
<1>7. PICK w : Upto(w) /\ Sched!Window(in, type) = w[n]
  BY <1>6 DEF Sched!Window
<1>8. w[0] = <<>> /\ \A i \in 1..n : w[i] = IF Is(i - 1) THEN Append(w[i - 1], i - 1) ELSE w[i - 1]
  <2>1. 0 \in 0..n /\ \A i \in 1..n : i \in 0..n /\ i # 0
    BY <1>1
  <2>2. w = [i \in 0..n |-> IF i = 0 THEN <<>>
                            ELSE IF Is(i - 1) THEN Append(w[i - 1], i - 1) ELSE w[i - 1]]
    BY <1>7
  <2> HIDE DEF n, Is
  <2>3. \A i \in 0..n : w[i] = IF i = 0 THEN <<>>
                            ELSE IF Is(i - 1) THEN Append(w[i - 1], i - 1) ELSE w[i - 1]
    BY <2>2
  <2> QED
    BY <2>1, <2>3
<1> DEFINE A == { i \in 0..n : DaysBelow(in, type, w[i], i) }
<1>9. 0 \in A
  <2>1. DaysBelow(in, type, <<>>, 0)
    BY DEF DaysBelow
  <2> QED
    BY <1>1, <1>8, <2>1
<1>10. ASSUME NEW i \in 1..n, i - 1 \in A PROVE i \in A
  <2> DEFINE v == w[i - 1]
             m == Len(v)
  <2>1. DaysBelow(in, type, v, i - 1)
    BY <1>10
  <2>2. /\ v \in Seq(Nat) /\ m \in Nat
        /\ \A k \in 1..m : v[k] \in Nat /\ v[k] < i - 1 /\ Is(v[k])
        /\ \A k, l \in 1..m : k < l => v[k] < v[l]
        /\ \A d \in 0..i - 2 : Is(d) => \E k \in 1..m : v[k] = d
    BY <2>1 DEF DaysBelow
  <2>3. w[i] = IF Is(i - 1) THEN Append(v, i - 1) ELSE v
    BY <1>8
  <2>4. i \in Nat /\ i >= 1 /\ i \in 0..n
    BY <1>1
  <2> HIDE DEF v, m, Is, A
  <2>5. CASE Is(i - 1)
    <3> DEFINE u == Append(v, i - 1)
    <3>1. /\ u \in Seq(Nat) /\ Len(u) = m + 1 /\ u[m + 1] = i - 1
          /\ \A k \in 1..m : u[k] = v[k]
      BY <2>2, <2>4 DEF m
    <3> HIDE DEF u
    <3>2. \A k \in 1..Len(u) : k \in 1..m \/ k = m + 1
      BY <2>2, <3>1
    <3>3. ASSUME NEW k \in 1..Len(u) PROVE u[k] < i /\ Is(u[k])
      <4>1. CASE k \in 1..m
        BY <2>2, <2>4, <3>1, <4>1
      <4>2. CASE k = m + 1
        BY <2>4, <2>5, <3>1, <4>2
      <4> QED
        BY <3>2, <4>1, <4>2
    <3>4. ASSUME NEW k \in 1..Len(u), NEW l \in 1..Len(u), k < l PROVE u[k] < u[l]
      <4>1. k \in 1..m
        BY <2>2, <3>1, <3>4
      <4>2. l \in 1..m \/ l = m + 1
        BY <3>2
      <4> QED
        BY <2>2, <3>1, <3>4, <4>1, <4>2
    <3>5. ASSUME NEW d \in 0..i - 1, Is(d) PROVE \E k \in 1..Len(u) : u[k] = d
      <4>1. d = i - 1 \/ d \in 0..i - 2
        BY <2>4
      <4>2. m + 1 \in 1..Len(u) /\ \A k \in 1..m : k \in 1..Len(u)
        BY <2>2, <3>1
      <4> QED
        BY <2>2, <3>1, <3>5, <4>1, <4>2
    <3>6. DaysBelow(in, type, u, i)
      BY <3>1, <3>3, <3>4, <3>5 DEF DaysBelow, Is
    <3> QED
      BY <2>3, <2>4, <2>5, <3>6 DEF A, u
  <2>6. CASE ~Is(i - 1)
    <3>1. \A d \in 0..i - 1 : Is(d) => d \in 0..i - 2
      <4> SUFFICES ASSUME NEW d \in 0..i - 1, Is(d) PROVE d \in 0..i - 2
        OBVIOUS
      <4>1. d # i - 1
        BY <2>6
      <4> QED
        BY <2>4, <4>1
    <3>2. \A k \in 1..m : v[k] < i
      BY <2>2, <2>4
    <3>3. DaysBelow(in, type, v, i)
      BY <2>2, <3>1, <3>2 DEF DaysBelow, Is, m
    <3> QED
      BY <2>3, <2>4, <2>6, <3>3 DEF A
  <2> QED
    BY <2>5, <2>6
<1>11. n \in A
  <2> HIDE DEF A, n
  <2>1. \A i \in 0..n : i \in A
    BY <1>1, <1>9, <1>10, Climb
  <2> QED
    BY <1>1, <2>1
<1> QED
  BY <1>7, <1>11

\* Offsets given to n routes: distinct, and none past the last.
Offsets(n) ==
    { m \in [1..n -> 0..(n - 1) * 600] : \A i, j \in 1..n : m[i] = m[j] => i = j }

\* An exchange of two places keeps them so.
LEMMA ExchangeKeeps ==
    ASSUME NEW n \in Nat \ {0}, NEW m \in Offsets(n), NEW i \in 1..n, NEW d \in Nat
    PROVE  Sched!Exchange(m, i, d) \in Offsets(n)
<1> DEFINE j == (d % i) + 1
           e == [m EXCEPT ![i] = m[j], ![j] = m[i]]
           R == 0..(n - 1) * 600
<1>1. j \in 1..n
  <2>1. i \in Nat \ {0} /\ i <= n
    OBVIOUS
  <2>2. d % i \in 0..i - 1
    BY <2>1, Remainder
  <2> HIDE DEF j
  <2>3. j = (d % i) + 1
    BY DEF j
  <2> QED
    BY <2>1, <2>2, <2>3
<1>2. m \in [1..n -> R] /\ \A x, y \in 1..n : m[x] = m[y] => x = y
  BY DEF Offsets
<1> HIDE DEF j, R
<1>3. e \in [1..n -> R]
  BY <1>1, <1>2
<1>4. \A x \in 1..n : e[x] = IF x = j THEN m[i] ELSE IF x = i THEN m[j] ELSE m[x]
  BY <1>1, <1>2
<1> HIDE DEF e
<1>5. ASSUME NEW x \in 1..n, NEW y \in 1..n, e[x] = e[y] PROVE x = y
  BY <1>1, <1>2, <1>4, <1>5
<1>6. e \in Offsets(n)
  BY <1>3, <1>5 DEF Offsets, R
<1> QED
  BY <1>6 DEF e, j, Sched!Exchange

\* The shuffle of the offsets gives every route its own.
LEMMA ShuffleIs ==
    ASSUME NEW in, Sched!ScheduleInput(in), in.routes # <<>>, NEW c \in DOMAIN in.draw
    PROVE  Sched!Shuffle(in, c) \in Offsets(Len(in.routes))
<1> DEFINE n == Len(in.routes)
           q == in.shuffle[c]
           S == Offsets(n)
           b == [i \in 1..n |-> (i - 1) * 600]
           g == [x \in S \X (1..n - 1) |-> Sched!Exchange(x[1], n + 1 - x[2], q[n + 1 - x[2]])]
           Upto(f) == f = [k \in 0..n - 1 |->
                              IF k = 0 THEN [i \in 1..n |-> (i - 1) * Sched!OffsetStep]
                              ELSE Sched!Exchange(f[k - 1], n + 1 - k, q[n + 1 - k])]
<1>1. n \in Nat \ {0} /\ n - 1 \in Nat /\ \A i \in 1..n : q[i] \in Nat
  <2>1. in.routes \in Seq(Sched!Range(in.routes)) /\ \A i \in 1..n : q[i] \in Nat
    BY DEF Sched!ScheduleInput
  <2>2. n \in Nat /\ n # 0
    BY <2>1, EmptySeq, LenProperties
  <2> HIDE DEF n
  <2> QED
    BY <2>1, <2>2
<1> HIDE DEF n, q
<1>2. b \in S
  <2>1. \A i \in 1..n : (i - 1) * 600 \in 0..(n - 1) * 600
    BY <1>1
  <2>2. \A i, j \in 1..n : (i - 1) * 600 = (j - 1) * 600 => i = j
    BY <1>1
  <2> QED
    BY <2>1, <2>2 DEF Offsets
<1>3. ASSUME NEW m \in S, NEW k \in 1..n - 1 PROVE Sched!Exchange(m, n + 1 - k, q[n + 1 - k]) \in S
  <2>1. n + 1 - k \in 1..n
    BY <1>1
  <2> QED
    BY <1>1, <1>3, <2>1, ExchangeKeeps
<1>4. g \in [S \X (1..n - 1) -> S]
  BY <1>3
<1> HIDE DEF S, b, g
<1>5. PICK f : Unwinds(f, S, b, n - 1, g)
  BY <1>1, <1>2, <1>4, Recursion
<1>6. f \in [0..n - 1 -> S] /\ f[0] = b /\ \A i \in 1..n - 1 : f[i] = g[<<f[i - 1], i>>]
  BY <1>5 DEF Unwinds
<1>7. ASSUME NEW k \in 1..n - 1 PROVE f[k] = Sched!Exchange(f[k - 1], n + 1 - k, q[n + 1 - k])
  <2>1. k - 1 \in 0..n - 1
    BY <1>1
  <2>2. <<f[k - 1], k>> \in S \X (1..n - 1)
    BY <1>6, <2>1
  <2> QED
    BY <1>6, <1>7, <2>2 DEF g
<1>8. Upto(f)
  <2>1. ASSUME NEW k \in 0..n - 1
        PROVE  f[k] = IF k = 0 THEN b ELSE Sched!Exchange(f[k - 1], n + 1 - k, q[n + 1 - k])
    <3>1. k = 0 \/ k \in 1..n - 1
      BY <1>1
    <3> QED
      BY <1>6, <1>7, <3>1
  <2>2. b = [i \in 1..n |-> (i - 1) * Sched!OffsetStep]
    BY DEF b, Sched!OffsetStep
  <2>3. f = [k \in 0..n - 1 |-> IF k = 0 THEN b ELSE Sched!Exchange(f[k - 1], n + 1 - k, q[n + 1 - k])]
    BY <1>6, <2>1
  <2> QED
    BY <2>2, <2>3
<1>9. PICK w : Upto(w) /\ Sched!Shuffle(in, c) = w[n - 1]
  BY <1>8 DEF Sched!Shuffle, n, q
<1>10. w[0] = b /\ \A k \in 1..n - 1 : w[k] = Sched!Exchange(w[k - 1], n + 1 - k, q[n + 1 - k])
  <2>1. 0 \in 0..n - 1 /\ \A k \in 1..n - 1 : k \in 0..n - 1 /\ k # 0
    BY <1>1
  <2>2. b = [i \in 1..n |-> (i - 1) * Sched!OffsetStep]
    BY DEF b, Sched!OffsetStep
  <2>3. w = [k \in 0..n - 1 |-> IF k = 0 THEN b ELSE Sched!Exchange(w[k - 1], n + 1 - k, q[n + 1 - k])]
    BY <1>9, <2>2
  <2>4. \A k \in 0..n - 1 : w[k] = IF k = 0 THEN b ELSE Sched!Exchange(w[k - 1], n + 1 - k, q[n + 1 - k])
    BY <2>3
  <2> QED
    BY <2>1, <2>4
<1> DEFINE A == { k \in 0..n - 1 : w[k] \in S }
<1>11. 0 \in A
  BY <1>1, <1>2, <1>10
<1>12. ASSUME NEW k \in 1..n - 1, k - 1 \in A PROVE k \in A
  <2>1. k \in 0..n - 1
    BY <1>1
  <2> QED
    BY <1>3, <1>10, <1>12, <2>1
<1>13. n - 1 \in A
  <2> HIDE DEF A
  <2>1. \A i \in 0..n - 1 : i \in A
    BY <1>1, <1>11, <1>12, Climb
  <2> QED
    BY <1>1, <2>1
<1> QED
  BY <1>9, <1>13 DEF S, n

\* Both day types have a date in an accepted window.
LEMMA PoolsNotEmpty ==
    ASSUME NEW in, Sched!ScheduleInput(in), Sched!WindowOk(in), NEW t \in {"weekday", "weekend"}
    PROVE  Sched!Window(in, t) # <<>>
<1>1. CASE t = "weekday"
  BY <1>1 DEF Sched!WindowOk
<1>2. CASE t = "weekend"
  <2>1. in.days \in Nat
    BY DEF Sched!ScheduleInput
  <2>2. 5 \in { Sched!WeekdayOf(in, d) : d \in 0..in.days - 1 }
    BY DEF Sched!WindowOk
  <2>3. PICK d \in 0..in.days - 1 : Sched!WeekdayOf(in, d) = 5
    BY <2>2
  <2>4. Sched!DayType(in, d) = t
    BY <1>2, <2>3 DEF Sched!DayType
  <2>5. \E i \in 1..Len(Sched!Window(in, t)) : Sched!Window(in, t)[i] = d
    BY <2>1, <2>4, WindowIs DEF DaysBelow
  <2>6. Len(<<>>) = 0
    OBVIOUS
  <2> QED
    BY <2>5, <2>6
<1> QED
  BY <1>1, <1>2

\* A label: a day type and an hour.
LEMMA LabelsAre ==
    ASSUME SlotHours \subseteq 0..23, NEW l \in Sched!Labels
    PROVE  l[1] \in {"weekday", "weekend"} /\ l[2] \in 0..23 /\ l = <<l[1], l[2]>>
<1>1. l \in {"weekday", "weekend"} \X SlotHours
  BY DEF Sched!Labels
<1>2. l[1] \in {"weekday", "weekend"} /\ l[2] \in SlotHours /\ l = <<l[1], l[2]>>
  BY <1>1
<1> QED
  BY <1>2

\* The slot of a date and an hour.
SlotAt(d, h) == 86400 * d + 3600 * h

\* The attempts of a cell: one or two, on dates of its day type, in order.
AttemptsFit(in, label, a) ==
    /\ Len(a) \in 1..2
    /\ \A n \in 1..Len(a) :
         /\ a[n].date \in 0..in.days - 1 /\ Sched!DayType(in, a[n].date) = label[1]
         /\ a[n].slot = SlotAt(a[n].date, label[2])
    /\ Len(a) = 2 => a[1].date < a[2].date

\* What is drawn for a cell.
LEMMA AttemptsIs ==
    ASSUME NEW in, Sched!ScheduleInput(in), Sched!WindowOk(in), NEW c \in DOMAIN in.draw,
           NEW label \in Sched!Labels
    PROVE  AttemptsFit(in, label, Sched!Attempts(in, c, label))
<1> DEFINE pool == Sched!Window(in, label[1])
           p == Len(pool)
           d == in.draw[c][label]
           i == (d % p) + 1
           t == Min({2, p - i + 1})
           a == [n \in 1..t |->
                   [attempt |-> n, date |-> pool[i + n - 1],
                    slot |-> 86400 * pool[i + n - 1] + 3600 * label[2],
                    seed |-> <<c, label, n>>]]
<1>1. label[1] \in {"weekday", "weekend"}
  BY LabelsAre DEF Sched!ScheduleInput
<1>2. in.days \in Nat /\ DaysBelow(in, label[1], pool, in.days)
  <2>1. in.days \in Nat
    BY DEF Sched!ScheduleInput
  <2> QED
    BY <2>1, WindowIs
<1>3. pool # <<>>
  BY <1>1, PoolsNotEmpty
<1>4. /\ pool \in Seq(Nat) /\ p \in Nat \ {0}
      /\ \A x \in 1..p : pool[x] \in 0..in.days - 1 /\ Sched!DayType(in, pool[x]) = label[1]
      /\ \A x, y \in 1..p : x < y => pool[x] < pool[y]
  <2> HIDE DEF pool
  <2>1. pool \in Seq(Nat)
    BY <1>2 DEF DaysBelow
  <2>2. Len(pool) \in Nat /\ Len(pool) # 0
    BY <1>3, <2>1, EmptySeq, LenProperties
  <2>3. \A x \in 1..p : pool[x] \in Nat
    BY <2>1
  <2> QED
    BY <1>2, <2>1, <2>2, <2>3 DEF DaysBelow
<1>5. d \in Nat
  <2>1. in.draw \in Seq([Sched!Labels -> Nat])
    BY DEF Sched!ScheduleInput
  <2>2. in.draw[c] \in [Sched!Labels -> Nat]
    BY <2>1, ElementOfSeq, LenProperties
  <2> QED
    BY <2>2
<1> HIDE DEF pool, p, d
<1>6. i \in 1..p
  <2>1. d % p \in 0..p - 1
    BY <1>4, <1>5, Remainder
  <2> QED
    BY <1>4, <2>1
<1> HIDE DEF i
<1>7. t \in {2, p - i + 1} /\ t <= 2 /\ t <= p - i + 1 /\ t \in 1..2
  <2> DEFINE Z == {2, p - i + 1}
  <2>1. Z \in SUBSET Nat /\ Z # {} /\ 2 \in Z /\ p - i + 1 \in Z /\ p - i + 1 >= 1 /\ \A z \in Z : z = 2 \/ z = p - i + 1
    BY <1>4, <1>6
  <2> HIDE DEF Z
  <2>2. Min(Z) \in Z /\ Min(Z) <= 2 /\ Min(Z) <= p - i + 1
    BY <2>1, MinIs
  <2>3. Min(Z) = 2 \/ Min(Z) = p - i + 1
    BY <2>1, <2>2
  <2>4. Min(Z) \in 1..2
    BY <1>4, <1>6, <2>1, <2>2, <2>3
  <2> QED
    BY <2>2, <2>4 DEF Z
<1>8. t \in Nat
  BY <1>7
<1> HIDE DEF t
<1>9. Len(a) = t
  BY <1>8
<1>10. \A n \in 1..t : a[n].date = pool[i + n - 1]
  OBVIOUS
<1>10a. \A n \in 1..t : a[n].slot = SlotAt(a[n].date, label[2])
  BY DEF SlotAt
<1>11. \A n \in 1..t : i + n - 1 \in 1..p
  BY <1>4, <1>6, <1>7, <1>8
<1>12. Sched!Attempts(in, c, label) = a
  <2>1. Sched!Min({Sched!MaxAttempts, p - i + 1}) = t
    BY DEF Sched!Min, Min, Sched!MaxAttempts, t
  <2> QED
    BY <2>1 DEF Sched!Attempts, pool, p, d, i
<1> HIDE DEF a
<1>13. t = 2 => a[1].date < a[2].date
  <2> SUFFICES ASSUME t = 2 PROVE a[1].date < a[2].date
    OBVIOUS
  <2>1. 1 \in 1..t /\ 2 \in 1..t
    OBVIOUS
  <2>2. a[1].date = pool[i + 1 - 1] /\ a[2].date = pool[i + 2 - 1]
    BY <1>10, <2>1
  <2>3. i + 1 - 1 \in 1..p /\ i + 2 - 1 \in 1..p
    BY <1>11, <2>1
  <2>4. i + 1 - 1 < i + 2 - 1
    BY <1>6
  <2> QED
    BY <1>4, <2>2, <2>3, <2>4
<1>14. \A n \in 1..t : a[n].date \in 0..in.days - 1 /\ Sched!DayType(in, a[n].date) = label[1]
  BY <1>4, <1>10, <1>11
<1>15. t \in 1..2
  BY <1>7
<1>16. AttemptsFit(in, label, a)
  BY <1>9, <1>10a, <1>13, <1>14, <1>15 DEF AttemptsFit
<1> QED
  BY <1>12, <1>16

\* A slot is a time.
LEMMA SlotIsTime ==
    ASSUME NEW d \in Nat, NEW h \in 0..23
    PROVE  SlotAt(d, h) \in Nat
  BY DEF SlotAt

\* Whatever the window, the routes and the numbers drawn: the schedule New
\* derives, if it derives one, is sound.
LEMMA ScheduleHolds ==
    ASSUME NEW in, Sched!ScheduleInput(in)
    PROVE  Sched!ScheduleSound(in, Sched!New(in))
<1> DEFINE s == Sched!New(in)
           k == Sched!Min(Sched!Counters(in))
           all == { x \in Sched!Labels \X (1..Sched!MaxAttempts) : x[2] <= Len(s.cells[x[1]]) }
<1> SUFFICES ASSUME s # None PROVE Sched!ScheduleSound(in, s)
  BY DEF Sched!ScheduleSound
<1>1. /\ Sched!Valid(in) /\ Sched!Counters(in) # {}
      /\ s = [input |-> in, counter |-> k, cells |-> Sched!Derive(in, k), offsets |-> Sched!Shuffle(in, k)]
  BY DEF Sched!New
<1>2. k \in Sched!Counters(in)
  <2> DEFINE C == Sched!Counters(in)
  <2>1. in.draw \in Seq([Sched!Labels -> Nat])
    BY DEF Sched!ScheduleInput
  <2>2. DOMAIN in.draw = 1..Len(in.draw) /\ Len(in.draw) \in Nat
    BY <2>1, LenProperties
  <2>3. C \in SUBSET Nat
    BY <2>2 DEF Sched!Counters
  <2> HIDE DEF C
  <2>4. C # {}
    BY <1>1 DEF C
  <2>5. Min(C) \in C
    BY <2>3, <2>4, MinIs
  <2> QED
    BY <2>5 DEF C, Sched!Min, Min
<1> HIDE DEF k
<1>3. k \in DOMAIN in.draw /\ Sched!BothWeekendDays(in, Sched!Derive(in, k))
  BY <1>2 DEF Sched!Counters
<1>4. /\ s.input = in /\ s.cells = [l \in Sched!Labels |-> Sched!Attempts(in, k, l)]
      /\ s.offsets = Sched!Shuffle(in, k)
  BY <1>1 DEF Sched!Derive
<1>5. Sched!WindowOk(in) /\ in.routes # <<>> /\ Sched!RoutesFit(Len(in.routes))
  BY <1>1 DEF Sched!Valid
<1>6. Sched!Loads(s)
  BY <1>4 DEF Sched!Loads
<1>7. {5, 6} \subseteq { Sched!WeekdayOf(in, s.cells[l][1].date) : l \in Sched!Labels }
  <2>1. Sched!BothWeekendDays(in, s.cells)
    BY <1>3, <1>4 DEF Sched!Derive
  <2> QED
    BY <2>1 DEF Sched!BothWeekendDays
<1>8. \A l \in Sched!Labels : AttemptsFit(in, l, s.cells[l])
  BY <1>3, <1>4, <1>5, AttemptsIs
<1>9. s.offsets \in Offsets(Len(in.routes))
  BY <1>3, <1>4, <1>5, ShuffleIs
<1> HIDE DEF s, all
<1>10. \A l \in Sched!Labels : l = <<l[1], l[2]>> /\ l[2] \in 0..23
  BY LabelsAre DEF Sched!ScheduleInput
<1>11. ASSUME NEW x \in all
       PROVE  /\ x[1] \in Sched!Labels /\ x = <<x[1], x[2]>>
              /\ Len(s.cells[x[1]]) \in 1..2 /\ x[2] \in 1..Len(s.cells[x[1]])
  <2>1. x = <<x[1], x[2]>> /\ x[1] \in Sched!Labels /\ x[2] \in 1..2 /\ x[2] <= Len(s.cells[x[1]])
    BY <1>11 DEF all, Sched!MaxAttempts
  <2>2. Len(s.cells[x[1]]) \in 1..2
    BY <1>8, <2>1 DEF AttemptsFit
  <2> QED
    BY <2>1, <2>2
<1>12. ASSUME NEW x \in all
       PROVE  /\ s.cells[x[1]][x[2]].date \in 0..in.days - 1
              /\ Sched!DayType(in, s.cells[x[1]][x[2]].date) = x[1][1]
              /\ s.cells[x[1]][x[2]].slot = SlotAt(s.cells[x[1]][x[2]].date, x[1][2])
  BY <1>8, <1>11 DEF AttemptsFit
<1>12a. ASSUME NEW x \in all
        PROVE  s.cells[x[1]][x[2]].date \in Nat /\ s.cells[x[1]][x[2]].slot \in Nat /\ x[1][2] \in 0..23
  <2>1. s.cells[x[1]][x[2]].date \in Nat
    BY <1>12
  <2>2. x[1][2] \in 0..23
    BY <1>10, <1>11
  <2> QED
    <3> DEFINE d == s.cells[x[1]][x[2]].date
               h == x[1][2]
    <3>1. d \in Nat /\ h \in 0..23 /\ s.cells[x[1]][x[2]].slot = SlotAt(d, h)
      BY <1>12, <2>1, <2>2
    <3> HIDE DEF d, h
    <3>2. SlotAt(d, h) \in Nat
      BY <3>1, SlotIsTime
    <3> QED
      BY <2>1, <2>2, <3>1, <3>2
<1>12b. ASSUME NEW x \in all, NEW y \in all, s.cells[x[1]][x[2]].slot = s.cells[y[1]][y[2]].slot
        PROVE  x = y
  <2> DEFINE c == s.cells[x[1]]
             e == Len(c)
             u == x[2]
             v == y[2]
  <2>1. s.cells[x[1]][x[2]].date = s.cells[y[1]][y[2]].date /\ x[1][2] = y[1][2]
    <3> DEFINE a == s.cells[x[1]][x[2]].date
               b == s.cells[y[1]][y[2]].date
               g == x[1][2]
               h == y[1][2]
    <3>1. a \in Nat /\ b \in Nat /\ g \in 0..23 /\ h \in 0..23
      BY <1>12a
    <3>2. SlotAt(a, g) = SlotAt(b, h)
      BY <1>12, <1>12b
    <3> HIDE DEF a, b, g, h
    <3>3. a = b /\ g = h
      BY <3>1, <3>2 DEF SlotAt
    <3> QED
      BY <3>3 DEF a, b, g, h
  <2>2. x[1][1] = y[1][1]
    BY <1>12, <2>1
  <2>3. x[1] = y[1]
    BY <1>10, <1>11, <2>1, <2>2
  <2>4. u \in 1..e /\ v \in 1..e /\ e \in 1..2
    BY <1>11, <2>3
  <2>5. e = 2 => c[1].date < c[2].date
    BY <1>8, <1>11 DEF AttemptsFit
  <2>6. c[u].date = c[v].date /\ c[u].date \in Nat
    BY <1>12a, <2>1, <2>3
  <2> HIDE DEF c, e, u, v
  <2>7. u = v
    <3> SUFFICES ASSUME u # v PROVE FALSE
      OBVIOUS
    <3>1. e = 2 /\ ((u = 1 /\ v = 2) \/ (u = 2 /\ v = 1))
      BY <2>4
    <3> QED
      BY <2>5, <2>6, <3>1
  <2> QED
    BY <1>11, <2>3, <2>7 DEF u, v
<1> DEFINE n == Len(in.routes)
<1>13. n \in Nat \ {0} /\ DOMAIN in.routes = 1..n
  <2>1. in.routes \in Seq(Sched!Range(in.routes))
    BY DEF Sched!ScheduleInput
  <2> QED
    BY <1>5, <2>1, EmptySeq, LenProperties
<1>14. Sched!IsInjective(s.offsets)
  BY <1>9 DEF Offsets, Sched!IsInjective
<1>15. ASSUME NEW i \in DOMAIN in.routes, NEW x \in all
       PROVE  LET run == Sched!RunOf(s, i, x[1], x[2])
                  slot == s.cells[x[1]][x[2]].slot
              IN  /\ run.start >= slot
                  /\ run.start + Sched!StartTolerance + Sched!CellLength <= slot + Sched!SlotLength
  <2> DEFINE slot == s.cells[x[1]][x[2]].slot
             off == s.offsets[i]
  <2>1. off \in 0..(n - 1) * 600
    BY <1>9, <1>13 DEF Offsets
  <2>2. slot \in Nat
    BY <1>12a
  <2>3. Sched!RunOf(s, i, x[1], x[2]).start = slot + off
    BY DEF Sched!RunOf
  <2>4. (n - 1) * 600 + Sched!StartTolerance + Sched!CellLength <= Sched!SlotLength
    BY <1>5 DEF Sched!RoutesFit, Sched!OffsetStep
  <2>5. Sched!StartTolerance \in Nat /\ Sched!CellLength \in Nat /\ Sched!SlotLength \in Nat
    BY DEF Sched!StartTolerance, Sched!CellLength, Sched!SlotLength
  <2> HIDE DEF slot, off, n
  <2>6. slot + off >= slot /\ slot + off + Sched!StartTolerance + Sched!CellLength <= slot + Sched!SlotLength
    BY <1>13, <2>1, <2>2, <2>4, <2>5
  <2> QED
    BY <2>3, <2>6 DEF slot
<1>16. \A x \in all : s.cells[x[1]][x[2]].date \in 0..in.days - 1
  BY <1>12
<1>17. \A x, y \in all : x # y => s.cells[x[1]][x[2]].slot # s.cells[y[1]][y[2]].slot
  BY <1>12b
<1> QED
  BY <1>6, <1>7, <1>14, <1>15, <1>16, <1>17 DEF all, Sched!ScheduleSound

-----------------------------------------------------------------------------
(* SetUp: each subject on its own. *)

\* The pilot's proofs, of the sessions here.
PilotProofs == INSTANCE PilotSessionProofs WITH procs <- pilots, DayType <- SessionDay

\* PilotSession as the pilot's proofs see it is PilotSession as SetUp does.
LEMMA PilotConstants == Pilot!SessionConstants => PilotProofs!SessionConstants
  BY DEF Pilot!SessionConstants, PilotProofs!SessionConstants, Pilot!Labels, PilotProofs!Labels,
         Pilot!RecordType, PilotProofs!RecordType, Pilot!WindowType, PilotProofs!WindowType,
         Pilot!Procs, PilotProofs!Procs

\* So are its initial states,
LEMMA PilotInit == Pilot!Init => PilotProofs!Init
  BY DEF Pilot!Init, PilotProofs!Init, Pilot!Procs, PilotProofs!Procs,
         Pilot!Labels, PilotProofs!Labels

\* its steps,
LEMMA PilotNext == [Pilot!Next]_(Pilot!pilotVars) => [PilotProofs!Next]_(PilotProofs!pilotVars)
<1>1. Pilot!Procs = PilotProofs!Procs /\ Pilot!Labels = PilotProofs!Labels
  BY DEF Pilot!Procs, PilotProofs!Procs, Pilot!Labels, PilotProofs!Labels
<1>2. UNCHANGED Pilot!pilotVars => UNCHANGED PilotProofs!pilotVars
  BY DEF Pilot!pilotVars, PilotProofs!pilotVars
<1>3. (Pilot!Tick => PilotProofs!Tick) /\ \A c : Pilot!DevStart(c) => PilotProofs!DevStart(c)
  BY DEF Pilot!Tick, PilotProofs!Tick, Pilot!DevStart, PilotProofs!DevStart
<1>4. \A p, l, r : Pilot!Start(p, l, r) => PilotProofs!Start(p, l, r)
  BY DEF Pilot!Start, PilotProofs!Start, Pilot!Replacement, PilotProofs!Replacement,
         Pilot!Valid, PilotProofs!Valid, Pilot!Labels, PilotProofs!Labels,
         Pilot!Cardinality, PilotProofs!Cardinality
<1>5. \A p : Pilot!Wake(p) => PilotProofs!Wake(p)
  BY DEF Pilot!Wake, PilotProofs!Wake, Pilot!At, PilotProofs!At, Pilot!Moves,
         PilotProofs!Moves, Pilot!Ends, PilotProofs!Ends, Pilot!Gone, PilotProofs!Gone,
         Pilot!Written, PilotProofs!Written
<1>6. \A p : Pilot!Abort(p) => PilotProofs!Abort(p)
  BY DEF Pilot!Abort, PilotProofs!Abort, Pilot!At, PilotProofs!At, Pilot!Ends,
         PilotProofs!Ends, Pilot!Gone, PilotProofs!Gone
<1>7. \A p : Pilot!Die(p) => PilotProofs!Die(p)
  BY DEF Pilot!Die, PilotProofs!Die, Pilot!Ends, PilotProofs!Ends, Pilot!Gone,
         PilotProofs!Gone
<1>8. \A p : Pilot!WindowBlocked(p) => PilotProofs!WindowBlocked(p)
  BY DEF Pilot!WindowBlocked, PilotProofs!WindowBlocked, Pilot!At, PilotProofs!At,
         Pilot!Adds, PilotProofs!Adds, Pilot!Window, PilotProofs!Window, Pilot!After,
         PilotProofs!After
<1>9. \A p : Pilot!WindowFails(p) => PilotProofs!WindowFails(p)
  BY DEF Pilot!WindowFails, PilotProofs!WindowFails, Pilot!At, PilotProofs!At, Pilot!Adds,
         PilotProofs!Adds, Pilot!Window, PilotProofs!Window
<1>10. \A p : Pilot!WindowBegins(p) => PilotProofs!WindowBegins(p)
  BY DEF Pilot!WindowBegins, PilotProofs!WindowBegins, Pilot!At, PilotProofs!At,
         Pilot!Window, PilotProofs!Window
<1>11. \A p : Pilot!WindowEnds(p) => PilotProofs!WindowEnds(p)
  BY Zenon DEF Pilot!WindowEnds, PilotProofs!WindowEnds, Pilot!At, PilotProofs!At
<1>12. \A p : Pilot!Finish(p) => PilotProofs!Finish(p)
  BY DEF Pilot!Finish, PilotProofs!Finish, Pilot!At, PilotProofs!At, Pilot!Ends,
         PilotProofs!Ends, Pilot!Gone, PilotProofs!Gone, Pilot!Written,
         PilotProofs!Written, Pilot!GapExceeded, PilotProofs!GapExceeded, Pilot!Valid,
         PilotProofs!Valid, Pilot!Cardinality, PilotProofs!Cardinality
<1> QED
  BY <1>1, <1>2, <1>3, <1>4, <1>5, <1>6, <1>7, <1>8, <1>9, <1>10, <1>11, <1>12
     DEF Pilot!Next, PilotProofs!Next

\* and what is to hold of it.
LEMMA PilotSound == PilotProofs!SessionsSound => Pilot!SessionsSound
  BY DEF PilotProofs!SessionsSound, Pilot!SessionsSound, Pilot!Valid, PilotProofs!Valid,
         Pilot!Procs, PilotProofs!Procs, Pilot!Cardinality, PilotProofs!Cardinality

\* What the pilot's proofs show of NewSchedule.
LEMMA PilotDatesFit ==
    ASSUME NEW in, Pilot!DatesInput(in)
    PROVE  Pilot!ScheduleFits(in, Pilot!NewSchedule(in))
<1>1. \A type : Pilot!Eligible(in, type) = PilotProofs!Eligible(in, type)
  BY DEF Pilot!Eligible, PilotProofs!Eligible
<1>2. Pilot!PilotLabels = PilotProofs!PilotLabels
  BY DEF Pilot!PilotLabels, PilotProofs!PilotLabels
<1>3. \A S : Pilot!Cardinality(S) = PilotProofs!Cardinality(S)
  BY DEF Pilot!Cardinality, PilotProofs!Cardinality
<1>4. \A S : Pilot!Max(S) = PilotProofs!Max(S)
  BY DEF Pilot!Max, PilotProofs!Max
<1>5. \A f : Pilot!IsInjective(f) = PilotProofs!IsInjective(f)
  BY DEF Pilot!IsInjective, PilotProofs!IsInjective
<1>6. \A type : /\ Pilot!ReserveDate(in, type) = PilotProofs!ReserveDate(in, type)
                /\ Pilot!Pool(in, type) = PilotProofs!Pool(in, type)
  BY <1>1, <1>4 DEF Pilot!ReserveDate, PilotProofs!ReserveDate, Pilot!Pool, PilotProofs!Pool
<1>7. \A S, n : Pilot!Nth(S, n) = PilotProofs!Nth(S, n)
  BY <1>3 DEF Pilot!Nth, PilotProofs!Nth
<1>8. \A draw : Pilot!Derive(in, draw) = PilotProofs!Derive(in, draw)
  BY <1>2, <1>3, <1>5, <1>6, <1>7 DEF
    Pilot!Derive, PilotProofs!Derive, Pilot!DeriveAny, PilotProofs!DeriveAny
<1>9. \A s : Pilot!Orders(s) = PilotProofs!Orders(s)
  BY ZenonT(40) DEF Pilot!Orders, PilotProofs!Orders
<1>10. Pilot!SelectInSeq(in.draws, LAMBDA d : Pilot!Derive(in, d) # None)
         = PilotProofs!SelectInSeq(in.draws, LAMBDA d : PilotProofs!Derive(in, d) # None)
  <2> DEFINE I == { i \in 1..Len(in.draws) : Pilot!Derive(in, in.draws[i]) # None }
             J == { i \in 1..Len(in.draws) : PilotProofs!Derive(in, in.draws[i]) # None }
  <2>1. Pilot!SelectInSeq(in.draws, LAMBDA d : Pilot!Derive(in, d) # None)
          = IF I # {} THEN Pilot!Min(I) ELSE 0
    BY DEF Pilot!SelectInSeq
  <2>2. PilotProofs!SelectInSeq(in.draws, LAMBDA d : PilotProofs!Derive(in, d) # None)
          = IF J # {} THEN PilotProofs!Min(J) ELSE 0
    BY DEF PilotProofs!SelectInSeq
  <2>3. I = J
    BY <1>8
  <2> HIDE DEF I, J
  <2>4. Pilot!Min(I) = PilotProofs!Min(J)
    BY <2>3 DEF Pilot!Min, PilotProofs!Min
  <2> QED
    BY <2>1, <2>2, <2>3, <2>4
<1>11. Pilot!NewSchedule(in) = PilotProofs!NewSchedule(in)
  BY <1>1, <1>3, <1>6, <1>8, <1>9, <1>10 DEF Pilot!NewSchedule, PilotProofs!NewSchedule
<1>12. PilotProofs!DatesInput(in)
  BY DEF Pilot!DatesInput, PilotProofs!DatesInput
<1>13. PilotProofs!ScheduleFits(in, Pilot!NewSchedule(in))
  BY <1>11, <1>12, PilotProofs!DatesFit
<1> QED
  BY <1>1, <1>2, <1>3, <1>5, <1>13 DEF Pilot!ScheduleFits, PilotProofs!ScheduleFits

\* A step of SetUp keeps the subject, and is a step of that subject or
\* leaves its variables as they are.
LEMMA SetUpStep ==
    ASSUME [SetUpNext]_vars
    PROVE  /\ subject' = subject /\ given' = given
           /\ subject = "start" => [Next]_startVars
           /\ subject = "choice" => [Check!Next]_(Check!checkVars)
           /\ subject = "session" => [Pilot!Next]_(Pilot!pilotVars)
           /\ \/ result' = result
              \/ subject = "ceiling" /\
                   result' = Rate!Verdict(given.cfg, given.price, Rate!ExactPlan(given.ladders))
              \/ subject = "schedule" /\ result' = Sched!New(given)
              \/ subject = "dates" /\ result' = Pilot!NewSchedule(given)
              \/ subject = "configuration" /\ result' = Conf!Validate(given)
<1>1. CASE UNCHANGED vars
  BY <1>1 DEF vars, rule, choice, piloting, startVars, Check!checkVars, Pilot!pilotVars
<1>2. CASE CeilingVerdict
  BY <1>2 DEF CeilingVerdict, Pure
<1>3. CASE NewSchedule
  BY <1>3 DEF NewSchedule, Pure
<1>4. CASE PilotSchedule
  BY <1>4 DEF PilotSchedule, Pure
<1>5. CASE Parse
  BY <1>5 DEF Parse, Pure
<1>6. CASE Choosing
  BY <1>6 DEF Choosing, rule
<1>7. CASE Starting
  BY <1>7 DEF Starting, rule
<1>8. CASE Piloting
  BY <1>8 DEF Piloting, rule
<1> QED
  BY <1>1, <1>2, <1>3, <1>4, <1>5, <1>6, <1>7, <1>8 DEF SetUpNext

\* What a rule was given, and that its result is the rule's.
RuleInv ==
    /\ subject = "ceiling" =>
         /\ given \in CeilingInputs
         /\ result \in {None, Rate!Verdict(given.cfg, given.price, Rate!ExactPlan(given.ladders))}
    /\ subject = "schedule" => given \in ScheduleInputs /\ result \in {None, Sched!New(given)}
    /\ subject = "dates" => given \in PilotInputs /\ result \in {None, Pilot!NewSchedule(given)}
    /\ subject = "configuration" =>
         given \in Configurations /\ result \in {None, Conf!Validate(given)}

\* It holds of every behaviour.
LEMMA RulesGive == SetUpSpec => []RuleInv
<1>1. SetUpInit => RuleInv
  BY DEF SetUpInit, RuleInv
<1>2. RuleInv /\ [SetUpNext]_vars => RuleInv'
  BY SetUpStep DEF RuleInv
<1> QED
  BY <1>1, <1>2, PTL DEF SetUpSpec

\* A verdict of CeilingRule admits a prefix of the ladder, and a route that
\* sends every cell, re-run and probe request up to its last step stays
\* within its cap and its limits, for any price, limits and seeded ladders;
\* CheckPublished refuses of the published rows only one of a failed test
\* whose demand was rounded onto its bound.
THEOREM VerdictIsSound == SetUpSpec => []VerdictSound
<1>1. RuleInv => VerdictSound
  BY Hypotheses, VerdictHolds DEF RuleInv, VerdictSound
<1> QED
  BY <1>1, RulesGive, PTL

\* A file the rules accept keeps what the code downstream relies on, however
\* long its lists are, whatever headers a response carries and at every
\* instant of the mock (config.Validate).
THEOREM ConfigurationIsSound == SetUpSpec => []ConfigurationSound
<1>1. RuleInv => ConfigurationSound
  BY Hypotheses, ConfigurationHolds DEF RuleInv, ConfigurationSound
<1> QED
  BY <1>1, RulesGive, PTL

\* Whatever the window, the routes, the excluded days and the numbers drawn:
\* the schedule that New derives and the one the pilot's NewSchedule derives
\* are sound.
THEOREM ScheduleIsSound == SetUpSpec => []ScheduleSound
<1>1. RuleInv => ScheduleSound
  BY Hypotheses, ScheduleHolds, PilotDatesFit DEF RuleInv, ScheduleSound
<1> QED
  BY <1>1, RulesGive, PTL

\* However often a host's check is sent again and whichever records a host
\* is started on: a record a check wrote verifies unless it was cut short, a
\* host runs only at a ceiling all its requests passed at, at the high one
\* only after some kept host failed the low one, and none runs that the
\* choice on the same records left out.
THEOREM ChoiceIsSound == SetUpSpec => []ChoiceSound
<1> DEFINE Inv == subject = "choice" => ChoiceInv
<1>1. SetUpInit => Inv
  BY Hypotheses, ChoiceInit DEF SetUpInit
<1>2. Inv /\ [SetUpNext]_vars => Inv'
  BY Hypotheses, SetUpStep, ChoiceNext
<1>3. Inv => ChoiceSound
  BY Hypotheses, ChoiceHolds DEF ChoiceSound
<1> HIDE DEF Inv
<1> QED
  BY <1>1, <1>2, <1>3, PTL DEF SetUpSpec

\* Whatever the operator edits, replaces and appends between two starts, and
\* whatever line a dying price command leaves unwritten, the cells of a route
\* run the steps of one verdict under one schedule, each priced by the ledger
\* it is admitted by and within the limit read (newRoute, limitsStop).
THEOREM StartIsSound == SetUpSpec => []StartSound
<1> DEFINE Inv == subject = "start" => IInv
<1>1. SetUpInit => Inv
  BY Hypotheses, InitInv DEF SetUpInit
<1>2. Inv /\ [SetUpNext]_vars => Inv'
  BY Hypotheses, SetUpStep, NextInv
<1>3. Inv => StartSound
  BY DEF IInv, CellsOf, StartSound, CellsSound, StepsFixed
<1> HIDE DEF Inv
<1> QED
  BY <1>1, <1>2, <1>3, PTL DEF SetUpSpec

\* However many session commands wait for one slot, are aborted or die, a
\* label's record is written by one process only, a session that exited 0 is
\* on record as it ran, and the second development attempt revises the
\* first's free parts only (session, nextDevAttempt).
THEOREM SessionsAreSound == SetUpSpec => []SessionsSound
<1> DEFINE Inv == subject = "session" => PilotProofs!IInv
<1>1. PilotProofs!SessionConstants
  BY Hypotheses, PilotConstants
<1>2. SetUpInit => Inv
  BY PilotInit, PilotProofs!InitInv DEF SetUpInit
<1>3. Inv /\ [SetUpNext]_vars => Inv'
  BY <1>1, SetUpStep, PilotNext, PilotProofs!NextInv
<1>4. Inv => SessionsSound
  BY <1>1, PilotSound, PilotProofs!InvSound DEF SessionsSound
<1> HIDE DEF Inv
<1> QED
  BY <1>2, <1>3, <1>4, PTL DEF SetUpSpec
=============================================================================
