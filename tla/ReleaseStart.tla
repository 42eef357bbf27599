---------------------------- MODULE ReleaseStart ----------------------------
(***************************************************************************)
(* What fixes a route's steps before it sends: the ledger and its price    *)
(* lines (cmd/percentes-release/ledger.go), the schedule that freezes the  *)
(* configurations, the release key and a position of the ledger            *)
(* (schedule.go), every process of a route (newRoute, route.go) and the    *)
(* limits each cell reads at its start (limitsStop, close.go).  The        *)
(* operator may edit a configuration, replace the key, the ledger or the   *)
(* schedule file between any two commands, and a price command may die     *)
(* between its two lines.                                                  *)
(*                                                                         *)
(* A file is its content: a SHA-256 or HMAC of it is compared as the       *)
(* content (with the key).  The ceiling rule is CeilingRule's; here a      *)
(* stand-in with two steps that the limit and the cap bound.               *)
(***************************************************************************)
EXTENDS Integers, Sequences, FiniteSets, SequencesExt, FiniteSetsExt

CONSTANTS
    Hosts,          \* the routes, hosts of one model
    Running,        \* the ones whose processes are followed
    Files, First,   \* configuration files (limit, secret, cap, group, input,
                    \* ceiling) and the one the release begins with
    Keys,           \* release keys
    Prices, Dates,  \* list prices and the dates they were read
    Limits,         \* values a refresh reads
    MaxLines,       \* bound: lines of the ledger
    MaxStarts,      \* bound: processes of a route, cells of a route
    MaxEdits,       \* bound: files the operator makes or replaces
    None

VARIABLES
    conf,       \* each route's configuration file
    key,        \* the release key file
    ledger,     \* the ledger file: its open line and its lines; None
    pricing,    \* a price command between its two lines; None
    sched,      \* the schedule file; None
    procs,      \* the processes newRoute let start, per route
    cells,      \* the cells that ran, per route
    edits       \* files the operator edits or replaced so far

startVars == <<conf, key, ledger, pricing, sched, procs, cells, edits>>

-----------------------------------------------------------------------------
(* The ledger. *)

\* Tokens a route's cells and its ceiling probe are admitted at
\* (admission.ReleaseTokens, ReleaseProbeTokens).
CellTokens(f) == [in |-> f.input, out |-> f.ceiling]
ProbeTokens(f) == [in |-> f.input, out |-> 2]

\* recordPrice's bounds: the probe's only where they differ.
Bounds(f) ==
    IF ProbeTokens(f) = CellTokens(f) THEN <<CellTokens(f)>>
    ELSE <<CellTokens(f), ProbeTokens(f)>>

\* The route caps a ledger opens with, and CheckRelease against them.
Caps(files) == [h \in Hosts |-> files[h].cap]
CheckRelease(l, h, f) == l # None /\ l.open.caps[h] = f.cap

PriceLines(lines, h) == { i \in DOMAIN lines : lines[i].kind = "price" /\ lines[i].route = h }

\* routePrice: the line with the latest date, the last of equals.
RoutePrice(lines, h) ==
    LET ps == PriceLines(lines, h)
    IN  IF ps = {} THEN None
        ELSE lines[Max({ i \in ps : \A j \in ps : lines[j].date <= lines[i].date })].price

\* The highest price the ledger has for a route's requests at tok.
LedgerPrice(lines, h, tok) ==
    Max({0} \cup { lines[i].price * (tok.in + tok.out) :
                     i \in { j \in PriceLines(lines, h) : lines[j].tok = tok } })

\* sentBefore: what the route settled before the window, as the price
\* lines' file order has it.
SentBefore(lines, h) ==
    Cardinality({ i \in DOMAIN lines : lines[i].kind = "settle" /\ lines[i].route = h })

-----------------------------------------------------------------------------
(* The schedule and the checks against it. *)

\* A file's group is its target and its release.other_hosts.
HostGroup(h, f) == {h} \cup f.group

\* A configuration as published withholds its confidential value.
Published(f) == [f EXCEPT !.secret = "withheld"]

FrozenConfig(h, f, k) ==
    [published |-> Published(f), hmac |-> <<k, f>>, group |-> HostGroup(h, f)]

CheckHostGroups(files) ==
    \A h \in Hosts : \A g \in files[h].group \ {h} :
        g \in Hosts /\ HostGroup(h, files[h]) = HostGroup(g, files[g])

CheckFrozen(s, h, f, k) ==
    LET got == FrozenConfig(h, f, k)
        want == s.frozen[h]
    IN  got.group = want.group /\ got.published = want.published /\ got.hmac = want.hmac

\* hostTargets: the other hosts' configurations, frozen too.
HostTargets(s, h, files, k) ==
    \A g \in files[h].group \ {h} : CheckFrozen(s, g, files[g], k)

CheckLedger(s, l) == l # None /\ l.open = s.open

\* The ledger up to the frozen position, unless its bytes there differ.
FrozenEntries(s, lines) ==
    IF Len(lines) < s.lines \/ SubSeq(lines, 1, s.lines) # s.head THEN None
    ELSE SubSeq(lines, 1, s.lines)

\* sameSchedule: the output directory holds no cell of another schedule.
SameSchedule(s, h) == \A c \in cells[h] : c.sched = s

-----------------------------------------------------------------------------
(* The ceiling rule's stand-in. *)

Admits(f, limit, price, k) ==
    2 * k <= limit /\ k * price * (f.input + f.ceiling) + price * (f.input + 2) <= f.cap

Verdict(f, limit, price) ==
    [perRequest |-> price * (f.input + f.ceiling), probe |-> price * (f.input + 2),
     steps |-> { k \in 1..2 : Admits(f, limit, price, k) }]

CoversCellsOnly(lines, h, f, v) == LedgerPrice(lines, h, CellTokens(f)) >= v.perRequest

Covers(lines, h, f, v) ==
    /\ LedgerPrice(lines, h, CellTokens(f)) >= v.perRequest
    /\ LedgerPrice(lines, h, ProbeTokens(f)) >= v.probe

-----------------------------------------------------------------------------
Init ==
    /\ conf = [h \in Hosts |-> First]
    /\ key = Min(Keys) /\ ledger = None /\ pricing = None /\ sched = None
    /\ procs = [h \in Hosts |-> {}] /\ cells = [h \in Hosts |-> {}] /\ edits = 0

Edit == edits < MaxEdits /\ edits' = edits + 1

\* ledger create, in a file that does not exist; the open lines of two
\* ledgers differ at least in their times, here their number.
CreateLedger ==
    /\ ledger = None /\ Edit
    /\ ledger' = [open |-> [id |-> edits, caps |-> Caps(conf)], lines |-> <<>>]
    /\ UNCHANGED <<conf, key, pricing, sched, procs, cells>>

\* ledger price, its checks and its first line; then its second, or the
\* command dies and leaves the first alone.
RecordPrice(h, p, d) ==
    /\ pricing = None /\ CheckRelease(ledger, h, conf[h]) /\ Len(ledger.lines) < MaxLines
    /\ LET Line(tok) == [kind |-> "price", route |-> h, price |-> p, date |-> d, tok |-> tok]
           bounds == Bounds(conf[h])
       IN  /\ ledger' = [ledger EXCEPT !.lines = Append(@, Line(bounds[1]))]
           /\ pricing' = IF Len(bounds) = 1 THEN None ELSE Line(bounds[2])
    /\ UNCHANGED <<conf, key, sched, procs, cells, edits>>

RecordProbePrice ==
    /\ pricing # None /\ ledger # None
    /\ ledger' = [ledger EXCEPT !.lines = Append(@, pricing)] /\ pricing' = None
    /\ UNCHANGED <<conf, key, sched, procs, cells, edits>>

PriceDies ==
    /\ pricing # None /\ pricing' = None
    /\ UNCHANGED <<conf, key, ledger, sched, procs, cells, edits>>

\* A ceiling check settles what it sent (CeilingCheck).
Settle(h) ==
    /\ ledger # None /\ Len(ledger.lines) < MaxLines
    /\ ledger' = [ledger EXCEPT !.lines = Append(@, [kind |-> "settle", route |-> h])]
    /\ UNCHANGED <<conf, key, pricing, sched, procs, cells, edits>>

\* The schedule command.
ScheduleCmd ==
    /\ sched = None /\ \A h \in Hosts : CheckRelease(ledger, h, conf[h])
    /\ CheckHostGroups(conf)
    /\ sched' = [open |-> ledger.open, lines |-> Len(ledger.lines), head |-> ledger.lines,
                 frozen |-> [h \in Hosts |-> FrozenConfig(h, conf[h], key)]]
    /\ UNCHANGED <<conf, key, ledger, pricing, procs, cells, edits>>

\* The operator's hands.
EditConfig(h, f) ==
    /\ Edit /\ conf' = [conf EXCEPT ![h] = f] /\ f # conf[h]
    /\ UNCHANGED <<key, ledger, pricing, sched, procs, cells>>

ReplaceKey(k) ==
    /\ Edit /\ key' = k /\ k # key
    /\ UNCHANGED <<conf, ledger, pricing, sched, procs, cells>>

RemoveLedger ==
    /\ Edit /\ ledger # None /\ pricing = None /\ ledger' = None
    /\ UNCHANGED <<conf, key, pricing, sched, procs, cells>>

RemoveSchedule ==
    /\ Edit /\ sched # None /\ sched' = None
    /\ UNCHANGED <<conf, key, ledger, pricing, procs, cells>>

\* newRoute up to the ceiling choice.
NewRoute(h) ==
    /\ sched # None /\ Cardinality(procs[h]) < MaxStarts
    /\ CheckFrozen(sched, h, conf[h], key) /\ HostTargets(sched, h, conf, key)
    /\ SameSchedule(sched, h) /\ CheckLedger(sched, ledger)
    /\ CheckRelease(ledger, h, conf[h])
    /\ LET f == conf[h]
           frozen == FrozenEntries(sched, ledger.lines)
       IN  /\ frozen # None /\ RoutePrice(frozen, h) # None
           /\ LET v == Verdict(f, f.limit, RoutePrice(frozen, h)) IN
              /\ Covers(ledger.lines, h, f, v)
              /\ v.steps # {}
              /\ procs' = [procs EXCEPT ![h] = @ \cup
                   {[verdict |-> v, steps |-> Cardinality(v.steps), file |-> f, sched |-> sched,
                     preWindow |-> SentBefore(ledger.lines, h)]}]
    /\ UNCHANGED <<conf, key, ledger, pricing, sched, cells, edits>>

\* limitsStop: the rule at the limits read and the newest price no longer
\* admits a step the route runs.
LimitsStop(p, limit, price) ==
    \E k \in p.verdict.steps : k \notin Verdict(p.file, limit, price).steps

\* A cell of one of the route's processes: state() refuses the cells of
\* another schedule and Bind another ledger.  limit is what the refresh
\* read, None where it was unavailable.
Cell(h, p, limit) ==
    LET read == IF limit = None THEN p.file.limit ELSE limit IN
    /\ Cardinality(cells[h]) < MaxStarts
    /\ SameSchedule(p.sched, h) /\ CheckLedger(p.sched, ledger)
    /\ LET price == RoutePrice(ledger.lines, h) IN
       /\ price # None /\ ~LimitsStop(p, read, price)
       /\ cells' = [cells EXCEPT ![h] = @ \cup
            {[sched |-> p.sched, verdict |-> p.verdict, steps |-> p.steps, read |-> read,
              price |-> price,
              admitted |-> [cell |-> LedgerPrice(ledger.lines, h, CellTokens(p.file)),
                            probe |-> LedgerPrice(ledger.lines, h, ProbeTokens(p.file))]]}]
    /\ UNCHANGED <<conf, key, ledger, pricing, sched, procs, edits>>

Next ==
    \/ CreateLedger \/ RecordProbePrice \/ PriceDies \/ ScheduleCmd
    \/ RemoveLedger \/ RemoveSchedule
    \/ \E k \in Keys : ReplaceKey(k)
    \/ \E h \in Hosts, f \in Files : EditConfig(h, f)
    \/ \E h \in Running :
         \/ \E p \in Prices, d \in Dates : RecordPrice(h, p, d)
         \/ \E p \in procs[h], l \in Limits \cup {None} : Cell(h, p, l)
         \/ Settle(h) \/ NewRoute(h)

Spec == Init /\ [][Next]_startVars

-----------------------------------------------------------------------------
(* What the proofs ask of the constants. *)

\* Limits, caps and tokens are integers, and prices and dates at most bound.
StartConstants(bound) ==
    /\ bound \in Nat /\ Prices \subseteq 0..bound /\ Dates \subseteq 0..bound
    /\ Hosts # {} /\ Running \subseteq Hosts /\ First \in Files /\ \A l \in Limits : l \in Int
    /\ \A f \in Files : f.limit \in Int /\ f.cap \in Int /\ f.input \in Nat /\ f.ceiling \in Nat

-----------------------------------------------------------------------------
(* Properties. *)

\* The cells of a route all run the steps of one verdict, whatever prices,
\* configurations, keys or ledgers came between its processes: what
\* readRouteCells refuses of a route's manifests cannot come from newRoute.
StepsFixed ==
    \A h \in Hosts : \A c, d \in cells[h] :
        c.verdict = d.verdict /\ c.steps = d.steps /\ c.sched = d.sched

\* Whatever line a price command left unwritten, a cell runs only where
\* the ledger admits its requests and the route's probes at the verdict's
\* prices or higher, and where its steps are within the limit read at its
\* start at the newest price.
CellsPriced ==
    \A h \in Hosts : \A c \in cells[h] :
        LET f == c.sched.frozen[h].hmac[2] IN
        /\ c.admitted.cell >= c.verdict.perRequest /\ c.admitted.probe >= c.verdict.probe
        /\ 2 * c.steps <= c.read
        /\ c.steps * c.price * (f.input + f.ceiling) + c.price * (f.input + 2) <= f.cap

CellsSound == StepsFixed /\ CellsPriced
=============================================================================
