-------------------------- MODULE AdmissionLedger --------------------------
(***************************************************************************)
(* The request and liability ledger (internal/admission/ledger.go): one    *)
(* append-only file of chained lines that several processes share.  A      *)
(* process changes it only through Ledger.update: lock the file            *)
(* exclusively, read and check all of it, decide, append one line, sync,   *)
(* close.  Create alone writes without the lock.                           *)
(*                                                                         *)
(* The locked read, the write, the sync and their failures are separate    *)
(* steps.  A process may die at any of them (the kernel then drops its     *)
(* lock) and the host may lose power, which cuts the file back to any      *)
(* prefix that holds what was synced.                                      *)
(*                                                                         *)
(* Amounts are whole numbers of one small unit of money.  Counts by        *)
(* traffic class are one total, and a decimal string is its number.        *)
(***************************************************************************)
EXTENDS Integers, Sequences, FiniteSets, FiniteSetsExt, Sums

CONSTANTS
    Procs,            \* processes that hold the ledger's path
    Routes,           \* route names
    Toks,             \* pairs of token bounds
    Prices,           \* per-request prices the operator may enter ...
    MaxPrice,         \* ... and their bound
    HostingCosts,     \* hosting costs the operator may enter
    Purposes,         \* what callers admit: pilot windows or release cells
    Reserves,         \* request counts an admission may name
    MaxOverrun,       \* requests a run may send past its reservation
    RouteRequests,    \* Caps.RouteRequests, 0 sets none
    TotalRequests,    \* Caps.TotalRequests, 0 sets none
    LiabilityUSD,     \* Caps.LiabilityUSD
    RouteLiabilityUSD,\* Caps.RouteLiabilityUSD: route |-> cap, or << >>
    WindowRequests,   \* Caps.WindowRequests, 0 admits no window
    MaxLines          \* lines the disk holds; a write past it fails

ASSUME CapsAssumption ==          \* checkCaps, and the bounds' types
    /\ RouteRequests \in Nat /\ TotalRequests \in Nat /\ WindowRequests \in Nat
    /\ LiabilityUSD \in Nat \ {0}
    /\ \A r \in DOMAIN RouteLiabilityUSD :
          RouteLiabilityUSD[r] \in 1..LiabilityUSD

ASSUME BoundsAssumption ==
    /\ MaxPrice \in Nat /\ Prices \subseteq 0..MaxPrice
    /\ HostingCosts \subseteq Nat \ {0}
    /\ Reserves \subseteq Nat \ {0} /\ Purposes \subseteq {"cell", "window"}
    /\ MaxOverrun \in Nat /\ MaxLines \in Nat

VARIABLES
    exists,   \* the file is there
    file,     \* its whole lines
    torn,     \* bytes of an incomplete line follow them
    durable,  \* how many lines a sync has made safe
    lock,     \* the processes holding the exclusive flock: none or one
    pc,       \* where each process is
    req,      \* the operation each process is carrying out
    buf,      \* the bytes each process read under the lock
    adm,      \* the admit line each process sends under, 0 for none
    snap,     \* the price revision and price a process checked
    wire      \* requests really sent under each admit line

vars == <<exists, file, torn, durable, lock, pc, req, buf, adm, snap, wire>>

NoPrice == -1

(***************************************************************************)
(* Lines and what a file of them says.                                     *)
(***************************************************************************)
LineNums == 1..MaxLines

\* What a line records; its number and hash are added by append.
Bodies ==
    [kind : {"open"}]
      \cup [kind : {"price"}, route : Routes, tok : Toks, usd : Prices]
      \cup [kind : {"hosting"}, usd : HostingCosts]
      \cup [kind : {"admit"}, route : Routes, tok : Toks, purpose : Purposes,
            n : Reserves, usd : Prices]
      \cup [kind : {"refused"}, route : Routes]
      \cup [kind : {"settle"}, route : Routes, admit : LineNums, n : Nat,
            overrun : BOOLEAN]

Lines == [seq : Nat, prev : Seq(Bodies), body : Bodies]

\* The SHA-256 of every byte before a line determines those bytes.
Digest(f) == [i \in DOMAIN f |-> f[i].body]

Line(f, b) == [seq |-> Len(f) + 1, prev |-> Digest(f), body |-> b]

Kind(f, k) == {i \in DOMAIN f : f[i].body.kind = k}

\* The bytes before line i.
Prior(f, i) == SubSeq(f, 1, i - 1)

PriceLines(f, r) == {i \in Kind(f, "price") : f[i].body.route = r}

\* Mutant: prices add up instead of the highest being kept.
PriceSummed(f, r, t) ==
    LET at == {j \in PriceLines(f, r) : f[j].body.tok = t} IN
    IF at = {} THEN NoPrice
    ELSE MapThenSumSet(LAMBDA i : f[i].body.usd, at)

\* The highest per-request price recorded for r at t.
Price(f, r, t) ==
    Max({NoPrice} \cup
        {f[i].body.usd : i \in {j \in PriceLines(f, r) : f[j].body.tok = t}})

\* Mutant: a price line leaves the revision as it was.
PriceRevisionUnset(f, r) == 0

PriceRevision(f, r) == Max({0} \cup PriceLines(f, r))

Settles(f, i) == {j \in Kind(f, "settle") : f[j].body.admit = i}

\* State.Open: the admit lines no settle line names.
Open(f) == {i \in Kind(f, "admit") : Settles(f, i) = {}}

\* What an admission counts at: its reservation until it is settled.
Charge(f, i) ==
    IF i \in Open(f) THEN f[i].body.n
    ELSE f[CHOOSE j \in Settles(f, i) : TRUE].body.n

AdmitLines(f, r) == {i \in Kind(f, "admit") : f[i].body.route = r}

Charged(f, r) == MapThenSumSet(LAMBDA i : Charge(f, i), AdmitLines(f, r))

\* State.Total: what the lines charge, an admit line each its count.
Charges(f) == [i \in DOMAIN f |-> IF i \in Kind(f, "admit") THEN Charge(f, i) ELSE 0]

Total(f) == AddUp(Charges(f), 1, Len(f))

RouteLiability(f, r) ==
    MapThenSumSet(LAMBDA i : Charge(f, i) * Price(f, r, f[i].body.tok),
                  AdmitLines(f, r))

HostingUSD(f) ==
    MapThenSumSet(LAMBDA i : f[i].body.usd, Kind(f, "hosting"))

Liability(f) ==
    HostingUSD(f) + MapThenSumSet(LAMBDA r : RouteLiability(f, r), Routes)

\* position: where f's charge would be with n more requests at t to r.
HasPosition(f, r, t) ==
    /\ DOMAIN RouteLiabilityUSD # {} => r \in DOMAIN RouteLiabilityUSD
    /\ Price(f, r, t) # NoPrice

WithinCaps(f, r, t, n) ==
    LET extra == n * Price(f, r, t) IN
    /\ RouteRequests > 0 => Charged(f, r) + n <= RouteRequests
    /\ TotalRequests > 0 => Total(f) + n <= TotalRequests
    /\ r \in DOMAIN RouteLiabilityUSD =>
          RouteLiability(f, r) + extra <= RouteLiabilityUSD[r]
    /\ Liability(f) + extra <= LiabilityUSD

(***************************************************************************)
(* Parse.  apply says which line may follow the lines f; a file checks     *)
(* when it is not empty, ends in a newline, and every line carries its     *)
(* number, the hash of what precedes it, and may follow it.                *)
(***************************************************************************)
AppliesAdmit(f, b) ==
    /\ b.n >= 1
    /\ b.purpose = "window" => b.n = WindowRequests
    /\ Price(f, b.route, b.tok) # NoPrice
    /\ b.usd = Price(f, b.route, b.tok)

AppliesSettle(f, b) ==
    /\ b.admit \in Open(f)
    /\ f[b.admit].body.route = b.route
    /\ b.overrun <=> b.n > f[b.admit].body.n

Applies(f, b) ==
    /\ b.kind = "open" <=> f = << >>
    /\ b.kind = "admit" => AppliesAdmit(f, b)
    /\ b.kind = "settle" => AppliesSettle(f, b)

LineChecks(f, i) ==
    /\ f[i].seq = i
    /\ f[i].prev = Digest(Prior(f, i))
    /\ Applies(Prior(f, i), f[i].body)

LinesCheck(f) == \A i \in DOMAIN f : LineChecks(f, i)

\* Mutant: the incomplete last line is overlooked.
ParsesTorn(f, incomplete) == f # << >> /\ LinesCheck(f)

Parses(f, incomplete) == f # << >> /\ ~incomplete /\ LinesCheck(f)

(***************************************************************************)
(* What update's callbacks decide on a checked file f: the body to append, *)
(* or none when the callback returns a plain error.                        *)
(***************************************************************************)
AnyRevision == -1

Requests ==
    [op : {"price"}, route : Routes, tok : Toks, usd : Prices]
      \cup [op : {"hosting"}, usd : HostingCosts]
      \cup [op : {"admit"}, route : Routes, tok : Toks, purpose : Purposes,
            n : Reserves, rev : Nat \cup {AnyRevision}]
      \cup [op : {"settle"}, admit : LineNums, route : Routes, n : Nat]

NoRequest == [op |-> "none"]

\* RecordPrice: the price at its token bounds.
PriceBody(q) ==
    [kind |-> "price", route |-> q.route, tok |-> q.tok, usd |-> q.usd]

\* RecordHosting.
HostingBody(q) == [kind |-> "hosting", usd |-> q.usd]

\* admit: a plain error for a stale revision or a count the purpose does not
\* take; otherwise an admit line, or a refused line where there is no position
\* or it is past a cap.
AdmitBodies(f, q) ==
    IF \/ q.rev # AnyRevision /\ q.rev # PriceRevision(f, q.route)
       \/ q.purpose = "window" /\ (WindowRequests = 0 \/ q.n # WindowRequests)
    THEN {}
    ELSE IF HasPosition(f, q.route, q.tok)
              /\ WithinCaps(f, q.route, q.tok, q.n)
         THEN {[kind |-> "admit", route |-> q.route, tok |-> q.tok,
                purpose |-> q.purpose, n |-> q.n,
                usd |-> Price(f, q.route, q.tok)]}
         ELSE {[kind |-> "refused", route |-> q.route]}

\* Mutant: the counts are read before the traffic is over.
SettleBodiesZero(f, q) ==
    IF q.admit \in Open(f)
    THEN {[kind |-> "settle", route |-> q.route, admit |-> q.admit, n |-> 0,
           overrun |-> FALSE]}
    ELSE {}

\* Settle: a plain error unless the admission is open as the caller holds it.
SettleBodies(f, q) ==
    IF q.admit \in Open(f) /\ f[q.admit].body.route = q.route
    THEN {[kind |-> "settle", route |-> q.route, admit |-> q.admit, n |-> q.n,
           overrun |-> q.n > f[q.admit].body.n]}
    ELSE {}

Decide(f, q) ==
    CASE q.op = "price"   -> {PriceBody(q)}
      [] q.op = "hosting" -> {HostingBody(q)}
      [] q.op = "admit"   -> AdmitBodies(f, q)
      [] q.op = "settle"  -> SettleBodies(f, q)

(***************************************************************************)
(* The processes.                                                          *)
(***************************************************************************)
NoSnap == [rev |-> AnyRevision, usd |-> NoPrice]

Init ==
    /\ exists = FALSE /\ file = << >> /\ torn = FALSE /\ durable = 0
    /\ lock = {}
    /\ pc = [p \in Procs |-> "idle"]
    /\ req = [p \in Procs |-> NoRequest]
    /\ buf = [p \in Procs |-> << >>]
    /\ adm = [p \in Procs |-> 0]
    /\ snap = [p \in Procs |-> NoSnap]
    /\ wire = [i \in LineNums |-> 0]

disk == <<exists, file, torn, durable>>

\* Create: the file must not exist; it is there, empty, before its first line.
Create(p) ==
    /\ pc[p] = "idle" /\ ~exists
    /\ exists' = TRUE
    /\ pc' = [pc EXCEPT ![p] = "creating"]
    /\ UNCHANGED <<file, torn, durable, lock, req, buf, adm, snap, wire>>

\* A caller reads the state under a shared lock and checks the route's price.
Snapshot(p, r, t) ==
    /\ pc[p] = "idle" /\ exists /\ lock = {} /\ Parses(file, torn)
    /\ snap' = [snap EXCEPT ![p] = [rev |-> PriceRevision(file, r),
                                    usd |-> Price(file, r, t)]]
    /\ req' = [req EXCEPT ![p] = [op |-> "none", route |-> r, tok |-> t]]
    /\ pc' = [pc EXCEPT ![p] = "checked"]
    /\ UNCHANGED <<disk, lock, buf, adm, wire>>

Call(p, q) ==
    /\ exists
    /\ req' = [req EXCEPT ![p] = q]
    /\ pc' = [pc EXCEPT ![p] = "opened"]
    /\ UNCHANGED <<disk, lock, buf, adm, wire>>

RecordPrice(p) ==
    \E r \in Routes, t \in Toks, u \in Prices :
       /\ pc[p] = "idle"
       /\ Call(p, [op |-> "price", route |-> r, tok |-> t, usd |-> u])
       /\ UNCHANGED snap

RecordHosting(p) ==
    \E u \in HostingCosts :
       /\ pc[p] = "idle"
       /\ Call(p, [op |-> "hosting", usd |-> u])
       /\ UNCHANGED snap

Admit(p) ==
    \E r \in Routes, t \in Toks, w \in Purposes, n \in Reserves :
       /\ pc[p] = "idle"
       /\ Call(p, [op |-> "admit", route |-> r, tok |-> t, purpose |-> w,
                   n |-> n, rev |-> AnyRevision])
       /\ snap' = [snap EXCEPT ![p] = NoSnap]

\* AdmitAt, at the revision of the caller's snapshot.
AdmitAt(p) ==
    \E w \in Purposes, n \in Reserves :
       /\ pc[p] = "checked"
       /\ Call(p, [op |-> "admit", route |-> req[p].route, tok |-> req[p].tok,
                   purpose |-> w, n |-> n, rev |-> snap[p].rev])
       /\ UNCHANGED snap

\* The traffic of an admission: one request, and at its end the settlement.
SendRequest(p) ==
    /\ pc[p] = "sending"
    /\ wire[adm[p]] < file[adm[p]].body.n + MaxOverrun
    /\ wire' = [wire EXCEPT ![adm[p]] = @ + 1]
    /\ UNCHANGED <<disk, lock, pc, req, buf, adm, snap>>

Settle(p) ==
    /\ pc[p] = "sending"
    /\ Call(p, [op |-> "settle", admit |-> adm[p],
                route |-> file[adm[p]].body.route, n |-> wire[adm[p]]])
    /\ UNCHANGED snap

\* update returns an error: the file is closed, which drops its lock, and the
\* caller gives up whatever it held.
Return(p) ==
    /\ lock' = lock \ {p}
    /\ pc' = [pc EXCEPT ![p] = "idle"]
    /\ req' = [req EXCEPT ![p] = NoRequest]
    /\ buf' = [buf EXCEPT ![p] = << >>]
    /\ adm' = [adm EXCEPT ![p] = 0]
    /\ snap' = [snap EXCEPT ![p] = NoSnap]

\* Mutant: the file is read without the lock.
LockAndReadUnlocked(p) ==
    /\ pc[p] = "opened"
    /\ Parses(file, torn) /\ Decide(file, req[p]) # {}
    /\ buf' = [buf EXCEPT ![p] = file]
    /\ pc' = [pc EXCEPT ![p] = "read"]
    /\ UNCHANGED <<disk, lock, req, adm, snap, wire>>

\* update: the exclusive flock, the read and check of the whole file, and the
\* decision.  Nobody but Create, whose file is empty until its one write, can
\* change the file between the flock and the read, so they are one step.
LockAndRead(p) ==
    /\ pc[p] = "opened" /\ lock = {}
    /\ Parses(file, torn) /\ Decide(file, req[p]) # {}
    /\ lock' = {p}
    /\ buf' = [buf EXCEPT ![p] = file]
    /\ pc' = [pc EXCEPT ![p] = "read"]
    /\ UNCHANGED <<disk, req, adm, snap, wire>>

ReadFails(p) ==
    /\ pc[p] = "opened" /\ lock = {}
    /\ ~Parses(file, torn) \/ Decide(file, req[p]) = {}
    /\ Return(p)
    /\ UNCHANGED <<disk, wire>>

Pending(p) == pc[p] \in {"read", "creating"}

PendingBodies(p) ==
    IF pc[p] = "creating" THEN {[kind |-> "open"]} ELSE Decide(buf[p], req[p])

\* ... append: the line goes to the end of the file (O_APPEND) ...
Write(p) ==
    /\ Pending(p) /\ Len(file) < MaxLines
    /\ \E b \in PendingBodies(p) :
          /\ file' = Append(file, Line(buf[p], b))
          /\ adm' = [adm EXCEPT ![p] = IF b.kind = "admit"
                                       THEN Len(buf[p]) + 1 ELSE 0]
    /\ pc' = [pc EXCEPT ![p] = "written"]
    /\ UNCHANGED <<exists, torn, durable, lock, req, buf, snap, wire>>

\* (the write fails, having put nothing or a part of the line in the file)
WriteFails(p) ==
    /\ Pending(p)
    /\ torn' \in {torn, TRUE}
    /\ Return(p)
    /\ UNCHANGED <<exists, file, durable, wire>>

\* Mutant: append returns without a sync.
SyncSkipped(p) ==
    /\ pc[p] = "written"
    /\ lock' = lock \ {p}
    /\ pc' = [pc EXCEPT ![p] = IF adm[p] # 0 THEN "sending" ELSE "idle"]
    /\ req' = [req EXCEPT ![p] = NoRequest]
    /\ buf' = [buf EXCEPT ![p] = << >>]
    /\ UNCHANGED <<disk, adm, snap, wire>>

\* ... and the sync, after which the caller has its answer: an admission to
\* send under, or an end.
Sync(p) ==
    /\ pc[p] = "written"
    /\ durable' = Len(file)
    /\ lock' = lock \ {p}
    /\ pc' = [pc EXCEPT ![p] = IF adm[p] # 0 THEN "sending" ELSE "idle"]
    /\ req' = [req EXCEPT ![p] = NoRequest]
    /\ buf' = [buf EXCEPT ![p] = << >>]
    /\ snap' = [snap EXCEPT ![p] = IF adm[p] # 0 THEN @ ELSE NoSnap]
    /\ UNCHANGED <<exists, file, torn, adm, wire>>

SyncFails(p) ==
    /\ pc[p] = "written"
    /\ Return(p)
    /\ UNCHANGED <<disk, wire>>

\* A process dies, in the middle of its write too.
Crash(p) ==
    /\ pc[p] # "idle"
    /\ torn' \in IF Pending(p) THEN {torn, TRUE} ELSE {torn}
    /\ Return(p)
    /\ UNCHANGED <<exists, file, durable, wire>>

\* The host dies: what no sync covered may be lost, whole or in part.
PowerLoss ==
    /\ \E k \in durable..Len(file) :
          /\ file' = SubSeq(file, 1, k)
          /\ durable' = k
          /\ torn' \in IF torn \/ k < Len(file) THEN BOOLEAN ELSE {FALSE}
    /\ lock' = {}
    /\ pc' = [p \in Procs |-> "idle"]
    /\ req' = [p \in Procs |-> NoRequest]
    /\ buf' = [p \in Procs |-> << >>]
    /\ adm' = [p \in Procs |-> 0]
    /\ snap' = [p \in Procs |-> NoSnap]
    /\ UNCHANGED <<exists, wire>>

\* The steps the code itself takes once an operation has begun.
Step(p) ==
    \/ LockAndRead(p) \/ ReadFails(p)
    \/ Write(p) \/ WriteFails(p)
    \/ Sync(p) \/ SyncFails(p)

Start(p) ==
    \/ Create(p)
    \/ \E r \in Routes, t \in Toks : Snapshot(p, r, t)
    \/ RecordPrice(p) \/ RecordHosting(p)
    \/ Admit(p) \/ AdmitAt(p)
    \/ SendRequest(p) \/ Settle(p)

Next ==
    \/ \E p \in Procs : Start(p) \/ Step(p) \/ Crash(p)
    \/ PowerLoss

Spec == Init /\ [][Next]_vars

(***************************************************************************)
(* What the ledger promises.                                               *)
(***************************************************************************)
ProcStates ==
    {"idle", "creating", "checked", "opened", "read", "written",
     "sending"}

CheckedRequests == [op : {"none"}, route : Routes, tok : Toks]

\* Every variable has its type.
TypeOK ==
    /\ exists \in BOOLEAN /\ torn \in BOOLEAN
    /\ file \in Seq(Lines) /\ Len(file) <= MaxLines
    /\ durable \in 0..Len(file)
    /\ lock \in SUBSET Procs
    /\ pc \in [Procs -> ProcStates]
    /\ req \in [Procs -> Requests \cup CheckedRequests \cup {NoRequest}]
    /\ buf \in [Procs -> Seq(Lines)]
    /\ adm \in [Procs -> {0} \cup LineNums]
    /\ snap \in [Procs -> [rev : Nat \cup {AnyRevision},
                            usd : Prices \cup {NoPrice}]]
    /\ wire \in [LineNums -> Nat]

\* update never writes a file that its own Parse refuses: whatever the order
\* in which processes lock, read, append, fail, die and lose power, every
\* whole line carries its number and the hash of what precedes it, an admit
\* line its route's highest price, and a settle line an admission that was
\* open.
Readable == LinesCheck(file)

\* Every admission was within every cap given all the lines before it, those
\* that other processes appended after the admitting one began included.
AdmittedWithinCaps ==
    \A i \in Kind(file, "admit") :
       LET b == file[i].body IN
       /\ HasPosition(Prior(file, i), b.route, b.tok)
       /\ WithinCaps(Prior(file, i), b.route, b.tok, b.n)

\* A process sends only under an open admission that is its own and that no
\* power loss can take back.
SendersHoldReservations ==
    \A p \in Procs : pc[p] = "sending" =>
       /\ adm[p] \in Open(file) /\ adm[p] <= durable
       /\ \A q \in Procs \ {p} : adm[q] # adm[p]

\* No request is ever sent that the ledger does not charge, whichever
\* processes died or lost their settlement: an open admission covers its
\* requests up to an overrun, a settled one counts exactly what was sent.
SentIsCharged ==
    \A i \in LineNums : wire[i] > 0 =>
       /\ i \in Kind(file, "admit")
       /\ IF i \in Open(file) THEN wire[i] <= Charge(file, i) + MaxOverrun
          ELSE wire[i] = Charge(file, i)

\* AdmitAt reserves at the price its caller checked: no price line of the
\* route came between the caller's read and its admission.
AdmittedAtCheckedPrice ==
    \A p \in Procs : pc[p] = "sending" /\ snap[p] # NoSnap =>
       file[adm[p]].body.usd = snap[p].usd

\* A ledger whose last line is incomplete admits nothing: no line follows it.
TornStopsLedger == [][torn => Len(file') <= Len(file)]_vars

\* Seen as one number of requests charged and one of requests sent, the ledger
\* is a budget of TotalRequests (where that cap is set and runs stay within
\* their reservations).
Budget == INSTANCE RequestBudget WITH
    Cap <- TotalRequests,
    charged <- Total(file),
    spent <- AddUp(wire, 1, MaxLines)

ImplementsBudget == Budget!Spec
=============================================================================
