----------------------- MODULE AdmissionLedgerProofs -----------------------
(***************************************************************************)
(* Proofs about AdmissionLedger, for any number of processes, any caps and *)
(* any bounds.  The inductive invariant IInv says, beyond the properties   *)
(* themselves: a process about to append holds the lock alone and what it  *)
(* read is still the file (ProtocolInv); every admission a process holds   *)
(* is open, its own, and stable while the process settles it               *)
(* (ReservationInv); requests were sent only under synced admit lines, in  *)
(* the numbers the settle lines carry (WireInv); and the price a caller    *)
(* checked is its route's for as long as the revision it read is           *)
(* (SnapInv).  For the refinement of RequestBudget, BudgetInv says that    *)
(* every prefix of the file is within the cap, since a power loss may      *)
(* leave any of them.                                                      *)
(***************************************************************************)
EXTENDS AdmissionLedger, SequenceTheorems, WellFoundedInduction, TLAPS

ProtocolInv ==
    /\ ~exists => file = << >> /\ ~torn
    /\ \A p \in Procs :
         /\ pc[p] = "creating" =>
              /\ exists /\ file = << >> /\ ~torn
              /\ \A q \in Procs : pc[q] = "creating" => q = p
         /\ pc[p] = "read" =>
              lock = {p} /\ buf[p] = file /\ file # << >> /\ ~torn
         /\ pc[p] \notin {"read", "written"} => buf[p] = << >>
         /\ pc[p] \in {"opened", "read"} => req[p] \in Requests
         /\ pc[p] = "checked" =>
              req[p] \in CheckedRequests /\ snap[p].rev \in Nat

ReservationInv ==
    \A p \in Procs :
       /\ adm[p] # 0 =>
            /\ adm[p] \in Open(file)
            /\ pc[p] = "sending" => adm[p] <= durable
            /\ pc[p] = "written" => wire[adm[p]] = 0
            /\ \A q \in Procs \ {p} : adm[q] # adm[p]
       /\ pc[p] = "sending" => adm[p] # 0
       /\ pc[p] \in {"opened", "read"} /\ req[p].op = "settle" =>
            /\ adm[p] # 0 /\ req[p].admit = adm[p]
            /\ req[p].n = wire[adm[p]]

WireInv ==
    /\ \A i \in LineNums : wire[i] > 0 =>
         /\ i \in Kind(file, "admit") /\ i <= durable
         /\ wire[i] <= file[i].body.n + MaxOverrun
    /\ \A j \in Kind(file, "settle") :
         file[j].body.n = wire[file[j].body.admit]

\* The price p checked, of route r at t, is still the one the file holds, if
\* the revision it read is; no later price line can bring that back.
Fresh(p, r, t) ==
    /\ snap[p].rev \in 0..Len(file)
    /\ PriceRevision(file, r) = snap[p].rev => Price(file, r, t) = snap[p].usd

SnapInv ==
    \A p \in Procs :
       /\ pc[p] \in {"idle", "creating"} => snap[p] = NoSnap
       /\ pc[p] = "checked" => Fresh(p, req[p].route, req[p].tok)
       /\ pc[p] \in {"opened", "read"} /\ req[p].op = "admit" /\ snap[p] # NoSnap =>
            req[p].rev = snap[p].rev /\ Fresh(p, req[p].route, req[p].tok)
       /\ pc[p] \in {"written", "sending"} /\ adm[p] # 0 /\ snap[p] # NoSnap =>
            file[adm[p]].body.usd = snap[p].usd

IInv ==
    /\ TypeOK
    /\ ProtocolInv
    /\ Readable
    /\ AdmittedWithinCaps
    /\ ReservationInv
    /\ WireInv
    /\ SnapInv

(***************************************************************************)
(* The operators.                                                          *)
(***************************************************************************)

\* A bounded nonempty set of integers has a maximum: what Max, which picks a
\* route's highest price and its last price line, returns.
LEMMA MaxProps ==
    ASSUME NEW S, S \subseteq Int, S # {}, NEW b \in Int, \A x \in S : x <= b
    PROVE  Max(S) \in S /\ \A x \in S : x <= Max(S)
<1> DEFINE T == {b - x : x \in S}
<1>1. T \subseteq Nat /\ T # {}
  <2>1. \A x \in S : b - x \in Nat
    OBVIOUS
  <2>2. PICK x \in S : TRUE
    OBVIOUS
  <2>3. b - x \in T
    OBVIOUS
  <2> QED
    BY <2>1, <2>3
<1>2. PICK m \in T : \A y \in T : ~ (<<y, m>> \in OpToRel(<, Nat))
  BY <1>1, NatLessThanWellFounded, WFMin
<1>3. \A y \in T : m <= y
  <2>1. ASSUME NEW y \in T PROVE m <= y
    <3>1. y \in Nat /\ m \in Nat
      BY <1>1
    <3>2. ~ (<<y, m>> \in OpToRel(<, Nat))
      BY <1>2
    <3>3. ~ (y < m)
      BY <3>1, <3>2 DEF OpToRel
    <3> QED
      BY <3>1, <3>3
  <2> QED
    BY <2>1
<1>4. PICK z \in S : m = b - z
  OBVIOUS
<1>5. \A x \in S : z >= x
  BY <1>3, <1>4
<1> QED
  BY <1>5 DEF Max

\* A price is one the operator entered, or none.
LEMMA PriceType ==
    ASSUME NEW f \in Seq(Lines), NEW r, NEW t
    PROVE  Price(f, r, t) \in Prices \cup {NoPrice}
<1> DEFINE S == {f[i].body.usd : i \in {j \in PriceLines(f, r) :
                                          f[j].body.tok = t}}
<1>1. ASSUME NEW i \in PriceLines(f, r) PROVE f[i].body.usd \in Prices
  <2>1. i \in 1..Len(f) /\ f[i] \in Lines /\ f[i].body.kind = "price"
    BY DEF PriceLines, Kind
  <2>2. f[i].body \in Bodies
    BY <2>1 DEF Lines
  <2> QED
    BY <2>1, <2>2 DEF Bodies
<1>2. S \subseteq Prices
  <2>1. \A i \in {j \in PriceLines(f, r) : f[j].body.tok = t} :
           f[i].body.usd \in Prices
    BY <1>1
  <2>2. \A x \in S : x \in Prices
    BY <2>1
  <2> QED
    BY <2>2
<1> HIDE DEF S
<1>3. {NoPrice} \cup S \subseteq Int /\ {NoPrice} \cup S # {}
  BY <1>2, BoundsAssumption DEF NoPrice
<1>4. \A x \in {NoPrice} \cup S : x <= MaxPrice
  BY <1>2, BoundsAssumption DEF NoPrice
<1>5. MaxPrice \in Int
  BY BoundsAssumption
<1>6. Max({NoPrice} \cup S) \in {NoPrice} \cup S
  BY <1>3, <1>4, <1>5, MaxProps
<1> QED
  BY <1>2, <1>6 DEF Price, S

\* What a callback decides may be appended to the file it decided on: it is
\* a line that Parse applies there, and an admission is within the caps.
LEMMA DecideApplies ==
    ASSUME NEW f \in Seq(Lines), f # << >>, NEW q \in Requests,
           NEW b \in Decide(f, q)
    PROVE  /\ b \in Bodies /\ Applies(f, b)
           /\ b.kind = "admit" => /\ HasPosition(f, b.route, b.tok)
                                  /\ WithinCaps(f, b.route, b.tok, b.n)
                                  /\ q.op = "admit"
                                  /\ b.usd = Price(f, q.route, q.tok)
                                  /\ q.rev \in {AnyRevision, PriceRevision(f, q.route)}
           /\ b.kind = "settle" =>
                q.op = "settle" /\ b.admit = q.admit /\ b.n = q.n
<1>1. CASE q.op = "price"
  <2>1. b = PriceBody(q) /\ q \in [op : {"price"}, route : Routes, tok : Toks, usd : Prices]
    BY <1>1 DEF Decide, Requests
  <2> QED
    BY <2>1 DEF PriceBody, Bodies, Applies
<1>2. CASE q.op = "hosting"
  <2>1. b = HostingBody(q) /\ q \in [op : {"hosting"}, usd : HostingCosts]
    BY <1>2 DEF Decide, Requests
  <2> QED
    BY <2>1 DEF HostingBody, Bodies, Applies
<1>3. CASE q.op = "admit"
  <2>1. b \in AdmitBodies(f, q)
    BY <1>3 DEF Decide
  <2>2. q \in [op : {"admit"}, route : Routes, tok : Toks, purpose : Purposes,
               n : Reserves, rev : Nat \cup {AnyRevision}]
    BY <1>3 DEF Requests
  <2>3. CASE b.kind = "refused"
    <3>1. b = [kind |-> "refused", route |-> q.route]
      BY <2>1, <2>3 DEF AdmitBodies
    <3> QED
      BY <3>1, <2>2 DEF Bodies, Applies
  <2>4. CASE b.kind # "refused"
    <3>1. /\ b = [kind |-> "admit", route |-> q.route, tok |-> q.tok,
                  purpose |-> q.purpose, n |-> q.n,
                  usd |-> Price(f, q.route, q.tok)]
          /\ HasPosition(f, q.route, q.tok)
          /\ WithinCaps(f, q.route, q.tok, q.n)
          /\ q.purpose = "window" => q.n = WindowRequests
          /\ q.rev \in {AnyRevision, PriceRevision(f, q.route)}
      BY <2>1, <2>4 DEF AdmitBodies
    <3>2. Price(f, q.route, q.tok) # NoPrice
      BY <3>1 DEF HasPosition
    <3>3. Price(f, q.route, q.tok) \in Prices
      BY <3>2, PriceType
    <3>4. b \in Bodies
      BY <3>1, <3>3, <2>2 DEF Bodies
    <3>5. q.n \in Nat \ {0}
      BY <2>2, BoundsAssumption
    <3>6. AppliesAdmit(f, b)
      BY <3>1, <3>2, <3>5, <2>2 DEF AppliesAdmit
    <3> QED
      BY <1>3, <3>1, <3>4, <3>6 DEF Applies
  <2> QED
    BY <2>3, <2>4
<1>4. CASE q.op = "settle"
  <2>1. b \in SettleBodies(f, q)
    BY <1>4 DEF Decide
  <2>2. q \in [op : {"settle"}, admit : LineNums, route : Routes, n : Nat]
    BY <1>4 DEF Requests
  <2>3. /\ b = [kind |-> "settle", route |-> q.route, admit |-> q.admit,
                n |-> q.n, overrun |-> q.n > f[q.admit].body.n]
        /\ q.admit \in Open(f) /\ f[q.admit].body.route = q.route
    BY <2>1 DEF SettleBodies
  <2>4. b \in Bodies
    BY <2>2, <2>3 DEF Bodies
  <2>5. AppliesSettle(f, b)
    BY <2>3 DEF AppliesSettle
  <2> QED
    BY <2>2, <2>3, <2>4, <2>5 DEF Applies
<1> QED
  BY <1>1, <1>2, <1>3, <1>4 DEF Requests

\* Every settle line of a file that checks names an earlier line.
LEMMA SettlesNameEarlier ==
    ASSUME NEW f \in Seq(Lines), LinesCheck(f), NEW j \in Kind(f, "settle")
    PROVE  f[j].body.admit \in 1..(j - 1)
<1>1. j \in 1..Len(f)
  BY DEF Kind
<1>2. Prior(f, j) \in Seq(Lines) /\ Len(Prior(f, j)) = j - 1
  <2>1. \A i \in 1..(j - 1) : f[i] \in Lines
    BY <1>1
  <2> QED
    BY <1>1, <2>1, SubSeqProperties DEF Prior
<1>3. Applies(Prior(f, j), f[j].body) /\ f[j].body.kind = "settle"
  BY <1>1 DEF LinesCheck, LineChecks, Kind
<1>4. f[j].body.admit \in Open(Prior(f, j))
  BY <1>3 DEF Applies, AppliesSettle
<1> QED
  BY <1>2, <1>4 DEF Open, Kind

Appended(f, b) == Append(f, Line(f, b))

\* Appending a line leaves every earlier line, and what precedes it, alone.
LEMMA AppendKeeps ==
    ASSUME NEW f \in Seq(Lines), NEW b \in Bodies
    PROVE  LET g == Appended(f, b) IN
           /\ g \in Seq(Lines) /\ Len(g) = Len(f) + 1
           /\ \A i \in 1..Len(f) : g[i] = f[i] /\ Prior(g, i) = Prior(f, i)
           /\ g[Len(f) + 1] = Line(f, b) /\ Prior(g, Len(f) + 1) = f
<1> DEFINE g == Appended(f, b)
<1>1. Digest(f) \in Seq(Bodies)
  <2>1. ASSUME NEW i \in 1..Len(f) PROVE f[i].body \in Bodies
    <3>1. f[i] \in Lines
      BY ElementOfSeq
    <3> QED
      BY <3>1 DEF Lines
  <2>2. DOMAIN f = 1..Len(f) /\ Len(f) \in Nat
    BY LenProperties
  <2>3. Digest(f) \in [1..Len(f) -> Bodies]
    BY <2>1, <2>2 DEF Digest
  <2> QED
    BY <2>2, <2>3
<1>2. Line(f, b) \in Lines
  BY <1>1 DEF Line, Lines
<1>3. /\ g \in Seq(Lines) /\ Len(g) = Len(f) + 1
      /\ \A i \in 1..Len(f) : g[i] = f[i]
      /\ g[Len(f) + 1] = Line(f, b)
  BY <1>2, AppendProperties DEF Appended
<1> HIDE DEF g
<1>4. ASSUME NEW i \in 1..(Len(f) + 1)
      PROVE  /\ Prior(g, i) \in Seq(Lines) /\ Len(Prior(g, i)) = i - 1
             /\ \A k \in 1..(i - 1) : Prior(g, i)[k] = f[k]
  <2>1. \A k \in 1..(i - 1) : g[k] \in Lines /\ g[k] = f[k]
    BY <1>3
  <2> QED
    BY <2>1, SubSeqProperties DEF Prior
<1>5. ASSUME NEW i \in 1..Len(f)
      PROVE  Prior(g, i) = Prior(f, i)
  <2>1. \A k \in 1..(i - 1) : f[k] \in Lines
    OBVIOUS
  <2>2. /\ Prior(f, i) \in Seq(Lines) /\ Len(Prior(f, i)) = i - 1
        /\ \A k \in 1..(i - 1) : Prior(f, i)[k] = f[k]
    BY <2>1, SubSeqProperties DEF Prior
  <2>3. /\ Prior(g, i) \in Seq(Lines) /\ Len(Prior(g, i)) = i - 1
        /\ \A k \in 1..(i - 1) : Prior(g, i)[k] = f[k]
    BY <1>4
  <2> QED
    BY <2>2, <2>3, SeqEqual
<1>6. Prior(g, Len(f) + 1) = f
  <2>1. Len(f) \in Int /\ Prior(g, Len(f) + 1) = SubSeq(g, 1, Len(f))
    BY LenProperties DEF Prior
  <2>2. \A k \in 1..Len(f) : g[k] \in Lines /\ g[k] = f[k]
    BY <1>3
  <2>3. /\ SubSeq(g, 1, Len(f)) \in Seq(Lines)
        /\ Len(SubSeq(g, 1, Len(f))) = Len(f)
        /\ \A k \in 1..Len(f) : SubSeq(g, 1, Len(f))[k] = f[k]
    BY <2>1, <2>2, SubSeqProperties
  <2> QED
    BY <2>1, <2>3, SeqEqual
<1> QED
  BY <1>3, <1>5, <1>6 DEF g

\* An appended line that applies keeps the file one that checks, and changes
\* the open admissions by itself alone.
LEMMA AppendChecks ==
    ASSUME NEW f \in Seq(Lines), LinesCheck(f),
           NEW b \in Bodies, Applies(f, b)
    PROVE  LET g == Appended(f, b) IN
           /\ LinesCheck(g)
           /\ \A k : Kind(g, k) = Kind(f, k) \cup
                        (IF b.kind = k THEN {Len(f) + 1} ELSE {})
           /\ Open(g) = IF b.kind = "settle" THEN Open(f) \ {b.admit}
                        ELSE IF b.kind = "admit" THEN Open(f) \cup {Len(f) + 1}
                        ELSE Open(f)
<1> DEFINE g == Appended(f, b)
<1>1. /\ g \in Seq(Lines) /\ Len(g) = Len(f) + 1
      /\ \A i \in 1..Len(f) : g[i] = f[i] /\ Prior(g, i) = Prior(f, i)
      /\ g[Len(f) + 1] = Line(f, b) /\ Prior(g, Len(f) + 1) = f
  BY AppendKeeps
<1> HIDE DEF g
<1>2. /\ DOMAIN f = 1..Len(f) /\ DOMAIN g = 1..(Len(f) + 1)
      /\ Len(f) \in Nat
  <2>1. DOMAIN f = 1..Len(f) /\ Len(f) \in Nat
    BY LenProperties
  <2>2. DOMAIN g = 1..Len(g)
    BY <1>1, LenProperties
  <2> QED
    BY <1>1, <2>1, <2>2
<1>3. g[Len(f) + 1].seq = Len(f) + 1 /\ g[Len(f) + 1].prev = Digest(f)
      /\ g[Len(f) + 1].body = b
  BY <1>1 DEF Line
<1>4. LinesCheck(g)
  <2>1. LineChecks(g, Len(f) + 1)
    BY <1>1, <1>3 DEF LineChecks
  <2>2. \A i \in 1..Len(f) : LineChecks(g, i)
    BY <1>1, <1>2 DEF LinesCheck, LineChecks
  <2> QED
    BY <2>1, <2>2, <1>2 DEF LinesCheck
<1>5. ASSUME NEW k
      PROVE  Kind(g, k) = Kind(f, k) \cup
                (IF b.kind = k THEN {Len(f) + 1} ELSE {})
  BY <1>1, <1>2, <1>3 DEF Kind
<1>6. \A j \in Kind(f, "settle") : /\ f[j].body.admit # Len(f) + 1
                                   /\ g[j].body = f[j].body
  BY <1>1, <1>2, SettlesNameEarlier DEF Kind
<1>7. Kind(f, "admit") \subseteq 1..Len(f) /\ Open(f) \subseteq 1..Len(f)
  BY <1>2 DEF Kind, Open
<1>8. CASE b.kind = "settle"
  <2>1. /\ Kind(g, "admit") = Kind(f, "admit")
        /\ Kind(g, "settle") = Kind(f, "settle") \cup {Len(f) + 1}
    BY <1>5, <1>8
  <2>2. \A i : Settles(g, i) =
             Settles(f, i) \cup (IF i = b.admit THEN {Len(f) + 1} ELSE {})
    BY <2>1, <1>3, <1>6 DEF Settles
  <2>3. Open(g) = Open(f) \ {b.admit}
    BY <2>1, <2>2 DEF Open
  <2> QED
    BY <2>3, <1>8, <1>4, <1>5 DEF g
<1>9. CASE b.kind # "settle"
  <2>1. Kind(g, "settle") = Kind(f, "settle")
    BY <1>5, <1>9
  <2>2. \A i : Settles(g, i) = Settles(f, i)
    BY <2>1, <1>6 DEF Settles
  <2>3. Settles(f, Len(f) + 1) = {}
    BY <1>6 DEF Settles
  <2>4. Open(g) = IF b.kind = "admit" THEN Open(f) \cup {Len(f) + 1}
                  ELSE Open(f)
    BY <1>5, <2>2, <2>3 DEF Open
  <2> QED
    BY <2>4, <1>9, <1>4, <1>5 DEF g
<1> QED
  BY <1>8, <1>9

\* What a power loss leaves, a prefix, still checks; an admission open in the
\* whole file, if it is left, is open in the prefix.
LEMMA PrefixChecks ==
    ASSUME NEW f \in Seq(Lines), NEW k \in 0..Len(f)
    PROVE  LET g == SubSeq(f, 1, k) IN
           /\ g \in Seq(Lines) /\ Len(g) = k
           /\ \A i \in 1..k : g[i] = f[i] /\ Prior(g, i) = Prior(f, i)
           /\ \A x : Kind(g, x) = Kind(f, x) \cap 1..k
           /\ LinesCheck(f) => LinesCheck(g)
<1> DEFINE g == SubSeq(f, 1, k)
<1>1. DOMAIN f = 1..Len(f) /\ Len(f) \in Nat /\ k \in Nat
  BY LenProperties
<1>2. \A i \in 1..k : f[i] \in Lines
  BY <1>1, ElementOfSeq
<1>3. /\ g \in Seq(Lines) /\ Len(g) = k /\ \A i \in 1..k : g[i] = f[i]
  BY <1>1, <1>2, SubSeqProperties
<1> HIDE DEF g
<1>4. ASSUME NEW i \in 1..k PROVE Prior(g, i) = Prior(f, i)
  <2>1. \A m \in 1..(i - 1) : f[m] \in Lines /\ g[m] \in Lines /\ g[m] = f[m]
    BY <1>1, <1>2, <1>3
  <2>2. /\ Prior(f, i) \in Seq(Lines) /\ Len(Prior(f, i)) = i - 1
        /\ \A m \in 1..(i - 1) : Prior(f, i)[m] = f[m]
    BY <2>1, SubSeqProperties DEF Prior
  <2>3. /\ Prior(g, i) \in Seq(Lines) /\ Len(Prior(g, i)) = i - 1
        /\ \A m \in 1..(i - 1) : Prior(g, i)[m] = g[m]
    BY <2>1, SubSeqProperties DEF Prior
  <2> QED
    BY <2>1, <2>2, <2>3, SeqEqual
<1>5. DOMAIN g = 1..k
  BY <1>3, LenProperties
<1>6. ASSUME NEW x PROVE Kind(g, x) = Kind(f, x) \cap 1..k
  <2>1. \A i : i \in 1..k <=> i \in 1..Len(f) /\ i \in 1..k
    BY <1>1
  <2>2. \A i \in 1..k : g[i].body.kind = f[i].body.kind
    BY <1>3
  <2> QED
    BY <1>1, <1>5, <2>1, <2>2, Zenon DEF Kind
<1>7. ASSUME LinesCheck(f) PROVE LinesCheck(g)
  BY <1>7, <1>1, <1>3, <1>4, <1>5 DEF LinesCheck, LineChecks
<1> QED
  BY <1>3, <1>4, <1>6, <1>7 DEF g

\* A price revision is a line number, or 0.
LEMMA RevisionType ==
    ASSUME NEW f \in Seq(Lines), NEW r
    PROVE  PriceRevision(f, r) \in Nat /\ PriceRevision(f, r) <= Len(f)
<1> DEFINE S == {0} \cup PriceLines(f, r)
<1>1. DOMAIN f = 1..Len(f) /\ Len(f) \in Nat
  BY LenProperties
<1>2. PriceLines(f, r) \subseteq 1..Len(f)
  BY <1>1 DEF PriceLines, Kind
<1>3. S \subseteq Nat /\ S # {} /\ \A x \in S : x <= Len(f)
  BY <1>1, <1>2
<1> HIDE DEF S
<1>4. Max(S) \in S
  <2>1. S \subseteq Int /\ Len(f) \in Int
    BY <1>1, <1>3
  <2> QED
    BY <1>3, <2>1, MaxProps
<1> QED
  BY <1>3, <1>4 DEF PriceRevision, S

\* A price line makes its route's revision its own number; every other line
\* leaves the route's revision and prices as they were.
LEMMA PriceAppend ==
    ASSUME NEW f \in Seq(Lines), NEW b \in Bodies, NEW r
    PROVE  LET g == Appended(f, b) IN
           IF b.kind = "price" /\ b.route = r
           THEN PriceRevision(g, r) = Len(f) + 1
           ELSE /\ PriceRevision(g, r) = PriceRevision(f, r)
                /\ \A t : Price(g, r, t) = Price(f, r, t)
<1> DEFINE g == Appended(f, b)
<1>1. /\ g \in Seq(Lines) /\ Len(g) = Len(f) + 1
      /\ \A i \in 1..Len(f) : g[i] = f[i]
      /\ g[Len(f) + 1].body = b
  <2>1. /\ g \in Seq(Lines) /\ Len(g) = Len(f) + 1
        /\ \A i \in 1..Len(f) : g[i] = f[i]
        /\ g[Len(f) + 1] = Line(f, b)
    BY AppendKeeps
  <2> QED
    BY <2>1 DEF Line
<1> HIDE DEF g
<1>2. /\ DOMAIN f = 1..Len(f) /\ DOMAIN g = 1..(Len(f) + 1)
      /\ Len(f) \in Nat
  <2>1. DOMAIN f = 1..Len(f) /\ Len(f) \in Nat
    BY LenProperties
  <2>2. DOMAIN g = 1..Len(g)
    BY <1>1, LenProperties
  <2> QED
    BY <1>1, <2>1, <2>2
<1>3. PriceLines(f, r) \subseteq 1..Len(f)
  BY <1>2 DEF PriceLines, Kind
<1>4. CASE b.kind = "price" /\ b.route = r
  <2>1. Len(f) + 1 \in {0} \cup PriceLines(g, r)
    BY <1>1, <1>2, <1>4 DEF PriceLines, Kind
  <2>2. {0} \cup PriceLines(g, r) \subseteq 0..(Len(f) + 1)
    BY <1>2 DEF PriceLines, Kind
  <2>3. \A x \in {0} \cup PriceLines(g, r) :
           x \in Int /\ x <= Len(f) + 1
    BY <1>2, <2>2
  <2>4. {0} \cup PriceLines(g, r) \subseteq Int /\ Len(f) + 1 \in Int
    <3>1. Len(f) + 1 \in Int
      BY <1>2
    <3> QED
      BY <2>3, <3>1, Zenon
  <2>5. {0} \cup PriceLines(g, r) # {}
    BY <2>1
  <2>6. /\ PriceRevision(g, r) \in {0} \cup PriceLines(g, r)
        /\ \A x \in {0} \cup PriceLines(g, r) : x <= PriceRevision(g, r)
    BY <2>3, <2>4, <2>5, MaxProps DEF PriceRevision
  <2>7. Len(f) + 1 <= PriceRevision(g, r)
    BY <2>1, <2>6
  <2>8. PriceRevision(g, r) \in Int /\ PriceRevision(g, r) <= Len(f) + 1
    BY <2>3, <2>6
  <2>9. PriceRevision(g, r) = Len(f) + 1
    BY <1>2, <2>7, <2>8
  <2> QED
    BY <1>4, <2>9 DEF g
<1>5. CASE ~ (b.kind = "price" /\ b.route = r)
  <2>1. PriceLines(g, r) = PriceLines(f, r)
    BY <1>1, <1>2, <1>5 DEF PriceLines, Kind
  <2>2. \A i \in PriceLines(f, r) : g[i] = f[i]
    BY <1>1, <1>3
  <2>3. PriceRevision(g, r) = PriceRevision(f, r)
    BY <2>1 DEF PriceRevision
  <2>4. ASSUME NEW t PROVE Price(g, r, t) = Price(f, r, t)
    <3> DEFINE A == {j \in PriceLines(f, r) : f[j].body.tok = t}
               B == {j \in PriceLines(g, r) : g[j].body.tok = t}
    <3>1. A = B /\ \A i \in A : g[i] = f[i]
      BY <2>1, <2>2
    <3> HIDE DEF A, B
    <3>2. {g[i].body.usd : i \in B} = {f[i].body.usd : i \in A}
      BY <3>1
    <3> QED
      BY <3>2 DEF Price, A, B
  <2> QED
    BY <1>5, <2>3, <2>4 DEF g
<1> QED
  BY <1>4, <1>5

\* A line that may be settled is an admit line with its fields.
LEMMA OpenIsAdmit ==
    ASSUME NEW f \in Seq(Lines), NEW i \in Open(f)
    PROVE  /\ i \in 1..Len(f) /\ f[i].body.kind = "admit"
           /\ f[i].body.route \in Routes /\ f[i].body.n \in Nat
<1>1. i \in 1..Len(f) /\ f[i].body.kind = "admit"
  BY LenProperties DEF Open, Kind
<1>2. f[i] \in Lines
  BY <1>1, ElementOfSeq
<1>3. f[i].body \in Bodies
  BY <1>2 DEF Lines
<1> QED
  BY <1>1, <1>3, BoundsAssumption DEF Bodies

(***************************************************************************)
(* Recursion and sums, and what the lines charge.                          *)
(***************************************************************************)
\* What Min returns of natural numbers.
LEMMA MinIs ==
    ASSUME NEW S \in SUBSET Nat, S # {}
    PROVE  Min(S) \in S /\ \A x \in S : Min(S) <= x
<1>1. PICK m \in S : \A y \in S : ~(<<y, m>> \in OpToRel(<, Nat))
  BY NatLessThanWellFounded, WFMin
<1>2. ASSUME NEW y \in S PROVE m <= y
  <2>1. y \in Nat /\ m \in Nat /\ ~(y < m)
    BY <1>1 DEF OpToRel
  <2> QED
    BY <2>1
<1> QED
  BY <1>2 DEF Min

\* Induction up to n, on the set of the numbers reached.
LEMMA Climb ==
    ASSUME NEW n \in Nat, NEW A, 0 \in A, \A i \in 1..n : i - 1 \in A => i \in A
    PROVE  \A i \in 0..n : i \in A
<1> DEFINE T == (0..n) \ A
<1> SUFFICES ASSUME T # {} PROVE FALSE
  OBVIOUS
<1>1. T \subseteq Nat
  OBVIOUS
<1>2. Min(T) \in T /\ \A x \in T : Min(T) <= x
  <2> HIDE DEF T
  <2> QED
    BY <1>1, MinIs
<1>3. PICK m \in T : \A x \in T : m <= x
  BY <1>2
<1>4. m # 0 /\ m \in 1..n /\ m - 1 \in 0..n /\ ~(m <= m - 1)
  OBVIOUS
<1>5. m - 1 \notin T
  BY <1>3, <1>4
<1> QED
  BY <1>4, <1>5

\* f starts from b and goes on by g, up to n.
Unwinds(f, S, b, n, g) ==
    f \in [0..n -> S] /\ f[0] = b /\ \A i \in 1..n : f[i] = g[<<f[i - 1], i>>]

\* A function defined by recursion on 0..n: it exists.
LEMMA Recursion ==
    ASSUME NEW S, NEW b \in S, NEW n \in Nat, NEW g \in [S \X (1..n) -> S]
    PROVE  \E f : Unwinds(f, S, b, n, g)
<1> DEFINE Reaches(m) == \E f \in [0..m -> S] : f[0] = b /\ \A i \in 1..m : f[i] = g[<<f[i - 1], i>>]
           A == { m \in 0..n : Reaches(m) }
<1>1. 0 \in A
  <2> DEFINE f == [i \in 0..0 |-> b]
  <2>1. f \in [0..0 -> S] /\ f[0] = b
    OBVIOUS
  <2>2. \A i \in 1..0 : f[i] = g[<<f[i - 1], i>>]
    OBVIOUS
  <2> HIDE DEF f
  <2>3. Reaches(0)
    BY <2>1, <2>2
  <2> QED
    BY <2>3
<1>2. ASSUME NEW m \in 1..n, m - 1 \in A PROVE m \in A
  <2>1. PICK f \in [0..m - 1 -> S] : f[0] = b /\ \A i \in 1..m - 1 : f[i] = g[<<f[i - 1], i>>]
    BY <1>2
  <2> DEFINE h == [i \in 0..m |-> IF i = m THEN g[<<f[m - 1], m>>] ELSE f[i]]
  <2>2. m \in Nat /\ m >= 1 /\ m - 1 \in 0..m - 1 /\ m \in 1..n
    OBVIOUS
  <2>3. g[<<f[m - 1], m>>] \in S
    BY <2>2
  <2>4. \A i \in 0..m : i # m => i \in 0..m - 1
    BY <2>2
  <2>5. h \in [0..m -> S]
    BY <2>3, <2>4
  <2>6. h[0] = b
    BY <2>1, <2>2
  <2>7. ASSUME NEW i \in 1..m PROVE h[i] = g[<<h[i - 1], i>>]
    <3>1. CASE i = m
      <4>1. h[m] = g[<<f[m - 1], m>>] /\ h[m - 1] = f[m - 1]
        BY <2>2
      <4> QED
        BY <3>1, <4>1
    <3>2. CASE i # m
      <4>1. i \in 1..m - 1 /\ i \in 0..m /\ i - 1 \in 0..m /\ i - 1 # m
        BY <2>2, <3>2
      <4>2. h[i] = f[i] /\ h[i - 1] = f[i - 1]
        BY <3>2, <4>1
      <4> QED
        BY <2>1, <4>1, <4>2
    <3> QED
      BY <3>1, <3>2
  <2> HIDE DEF h
  <2>8. Reaches(m)
    BY <2>5, <2>6, <2>7
  <2> QED
    BY <2>2, <2>8
<1> HIDE DEF A
<1>3. n \in A
  BY <1>1, <1>2, Climb
<1> QED
  BY <1>3 DEF A, Unwinds

\* The running sum of f[i], f[i + 1] and so on.
Adds(f, i, n, sum) ==
    /\ sum[0] = 0
    /\ \A k \in 1..n : sum[k] = sum[k - 1] + f[i + k - 1]
    /\ \A k \in 0..n : sum[k] \in Nat

\* The values a sum takes are counts.
Addends(f, i, n) == i \in Nat /\ n \in Nat /\ \A k \in 1..n : f[i + k - 1] \in Nat

\* A sum is what a running sum ends in.
LEMMA AddUpIs ==
    ASSUME NEW f, NEW i, NEW n, Addends(f, i, n)
    PROVE  \E sum : Adds(f, i, n, sum) /\ AddUp(f, i, n) = sum[n]
<1> DEFINE v == [k \in 1..n |-> f[i + k - 1]]
           g == [x \in Nat \X (1..n) |-> x[1] + v[x[2]]]
           Upto(s) == s = [k \in 0..n |-> IF k = 0 THEN 0 ELSE s[k - 1] + f[i + k - 1]]
<1>0. i \in Nat /\ n \in Nat
  BY DEF Addends
<1>1. v \in [1..n -> Nat]
  BY DEF Addends
<1>2. \A k \in 1..n : v[k] = f[i + k - 1]
  OBVIOUS
<1> HIDE DEF v
<1>3. g \in [Nat \X (1..n) -> Nat]
  BY <1>1
<1> HIDE DEF g
<1>4. PICK h : Unwinds(h, Nat, 0, n, g)
  BY <1>0, <1>3, Recursion
<1>5. h \in [0..n -> Nat] /\ h[0] = 0 /\ \A k \in 1..n : h[k] = g[<<h[k - 1], k>>]
  BY <1>4 DEF Unwinds
<1>6. ASSUME NEW k \in 1..n PROVE h[k] = h[k - 1] + v[k]
  <2>1. k - 1 \in 0..n
    BY <1>0
  <2>2. <<h[k - 1], k>> \in Nat \X (1..n)
    BY <1>5, <2>1
  <2> QED
    BY <1>5, <2>2 DEF g
<1>7. Upto(h)
  <2>1. ASSUME NEW k \in 0..n
        PROVE  h[k] = IF k = 0 THEN 0 ELSE h[k - 1] + f[i + k - 1]
    <3>1. k = 0 \/ k \in 1..n
      BY <1>0
    <3> QED
      BY <1>2, <1>5, <1>6, <3>1
  <2> QED
    BY <1>5, <2>1
<1>8. PICK s : Upto(s) /\ AddUp(f, i, n) = s[n]
  BY <1>7 DEF AddUp
<1>9. s[0] = 0 /\ \A k \in 1..n : s[k] = s[k - 1] + f[i + k - 1]
  <2>1. 0 \in 0..n /\ \A k \in 1..n : k \in 0..n /\ k # 0
    BY <1>0
  <2>2. \A k \in 0..n : s[k] = IF k = 0 THEN 0 ELSE s[k - 1] + f[i + k - 1]
    BY <1>8
  <2> QED
    BY <2>1, <2>2
<1> DEFINE A == { k \in 0..n : s[k] \in Nat }
<1>10. 0 \in A
  BY <1>0, <1>9
<1>11. ASSUME NEW k \in 1..n, k - 1 \in A PROVE k \in A
  <2>1. s[k - 1] \in Nat /\ v[k] \in Nat /\ s[k] = s[k - 1] + v[k]
    BY <1>1, <1>2, <1>9, <1>11
  <2>2. k \in 0..n
    BY <1>0
  <2> QED
    BY <2>1, <2>2
<1> HIDE DEF A
<1>12. \A k \in 0..n : k \in A
  BY <1>0, <1>10, <1>11, Climb
<1>13. \A k \in 0..n : s[k] \in Nat
  BY <1>12 DEF A
<1> QED
  BY <1>8, <1>9, <1>13 DEF Adds

\* Two running sums of what is the same up to n are the same up to n.
LEMMA AddsOnce ==
    ASSUME NEW f, NEW g, NEW i, NEW n \in Nat, NEW m \in Nat, NEW s, NEW t, n <= m,
           Adds(f, i, n, s), Adds(g, i, m, t), \A k \in 1..n : f[i + k - 1] = g[i + k - 1]
    PROVE  s[n] = t[n]
<1> DEFINE A == { k \in 0..n : s[k] = t[k] }
<1>1. 0 \in A
  BY DEF Adds
<1>2. ASSUME NEW k \in 1..n, k - 1 \in A PROVE k \in A
  <2>1. k \in 1..m /\ k \in 0..n
    OBVIOUS
  <2>2. s[k] = s[k - 1] + f[i + k - 1] /\ t[k] = t[k - 1] + g[i + k - 1]
    BY <2>1 DEF Adds
  <2>3. s[k - 1] = t[k - 1] /\ f[i + k - 1] = g[i + k - 1]
    BY <1>2
  <2> QED
    BY <2>1, <2>2, <2>3
<1> HIDE DEF A
<1>3. n \in A
  BY <1>1, <1>2, Climb
<1> QED
  BY <1>3 DEF A

\* The sum of nothing, and of one more.
LEMMA AddUpNext ==
    ASSUME NEW f, NEW i, NEW n, Addends(f, i, n)
    PROVE  /\ AddUp(f, i, 0) = 0 /\ AddUp(f, i, n) \in Nat
           /\ n # 0 => /\ Addends(f, i, n - 1)
                       /\ AddUp(f, i, n) = AddUp(f, i, n - 1) + f[i + n - 1]
<1>0. i \in Nat /\ n \in Nat
  BY DEF Addends
<1>1. Addends(f, i, 0)
  BY <1>0 DEF Addends
<1>2. AddUp(f, i, 0) = 0
  BY <1>1, AddUpIs DEF Adds
<1>3. PICK s : Adds(f, i, n, s) /\ AddUp(f, i, n) = s[n]
  BY AddUpIs
<1>4. s[n] \in Nat
  BY <1>0, <1>3 DEF Adds
<1>5. ASSUME n # 0
      PROVE  /\ Addends(f, i, n - 1)
             /\ AddUp(f, i, n) = AddUp(f, i, n - 1) + f[i + n - 1]
  <2>1. n - 1 \in Nat /\ n - 1 <= n /\ n \in 1..n
    BY <1>0, <1>5
  <2>2. Addends(f, i, n - 1)
    BY <1>0, <2>1 DEF Addends
  <2>3. PICK t : Adds(f, i, n - 1, t) /\ AddUp(f, i, n - 1) = t[n - 1]
    BY <2>2, AddUpIs
  <2>4. t[n - 1] = s[n - 1]
    BY <1>0, <1>3, <2>1, <2>3, AddsOnce
  <2>5. s[n] = s[n - 1] + f[i + n - 1]
    BY <1>3, <2>1 DEF Adds
  <2> QED
    BY <1>3, <2>2, <2>3, <2>4, <2>5
<1> QED
  BY <1>2, <1>3, <1>4, <1>5

\* A sum is at most another, larger or equal term by term, when what it has
\* beyond the other's last term is nothing.
LEMMA AddUpAtMost ==
    ASSUME NEW f, NEW g, NEW n, NEW m, Addends(f, 1, m), Addends(g, 1, n), n <= m,
           \A k \in 1..n : f[k] <= g[k], \A k \in (n + 1)..m : f[k] = 0
    PROVE  AddUp(f, 1, m) <= AddUp(g, 1, n)
<1>0. n \in Nat /\ m \in Nat
  BY DEF Addends
<1>1. PICK s : Adds(f, 1, m, s) /\ AddUp(f, 1, m) = s[m]
  BY AddUpIs
<1>2. PICK t : Adds(g, 1, n, t) /\ AddUp(g, 1, n) = t[n]
  BY AddUpIs
<1>3. \A k \in 1..m : s[k] = s[k - 1] + f[k] /\ f[k] \in Nat /\ s[k] \in Nat /\ s[k - 1] \in Nat
  <2> SUFFICES ASSUME NEW k \in 1..m
               PROVE  s[k] = s[k - 1] + f[k] /\ f[k] \in Nat /\ s[k] \in Nat /\ s[k - 1] \in Nat
    OBVIOUS
  <2>1. 1 + k - 1 = k /\ k \in 0..m /\ k - 1 \in 0..m
    BY <1>0
  <2> QED
    BY <1>1, <2>1 DEF Adds, Addends
<1>4. \A k \in 1..n : t[k] = t[k - 1] + g[k] /\ g[k] \in Nat /\ t[k] \in Nat /\ t[k - 1] \in Nat
  <2> SUFFICES ASSUME NEW k \in 1..n
               PROVE  t[k] = t[k - 1] + g[k] /\ g[k] \in Nat /\ t[k] \in Nat /\ t[k - 1] \in Nat
    OBVIOUS
  <2>1. 1 + k - 1 = k /\ k \in 0..n /\ k - 1 \in 0..n
    BY <1>0
  <2> QED
    BY <1>2, <2>1 DEF Adds, Addends
<1>5. s[0] = 0 /\ t[0] = 0 /\ t[n] \in Nat
  BY <1>0, <1>1, <1>2 DEF Adds
<1> DEFINE A == { k \in 0..m : s[k] <= t[IF k <= n THEN k ELSE n] }
<1>6. 0 \in A
  BY <1>0, <1>5
<1>7. ASSUME NEW k \in 1..m, k - 1 \in A PROVE k \in A
  <2>1. k \in 0..m
    BY <1>0
  <2>2. CASE k <= n
    <3>1. k \in 1..n /\ k - 1 <= n
      BY <1>0, <2>2
    <3>2. s[k - 1] <= t[k - 1] /\ f[k] <= g[k]
      BY <1>7, <3>1
    <3> DEFINE a == s[k - 1]
               b == t[k - 1]
               c == f[k]
               d == g[k]
    <3>3. s[k] = a + c /\ t[k] = b + d /\ a \in Nat /\ b \in Nat /\ c \in Nat /\ d \in Nat
      BY <1>3, <1>4, <3>1
    <3>4. a <= b /\ c <= d
      BY <3>2
    <3> HIDE DEF a, b, c, d
    <3>5. s[k] <= t[k]
      BY <3>3, <3>4
    <3> QED
      BY <2>1, <2>2, <3>5
  <2>3. CASE ~(k <= n)
    <3>1. k \in (n + 1)..m
      BY <1>0, <2>3
    <3>2. s[k] = s[k - 1]
      BY <1>3, <3>1
    <3>3. s[k - 1] <= t[n]
      <4>1. CASE k - 1 <= n
        <5>1. k - 1 = n
          BY <1>0, <2>3, <4>1
        <5> QED
          BY <1>7, <4>1, <5>1
      <4>2. CASE ~(k - 1 <= n)
        BY <1>7, <4>2
      <4> QED
        BY <4>1, <4>2
    <3> QED
      BY <2>1, <2>3, <3>2, <3>3
  <2> QED
    BY <2>2, <2>3
<1> HIDE DEF A
<1>8. m \in A
  BY <1>0, <1>6, <1>7, Climb
<1>9. n = m \/ ~(m <= n)
  BY <1>0
<1> QED
  BY <1>1, <1>2, <1>8, <1>9 DEF A

\* Raising one term by one raises the sum by one.
LEMMA AddUpRaised ==
    ASSUME NEW f, NEW g, NEW n, Addends(f, 1, n), Addends(g, 1, n), NEW j \in 1..n,
           g[j] = f[j] + 1, \A k \in 1..n : k # j => g[k] = f[k]
    PROVE  AddUp(g, 1, n) = AddUp(f, 1, n) + 1
<1>0. n \in Nat
  BY DEF Addends
<1>1. PICK s : Adds(f, 1, n, s) /\ AddUp(f, 1, n) = s[n]
  BY AddUpIs
<1>2. PICK t : Adds(g, 1, n, t) /\ AddUp(g, 1, n) = t[n]
  BY AddUpIs
<1>3. \A k \in 1..n : /\ s[k] = s[k - 1] + f[k] /\ f[k] \in Nat /\ s[k - 1] \in Nat
                      /\ t[k] = t[k - 1] + g[k]
  <2> SUFFICES ASSUME NEW k \in 1..n
               PROVE  /\ s[k] = s[k - 1] + f[k] /\ f[k] \in Nat /\ s[k - 1] \in Nat
                      /\ t[k] = t[k - 1] + g[k]
    OBVIOUS
  <2>1. 1 + k - 1 = k /\ k - 1 \in 0..n
    BY <1>0
  <2> QED
    BY <1>1, <1>2, <2>1 DEF Adds, Addends
<1> DEFINE A == { k \in 0..n : t[k] = IF k < j THEN s[k] ELSE s[k] + 1 }
<1>4. 0 \in A
  BY <1>0, <1>1, <1>2 DEF Adds
<1>5. ASSUME NEW k \in 1..n, k - 1 \in A PROVE k \in A
  <2> DEFINE a == s[k - 1]
             b == f[k]
  <2>1. s[k] = a + b /\ a \in Nat /\ b \in Nat /\ k \in 0..n
    BY <1>0, <1>3
  <2>2. CASE k < j
    <3>1. k # j /\ k - 1 < j
      BY <2>2
    <3>2. t[k] = a + b
      BY <1>3, <1>5, <3>1
    <3> QED
      BY <2>1, <2>2, <3>2
  <2>3. CASE k = j
    <3>1. k - 1 < j /\ ~(k < j)
      BY <2>3
    <3>2. t[k] = a + (b + 1)
      BY <1>3, <1>5, <2>3, <3>1
    <3> HIDE DEF a, b
    <3>3. t[k] = s[k] + 1
      BY <2>1, <3>2
    <3> QED
      BY <2>1, <3>1, <3>3
  <2>4. CASE k > j
    <3>1. k # j /\ ~(k - 1 < j) /\ ~(k < j)
      BY <2>4
    <3>2. t[k] = (a + 1) + b
      BY <1>3, <1>5, <3>1
    <3> HIDE DEF a, b
    <3>3. t[k] = s[k] + 1
      BY <2>1, <3>2
    <3> QED
      BY <2>1, <3>1, <3>3
  <2> QED
    BY <1>0, <2>2, <2>3, <2>4
<1> HIDE DEF A
<1>6. n \in A /\ ~(n < j)
  BY <1>0, <1>4, <1>5, Climb
<1> QED
  BY <1>1, <1>2, <1>6 DEF A

\* What an admission counts at is a count.
LEMMA ChargeType ==
    ASSUME NEW f \in Seq(Lines), NEW i \in Kind(f, "admit")
    PROVE  Charge(f, i) \in Nat
<1>0. DOMAIN f = 1..Len(f)
  BY LenProperties
<1>1. CASE i \in Open(f)
  BY <1>1, OpenIsAdmit DEF Charge
<1>2. CASE i \notin Open(f)
  <2> DEFINE j == CHOOSE x \in Settles(f, i) : TRUE
  <2>1. Settles(f, i) # {}
    BY <1>2 DEF Open
  <2>2. j \in Settles(f, i)
    BY <2>1
  <2>3. j \in 1..Len(f) /\ f[j].body.kind = "settle"
    BY <1>0, <2>2 DEF Settles, Kind
  <2>4. f[j].body \in Bodies
    <3>1. f[j] \in Lines
      BY <2>3, ElementOfSeq
    <3> QED
      BY <3>1 DEF Lines
  <2>5. f[j].body.n \in Nat
    BY <2>3, <2>4 DEF Bodies
  <2> QED
    BY <1>2, <2>5 DEF Charge
<1> QED
  BY <1>1, <1>2

\* The charges of a file's lines, which Total adds up, are counts.
LEMMA ChargesAdd ==
    ASSUME NEW f \in Seq(Lines)
    PROVE  /\ DOMAIN Charges(f) = 1..Len(f)
           /\ \A i \in 1..Len(f) : Charges(f)[i] \in Nat
           /\ Addends(Charges(f), 1, Len(f))
<1>1. DOMAIN f = 1..Len(f) /\ Len(f) \in Nat
  BY LenProperties
<1>2. \A i \in Kind(f, "admit") : Charge(f, i) \in Nat
  BY ChargeType
<1>3. \A i \in 1..Len(f) : Charges(f)[i] \in Nat
  BY <1>1, <1>2 DEF Charges
<1>4. \A k \in 1..Len(f) : Charges(f)[1 + k - 1] \in Nat
  BY <1>1, <1>3
<1> QED
  BY <1>1, <1>3, <1>4 DEF Addends, Charges

\* What a line more adds to the total: an admission its reservation, a
\* settlement within its reservation and any other line nothing.
LEMMA TotalAppend ==
    ASSUME NEW f \in Seq(Lines), LinesCheck(f), NEW b \in Bodies, Applies(f, b),
           b.kind = "settle" => b.n <= f[b.admit].body.n
    PROVE  Total(Appended(f, b)) <= Total(f) + (IF b.kind = "admit" THEN b.n ELSE 0)
<1> DEFINE g == Appended(f, b)
           l == Len(f) + 1
<1>1. /\ g \in Seq(Lines) /\ Len(g) = l
      /\ \A i \in 1..Len(f) : g[i] = f[i]
      /\ g[l].body = b
  <2>1. /\ g \in Seq(Lines) /\ Len(g) = l
        /\ \A i \in 1..Len(f) : g[i] = f[i]
        /\ g[l] = Line(f, b)
    BY AppendKeeps
  <2> HIDE DEF g
  <2> QED
    BY <2>1 DEF Line
<1>2. /\ \A k : Kind(g, k) = Kind(f, k) \cup (IF b.kind = k THEN {l} ELSE {})
      /\ Open(g) = IF b.kind = "settle" THEN Open(f) \ {b.admit}
                   ELSE IF b.kind = "admit" THEN Open(f) \cup {l}
                   ELSE Open(f)
  BY AppendChecks
<1>3. Len(f) \in Nat /\ DOMAIN f = 1..Len(f) /\ DOMAIN g = 1..l /\ l \in Nat /\ l # 0
  BY <1>1, LenProperties
<1> HIDE DEF g
<1>4. \A k : Kind(f, k) \subseteq 1..Len(f) /\ l \notin Kind(f, k)
  BY <1>3 DEF Kind
<1>5. \A i : Settles(g, i) = Settles(f, i) \cup (IF b.kind = "settle" /\ b.admit = i THEN {l} ELSE {})
  <2>1. \A j \in Kind(f, "settle") : g[j].body = f[j].body
    BY <1>1, <1>4
  <2> QED
    BY <1>1, <1>2, <2>1 DEF Settles
<1>6. b.kind = "settle" => b.admit \in Open(f)
  BY DEF Applies, AppliesSettle
<1>7. ASSUME NEW i \in Kind(f, "admit") PROVE Charge(g, i) <= Charge(f, i)
  <2>0. i \in 1..Len(f) /\ Charge(f, i) \in Nat
    BY <1>4, ChargeType
  <2>1. CASE b.kind = "settle" /\ b.admit = i
    <3>1. i \in Open(f) /\ i \notin Open(g) /\ Settles(g, i) = {l}
      BY <1>2, <1>5, <1>6, <2>1 DEF Open
    <3>2. Charge(g, i) = b.n /\ Charge(f, i) = f[i].body.n
      BY <1>1, <3>1 DEF Charge
    <3> QED
      BY <2>1, <3>2
  <2>2. CASE ~(b.kind = "settle" /\ b.admit = i)
    <3>1. Settles(g, i) = Settles(f, i) /\ (i \in Open(g) <=> i \in Open(f))
      <4>1. i # l
        BY <1>3, <2>0
      <4>2. Settles(g, i) = Settles(f, i)
        BY <1>5, <2>2
      <4>3. i \in Open(g) <=> i \in Open(f)
        BY <1>2, <2>2, <4>1
      <4> QED
        BY <4>2, <4>3
    <3>2. CASE i \in Open(f)
      BY <1>1, <2>0, <3>1, <3>2 DEF Charge
    <3>3. CASE i \notin Open(f)
      <4> DEFINE j == CHOOSE x \in Settles(f, i) : TRUE
      <4>1. j \in Settles(f, i)
        BY <3>3 DEF Open
      <4>2. j \in 1..Len(f)
        BY <1>4, <4>1 DEF Settles
      <4>3. g[j] = f[j]
        BY <1>1, <4>2
      <4>4. Charge(g, i) = g[j].body.n /\ Charge(f, i) = f[j].body.n
        BY <3>1, <3>3 DEF Charge
      <4> QED
        BY <2>0, <4>3, <4>4
    <3> QED
      BY <3>2, <3>3
  <2> QED
    BY <2>1, <2>2
<1>8. ASSUME NEW i \in 1..Len(f) PROVE Charges(g)[i] <= Charges(f)[i]
  <2>1. i \in DOMAIN f /\ i \in DOMAIN g /\ i # l
    BY <1>3
  <2>2. i \in Kind(g, "admit") <=> i \in Kind(f, "admit")
    BY <1>2, <2>1
  <2> QED
    BY <1>7, <2>1, <2>2 DEF Charges
<1>9. Charges(g)[l] = IF b.kind = "admit" THEN b.n ELSE 0
  <2>1. l \in DOMAIN g
    BY <1>3
  <2>2. l \in Kind(g, "admit") <=> b.kind = "admit"
    BY <1>2, <1>4
  <2>3. b.kind = "admit" => Charge(g, l) = b.n
    BY <1>1, <1>2 DEF Charge
  <2> QED
    BY <2>1, <2>2, <2>3 DEF Charges
<1>10. /\ Addends(Charges(g), 1, Len(f)) /\ AddUp(Charges(g), 1, Len(f)) \in Nat
       /\ Total(g) = AddUp(Charges(g), 1, Len(f)) + Charges(g)[l]
  <2>1. Addends(Charges(g), 1, l)
    BY <1>1, ChargesAdd
  <2>2. l - 1 = Len(f) /\ 1 + l - 1 = l
    BY <1>3
  <2>3. /\ Addends(Charges(g), 1, Len(f))
        /\ AddUp(Charges(g), 1, l) = AddUp(Charges(g), 1, Len(f)) + Charges(g)[l]
    BY <1>3, <2>1, <2>2, AddUpNext
  <2> QED
    BY <1>1, <2>3, AddUpNext DEF Total
<1>11. AddUp(Charges(g), 1, Len(f)) <= AddUp(Charges(f), 1, Len(f))
  <2>1. Addends(Charges(f), 1, Len(f)) /\ Len(f) <= Len(f)
    BY <1>3, ChargesAdd
  <2>2. \A k \in (Len(f) + 1)..Len(f) : Charges(g)[k] = 0
    BY <1>3
  <2> QED
    BY <1>8, <1>10, <2>1, <2>2, AddUpAtMost
<1>12. Total(f) \in Nat /\ Charges(g)[l] \in Nat
  <2>1. Charges(g)[l] \in Nat
    BY <1>1, <1>3, ChargesAdd
  <2>2. Total(f) \in Nat
    BY ChargesAdd, AddUpNext DEF Total
  <2> QED
    BY <2>1, <2>2
<1> DEFINE x == AddUp(Charges(g), 1, Len(f))
           y == Charges(g)[l]
<1>13. Total(g) = x + y /\ x <= Total(f) /\ x \in Nat /\ y \in Nat /\ y = IF b.kind = "admit" THEN b.n ELSE 0
  BY <1>9, <1>10, <1>11, <1>12 DEF Total
<1> HIDE DEF x, y
<1>14. Total(g) <= Total(f) + y
  BY <1>12, <1>13
<1> QED
  BY <1>13, <1>14 DEF g

(***************************************************************************)
(* The invariant.                                                          *)
(***************************************************************************)
\* IInv holds before Create: there is no file and every process is idle.
LEMMA InitInv == Init => IInv
<1> SUFFICES ASSUME Init PROVE IInv
  OBVIOUS
<1>1. TypeOK
  <2>1. file \in Seq(Lines) /\ Len(file) = 0 /\ 0 <= MaxLines
        /\ durable \in 0..Len(file)
    BY EmptySeq, BoundsAssumption DEF Init
  <2>2. buf \in [Procs -> Seq(Lines)]
    BY EmptySeq DEF Init
  <2>3. snap \in [Procs -> [rev : Nat \cup {AnyRevision},
                            usd : Prices \cup {NoPrice}]]
    BY DEF Init, NoSnap
  <2> QED
    BY <2>1, <2>2, <2>3 DEF Init, TypeOK, ProcStates
<1>2. ProtocolInv
  BY DEF Init, ProtocolInv
<1>3. Readable
  BY DEF Init, Readable, LinesCheck
<1>4. AdmittedWithinCaps
  BY DEF Init, AdmittedWithinCaps, Kind
<1>5. ReservationInv
  BY DEF Init, ReservationInv
<1>6. WireInv
  BY DEF Init, WireInv, Kind
<1>7. SnapInv
  BY DEF Init, SnapInv
<1> QED
  BY <1>1, <1>2, <1>3, <1>4, <1>5, <1>6, <1>7 DEF IInv

\* What the lock buys: when a process appends, the line it decided on is one
\* that applies to the file as it is now.
LEMMA WriteFacts ==
    ASSUME IInv, NEW p \in Procs, Write(p)
    PROVE  \E b \in Bodies :
             /\ Applies(file, b) /\ file' = Appended(file, b) /\ ~torn
             /\ adm' = [adm EXCEPT ![p] = IF b.kind = "admit"
                                          THEN Len(file) + 1 ELSE 0]
             /\ b.kind = "admit" =>
                  /\ HasPosition(file, b.route, b.tok)
                  /\ WithinCaps(file, b.route, b.tok, b.n)
                  /\ pc[p] = "read" /\ req[p].op = "admit"
                  /\ b.usd = Price(file, req[p].route, req[p].tok)
                  /\ req[p].rev \in {AnyRevision, PriceRevision(file, req[p].route)}
             /\ b.kind = "settle" =>
                  /\ pc[p] = "read" /\ req[p].op = "settle"
                  /\ b.admit = req[p].admit /\ b.n = req[p].n
<1>1. PICK b \in PendingBodies(p) :
         /\ file' = Append(file, Line(buf[p], b))
         /\ adm' = [adm EXCEPT ![p] = IF b.kind = "admit"
                                      THEN Len(buf[p]) + 1 ELSE 0]
  BY DEF Write
<1>2. pc[p] \in {"read", "creating"}
  BY DEF Write, Pending
<1>3. buf[p] = file /\ ~torn
  BY <1>2 DEF IInv, ProtocolInv
<1>4. CASE pc[p] = "creating"
  <2>1. b = [kind |-> "open"] /\ file = << >>
    BY <1>1, <1>4 DEF PendingBodies, IInv, ProtocolInv
  <2>2. b \in Bodies /\ Applies(file, b)
    BY <2>1 DEF Bodies, Applies
  <2> QED
    BY <1>1, <1>3, <2>1, <2>2 DEF Appended
<1>5. CASE pc[p] = "read"
  <2>1. b \in Decide(file, req[p]) /\ req[p] \in Requests /\ file # << >>
        /\ file \in Seq(Lines)
    BY <1>1, <1>3, <1>5 DEF PendingBodies, IInv, ProtocolInv, TypeOK
  <2>2. /\ b \in Bodies /\ Applies(file, b)
        /\ b.kind = "admit" =>
             /\ HasPosition(file, b.route, b.tok)
             /\ WithinCaps(file, b.route, b.tok, b.n)
             /\ req[p].op = "admit"
             /\ b.usd = Price(file, req[p].route, req[p].tok)
             /\ req[p].rev \in {AnyRevision, PriceRevision(file, req[p].route)}
        /\ b.kind = "settle" => /\ req[p].op = "settle"
                                /\ b.admit = req[p].admit /\ b.n = req[p].n
    BY <2>1, DecideApplies
  <2> QED
    BY <1>1, <1>3, <1>5, <2>2 DEF Appended
<1> QED
  BY <1>2, <1>4, <1>5

\* Lines only ever follow lines that check.
LEMMA FileStep ==
    ASSUME IInv, [Next]_vars
    PROVE  Readable' /\ AdmittedWithinCaps'
<1>1. file \in Seq(Lines) /\ LinesCheck(file) /\ Len(file) \in Nat
      /\ AdmittedWithinCaps /\ durable \in 0..Len(file)
  BY LenProperties DEF IInv, Readable, TypeOK
<1>2. CASE UNCHANGED file
  BY <1>1, <1>2 DEF Readable, AdmittedWithinCaps
<1>3. ASSUME NEW p \in Procs, Write(p) PROVE Readable' /\ AdmittedWithinCaps'
  <2>1. PICK b \in Bodies :
           /\ Applies(file, b) /\ file' = Appended(file, b)
           /\ b.kind = "admit" => /\ HasPosition(file, b.route, b.tok)
                                  /\ WithinCaps(file, b.route, b.tok, b.n)
    BY <1>3, WriteFacts
  <2>2. /\ LinesCheck(file')
        /\ Kind(file', "admit") = Kind(file, "admit") \cup
              (IF b.kind = "admit" THEN {Len(file) + 1} ELSE {})
    BY <1>1, <2>1, AppendChecks
  <2>3. /\ \A i \in 1..Len(file) :
              file'[i] = file[i] /\ Prior(file', i) = Prior(file, i)
        /\ file'[Len(file) + 1].body = b /\ Prior(file', Len(file) + 1) = file
    <3>1. /\ \A i \in 1..Len(file) :
                file'[i] = file[i] /\ Prior(file', i) = Prior(file, i)
          /\ file'[Len(file) + 1] = Line(file, b)
          /\ Prior(file', Len(file) + 1) = file
      BY <1>1, <2>1, AppendKeeps
    <3> QED
      BY <3>1 DEF Line
  <2>4. Kind(file, "admit") \subseteq 1..Len(file)
    BY <1>1, LenProperties DEF Kind
  <2>5. ASSUME NEW i \in Kind(file', "admit")
        PROVE  LET c == file'[i].body IN
               /\ HasPosition(Prior(file', i), c.route, c.tok)
               /\ WithinCaps(Prior(file', i), c.route, c.tok, c.n)
    <3>1. CASE i \in Kind(file, "admit")
      BY <3>1, <2>3, <2>4, <1>1 DEF AdmittedWithinCaps
    <3>2. CASE i = Len(file) + 1 /\ b.kind = "admit"
      BY <3>2, <2>1, <2>3
    <3> QED
      BY <3>1, <3>2, <2>2
  <2> QED
    BY <2>2, <2>5 DEF Readable, AdmittedWithinCaps
<1>4. CASE PowerLoss
  <2>1. PICK k \in durable..Len(file) : file' = SubSeq(file, 1, k)
    BY <1>4 DEF PowerLoss
  <2>2. k \in 0..Len(file)
    BY <1>1, <2>1
  <2>3. /\ \A i \in 1..k :
              file'[i] = file[i] /\ Prior(file', i) = Prior(file, i)
        /\ Kind(file', "admit") = Kind(file, "admit") \cap 1..k
        /\ LinesCheck(file')
    BY <1>1, <2>1, <2>2, PrefixChecks
  <2> QED
    BY <1>1, <2>3 DEF Readable, AdmittedWithinCaps
<1> QED
  BY <1>2, <1>3, <1>4
     DEF Next, vars, Start, Step, Create, Snapshot, RecordPrice, RecordHosting,
         Admit, AdmitAt, Call, SendRequest, Settle, LockAndRead, ReadFails,
         WriteFails, Sync, SyncFails, Crash, disk

\* A caller's operation is a well-formed request.
LEMMA CallFacts ==
    ASSUME IInv, NEW p \in Procs,
           RecordPrice(p) \/ RecordHosting(p) \/ Admit(p) \/ AdmitAt(p) \/ Settle(p)
    PROVE  \E q \in Requests :
             /\ Call(p, q) /\ pc[p] \in {"idle", "checked", "sending"}
             /\ snap' \in {snap, [snap EXCEPT ![p] = NoSnap]}
             /\ q.op = "settle" => /\ pc[p] = "sending" /\ q.admit = adm[p]
                                   /\ q.n = wire[adm[p]]
<1>1. CASE RecordPrice(p)
  BY <1>1 DEF RecordPrice, Requests
<1>2. CASE RecordHosting(p)
  BY <1>2 DEF RecordHosting, Requests
<1>3. CASE Admit(p)
  BY <1>3 DEF Admit, Requests
<1>4. CASE AdmitAt(p)
  <2>1. PICK w \in Purposes, n \in Reserves :
           /\ pc[p] = "checked"
           /\ Call(p, [op |-> "admit", route |-> req[p].route,
                       tok |-> req[p].tok, purpose |-> w, n |-> n,
                       rev |-> snap[p].rev])
           /\ UNCHANGED snap
    BY <1>4 DEF AdmitAt
  <2>2. req[p].route \in Routes /\ req[p].tok \in Toks /\ snap[p].rev \in Nat
    BY <2>1 DEF IInv, ProtocolInv, CheckedRequests
  <2> QED
    BY <2>1, <2>2 DEF Requests
<1>5. CASE Settle(p)
  <2>1. pc[p] = "sending" /\ adm[p] \in Open(file)
    BY <1>5 DEF Settle, IInv, ReservationInv
  <2>2. adm[p] \in LineNums /\ wire[adm[p]] \in Nat
    BY <2>1, OpenIsAdmit DEF IInv, ReservationInv, TypeOK
  <2>3. file[adm[p]].body.route \in Routes
    BY <2>1, OpenIsAdmit DEF IInv, TypeOK
  <2> QED
    BY <1>5, <2>1, <2>2, <2>3 DEF Settle, Requests
<1> QED
  BY <1>1, <1>2, <1>3, <1>4, <1>5

\* Every step of Create, update, the traffic, a crash or a power loss keeps the
\* types.
LEMMA TypeStep ==
    ASSUME IInv, [Next]_vars
    PROVE  TypeOK'
<1> USE DEF TypeOK
<1>0. TypeOK /\ Len(file) \in Nat /\ << >> \in Seq(Lines)
      /\ NoSnap \in [rev : Nat \cup {AnyRevision}, usd : Prices \cup {NoPrice}]
  BY LenProperties, EmptySeq DEF IInv, NoSnap
<1>1. ASSUME NEW p \in Procs, Create(p) PROVE TypeOK'
  BY <1>0, <1>1 DEF Create, ProcStates
<1>2. ASSUME NEW p \in Procs, NEW r \in Routes, NEW t \in Toks,
             Snapshot(p, r, t)
      PROVE  TypeOK'
  <2>1. /\ PriceRevision(file, r) \in Nat
        /\ Price(file, r, t) \in Prices \cup {NoPrice}
    BY <1>0, RevisionType, PriceType
  <2>2. [op |-> "none", route |-> r, tok |-> t] \in CheckedRequests
    BY DEF CheckedRequests
  <2> QED
    BY <1>0, <1>2, <2>1, <2>2 DEF Snapshot, ProcStates, disk
<1>3. ASSUME NEW p \in Procs,
             RecordPrice(p) \/ RecordHosting(p) \/ Admit(p) \/ AdmitAt(p)
             \/ Settle(p)
      PROVE  TypeOK'
  <2>1. PICK q \in Requests :
           Call(p, q) /\ snap' \in {snap, [snap EXCEPT ![p] = NoSnap]}
    BY <1>3, CallFacts
  <2>2. snap' \in [Procs -> [rev : Nat \cup {AnyRevision},
                             usd : Prices \cup {NoPrice}]]
    BY <1>0, <2>1
  <2>3. req' \in [Procs -> Requests \cup CheckedRequests \cup {NoRequest}]
    BY <1>0, <2>1 DEF Call
  <2>4. pc' \in [Procs -> ProcStates]
    BY <1>0, <2>1 DEF Call, ProcStates
  <2> QED
    BY <1>0, <2>1, <2>2, <2>3, <2>4 DEF Call, disk
<1>4. ASSUME NEW p \in Procs, SendRequest(p) PROVE TypeOK'
  <2>1. adm[p] \in LineNums
    BY <1>0, <1>4 DEF SendRequest, IInv, ReservationInv
  <2> QED
    BY <1>0, <1>4, <2>1 DEF SendRequest, disk
<1>5. ASSUME NEW p \in Procs, LockAndRead(p) PROVE TypeOK'
  BY <1>0, <1>5 DEF LockAndRead, ProcStates, disk
<1>6. ASSUME NEW p \in Procs, Return(p), UNCHANGED <<exists, file, durable, wire>>,
             torn' \in BOOLEAN
      PROVE  TypeOK'
  BY <1>0, <1>6 DEF Return, ProcStates
<1>7. ASSUME NEW p \in Procs,
             ReadFails(p) \/ WriteFails(p) \/ SyncFails(p) \/ Crash(p)
      PROVE  TypeOK'
  BY <1>0, <1>6, <1>7 DEF ReadFails, WriteFails, SyncFails, Crash, disk
<1>8. ASSUME NEW p \in Procs, Write(p) PROVE TypeOK'
  <2>1. PICK b \in Bodies :
           /\ file' = Appended(file, b)
           /\ adm' = [adm EXCEPT ![p] = IF b.kind = "admit"
                                        THEN Len(file) + 1 ELSE 0]
    BY <1>8, WriteFacts
  <2>2. file' \in Seq(Lines) /\ Len(file') = Len(file) + 1
    BY <1>0, <2>1, AppendKeeps
  <2>3. Len(file) + 1 \in LineNums /\ Len(file') <= MaxLines
        /\ durable \in 0..Len(file')
    BY <1>0, <1>8, <2>2, BoundsAssumption DEF Write, LineNums
  <2>4. adm' \in [Procs -> {0} \cup LineNums]
    BY <1>0, <2>1, <2>3
  <2> QED
    BY <1>0, <1>8, <2>2, <2>3, <2>4 DEF Write, ProcStates
<1>9. ASSUME NEW p \in Procs, Sync(p) PROVE TypeOK'
  BY <1>0, <1>9 DEF Sync, ProcStates
<1>10. CASE PowerLoss
  <2>1. PICK k \in durable..Len(file) :
            file' = SubSeq(file, 1, k) /\ durable' = k /\ torn' \in BOOLEAN
    BY <1>10 DEF PowerLoss
  <2>2. k \in 0..Len(file)
    BY <1>0, <2>1
  <2>3. file' \in Seq(Lines) /\ Len(file') = k
    BY <1>0, <2>1, <2>2, PrefixChecks
  <2>4. Len(file') <= MaxLines /\ durable' \in 0..Len(file')
    BY <1>0, <2>1, <2>2, <2>3, BoundsAssumption
  <2> QED
    BY <1>0, <1>10, <2>1, <2>3, <2>4 DEF PowerLoss, ProcStates
<1>11. CASE UNCHANGED vars
  BY <1>0, <1>11 DEF vars
<1> QED
  BY <1>1, <1>2, <1>3, <1>4, <1>5, <1>7, <1>8, <1>9, <1>10, <1>11
     DEF Next, Start, Step

\* Every step keeps the lock protocol: a process that read the file under the
\* exclusive flock holds it alone, and its buffer is the file.
LEMMA ProtocolStep ==
    ASSUME IInv, [Next]_vars
    PROVE  ProtocolInv'
<1> USE DEF ProtocolInv
<1>0. TypeOK /\ ProtocolInv
  BY DEF IInv
<1>1. ASSUME NEW p \in Procs, Create(p) PROVE ProtocolInv'
  BY <1>0, <1>1 DEF Create, TypeOK
<1>2. ASSUME NEW p \in Procs, NEW r \in Routes, NEW t \in Toks,
             Snapshot(p, r, t)
      PROVE  ProtocolInv'
  <2>1. PriceRevision(file, r) \in Nat
    BY <1>0, RevisionType DEF TypeOK
  <2>2. [op |-> "none", route |-> r, tok |-> t] \in CheckedRequests
    BY DEF CheckedRequests
  <2> QED
    BY <1>0, <1>2, <2>1, <2>2 DEF Snapshot, TypeOK, disk
<1>3. ASSUME NEW p \in Procs,
             RecordPrice(p) \/ RecordHosting(p) \/ Admit(p) \/ AdmitAt(p)
             \/ Settle(p)
      PROVE  ProtocolInv'
  <2>1. PICK q \in Requests :
           /\ Call(p, q) /\ pc[p] \in {"idle", "checked", "sending"}
           /\ snap' \in {snap, [snap EXCEPT ![p] = NoSnap]}
    BY <1>3, CallFacts
  <2>2. ASSUME NEW s \in Procs, s # p PROVE snap'[s] = snap[s]
    BY <2>1, <2>2, <1>0 DEF TypeOK
  <2> QED
    BY <1>0, <2>1, <2>2 DEF Call, TypeOK, disk
<1>4. ASSUME NEW p \in Procs, SendRequest(p) PROVE ProtocolInv'
  BY <1>0, <1>4 DEF SendRequest, disk
<1>5. ASSUME NEW p \in Procs, LockAndRead(p) PROVE ProtocolInv'
  BY <1>0, <1>5 DEF LockAndRead, TypeOK, disk, Parses
<1>6. ASSUME NEW p \in Procs, Return(p), UNCHANGED <<exists, file>>,
             torn' \in IF Pending(p) THEN {torn, TRUE} ELSE {torn}
      PROVE  ProtocolInv'
  <2>1. ASSUME NEW q \in Procs, q # p, pc[q] = "read" PROVE lock' = {q}
    BY <1>0, <1>6, <2>1 DEF Return
  <2>2. ASSUME NEW q \in Procs, q # p, Pending(q) PROVE torn' = torn
    BY <1>0, <1>6, <2>2 DEF Pending
  <2>3. ~exists => torn' = torn
    BY <1>0, <1>6 DEF Pending
  <2>4. \A q \in Procs : IF q = p THEN pc'[q] = "idle" /\ buf'[q] = << >>
                         ELSE /\ pc'[q] = pc[q] /\ buf'[q] = buf[q]
                              /\ req'[q] = req[q] /\ snap'[q] = snap[q]
    BY <1>0, <1>6 DEF Return, TypeOK
  <2> QED
    BY <1>0, <1>6, <2>1, <2>2, <2>3, <2>4 DEF Pending
<1>7. ASSUME NEW p \in Procs,
             ReadFails(p) \/ WriteFails(p) \/ SyncFails(p) \/ Crash(p)
      PROVE  ProtocolInv'
  BY <1>6, <1>7 DEF ReadFails, WriteFails, SyncFails, Crash, disk
<1>8. ASSUME NEW p \in Procs, Write(p) PROVE ProtocolInv'
  <2>1. pc[p] \in {"read", "creating"} /\ pc' = [pc EXCEPT ![p] = "written"]
        /\ UNCHANGED <<exists, torn, lock, req, buf, snap>>
    BY <1>8 DEF Write, Pending
  <2>2. exists
    BY <1>0, <2>1
  <2>3. \A q \in Procs \ {p} : pc[q] \notin {"read", "creating"}
    BY <1>0, <2>1
  <2> QED
    BY <1>0, <2>1, <2>2, <2>3 DEF TypeOK
<1>9. ASSUME NEW p \in Procs, Sync(p) PROVE ProtocolInv'
  <2>1. ASSUME NEW q \in Procs, q # p, pc[q] = "read" PROVE lock' = {q}
    BY <1>0, <1>9, <2>1 DEF Sync
  <2>2. \A q \in Procs : IF q = p THEN /\ pc'[q] \in {"idle", "sending"}
                                         /\ buf'[q] = << >>
                         ELSE /\ pc'[q] = pc[q] /\ buf'[q] = buf[q]
                              /\ req'[q] = req[q] /\ snap'[q] = snap[q]
    BY <1>0, <1>9 DEF Sync, TypeOK
  <2> QED
    BY <1>0, <1>9, <2>1, <2>2 DEF Sync
<1>10. CASE PowerLoss
  <2>1. ~exists => file' = << >> /\ ~torn'
    <3> SUFFICES ASSUME ~exists PROVE file' = << >> /\ ~torn'
      OBVIOUS
    <3>1. file = << >> /\ ~torn /\ Len(file) = 0
      BY <1>0, EmptySeq
    <3>2. PICK k \in durable..Len(file) :
             /\ file' = SubSeq(file, 1, k)
             /\ torn' \in IF torn \/ k < Len(file) THEN BOOLEAN ELSE {FALSE}
      BY <1>10 DEF PowerLoss
    <3>3. k = 0
      BY <1>0, <3>1, <3>2 DEF TypeOK
    <3> QED
      BY <3>1, <3>2, <3>3, SubSeqEmpty
  <2>2. \A q \in Procs : pc'[q] = "idle" /\ buf'[q] = << >>
    BY <1>10 DEF PowerLoss
  <2> QED
    BY <1>10, <2>1, <2>2 DEF PowerLoss
<1>11. CASE UNCHANGED vars
  BY <1>0, <1>11 DEF vars
<1> QED
  BY <1>1, <1>2, <1>3, <1>4, <1>5, <1>7, <1>8, <1>9, <1>10, <1>11
     DEF Next, Start, Step

\* Every step keeps a sending process's admission durable, open and its own.
LEMMA ReservationStep ==
    ASSUME IInv, [Next]_vars
    PROVE  ReservationInv'
<1> USE DEF ReservationInv
<1>0. TypeOK /\ ProtocolInv /\ ReservationInv /\ WireInv /\ LinesCheck(file)
      /\ Len(file) \in Nat /\ Open(file) \subseteq 1..Len(file)
  <2>1. TypeOK /\ ProtocolInv /\ ReservationInv /\ WireInv /\ LinesCheck(file)
    BY DEF IInv, Readable
  <2> QED
    BY <2>1, LenProperties, OpenIsAdmit DEF TypeOK
<1>1. ASSUME NEW p \in Procs, Create(p) PROVE ReservationInv'
  BY <1>0, <1>1 DEF Create, TypeOK
<1>2. ASSUME NEW p \in Procs, NEW r \in Routes, NEW t \in Toks,
             Snapshot(p, r, t)
      PROVE  ReservationInv'
  BY <1>0, <1>2 DEF Snapshot, TypeOK, disk
<1>3. ASSUME NEW p \in Procs,
             RecordPrice(p) \/ RecordHosting(p) \/ Admit(p) \/ AdmitAt(p)
             \/ Settle(p)
      PROVE  ReservationInv'
  <2>1. PICK q \in Requests :
           /\ Call(p, q)
           /\ q.op = "settle" => /\ pc[p] = "sending" /\ q.admit = adm[p]
                                 /\ q.n = wire[adm[p]]
    BY <1>3, CallFacts
  <2> QED
    BY <1>0, <2>1 DEF Call, TypeOK, disk
<1>4. ASSUME NEW p \in Procs, SendRequest(p) PROVE ReservationInv'
  <2>1. \A q \in Procs \ {p} : adm[q] # 0 => wire'[adm[q]] = wire[adm[q]]
    BY <1>0, <1>4 DEF SendRequest, TypeOK
  <2> QED
    BY <1>0, <1>4, <2>1 DEF SendRequest, TypeOK, disk
<1>5. ASSUME NEW p \in Procs, LockAndRead(p) PROVE ReservationInv'
  BY <1>0, <1>5 DEF LockAndRead, TypeOK, disk
<1>6. ASSUME NEW p \in Procs, Return(p), UNCHANGED <<file, durable, wire>>
      PROVE  ReservationInv'
  BY <1>0, <1>6 DEF Return, TypeOK
<1>7. ASSUME NEW p \in Procs,
             ReadFails(p) \/ WriteFails(p) \/ SyncFails(p) \/ Crash(p)
      PROVE  ReservationInv'
  BY <1>6, <1>7 DEF ReadFails, WriteFails, SyncFails, Crash, disk
<1>8. ASSUME NEW p \in Procs, Write(p) PROVE ReservationInv'
  <2>1. PICK b \in Bodies :
           /\ Applies(file, b) /\ file' = Appended(file, b)
           /\ adm' = [adm EXCEPT ![p] = IF b.kind = "admit"
                                        THEN Len(file) + 1 ELSE 0]
           /\ b.kind = "settle" =>
                /\ pc[p] = "read" /\ req[p].op = "settle"
                /\ b.admit = req[p].admit /\ b.n = req[p].n
    BY <1>8, WriteFacts
  <2>2. Open(file') = IF b.kind = "settle" THEN Open(file) \ {b.admit}
                      ELSE IF b.kind = "admit"
                           THEN Open(file) \cup {Len(file) + 1}
                      ELSE Open(file)
    BY <1>0, <2>1, AppendChecks DEF TypeOK
  <2>3. b.kind = "settle" => b.admit = adm[p] /\ adm[p] # 0
    BY <1>0, <2>1
  <2>4. UNCHANGED <<durable, req, wire>> /\ pc' = [pc EXCEPT ![p] = "written"]
    BY <1>8 DEF Write
  <2>5. ASSUME NEW q \in Procs \ {p}, adm[q] # 0
        PROVE  adm[q] \in Open(file') /\ adm[q] # adm'[p]
    BY <1>0, <2>1, <2>2, <2>3, <2>5 DEF TypeOK
  <2>6. adm'[p] # 0 => adm'[p] \in Open(file') /\ wire[adm'[p]] = 0
    <3> SUFFICES ASSUME adm'[p] # 0
                 PROVE  adm'[p] \in Open(file') /\ wire[adm'[p]] = 0
      OBVIOUS
    <3>1. adm'[p] = Len(file) + 1 /\ b.kind = "admit"
      BY <1>0, <2>1 DEF TypeOK
    <3>2. Len(file) + 1 \in LineNums
      BY <1>0, <1>8, BoundsAssumption DEF Write, LineNums
    <3>3. wire[Len(file) + 1] = 0
      <4>1. Len(file) + 1 \notin Kind(file, "admit")
        BY <1>0, LenProperties DEF Kind, TypeOK
      <4> QED
        BY <1>0, <3>2, <4>1 DEF WireInv, TypeOK
    <3> QED
      BY <2>2, <3>1, <3>3
  <2>7. \A q \in Procs \ {p} : adm'[q] = adm[q] /\ pc'[q] = pc[q]
    BY <1>0, <2>1, <2>4 DEF TypeOK
  <2>8. pc'[p] = "written"
    BY <1>0, <2>4 DEF TypeOK
  <2> QED
    BY <1>0, <2>4, <2>5, <2>6, <2>7, <2>8
<1>9. ASSUME NEW p \in Procs, Sync(p) PROVE ReservationInv'
  <2>1. durable' = Len(file) /\ UNCHANGED <<file, adm, wire>>
        /\ pc[p] = "written"
    BY <1>9 DEF Sync
  <2>2. \A q \in Procs : adm[q] # 0 => adm[q] <= durable'
    BY <1>0, <2>1 DEF TypeOK
  <2>3. \A q \in Procs : IF q = p THEN pc'[q] = IF adm[p] # 0 THEN "sending"
                                                ELSE "idle"
                         ELSE pc'[q] = pc[q] /\ req'[q] = req[q]
    BY <1>0, <1>9 DEF Sync, TypeOK
  <2> QED
    BY <1>0, <2>1, <2>2, <2>3
<1>10. CASE PowerLoss
  <2>1. \A q \in Procs : pc'[q] = "idle" /\ adm'[q] = 0
    BY <1>10 DEF PowerLoss
  <2> QED
    BY <2>1
<1>11. CASE UNCHANGED vars
  BY <1>0, <1>11 DEF vars
<1> QED
  BY <1>1, <1>2, <1>3, <1>4, <1>5, <1>7, <1>8, <1>9, <1>10, <1>11
     DEF Next, Start, Step

\* Every step keeps the requests sent within what the file charges for them.
LEMMA WireStep ==
    ASSUME IInv, [Next]_vars
    PROVE  WireInv'
<1> USE DEF WireInv
<1>0. TypeOK /\ ReservationInv /\ WireInv /\ LinesCheck(file)
      /\ Len(file) \in Nat /\ DOMAIN file = 1..Len(file)
  <2>1. TypeOK /\ ReservationInv /\ WireInv /\ LinesCheck(file)
    BY DEF IInv, Readable
  <2> QED
    BY <2>1, LenProperties DEF TypeOK
<1>1. CASE UNCHANGED <<file, durable, wire>>
  BY <1>0, <1>1
<1>2. ASSUME NEW p \in Procs, SendRequest(p) PROVE WireInv'
  <2>1. /\ adm[p] \in Open(file) /\ adm[p] \in LineNums /\ adm[p] <= durable
        /\ wire[adm[p]] < file[adm[p]].body.n + MaxOverrun
        /\ wire' = [wire EXCEPT ![adm[p]] = @ + 1]
        /\ UNCHANGED <<file, durable>>
    BY <1>0, <1>2 DEF SendRequest, ReservationInv, TypeOK, disk
  <2>2. file[adm[p]].body.n \in Nat /\ MaxOverrun \in Nat
    BY <1>0, <2>1, OpenIsAdmit, BoundsAssumption DEF TypeOK
  <2>3. wire'[adm[p]] <= file[adm[p]].body.n + MaxOverrun
    BY <1>0, <2>1, <2>2 DEF TypeOK
  <2>4. \A i \in LineNums \ {adm[p]} : wire'[i] = wire[i]
    BY <1>0, <2>1 DEF TypeOK
  <2>5. adm[p] \in Kind(file, "admit")
        /\ \A j \in Kind(file, "settle") : file[j].body.admit # adm[p]
    BY <2>1 DEF Open, Settles
  <2>6. \A j \in Kind(file, "settle") : file[j].body.admit \in LineNums
    <3> SUFFICES ASSUME NEW j \in Kind(file, "settle")
                 PROVE  file[j].body.admit \in LineNums
      OBVIOUS
    <3>1. file[j].body.admit \in 1..(j - 1) /\ j \in 1..Len(file)
      BY <1>0, SettlesNameEarlier DEF Kind, TypeOK
    <3> QED
      BY <1>0, <3>1, BoundsAssumption DEF LineNums, TypeOK
  <2> QED
    BY <1>0, <2>1, <2>3, <2>4, <2>5, <2>6
<1>3. ASSUME NEW p \in Procs, Write(p) PROVE WireInv'
  <2>1. PICK b \in Bodies :
           /\ Applies(file, b) /\ file' = Appended(file, b)
           /\ b.kind = "settle" =>
                /\ pc[p] = "read" /\ req[p].op = "settle"
                /\ b.admit = req[p].admit /\ b.n = req[p].n
    BY <1>3, WriteFacts
  <2>2. \A k : Kind(file', k) = Kind(file, k) \cup
                  (IF b.kind = k THEN {Len(file) + 1} ELSE {})
    BY <1>0, <2>1, AppendChecks DEF TypeOK
  <2>3. \A i \in 1..Len(file) : file'[i] = file[i]
    BY <1>0, <2>1, AppendKeeps DEF TypeOK
  <2>4. file'[Len(file) + 1].body = b
    <3>1. file'[Len(file) + 1] = Line(file, b)
      BY <1>0, <2>1, AppendKeeps DEF TypeOK
    <3> QED
      BY <3>1 DEF Line
  <2>5. b.kind = "settle" => b.n = wire[b.admit]
    BY <1>0, <2>1 DEF ReservationInv
  <2>6. UNCHANGED <<durable, wire>>
    BY <1>3 DEF Write
  <2>7. \A k : Kind(file, k) \subseteq 1..Len(file)
    BY <1>0 DEF Kind
  <2>8. ASSUME NEW j \in Kind(file', "settle")
        PROVE  file'[j].body.n = wire[file'[j].body.admit]
    <3>1. CASE j \in Kind(file, "settle")
      BY <1>0, <3>1, <2>3, <2>7
    <3>2. CASE j = Len(file) + 1 /\ b.kind = "settle"
      BY <3>2, <2>4, <2>5
    <3> QED
      BY <3>1, <3>2, <2>2
  <2>9. ASSUME NEW i \in LineNums, wire[i] > 0
        PROVE  /\ i \in Kind(file', "admit") /\ i <= durable
               /\ wire[i] <= file'[i].body.n + MaxOverrun
    BY <1>0, <2>2, <2>3, <2>7, <2>9
  <2> QED
    BY <2>6, <2>8, <2>9
<1>4. ASSUME NEW p \in Procs, Sync(p) PROVE WireInv'
  <2>1. \A i \in LineNums : i \in Kind(file, "admit") => i <= Len(file)
    BY <1>0 DEF Kind
  <2> QED
    BY <1>0, <1>4, <2>1 DEF Sync
<1>5. CASE PowerLoss
  <2>1. PICK k \in durable..Len(file) :
            file' = SubSeq(file, 1, k) /\ durable' = k
    BY <1>5 DEF PowerLoss
  <2>2. k \in 0..Len(file) /\ durable \in Nat /\ durable <= k
    BY <1>0, <2>1 DEF TypeOK
  <2>3. /\ \A i \in 1..k : file'[i] = file[i]
        /\ \A x : Kind(file', x) = Kind(file, x) \cap 1..k
    BY <1>0, <2>1, <2>2, PrefixChecks DEF TypeOK
  <2>4. UNCHANGED wire
    BY <1>5 DEF PowerLoss
  <2>5. ASSUME NEW i \in LineNums, wire[i] > 0
        PROVE  /\ i \in Kind(file', "admit") /\ i <= k
               /\ wire[i] <= file'[i].body.n + MaxOverrun
    <3>1. i \in Kind(file, "admit") /\ i <= durable /\ i \in 1..k
      BY <1>0, <2>2, <2>5 DEF LineNums
    <3> QED
      BY <1>0, <2>3, <2>5, <3>1
  <2> QED
    BY <1>0, <2>1, <2>3, <2>4, <2>5
<1> QED
  BY <1>1, <1>2, <1>3, <1>4, <1>5
     DEF Next, vars, Start, Step, Create, Snapshot, RecordPrice, RecordHosting,
         Admit, AdmitAt, Call, Settle, LockAndRead, ReadFails,
         WriteFails, SyncFails, Crash, disk

\* Every step keeps what a caller checked apart from what it did not see.
LEMMA SnapStep ==
    ASSUME IInv, [Next]_vars
    PROVE  SnapInv'
<1> USE DEF SnapInv, Fresh
<1>0. TypeOK /\ ProtocolInv /\ ReservationInv /\ SnapInv
      /\ Len(file) \in Nat /\ Open(file) \subseteq 1..Len(file)
  <2>1. TypeOK /\ ProtocolInv /\ ReservationInv /\ SnapInv
    BY DEF IInv
  <2> QED
    BY <2>1, LenProperties, OpenIsAdmit DEF TypeOK
<1>1. ASSUME NEW p \in Procs, Create(p) PROVE SnapInv'
  BY <1>0, <1>1 DEF Create, TypeOK
<1>2. ASSUME NEW p \in Procs, NEW r \in Routes, NEW t \in Toks,
             Snapshot(p, r, t)
      PROVE  SnapInv'
  <2>1. PriceRevision(file, r) \in 0..Len(file)
    BY <1>0, RevisionType DEF TypeOK
  <2>2. /\ snap'[p] = [rev |-> PriceRevision(file, r), usd |-> Price(file, r, t)]
        /\ req'[p].route = r /\ req'[p].tok = t /\ pc'[p] = "checked"
        /\ \A q \in Procs \ {p} :
             snap'[q] = snap[q] /\ req'[q] = req[q] /\ pc'[q] = pc[q]
        /\ UNCHANGED <<file, adm>>
    BY <1>0, <1>2 DEF Snapshot, TypeOK, disk
  <2> QED
    BY <1>0, <2>1, <2>2
<1>3. ASSUME NEW p \in Procs, NEW q, Call(p, q), snap'[p] \in {snap[p], NoSnap},
             \A o \in Procs \ {p} : snap'[o] = snap[o],
             q.op = "admit" /\ snap'[p] # NoSnap =>
                /\ pc[p] = "checked" /\ q.rev = snap[p].rev /\ snap'[p] = snap[p]
                /\ q.route = req[p].route /\ q.tok = req[p].tok
      PROVE  SnapInv'
  <2>1. /\ req'[p] = q /\ pc'[p] = "opened" /\ UNCHANGED <<file, adm>>
        /\ \A o \in Procs \ {p} : req'[o] = req[o] /\ pc'[o] = pc[o]
    BY <1>0, <1>3 DEF Call, TypeOK, disk
  <2> QED
    BY <1>0, <1>3, <2>1
<1>4. ASSUME NEW p \in Procs,
             RecordPrice(p) \/ RecordHosting(p) \/ Admit(p) \/ AdmitAt(p) \/ Settle(p)
      PROVE  SnapInv'
  <2>1. CASE RecordPrice(p)
    BY <1>3, <2>1 DEF RecordPrice
  <2>2. CASE RecordHosting(p)
    BY <1>3, <2>2 DEF RecordHosting
  <2>3. CASE Admit(p)
    <3>1. /\ snap'[p] = NoSnap /\ \A o \in Procs \ {p} : snap'[o] = snap[o]
      BY <1>0, <2>3 DEF Admit, TypeOK
    <3> QED
      BY <1>3, <2>3, <3>1 DEF Admit
  <2>4. CASE AdmitAt(p)
    BY <1>3, <2>4 DEF AdmitAt
  <2>5. CASE Settle(p)
    BY <1>3, <2>5 DEF Settle
  <2> QED
    BY <1>4, <2>1, <2>2, <2>3, <2>4, <2>5
<1>5. ASSUME NEW p \in Procs, SendRequest(p) PROVE SnapInv'
  BY <1>0, <1>5 DEF SendRequest, disk
<1>6. ASSUME NEW p \in Procs, LockAndRead(p) PROVE SnapInv'
  BY <1>0, <1>6 DEF LockAndRead, TypeOK, disk
<1>7. ASSUME NEW p \in Procs, Return(p), UNCHANGED file PROVE SnapInv'
  <2>1. \A q \in Procs : IF q = p THEN pc'[q] = "idle" /\ snap'[q] = NoSnap
                         ELSE /\ pc'[q] = pc[q] /\ snap'[q] = snap[q]
                              /\ req'[q] = req[q] /\ adm'[q] = adm[q]
    BY <1>0, <1>7 DEF Return, TypeOK
  <2> QED
    BY <1>0, <1>7, <2>1
<1>8. ASSUME NEW p \in Procs,
             ReadFails(p) \/ WriteFails(p) \/ SyncFails(p) \/ Crash(p)
      PROVE  SnapInv'
  BY <1>7, <1>8 DEF ReadFails, WriteFails, SyncFails, Crash, disk
<1>9. ASSUME NEW p \in Procs, Write(p) PROVE SnapInv'
  <2>1. PICK b \in Bodies :
           /\ file' = Appended(file, b)
           /\ adm' = [adm EXCEPT ![p] = IF b.kind = "admit"
                                        THEN Len(file) + 1 ELSE 0]
           /\ b.kind = "admit" =>
                /\ pc[p] = "read" /\ req[p].op = "admit"
                /\ b.usd = Price(file, req[p].route, req[p].tok)
                /\ req[p].rev \in {AnyRevision, PriceRevision(file, req[p].route)}
    BY <1>9, WriteFacts
  <2>2. /\ Len(file') = Len(file) + 1
        /\ \A i \in 1..Len(file) : file'[i] = file[i]
        /\ file'[Len(file) + 1].body = b
    <3>1. /\ Len(file') = Len(file) + 1
          /\ \A i \in 1..Len(file) : file'[i] = file[i]
          /\ file'[Len(file) + 1] = Line(file, b)
      BY <1>0, <2>1, AppendKeeps DEF TypeOK
    <3> QED
      BY <3>1 DEF Line
  <2>3. /\ pc'[p] = "written" /\ UNCHANGED <<req, snap>>
        /\ adm'[p] = IF b.kind = "admit" THEN Len(file) + 1 ELSE 0
        /\ \A q \in Procs \ {p} : pc'[q] = pc[q] /\ adm'[q] = adm[q]
    BY <1>0, <1>9, <2>1 DEF Write, TypeOK
  <2>4. ASSUME NEW q \in Procs, NEW r, NEW t, Fresh(q, r, t) PROVE Fresh(q, r, t)'
    <3>1. IF b.kind = "price" /\ b.route = r
          THEN PriceRevision(file', r) = Len(file) + 1
          ELSE /\ PriceRevision(file', r) = PriceRevision(file, r)
               /\ Price(file', r, t) = Price(file, r, t)
      BY <1>0, <2>1, PriceAppend DEF TypeOK
    <3> QED
      BY <1>0, <2>2, <2>3, <2>4, <3>1
  <2>5. b.kind = "admit" /\ snap[p] # NoSnap => b.usd = snap[p].usd
    <3> SUFFICES ASSUME b.kind = "admit", snap[p] # NoSnap PROVE b.usd = snap[p].usd
      OBVIOUS
    <3>1. req[p].rev = snap[p].rev /\ Fresh(p, req[p].route, req[p].tok)
      BY <1>0, <2>1
    <3>2. req[p].rev # AnyRevision
      BY <1>0, <3>1 DEF AnyRevision
    <3> QED
      BY <2>1, <3>1, <3>2
  <2>6. ASSUME NEW q \in Procs, adm[q] # 0 PROVE file'[adm[q]] = file[adm[q]]
    BY <1>0, <2>2, <2>6 DEF ReservationInv
  <2> HIDE DEF Fresh
  <2> QED
    BY <1>0, <2>2, <2>3, <2>4, <2>5, <2>6
<1>10. ASSUME NEW p \in Procs, Sync(p) PROVE SnapInv'
  <2>1. /\ pc[p] = "written" /\ UNCHANGED <<file, adm>>
        /\ IF adm[p] # 0 THEN pc'[p] = "sending" /\ snap'[p] = snap[p]
           ELSE pc'[p] = "idle" /\ snap'[p] = NoSnap
        /\ \A q \in Procs \ {p} :
             pc'[q] = pc[q] /\ req'[q] = req[q] /\ snap'[q] = snap[q]
    BY <1>0, <1>10 DEF Sync, TypeOK
  <2> QED
    BY <1>0, <2>1
<1>11. CASE PowerLoss
  <2>1. \A q \in Procs : pc'[q] = "idle" /\ snap'[q] = NoSnap
    BY <1>11 DEF PowerLoss
  <2> QED
    BY <2>1
<1>12. CASE UNCHANGED vars
  BY <1>0, <1>12 DEF vars
<1> QED
  BY <1>1, <1>2, <1>4, <1>5, <1>6, <1>8, <1>9, <1>10, <1>11, <1>12
     DEF Next, Start, Step

\* IInv holds in every reachable state.
THEOREM Inductive == Spec => []IInv
<1>1. IInv /\ [Next]_vars => IInv'
  BY TypeStep, ProtocolStep, FileStep, ReservationStep, WireStep, SnapStep DEF IInv
<1> QED
  BY InitInv, <1>1, PTL DEF Spec

(***************************************************************************)
(* The results.                                                            *)
(***************************************************************************)

\* Every variable of the ledger and of its processes keeps its type.
THEOREM TypeCorrect == Spec => []TypeOK
<1>1. IInv => TypeOK
  BY DEF IInv
<1> QED
  BY Inductive, <1>1, PTL

\* However many processes share the file, and wherever they or the host die,
\* Parse never refuses a whole line that update wrote.
THEOREM AlwaysReadable == Spec => []Readable
<1>1. IInv => Readable
  BY DEF IInv
<1> QED
  BY Inductive, <1>1, PTL

\* Every admission was within every cap at its place in the file.
THEOREM CapsEnforced == Spec => []AdmittedWithinCaps
<1>1. IInv => AdmittedWithinCaps
  BY DEF IInv
<1> QED
  BY Inductive, <1>1, PTL

\* Processes send only under synced, open admissions of their own.
THEOREM ReservationsHeld == Spec => []SendersHoldReservations
<1>1. IInv => SendersHoldReservations
  BY DEF IInv, ReservationInv, SendersHoldReservations
<1> QED
  BY Inductive, <1>1, PTL

\* Every request sent is charged: up to its reservation (and an overrun)
\* while its admission is open, exactly once settled.
THEOREM NothingUncharged == Spec => []SentIsCharged
<1>1. ASSUME IInv PROVE SentIsCharged
  <2>1. ASSUME NEW i \in LineNums, wire[i] > 0
        PROVE  /\ i \in Kind(file, "admit")
               /\ IF i \in Open(file)
                  THEN wire[i] <= Charge(file, i) + MaxOverrun
                  ELSE wire[i] = Charge(file, i)
    <3>1. /\ i \in Kind(file, "admit")
          /\ wire[i] <= file[i].body.n + MaxOverrun
      BY <1>1, <2>1 DEF IInv, WireInv
    <3>2. CASE i \in Open(file)
      BY <3>1, <3>2 DEF Charge
    <3>3. CASE i \notin Open(file)
      <4> DEFINE j == CHOOSE x \in Settles(file, i) : TRUE
      <4>1. Settles(file, i) # {}
        BY <3>1, <3>3 DEF Open
      <4>2. j \in Settles(file, i)
        BY <4>1
      <4>3. file[j].body.n = wire[i]
        BY <1>1, <4>2 DEF Settles, IInv, WireInv
      <4> QED
        BY <3>1, <3>3, <4>3 DEF Charge
    <3> QED
      BY <3>2, <3>3
  <2> QED
    BY <2>1 DEF SentIsCharged
<1> QED
  BY Inductive, <1>1, PTL

\* However prices are recorded between a caller's check and its admission, it
\* sends under an admission at the price it checked.
THEOREM CheckedPriceHolds == Spec => []AdmittedAtCheckedPrice
<1>1. IInv => AdmittedAtCheckedPrice
  BY DEF IInv, SnapInv, ReservationInv, AdmittedAtCheckedPrice
<1> QED
  BY Inductive, <1>1, PTL

\* After an incomplete line nothing is ever appended.
THEOREM TornIsFinal == Spec => TornStopsLedger
<1>1. ASSUME IInv, [Next]_vars
      PROVE  [torn => Len(file') <= Len(file)]_vars
  <2>1. CASE UNCHANGED file
    BY <1>1, <2>1, LenProperties DEF IInv, TypeOK
  <2>2. ASSUME NEW p \in Procs, Write(p) PROVE ~torn
    BY <1>1, <2>2, WriteFacts
  <2>3. CASE PowerLoss
    <3>1. PICK k \in durable..Len(file) : file' = SubSeq(file, 1, k)
      BY <2>3 DEF PowerLoss
    <3>2. k \in 0..Len(file) /\ file \in Seq(Lines)
      BY <1>1, <3>1, LenProperties DEF IInv, TypeOK
    <3>3. Len(file') = k
      BY <3>1, <3>2, PrefixChecks
    <3> QED
      BY <3>2, <3>3
  <2> QED
    BY <1>1, <2>1, <2>2, <2>3
       DEF Next, vars, Start, Step, Create, Snapshot, RecordPrice,
           RecordHosting, Admit, AdmitAt, Call, SendRequest, Settle,
           LockAndRead, ReadFails, WriteFails, Sync, SyncFails, Crash, disk
<1> QED
  BY Inductive, <1>1, PTL DEF Spec, TornStopsLedger

(***************************************************************************)
(* The refinement of RequestBudget.                                        *)
(***************************************************************************)

\* Where the cap is set and runs stay within their reservations.
Budgeted == TotalRequests > 0 /\ MaxOverrun = 0

\* The file is within the cap, and so is whatever a power loss leaves of it.
BudgetInv == \A k \in 0..Len(file) : Total(SubSeq(file, 1, k)) <= TotalRequests

\* All of a sequence is the sequence.
LEMMA WholeIs ==
    ASSUME NEW f \in Seq(Lines)
    PROVE  SubSeq(f, 1, Len(f)) = f
<1>1. Len(f) \in Nat /\ Len(f) \in 0..Len(f)
  BY LenProperties
<1>2. LET g == SubSeq(f, 1, Len(f)) IN
      g \in Seq(Lines) /\ Len(g) = Len(f) /\ \A i \in 1..Len(f) : g[i] = f[i]
  BY <1>1, PrefixChecks
<1> QED
  BY <1>2, SeqEqual

\* Two files with the same first k lines have the same prefix.
LEMMA SamePrefix ==
    ASSUME NEW f \in Seq(Lines), NEW g \in Seq(Lines), NEW k \in 0..Len(f), k <= Len(g),
           \A i \in 1..k : g[i] = f[i]
    PROVE  SubSeq(g, 1, k) = SubSeq(f, 1, k)
<1>1. k \in 0..Len(g)
  BY LenProperties
<1>2. LET h == SubSeq(f, 1, k) IN
      h \in Seq(Lines) /\ Len(h) = k /\ \A i \in 1..k : h[i] = f[i]
  BY PrefixChecks
<1>3. LET h == SubSeq(g, 1, k) IN
      h \in Seq(Lines) /\ Len(h) = k /\ \A i \in 1..k : h[i] = g[i]
  BY <1>1, PrefixChecks
<1> QED
  BY <1>2, <1>3, SeqEqual

\* Requests w that the file f charges are at most what it charges in all.
Covered(f, w) ==
    \A i \in LineNums : w[i] > 0 => i \in Kind(f, "admit") /\ w[i] <= Charge(f, i)

LEMMA SpentIsCharged ==
    ASSUME NEW f \in Seq(Lines), Len(f) <= MaxLines, NEW w \in [LineNums -> Nat], Covered(f, w)
    PROVE  /\ AddUp(w, 1, MaxLines) \in Nat /\ Total(f) \in Nat
           /\ AddUp(w, 1, MaxLines) <= Total(f)
<1>0. MaxLines \in Nat /\ Len(f) \in Nat /\ DOMAIN f = 1..Len(f) /\ LineNums = 1..MaxLines
  BY BoundsAssumption, LenProperties DEF LineNums
<1>2. Addends(w, 1, MaxLines) /\ Addends(Charges(f), 1, Len(f))
  <2>1. \A k \in 1..MaxLines : w[1 + k - 1] \in Nat
    BY <1>0
  <2> QED
    BY <1>0, <2>1, ChargesAdd DEF Addends
<1>3. ASSUME NEW k \in 1..Len(f) PROVE w[k] <= Charges(f)[k]
  <2>1. k \in LineNums /\ w[k] \in Nat /\ Charges(f)[k] \in Nat /\ k \in DOMAIN f
    BY <1>0, ChargesAdd
  <2>2. CASE w[k] > 0
    BY <2>1, <2>2 DEF Covered, Charges
  <2>3. CASE ~(w[k] > 0)
    BY <2>1, <2>3
  <2> QED
    BY <2>2, <2>3
<1>4. ASSUME NEW k \in (Len(f) + 1)..MaxLines PROVE w[k] = 0
  <2>1. k \in LineNums /\ w[k] \in Nat /\ k \notin DOMAIN f
    BY <1>0
  <2> QED
    BY <2>1 DEF Covered, Kind
<1>5. AddUp(w, 1, MaxLines) <= AddUp(Charges(f), 1, Len(f))
  BY <1>0, <1>2, <1>3, <1>4, AddUpAtMost
<1> QED
  BY <1>2, <1>5, AddUpNext DEF Total

\* Before Create nothing is charged and nothing sent.
LEMMA BudgetStarts ==
    ASSUME Init
    PROVE  BudgetInv /\ Budget!Init
<1>0. /\ file = << >> /\ << >> \in Seq(Lines) /\ Len(<< >>) = 0
      /\ wire = [i \in LineNums |-> 0] /\ MaxLines \in Nat /\ TotalRequests \in Nat
  BY BoundsAssumption, CapsAssumption DEF Init
<1>1. Total(<< >>) = 0
  <2>1. Addends(Charges(<< >>), 1, 0)
    BY <1>0, ChargesAdd
  <2> QED
    BY <1>0, <2>1, AddUpNext DEF Total
<1>2. wire \in [LineNums -> Nat] /\ Covered(<< >>, wire)
  BY <1>0 DEF Covered
<1>3. AddUp(wire, 1, MaxLines) \in Nat /\ AddUp(wire, 1, MaxLines) <= 0
  <2>1. Len(<< >>) <= MaxLines
    BY <1>0
  <2>2. AddUp(wire, 1, MaxLines) \in Nat /\ AddUp(wire, 1, MaxLines) <= Total(<< >>)
    BY <1>0, <1>2, <2>1, SpentIsCharged
  <2> QED
    BY <1>1, <2>2
<1>4. BudgetInv
  <2>1. SubSeq(<< >>, 1, 0) = << >>
    BY <1>0, WholeIs
  <2>2. ASSUME NEW k \in 0..Len(file) PROVE Total(SubSeq(file, 1, k)) <= TotalRequests
    <3>1. k = 0
      BY <1>0
    <3>2. SubSeq(file, 1, k) = << >>
      BY <1>0, <2>1, <3>1
    <3>3. Total(SubSeq(file, 1, k)) = 0
      BY <1>1, <3>2, Zenon
    <3> QED
      BY <1>0, <3>3
  <2> QED
    BY <2>2 DEF BudgetInv
<1>5. AddUp(wire, 1, MaxLines) = 0
  BY <1>3
<1> QED
  BY <1>0, <1>1, <1>4, <1>5 DEF Budget!Init

\* The lines stay within the cap: an admission was checked against all the
\* lines before it, and a settlement counts no more than its reservation.
LEMMA BudgetStep ==
    ASSUME Budgeted, IInv, IInv', BudgetInv, [Next]_vars
    PROVE  BudgetInv'
<1>0. /\ file \in Seq(Lines) /\ file' \in Seq(Lines) /\ Len(file) \in Nat
      /\ TotalRequests \in Nat /\ LinesCheck(file)
  BY CapsAssumption, LenProperties DEF IInv, TypeOK, Readable
<1>1. CASE UNCHANGED file
  BY <1>1 DEF BudgetInv
<1>2. ASSUME NEW p \in Procs, Write(p) PROVE BudgetInv'
  <2>1. PICK b \in Bodies :
           /\ Applies(file, b) /\ file' = Appended(file, b)
           /\ b.kind = "admit" => WithinCaps(file, b.route, b.tok, b.n)
           /\ b.kind = "settle" => /\ pc[p] = "read" /\ req[p].op = "settle"
                                   /\ b.admit = req[p].admit /\ b.n = req[p].n
    BY <1>2, WriteFacts
  <2>2. b.kind = "settle" => b.n <= file[b.admit].body.n
    <3> SUFFICES ASSUME b.kind = "settle" PROVE b.n <= file[b.admit].body.n
      OBVIOUS
    <3>1. adm[p] # 0 /\ b.admit = adm[p] /\ b.n = wire[b.admit] /\ b.admit \in Open(file)
      BY <2>1 DEF IInv, ReservationInv
    <3>2. b.admit \in LineNums
      BY <3>1 DEF IInv, TypeOK
    <3>3. wire[b.admit] \in Nat /\ file[b.admit].body.n \in Nat
      BY <1>0, <3>1, <3>2, OpenIsAdmit DEF IInv, TypeOK
    <3>4. wire[b.admit] > 0 => wire[b.admit] <= file[b.admit].body.n + MaxOverrun
      BY <3>2 DEF IInv, WireInv
    <3> QED
      BY <3>1, <3>3, <3>4 DEF Budgeted
  <2>3. Total(file') <= Total(file) + (IF b.kind = "admit" THEN b.n ELSE 0)
    BY <1>0, <2>1, <2>2, TotalAppend
  <2>4. b.kind = "admit" => Total(file) + b.n <= TotalRequests
    BY <2>1 DEF WithinCaps, Budgeted
  <2>5. Total(file) <= TotalRequests
    <3>1. Len(file) \in 0..Len(file) /\ SubSeq(file, 1, Len(file)) = file
      BY <1>0, WholeIs
    <3> QED
      BY <3>1 DEF BudgetInv
  <2>6. Total(file) \in Nat /\ Total(file') \in Nat
    BY <1>0, ChargesAdd, AddUpNext DEF Total
  <2>7. Total(file') <= TotalRequests
    <3>1. CASE b.kind = "admit"
      <4>1. Total(file') <= Total(file) + b.n /\ Total(file) + b.n <= TotalRequests /\ b.n \in Nat
        BY <2>3, <2>4, <3>1, BoundsAssumption DEF Bodies
      <4> QED
        BY <1>0, <2>6, <4>1
    <3>2. CASE b.kind # "admit"
      BY <1>0, <2>3, <2>5, <2>6, <3>2
    <3> QED
      BY <3>1, <3>2
  <2>8. /\ Len(file') = Len(file) + 1
        /\ \A i \in 1..Len(file) : file'[i] = file[i]
    BY <1>0, <2>1, AppendKeeps
  <2>9. ASSUME NEW k \in 0..Len(file') PROVE Total(SubSeq(file', 1, k)) <= TotalRequests
    <3>1. CASE k = Len(file')
      BY <1>0, <2>7, <3>1, WholeIs
    <3>2. CASE k # Len(file')
      <4>1. k \in 0..Len(file)
        BY <1>0, <2>8, <3>2
      <4>3. k <= Len(file') /\ \A i \in 1..k : file'[i] = file[i]
        BY <1>0, <2>8, <4>1
      <4>2. SubSeq(file', 1, k) = SubSeq(file, 1, k)
        BY <1>0, <2>8, <4>1, <4>3, SamePrefix
      <4> QED
        BY <4>1, <4>2 DEF BudgetInv
    <3> QED
      BY <3>1, <3>2
  <2> QED
    BY <2>9 DEF BudgetInv
<1>3. CASE PowerLoss
  <2>1. PICK k \in durable..Len(file) : file' = SubSeq(file, 1, k)
    BY <1>3 DEF PowerLoss
  <2>2. k \in 0..Len(file)
    BY <1>0 DEF IInv, TypeOK
  <2>3. Len(file') = k /\ \A i \in 1..k : file'[i] = file[i]
    BY <1>0, <2>1, <2>2, PrefixChecks
  <2>4. ASSUME NEW m \in 0..Len(file') PROVE Total(SubSeq(file', 1, m)) <= TotalRequests
    <3>1. m \in 0..Len(file) /\ m <= Len(file') /\ \A i \in 1..m : file'[i] = file[i]
      BY <1>0, <2>2, <2>3
    <3>2. SubSeq(file', 1, m) = SubSeq(file, 1, m)
      BY <1>0, <3>1, SamePrefix
    <3> QED
      BY <3>1, <3>2 DEF BudgetInv
  <2> QED
    BY <2>4 DEF BudgetInv
<1> QED
  BY <1>1, <1>2, <1>3
     DEF Next, vars, Start, Step, Create, Snapshot, RecordPrice,
         RecordHosting, Admit, AdmitAt, Call, SendRequest, Settle,
         LockAndRead, ReadFails, WriteFails, Sync, SyncFails, Crash, disk

\* Every step of the ledger is a step of the budget or leaves it alone.
LEMMA StepRefines ==
    ASSUME Budgeted, IInv, IInv', SentIsCharged, SentIsCharged', BudgetInv', [Next]_vars
    PROVE  [Budget!Next]_(Budget!budgetVars)
<1> DEFINE c == Total(file)
           s == AddUp(wire, 1, MaxLines)
<1>0. TotalRequests \in Nat /\ file' \in Seq(Lines)
  BY CapsAssumption DEF IInv, TypeOK
<1>1. c \in Nat /\ s \in Nat /\ s <= c
  <2>1. file \in Seq(Lines) /\ Len(file) <= MaxLines /\ wire \in [LineNums -> Nat]
    BY DEF IInv, TypeOK
  <2>2. Covered(file, wire)
    <3> SUFFICES ASSUME NEW i \in LineNums, wire[i] > 0
                 PROVE  i \in Kind(file, "admit") /\ wire[i] <= Charge(file, i)
      BY DEF Covered
    <3>1. i \in Kind(file, "admit") /\ (wire[i] <= Charge(file, i) + MaxOverrun \/ wire[i] = Charge(file, i))
      BY DEF SentIsCharged
    <3>2. Charge(file, i) \in Nat
      BY <2>1, <3>1, ChargeType
    <3> QED
      BY <2>1, <3>1, <3>2 DEF Budgeted
  <2> QED
    BY <2>1, <2>2, SpentIsCharged
<1>2. c' \in Nat /\ s' \in Nat /\ s' <= c'
  <2>1. file' \in Seq(Lines) /\ Len(file') <= MaxLines /\ wire' \in [LineNums -> Nat]
    BY DEF IInv, TypeOK
  <2>2. Covered(file', wire')
    <3> SUFFICES ASSUME NEW i \in LineNums, wire'[i] > 0
                 PROVE  i \in Kind(file', "admit") /\ wire'[i] <= Charge(file', i)
      BY DEF Covered
    <3>1. i \in Kind(file', "admit") /\ (wire'[i] <= Charge(file', i) + MaxOverrun \/ wire'[i] = Charge(file', i))
      BY DEF SentIsCharged
    <3>2. Charge(file', i) \in Nat
      BY <2>1, <3>1, ChargeType
    <3> QED
      BY <2>1, <3>1, <3>2 DEF Budgeted
  <2>3. AddUp(wire', 1, MaxLines) \in Nat /\ Total(file') \in Nat /\ AddUp(wire', 1, MaxLines) <= Total(file')
    BY <2>1, <2>2, SpentIsCharged
  <2> QED
    BY <2>3
<1>3. c' <= TotalRequests
  <2>1. Len(file') \in 0..Len(file') /\ SubSeq(file', 1, Len(file')) = file'
    BY <1>0, WholeIs, LenProperties
  <2> QED
    BY <2>1 DEF BudgetInv
<1>4. CASE UNCHANGED wire
  <2>1. s' = s
    BY <1>4
  <2> HIDE DEF c, s
  <2>2. c' = c \/ c' \in (c + 1)..TotalRequests \/ c' \in s..(c - 1)
    BY <1>0, <1>1, <1>2, <1>3, <2>1
  <2> QED
    BY <2>1, <2>2 DEF Budget!Next, Budget!Reserve, Budget!Release, Budget!budgetVars, c, s
<1>5. ASSUME NEW p \in Procs, SendRequest(p) PROVE Budget!Spend
  <2>1. c' = c
    BY <1>5 DEF SendRequest, disk
  <2>2. adm[p] \in 1..MaxLines
    BY <1>5 DEF SendRequest, IInv, TypeOK, ReservationInv, LineNums
  <2>3. wire \in [1..MaxLines -> Nat] /\ MaxLines \in Nat
    BY BoundsAssumption DEF IInv, TypeOK, LineNums
  <2>4. wire' = [wire EXCEPT ![adm[p]] = @ + 1]
    BY <1>5 DEF SendRequest
  <2>5. Addends(wire, 1, MaxLines) /\ Addends(wire', 1, MaxLines)
    <3>1. \A k \in 1..MaxLines : 1 + k - 1 = k
      BY <2>3
    <3>2. \A k \in 1..MaxLines : wire[k] \in Nat /\ wire'[k] \in Nat
      BY <2>2, <2>3, <2>4
    <3> QED
      BY <2>3, <3>1, <3>2 DEF Addends
  <2>6. wire'[adm[p]] = wire[adm[p]] + 1 /\ \A k \in 1..MaxLines : k # adm[p] => wire'[k] = wire[k]
    BY <2>2, <2>3, <2>4
  <2>7. s' = s + 1
    BY <2>2, <2>5, <2>6, AddUpRaised
  <2>8. s < c
    <3> HIDE DEF c, s
    <3> QED
      BY <1>1, <1>2, <2>1, <2>7
  <2> QED
    BY <2>1, <2>7, <2>8 DEF Budget!Spend, c, s
<1> QED
  BY <1>4, <1>5
     DEF Next, vars, Start, Step, Create, Snapshot, RecordPrice,
         RecordHosting, Admit, AdmitAt, Call, Settle, Write, PowerLoss,
         LockAndRead, ReadFails, WriteFails, Sync, SyncFails, Crash, disk, Budget!Next

\* Where the cap is set and runs stay within their reservations, the ledger
\* implements a budget of requests that is reserved before it is spent:
\* however many processes share it and wherever they or the host die, what was
\* sent never passes what is charged, nor that the cap.
THEOREM LedgerImplementsBudget == Budgeted => (Spec => ImplementsBudget)
<1> SUFFICES ASSUME Budgeted PROVE Spec => ImplementsBudget
  OBVIOUS
<1>1. Init => BudgetInv /\ Budget!Init
  BY BudgetStarts
<1>2. IInv /\ IInv' /\ BudgetInv /\ [Next]_vars => BudgetInv'
  BY BudgetStep
<1>3. IInv /\ IInv' /\ SentIsCharged /\ SentIsCharged' /\ BudgetInv' /\ [Next]_vars
        => [Budget!Next]_(Budget!budgetVars)
  BY StepRefines
<1> QED
  BY Inductive, NothingUncharged, <1>1, <1>2, <1>3, PTL DEF Spec, ImplementsBudget, Budget!Spec
=============================================================================
