------------------------- MODULE PilotSessionProofs -------------------------
(***************************************************************************)
(* Proofs about PilotSession, for any labels, slots and processes, any     *)
(* maxGap and an unbounded clock.                                          *)
(*                                                                         *)
(* That a label's record is written by one process is a matter of who      *)
(* created it: the record names its process, only a process that found     *)
(* none creates one, and only a process it names replaces it (Owned,       *)
(* Exited).  That the record's windows are in order is a matter of the     *)
(* clock (Timed).                                                          *)
(*                                                                         *)
(* The last part is about NewSchedule, for any dates and numbers drawn.    *)
(***************************************************************************)
EXTENDS PilotSession, FiniteSetTheorems, TLAPS

\* A session command's process.
ProcType ==
    [at : {"waiting", "window", "load", "finish", "gone"}, label : Labels \cup {None},
     replaces : Sessions \cup {None}, windows : Seq(WindowType), aborted : BOOLEAN, err : BOOLEAN]

TypeInv ==
    /\ now \in Int
    /\ procs \in [Procs -> ProcType \cup {None}]
    /\ out \in [Labels -> RecordType \cup {None}]
    /\ dev \in Seq(Configs)
    /\ exits \subseteq Procs \X Labels

\* The process has created its label's record.
Runs(p) == procs[p] # None /\ procs[p].at \in {"window", "load", "finish"}

\* A process that waits has no window yet.
Waits == \A p \in Procs : At(p, "waiting") => procs[p].label \in Labels /\ procs[p].windows = <<>>

\* The record of a process that runs is its own.
Owned ==
    \A p \in Procs : Runs(p) =>
        /\ procs[p].label \in Labels
        /\ out[procs[p].label] # None /\ out[procs[p].label].by = p

\* What the times of one window are worth: none is before the slot or after
\* the clock, the load drained after it began, and only a window that
\* drained is client-valid.
InOrder(w, slot) ==
    /\ w.epoch # None => slot <= w.epoch /\ w.epoch <= now
    /\ w.drained # None => w.epoch # None /\ w.epoch <= w.drained /\ w.drained <= now
    /\ w.valid => w.drained # None

\* A process that runs began at its slot, has at most two windows, the last
\* of them open while the load runs, and began the second after the first
\* drained.
TimedProc(x) ==
    /\ Slot[x.label] <= now /\ Len(x.windows) <= 2
    /\ x.at = "window" => Len(x.windows) <= 1
    /\ x.at = "load" => Len(x.windows) \in 1..2 /\ x.windows[Len(x.windows)].epoch # None
    /\ \A i \in 1..Len(x.windows) : InOrder(x.windows[i], Slot[x.label])
    /\ Len(x.windows) = 2 /\ x.windows[1].drained # None /\ x.windows[2].epoch # None =>
         x.windows[1].drained <= x.windows[2].epoch

Timed == \A p \in Procs : Runs(p) => TimedProc(procs[p])

\* The record a session that exited 0 left.
Complete(rec, slot) ==
    /\ Valid(rec) = 2 /\ Len(rec.windows) = 2
    /\ slot <= rec.windows[1].epoch
    /\ rec.windows[1].drained <= rec.windows[2].epoch
    /\ rec.windows[2].epoch <= rec.windows[1].drained + MaxGap

\* It is on record as the process left it, and that process runs the
\* session no more.
Exited ==
    \A e \in exits :
        /\ ~(Runs(e[1]) /\ procs[e[1]].label = e[2])
        /\ out[e[2]] # None /\ out[e[2]].by = e[1] /\ Complete(out[e[2]], Slot[e[2]])

\* dev-2 keeps the frozen parts of dev-1 and is not dev-1.
Revised == Len(dev) <= 2 /\ (Len(dev) = 2 => dev[2][1] = dev[1][1] /\ dev[2] # dev[1])

\* The inductive invariant.
IInv == TypeInv /\ Waits /\ Owned /\ Timed /\ Exited /\ Revised

(***************************************************************************)
(* One process moves.                                                      *)
(***************************************************************************)

\* A step of process p that writes no record keeps the invariant, provided
\* p only runs on if it ran, and its windows are in order.
LEMMA ProcStep ==
    ASSUME SessionConstants, IInv, NEW p \in Procs, NEW x \in ProcType,
           procs' = [procs EXCEPT ![p] = x], UNCHANGED <<now, out, dev, exits>>,
           x.at = "waiting" => x.label \in Labels /\ x.windows = <<>>,
           x.at \in {"window", "load", "finish"} =>
               Runs(p) /\ x.label = procs[p].label /\ TimedProc(x)
    PROVE  IInv'
<1>1. TypeInv'
  BY DEF IInv, TypeInv
<1>2. procs'[p] = x /\ \A q \in Procs : q # p => procs'[q] = procs[q]
  BY DEF IInv, TypeInv
<1>3. Waits'
  BY <1>2 DEF IInv, Waits, At
<1>4. \A q \in Procs : Runs(q)' => Runs(q) /\ procs'[q].label = procs[q].label
  BY <1>2 DEF Runs
<1>5. Owned'
  BY <1>4 DEF IInv, Owned
<1>6. Timed'
  <2> SUFFICES ASSUME NEW q \in Procs, Runs(q)' PROVE TimedProc(procs[q])'
    BY DEF Timed
  <2>1. CASE q = p
    <3>1. TimedProc(x)
      BY <2>1, <1>2 DEF Runs
    <3> QED
      BY <3>1, <2>1, <1>2 DEF TimedProc, InOrder
  <2>2. CASE q # p
    <3>1. TimedProc(procs[q])
      BY <1>4 DEF Timed, IInv
    <3> QED
      BY <3>1, <2>2, <1>2 DEF TimedProc, InOrder
  <2> QED
    BY <2>1, <2>2
<1>7. Exited'
  <2> SUFFICES ASSUME NEW e \in exits
               PROVE  /\ ~(Runs(e[1])' /\ procs'[e[1]].label = e[2])
                      /\ out[e[2]] # None /\ out[e[2]].by = e[1] /\ Complete(out[e[2]], Slot[e[2]])
    BY DEF Exited, Complete, Valid
  <2>1. e[1] \in Procs
    BY DEF IInv, TypeInv
  <2> QED
    BY <2>1, <1>4 DEF IInv, Exited
<1>8. Revised'
  BY DEF IInv, Revised
<1> QED
  BY <1>1, <1>3, <1>5, <1>6, <1>7, <1>8 DEF IInv

\* The commands' checks: a process that starts waits.
LEMMA StartKeeps ==
    ASSUME SessionConstants, IInv, NEW p \in Procs, NEW l \in Labels,
           NEW s \in Sessions \cup {None}, Start(p, l, s)
    PROVE  IInv'
<1> DEFINE x == [at |-> "waiting", label |-> l, replaces |-> s, windows |-> <<>>,
                 aborted |-> FALSE, err |-> FALSE]
<1>1. x \in ProcType
  BY DEF ProcType
<1>2. procs' = [procs EXCEPT ![p] = x] /\ UNCHANGED <<now, out, dev, exits>>
  BY DEF Start
<1> QED
  BY <1>1, <1>2, ProcStep

\* A process that ends, or dies, is gone.
LEMMA EndsKeeps ==
    ASSUME SessionConstants, IInv, NEW p \in Procs, Ends(p), UNCHANGED <<now, out, dev, exits>>
    PROVE  IInv'
<1>1. Gone \in ProcType
  BY DEF ProcType, Gone
<1>2. Gone.at = "gone"
  BY DEF Gone
<1> QED
  BY <1>1, <1>2, ProcStep DEF Ends

\* An abort ends a process that waits, and marks one that runs.
LEMMA AbortKeeps ==
    ASSUME SessionConstants, IInv, NEW p \in Procs, Abort(p)
    PROVE  IInv'
<1>1. CASE At(p, "waiting")
  BY <1>1, EndsKeeps DEF Abort
<1>2. CASE ~At(p, "waiting")
  <2> DEFINE x == [procs[p] EXCEPT !.aborted = TRUE]
  <2>1. procs[p] \in ProcType /\ Runs(p) /\ procs' = [procs EXCEPT ![p] = x]
    BY <1>2 DEF Abort, At, IInv, TypeInv, Runs
  <2>2. x \in ProcType /\ x.at = procs[p].at /\ x.label = procs[p].label /\ x.windows = procs[p].windows
    BY <2>1 DEF ProcType
  <2>3. TimedProc(procs[p])
    BY <2>1 DEF IInv, Timed
  <2>4. TimedProc(x)
    BY <2>2, <2>3 DEF TimedProc
  <2>5. UNCHANGED <<now, out, dev, exits>> /\ x.at # "waiting"
    BY <2>1, <2>2 DEF Abort, Runs
  <2> HIDE DEF x
  <2> QED
    BY <2>1, <2>2, <2>4, <2>5, ProcStep
<1> QED
  BY <1>1, <1>2

\* What Append gives.
LEMMA AppendFacts ==
    ASSUME NEW S, NEW ws \in Seq(S), NEW w \in S
    PROVE  /\ Append(ws, w) \in Seq(S) /\ Len(Append(ws, w)) = Len(ws) + 1
           /\ Append(ws, w)[Len(ws) + 1] = w
           /\ \A i \in 1..Len(ws) : Append(ws, w)[i] = ws[i]
OBVIOUS

\* An element of a sequence is of its set.
LEMMA ElementOf ==
    ASSUME NEW S, NEW s \in Seq(S), NEW i \in 1..Len(s)
    PROVE  s[i] \in S
OBVIOUS

\* A sequence with one element replaced.
LEMMA ReplaceFacts ==
    ASSUME NEW S, NEW ws \in Seq(S), NEW w \in S, NEW n \in 1..Len(ws)
    PROVE  /\ ws[n] \in S
           /\ [ws EXCEPT ![n] = w] \in Seq(S) /\ Len([ws EXCEPT ![n] = w]) = Len(ws)
           /\ [ws EXCEPT ![n] = w][n] = w
           /\ \A i \in 1..Len(ws) : i # n => [ws EXCEPT ![n] = w][i] = ws[i]
OBVIOUS

\* What appending a window to those of a process that begins one gives.
LEMMA AppendTimed ==
    ASSUME SessionConstants, IInv, NEW p \in Procs, At(p, "window"), NEW w \in WindowType,
           InOrder(w, Slot[procs[p].label]),
           NEW x \in ProcType, x.label = procs[p].label,
           x.windows = Append(procs[p].windows, w), x.at \in {"window", "load", "finish"},
           x.at = "window" => procs[p].windows = <<>>,
           x.at = "load" => w.epoch # None,
           w.epoch # None => w.epoch = now
    PROVE  TimedProc(x)
<1> DEFINE ws == procs[p].windows
           n == Len(ws)
           slot == Slot[procs[p].label]
<1>1. Runs(p) /\ procs[p] \in ProcType /\ ws \in Seq(WindowType) /\ TimedProc(procs[p])
  BY DEF IInv, TypeInv, At, Runs, Timed, ProcType
<1>2. n \in 0..1 /\ Len(x.windows) = n + 1 /\ x.windows[n + 1] = w
       /\ \A i \in 1..n : x.windows[i] = ws[i]
  <2>1. n \in Nat /\ n <= 1
    BY <1>1 DEF TimedProc, At
  <2>2. /\ Len(x.windows) = n + 1 /\ x.windows[n + 1] = w
        /\ \A i \in 1..n : x.windows[i] = ws[i]
    BY <1>1, AppendFacts
  <2>3. n \in 0..1
    <3> HIDE DEF n
    <3> QED
      BY <2>1
  <2> QED
    BY <2>2, <2>3, Zenon
<1>3. \A i \in 1..n : InOrder(ws[i], slot)
  BY <1>1 DEF TimedProc
<1>4. \A i \in 1..n + 1 : InOrder(x.windows[i], slot)
  BY <1>2, <1>3
<1>5. n = 1 /\ ws[1].drained # None /\ w.epoch # None => ws[1].drained <= w.epoch
  BY <1>3 DEF InOrder
<1>6. ws = <<>> => n = 0
  OBVIOUS
<1>7. Slot[x.label] <= now
  BY <1>1 DEF TimedProc
<1> QED
  BY <1>2, <1>4, <1>5, <1>6, <1>7 DEF TimedProc

\* A step that adds a window with no times, or one that begins now.
LEMMA AddsKeeps ==
    ASSUME SessionConstants, IInv, NEW p \in Procs, At(p, "window"), NEW w \in WindowType,
           ~w.valid, w.drained = None, w.epoch # None => w.epoch = now,
           NEW at \in {"window", "load", "finish"}, NEW err \in BOOLEAN,
           at = "window" => procs[p].windows = <<>>, at = "load" => w.epoch # None,
           procs' = [procs EXCEPT ![p] = [procs[p] EXCEPT !.windows = Append(@, w), !.at = at, !.err = err]],
           UNCHANGED <<now, out, dev, exits>>
    PROVE  IInv'
<1> DEFINE x == [procs[p] EXCEPT !.windows = Append(@, w), !.at = at, !.err = err]
<1>1. Runs(p) /\ procs[p] \in ProcType /\ procs[p].windows \in Seq(WindowType) /\ TimedProc(procs[p])
  BY DEF IInv, TypeInv, At, Runs, Timed, ProcType
<1>2. /\ x \in ProcType /\ x.at = at /\ x.label = procs[p].label
      /\ x.windows = Append(procs[p].windows, w)
  <2>1. Append(procs[p].windows, w) \in Seq(WindowType)
    BY <1>1, AppendFacts
  <2> HIDE DEF WindowType
  <2> QED
    BY <1>1, <2>1 DEF ProcType
<1>3. InOrder(w, Slot[procs[p].label])
  BY <1>1 DEF InOrder, TimedProc, IInv, TypeInv
<1> HIDE DEF x
<1>4. TimedProc(x)
  BY <1>2, <1>3, AppendTimed
<1> QED
  BY <1>1, <1>2, <1>4, ProcStep DEF x

\* A window that begins, or fails or is blocked before its load.
LEMMA WindowKeeps ==
    ASSUME SessionConstants, IInv, NEW p \in Procs,
           WindowBlocked(p) \/ WindowFails(p) \/ WindowBegins(p)
    PROVE  IInv'
<1>1. procs[p] \in ProcType /\ At(p, "window") /\ procs \in [Procs -> ProcType \cup {None}]
      /\ now \in Int /\ UNCHANGED <<now, out, dev, exits>>
  BY DEF WindowBlocked, WindowFails, WindowBegins, At, IInv, TypeInv
<1>2. CASE WindowBlocked(p)
  <2> DEFINE w == [Window EXCEPT !.blocked = TRUE]
             at == After(p)
  <2>1. w \in WindowType /\ ~w.valid /\ w.drained = None /\ w.epoch = None
    BY DEF WindowType, Window
  <2>2. at \in {"window", "load", "finish"} /\ at # "load" /\ (at = "window" => procs[p].windows = <<>>)
    BY <1>1 DEF After, ProcType
  <2>3. procs' = [procs EXCEPT ![p] = [procs[p] EXCEPT !.windows = Append(@, w), !.at = at, !.err = FALSE]]
    BY <1>1, <1>2 DEF WindowBlocked, Adds
  <2> HIDE DEF w, at
  <2> QED
    BY <1>1, <2>1, <2>2, <2>3, AddsKeeps
<1>3. CASE WindowFails(p)
  <2>1. Window \in WindowType /\ ~Window.valid /\ Window.drained = None /\ Window.epoch = None
    BY DEF WindowType, Window
  <2>2. procs' = [procs EXCEPT ![p] = [procs[p] EXCEPT !.windows = Append(@, Window), !.at = "finish", !.err = TRUE]]
    BY <1>1, <1>3 DEF WindowFails, Adds
  <2> QED
    BY <1>1, <2>1, <2>2, AddsKeeps
<1>4. CASE WindowBegins(p)
  <2> DEFINE w == [Window EXCEPT !.epoch = now]
             err == procs[p].err
  <2>1. w \in WindowType /\ ~w.valid /\ w.drained = None /\ w.epoch = now /\ err \in BOOLEAN
    BY <1>1 DEF WindowType, Window, ProcType
  <2>2. procs' = [procs EXCEPT ![p] = [procs[p] EXCEPT !.windows = Append(@, w), !.at = "load", !.err = err]]
    BY <1>1, <1>4 DEF WindowBegins, ProcType
  <2>3. w.epoch # None
    BY <1>1, <2>1 DEF SessionConstants
  <2> HIDE DEF w, err
  <2> QED
    BY <1>1, <2>1, <2>2, <2>3, AddsKeeps
<1> QED
  BY <1>2, <1>3, <1>4

\* The load drains, of the last window, now.
LEMMA WindowEndsKeeps ==
    ASSUME SessionConstants, IInv, NEW p \in Procs, WindowEnds(p)
    PROVE  IInv'
<1> DEFINE ws == procs[p].windows
           n == Len(ws)
           slot == Slot[procs[p].label]
<1>1. /\ procs[p] \in ProcType /\ Runs(p) /\ procs[p].at = "load" /\ ws \in Seq(WindowType)
      /\ procs \in [Procs -> ProcType \cup {None}] /\ now \in Int /\ TimedProc(procs[p])
      /\ UNCHANGED <<now, out, dev, exits>>
  BY DEF WindowEnds, At, IInv, TypeInv, Runs, Timed, ProcType
<1>2. n \in 1..2 /\ ws[n] \in WindowType /\ ws[n].epoch # None
  <2>1. n \in 1..2 /\ ws[n].epoch # None
    BY <1>1 DEF TimedProc
  <2>2. n \in 1..n
    <3> HIDE DEF n
    <3> QED
      BY <2>1
  <2>3. ws[n] \in WindowType
    BY <1>1, <2>2
  <2> QED
    BY <2>1, <2>3, Zenon
<1>3. PICK valid \in BOOLEAN, err \in BOOLEAN :
        procs' = [procs EXCEPT ![p].windows[n].valid = valid, ![p].windows[n].drained = now,
                               ![p].at = IF n = 2 \/ err THEN "finish" ELSE "window", ![p].err = err]
  BY DEF WindowEnds
<1> DEFINE w == [ws[n] EXCEPT !.valid = valid, !.drained = now]
           at == IF n = 2 \/ err THEN "finish" ELSE "window"
           vs == [ws EXCEPT ![n] = w]
           x == [procs[p] EXCEPT !.windows = vs, !.at = at, !.err = err]
<1>4. w \in WindowType /\ w.epoch = ws[n].epoch /\ w.drained = now
  BY <1>1, <1>2 DEF WindowType
<1>5. procs' = [procs EXCEPT ![p] = x]
  BY <1>1, <1>2, <1>3 DEF ProcType
<1>6. /\ vs \in Seq(WindowType) /\ Len(vs) = n /\ vs[n] = w
      /\ \A i \in 1..n : i # n => vs[i] = ws[i]
  <2>1. n \in 1..Len(ws)
    <3> HIDE DEF ws
    <3> QED
      BY <1>2
  <2> HIDE DEF ws, w
  <2> QED
    BY <1>1, <1>4, <2>1, ReplaceFacts
<1>7. x \in ProcType /\ x.at = at /\ x.label = procs[p].label /\ x.windows = vs
  <2> HIDE DEF vs, WindowType
  <2> QED
    BY <1>1, <1>6 DEF ProcType
<1>8. \A i \in 1..n : InOrder(ws[i], slot)
  BY <1>1 DEF TimedProc
<1>9. InOrder(w, slot)
  <2>0. n \in 1..n
    <3> HIDE DEF n
    <3> QED
      BY <1>2
  <2>1. InOrder(ws[n], slot)
    BY <2>0, <1>8, Zenon
  <2>2. slot <= ws[n].epoch /\ ws[n].epoch <= now
    BY <1>2, <2>1 DEF InOrder
  <2>3. now # None
    BY <1>1 DEF SessionConstants
  <2> HIDE DEF w, ws, slot
  <2> QED
    BY <1>1, <1>2, <1>4, <2>2, <2>3 DEF InOrder
<1> HIDE DEF w, vs, x
<1>10. \A i \in 1..n : InOrder(vs[i], slot)
  BY <1>6, <1>8, <1>9
<1>11. n = 2 /\ vs[1].drained # None /\ vs[2].epoch # None => vs[1].drained <= vs[2].epoch
  BY <1>1, <1>2, <1>4, <1>6 DEF TimedProc
<1>12. TimedProc(x)
  BY <1>1, <1>2, <1>6, <1>7, <1>10, <1>11 DEF TimedProc
<1> QED
  BY <1>1, <1>5, <1>7, <1>12, ProcStep

(***************************************************************************)
(* The record is created and replaced.                                     *)
(***************************************************************************)

\* Two of at most two windows count only if there are two and both do.
LEMMA TwoValid ==
    ASSUME NEW rec \in RecordType, Len(rec.windows) <= 2, Valid(rec) = 2
    PROVE  Len(rec.windows) = 2 /\ rec.windows[1].valid /\ rec.windows[2].valid
<1> DEFINE ws == rec.windows
           S == { i \in DOMAIN ws : ~ws[i].blocked /\ ws[i].valid }
<1>1. ws \in Seq(WindowType) /\ DOMAIN ws = 1..Len(ws) /\ Len(ws) \in Nat /\ Len(ws) <= 2
  BY DEF RecordType
<1>2. S \subseteq {1, 2}
  <2> HIDE DEF ws
  <2> QED
    BY <1>1
<1>3. Cardinality(S) = 2
  BY DEF Valid
<1>4. ASSUME NEW i PROVE ~(S \subseteq {i})
  <2> SUFFICES ASSUME S \subseteq {i} PROVE FALSE
    OBVIOUS
  <2>1. IsFiniteSet({i}) /\ Cardinality({i}) = 1
    BY FS_Singleton
  <2>2. Cardinality(S) <= 1
    BY <2>1, FS_Subset
  <2> QED
    BY <1>3, <2>2
<1>5. 1 \in S /\ 2 \in S
  <2>1. 1 \notin S => S \subseteq {2}
    BY <1>2
  <2>2. 2 \notin S => S \subseteq {1}
    BY <1>2
  <2> QED
    BY <2>1, <2>2, <1>4
<1>6. Len(ws) >= 2
  <2> HIDE DEF ws
  <2> QED
    BY <1>1, <1>5
<1>7. Len(ws) = 2
  <2> HIDE DEF ws
  <2> QED
    BY <1>1, <1>6
<1> QED
  BY <1>5, <1>7

\* The record a process writes.
LEMMA WrittenFacts ==
    ASSUME SessionConstants, IInv, NEW p \in Procs, procs[p] # None
    PROVE  /\ Written(p) \in RecordType /\ Written(p).by = p
           /\ Written(p).windows = procs[p].windows
           /\ \A g \in BOOLEAN :
                LET rec == [Written(p) EXCEPT !.gap = g] IN
                rec \in RecordType /\ rec.by = p /\ rec.windows = procs[p].windows
<1>1. procs[p] \in ProcType
  BY DEF IInv, TypeInv
<1>2. procs[p].windows \in Seq(WindowType) /\ procs[p].replaces \in Sessions \cup {None}
  BY <1>1 DEF ProcType
<1> HIDE DEF WindowType
<1> QED
  BY <1>2 DEF Written, RecordType

\* The record is created where there is none, at the slot; where there is
\* one the process ends.
LEMMA WakeKeeps ==
    ASSUME SessionConstants, IInv, NEW p \in Procs, Wake(p)
    PROVE  IInv'
<1> DEFINE l == procs[p].label
<1>1. /\ procs[p] \in ProcType /\ procs[p] # None /\ l \in Labels /\ procs[p].windows = <<>>
      /\ procs[p].at = "waiting" /\ Slot[l] <= now /\ Slot[l] \in Int /\ now \in Int
      /\ procs \in [Procs -> ProcType \cup {None}] /\ out \in [Labels -> RecordType \cup {None}]
      /\ UNCHANGED <<now, dev, exits>>
  BY DEF Wake, At, IInv, TypeInv, Waits, SessionConstants
<1>2. CASE out[l] # None
  BY <1>1, <1>2, EndsKeeps DEF Wake
<1>3. CASE out[l] = None
  <2> DEFINE rec == Written(p)
             x == [procs[p] EXCEPT !.at = "window"]
  <2>1. procs' = [procs EXCEPT ![p] = x] /\ out' = [out EXCEPT ![l] = rec]
    BY <1>1, <1>3 DEF Wake, Moves
  <2>2. x \in ProcType /\ x.at = "window" /\ x.label = l /\ x.windows = <<>>
    BY <1>1 DEF ProcType
  <2>3. rec \in RecordType /\ rec.by = p /\ rec # None
    BY <1>1, WrittenFacts DEF SessionConstants
  <2> HIDE DEF x, rec, l
  <2>4. procs'[p] = x /\ \A q \in Procs : q # p => procs'[q] = procs[q]
    BY <1>1, <2>1
  <2>5. out'[l] = rec /\ \A k \in Labels : k # l => out'[k] = out[k]
    BY <1>1, <2>1
  <2>6. TypeInv'
    BY <1>1, <2>1, <2>2, <2>3 DEF IInv, TypeInv
  <2>7. Waits'
    BY <2>2, <2>4 DEF IInv, Waits, At
  <2>8. Owned'
    <3> SUFFICES ASSUME NEW q \in Procs, Runs(q)'
                 PROVE  /\ procs'[q].label \in Labels /\ out'[procs'[q].label] # None
                        /\ out'[procs'[q].label].by = q
      BY DEF Owned
    <3>1. CASE q = p
      BY <3>1, <1>1, <2>2, <2>3, <2>4, <2>5
    <3>2. CASE q # p
      <4>1. procs'[q] = procs[q] /\ Runs(q)
        BY <3>2, <2>4 DEF Runs
      <4> QED
        BY <4>1, <2>5, <1>3 DEF IInv, Owned
    <3> QED
      BY <3>1, <3>2
  <2>9. Timed'
    <3> SUFFICES ASSUME NEW q \in Procs, Runs(q)' PROVE TimedProc(procs[q])'
      BY DEF Timed
    <3>1. CASE q = p
      BY <3>1, <1>1, <2>2, <2>4 DEF TimedProc, l
    <3>2. CASE q # p
      <4>1. procs'[q] = procs[q] /\ TimedProc(procs[q])
        BY <3>2, <2>4 DEF Runs, IInv, Timed
      <4> QED
        BY <4>1, <1>1 DEF TimedProc, InOrder
    <3> QED
      BY <3>1, <3>2
  <2>10. Exited'
    <3> SUFFICES ASSUME NEW e \in exits
                 PROVE  /\ ~(Runs(e[1])' /\ procs'[e[1]].label = e[2])
                        /\ out'[e[2]] # None /\ out'[e[2]].by = e[1]
                        /\ Complete(out'[e[2]], Slot[e[2]])
      BY <1>1 DEF Exited, Complete, Valid
    <3>1. e[1] \in Procs /\ e[2] \in Labels
      BY DEF IInv, TypeInv
    <3>2. out[e[2]] # None
      BY DEF IInv, Exited
    <3>3. out'[e[2]] = out[e[2]] /\ e[2] # l
      BY <1>3, <2>5, <3>1, <3>2
    <3>4. ~(Runs(e[1])' /\ procs'[e[1]].label = e[2])
      BY <2>2, <2>4, <3>1, <3>3 DEF Runs, IInv, Exited
    <3> QED
      BY <3>3, <3>4 DEF IInv, Exited
  <2>11. Revised'
    BY <1>1 DEF IInv, Revised
  <2> QED
    BY <2>6, <2>7, <2>8, <2>9, <2>10, <2>11 DEF IInv
<1> QED
  BY <1>2, <1>3

\* What an exit of 0 says of the record.
LEMMA FinishComplete ==
    ASSUME SessionConstants, IInv, NEW p \in Procs, At(p, "finish"),
           NEW rec \in RecordType, rec.windows = procs[p].windows,
           Valid(rec) = 2, ~GapExceeded(procs[p].windows)
    PROVE  Complete(rec, Slot[procs[p].label])
<1> DEFINE ws == procs[p].windows
           slot == Slot[procs[p].label]
<1>1. TimedProc(procs[p]) /\ procs[p].label \in Labels /\ ws \in Seq(WindowType)
  BY DEF IInv, Timed, Owned, Runs, At, TypeInv, ProcType
<1>2. Len(ws) = 2 /\ ws[1].valid /\ ws[2].valid
  BY <1>1, TwoValid DEF TimedProc
<1>3. InOrder(ws[1], slot) /\ InOrder(ws[2], slot)
  <2>1. \A i \in 1..Len(ws) : InOrder(ws[i], slot)
    BY <1>1 DEF TimedProc
  <2>2. 1 \in 1..Len(ws) /\ 2 \in 1..Len(ws)
    BY <1>2
  <2> QED
    BY <2>1, <2>2, Zenon
<1>4. ws[1] \in WindowType /\ ws[2] \in WindowType
  BY <1>1, <1>2
<1>5. ws[1].drained # None /\ ws[2].epoch # None /\ ws[1].epoch # None
  BY <1>2, <1>3 DEF InOrder
<1>6. ws[1].drained \in Int /\ ws[2].epoch \in Int /\ ws[1].epoch \in Int
  BY <1>4, <1>5 DEF WindowType
<1>7. ws[1].drained <= ws[2].epoch /\ slot <= ws[1].epoch
  BY <1>1, <1>2, <1>3, <1>5 DEF TimedProc, InOrder
<1>8. ws[2].epoch <= ws[1].drained + MaxGap
  <2>1. ~(ws[2].epoch - ws[1].drained > MaxGap)
    BY <1>2, <1>5 DEF GapExceeded
  <2> QED
    BY <1>6, <2>1 DEF SessionConstants
<1> QED
  BY <1>2, <1>7, <1>8 DEF Complete

\* Only the process the record names replaces it, and then it ends.
LEMMA FinishKeeps ==
    ASSUME SessionConstants, IInv, NEW p \in Procs, Finish(p)
    PROVE  IInv'
<1> DEFINE l == procs[p].label
           gap == GapExceeded(procs[p].windows)
           rec == [Written(p) EXCEPT !.gap = gap]
<1>1. /\ procs[p] \in ProcType /\ procs[p] # None /\ Runs(p) /\ At(p, "finish") /\ l \in Labels
      /\ out[l].by = p /\ now \in Int
      /\ procs \in [Procs -> ProcType \cup {None}] /\ out \in [Labels -> RecordType \cup {None}]
      /\ UNCHANGED <<now, dev>>
  BY DEF Finish, At, IInv, TypeInv, Owned, Runs
<1>2. procs' = [procs EXCEPT ![p] = Gone] /\ out' = [out EXCEPT ![l] = rec]
      /\ exits' \subseteq exits \cup {<<p, l>>}
      /\ (<<p, l>> \in exits' => <<p, l>> \in exits \/ (Valid(rec) = 2 /\ ~gap))
  BY DEF Finish, Ends
<1>3. Gone \in ProcType /\ Gone.at = "gone"
  BY DEF Gone, ProcType
<1>4. rec \in RecordType /\ rec.by = p /\ rec.windows = procs[p].windows
  <2>1. gap \in BOOLEAN
    BY DEF GapExceeded
  <2> HIDE DEF gap
  <2> QED
    BY <1>1, <2>1, WrittenFacts
<1>5. rec # None
  BY <1>4 DEF SessionConstants
<1>6. <<p, l>> \notin exits
  BY <1>1 DEF IInv, Exited
<1>7. Valid(rec) = 2 /\ ~gap => Complete(rec, Slot[l])
  BY <1>1, <1>4, FinishComplete
<1> HIDE DEF rec, l, gap
<1>8. procs'[p] = Gone /\ \A q \in Procs : q # p => procs'[q] = procs[q]
  BY <1>1, <1>2
<1>9. out'[l] = rec /\ \A k \in Labels : k # l => out'[k] = out[k]
  BY <1>1, <1>2
<1>10. \A q \in Procs : Runs(q)' => q # p /\ Runs(q) /\ procs'[q] = procs[q]
  BY <1>3, <1>8 DEF Runs
<1>11. TypeInv'
  BY <1>1, <1>2, <1>3, <1>4 DEF IInv, TypeInv
<1>12. Waits'
  BY <1>3, <1>8 DEF IInv, Waits, At
<1>13. Owned'
  <2> SUFFICES ASSUME NEW q \in Procs, Runs(q)'
               PROVE  /\ procs'[q].label \in Labels /\ out'[procs'[q].label] # None
                      /\ out'[procs'[q].label].by = q
    BY DEF Owned
  <2> QED
    BY <1>1, <1>9, <1>10 DEF IInv, Owned
<1>14. Timed'
  <2> SUFFICES ASSUME NEW q \in Procs, Runs(q)' PROVE TimedProc(procs[q])'
    BY DEF Timed
  <2>1. procs'[q] = procs[q] /\ TimedProc(procs[q])
    BY <1>10 DEF IInv, Timed
  <2> QED
    BY <2>1, <1>1 DEF TimedProc, InOrder
<1>15. Exited'
  <2> SUFFICES ASSUME NEW e \in exits'
               PROVE  /\ ~(Runs(e[1])' /\ procs'[e[1]].label = e[2])
                      /\ out'[e[2]] # None /\ out'[e[2]].by = e[1]
                      /\ Complete(out'[e[2]], Slot[e[2]])
    BY DEF Exited, Complete, Valid
  <2>1. CASE e \in exits
    <3>1. e[1] \in Procs /\ e[2] \in Labels /\ e = <<e[1], e[2]>>
      BY <2>1 DEF IInv, TypeInv
    <3>2. /\ ~(Runs(e[1]) /\ procs[e[1]].label = e[2])
          /\ out[e[2]] # None /\ out[e[2]].by = e[1] /\ Complete(out[e[2]], Slot[e[2]])
      BY <2>1 DEF IInv, Exited
    <3>3. e[2] # l
      BY <1>1, <3>2 DEF l
    <3>4. out'[e[2]] = out[e[2]]
      BY <1>9, <3>1, <3>3
    <3>5. ~(Runs(e[1])' /\ procs'[e[1]].label = e[2])
      BY <1>10, <3>1, <3>2
    <3> QED
      BY <3>2, <3>4, <3>5
  <2>2. CASE e = <<p, l>>
    <3>1. Complete(rec, Slot[l])
      BY <1>2, <1>6, <1>7, <2>2
    <3>2. ~Runs(p)'
      BY <1>10
    <3> QED
      BY <2>2, <3>1, <3>2, <1>4, <1>5, <1>9
  <2> QED
    BY <1>2, <2>1, <2>2
<1>16. Revised'
  BY <1>1 DEF IInv, Revised
<1> QED
  BY <1>11, <1>12, <1>13, <1>14, <1>15, <1>16 DEF IInv

(***************************************************************************)
(* The development attempts, the clock and the theorems.                   *)
(***************************************************************************)

\* A second attempt differs from the first in its free parts.
LEMMA DevStartKeeps ==
    ASSUME SessionConstants, IInv, NEW c \in Configs, DevStart(c)
    PROVE  IInv'
<1>1. dev \in Seq(Configs) /\ Len(dev) < 2 /\ dev' = Append(dev, c) /\ UNCHANGED <<now, procs, out, exits>>
  BY DEF IInv, TypeInv, DevStart
<1>2. dev' \in Seq(Configs) /\ Len(dev') = Len(dev) + 1 /\ dev'[Len(dev) + 1] = c
      /\ \A i \in 1..Len(dev) : dev'[i] = dev[i]
  BY <1>1, AppendFacts
<1>3. Len(dev) = 1 => c # dev[1] /\ c[1] = dev[1][1]
  BY <1>1 DEF DevStart
<1>4. Revised'
  <2> DEFINE n == Len(dev)
             m == Len(dev')
  <2>1. n \in Nat /\ n < 2 /\ m = n + 1
    BY <1>1, <1>2
  <2>2. m <= 2 /\ (m = 2 => n = 1)
    <3> HIDE DEF n, m
    <3> QED
      BY <2>1
  <2>3. n = 1 => dev'[2] = c /\ dev'[1] = dev[1]
    BY <1>2
  <2> QED
    BY <1>3, <2>2, <2>3, Zenon DEF Revised
<1>5. TypeInv' /\ Waits' /\ Owned'
  BY <1>1, <1>2 DEF IInv, TypeInv, Waits, Owned, Runs, At
<1>6. Timed' /\ Exited'
  BY <1>1 DEF IInv, Timed, Exited, Runs, TimedProc, InOrder, Complete, Valid
<1> QED
  BY <1>4, <1>5, <1>6 DEF IInv

\* The clock only moves forward.
LEMMA TickKeeps ==
    ASSUME SessionConstants, IInv, Tick
    PROVE  IInv'
<1>1. now \in Int /\ now' = now + 1 /\ UNCHANGED <<procs, out, dev, exits>>
  BY DEF IInv, TypeInv, Tick
<1>2. TypeInv' /\ Waits' /\ Owned' /\ Revised'
  BY <1>1 DEF IInv, TypeInv, Waits, Owned, Runs, At, Revised
<1>3. Exited'
  BY <1>1 DEF IInv, Exited, Runs, Complete, Valid
<1>4. Timed'
  <2> SUFFICES ASSUME NEW p \in Procs, Runs(p)' PROVE TimedProc(procs[p])'
    BY DEF Timed
  <2> DEFINE x == procs[p]
             ws == x.windows
             slot == Slot[x.label]
  <2>1. TimedProc(x) /\ x.label \in Labels /\ x \in ProcType /\ procs' = procs
    BY <1>1 DEF IInv, Timed, Owned, Runs, TypeInv
  <2>2. ws \in Seq(WindowType) /\ slot \in Int
    BY <2>1 DEF ProcType, SessionConstants
  <2>3. ASSUME NEW i \in 1..Len(ws) PROVE InOrder(ws[i], slot)'
    <3>1. ws[i] \in WindowType /\ InOrder(ws[i], slot)
      BY <2>1, <2>2 DEF TimedProc
    <3>2. ws[i].epoch # None => ws[i].epoch \in Int /\ ws[i].epoch <= now
      BY <3>1 DEF InOrder, WindowType
    <3>3. ws[i].drained # None => ws[i].drained \in Int /\ ws[i].drained <= now
      BY <3>1 DEF InOrder, WindowType
    <3>4. ws' = ws /\ slot' = slot
      BY <2>1
    <3> QED
      BY <1>1, <3>1, <3>2, <3>3, <3>4 DEF InOrder
  <2>4. slot <= now'
    BY <1>1, <2>1, <2>2 DEF TimedProc
  <2> QED
    BY <2>1, <2>3, <2>4 DEF TimedProc
<1> QED
  BY <1>2, <1>3, <1>4 DEF IInv

\* No process, record or attempt yet.
LEMMA InitInv == Init => IInv
<1> SUFFICES ASSUME Init PROVE IInv
  OBVIOUS
<1>1. now = 0 /\ procs = [p \in Procs |-> None] /\ out = [l \in Labels |-> None]
      /\ dev = <<>> /\ exits = {}
  BY DEF Init
<1>2. TypeInv /\ Waits /\ Owned /\ Timed /\ Exited
  BY <1>1 DEF TypeInv, Waits, Owned, Timed, Exited, Runs, At
<1>3. Revised
  BY <1>1 DEF Revised
<1> QED
  BY <1>2, <1>3 DEF IInv

\* Every step keeps the invariant.
LEMMA NextInv ==
    ASSUME SessionConstants, IInv, [Next]_pilotVars
    PROVE  IInv'
<1>1. CASE UNCHANGED pilotVars
  BY <1>1 DEF pilotVars, IInv, TypeInv, Waits, Owned, Timed, Exited, Revised,
              Runs, At, TimedProc, InOrder, Complete, Valid
<1>2. CASE Tick
  BY <1>2, TickKeeps
<1>3. CASE \E c \in Configs : DevStart(c)
  BY <1>3, DevStartKeeps
<1>4. ASSUME NEW p \in Procs,
             \/ \E l \in Labels : \E s \in Sessions \cup {None} : Start(p, l, s)
             \/ Wake(p) \/ Abort(p) \/ Die(p) \/ WindowBlocked(p) \/ WindowFails(p)
             \/ WindowBegins(p) \/ WindowEnds(p) \/ Finish(p)
      PROVE  IInv'
  <2>1. CASE \E l \in Labels : \E s \in Sessions \cup {None} : Start(p, l, s)
    BY <2>1, StartKeeps
  <2>2. CASE Die(p)
    BY <2>2, EndsKeeps DEF Die
  <2> QED
    BY <1>4, <2>1, <2>2, WakeKeeps, AbortKeeps, WindowKeeps, WindowEndsKeeps, FinishKeeps
<1> QED
  BY <1>1, <1>2, <1>3, <1>4 DEF Next

\* The invariant says what SessionsSound does.
LEMMA InvSound ==
    ASSUME SessionConstants, IInv
    PROVE  SessionsSound
<1>1. \A p \in Procs : Runs(p) => out[procs[p].label] # None /\ out[procs[p].label].by = p
  BY DEF IInv, Owned
<1>2. \A e \in exits : out[e[2]].by = e[1] /\ Complete(out[e[2]], Slot[e[2]])
  BY DEF IInv, Exited
<1>3. Len(dev) = 2 => dev[2][1] = dev[1][1] /\ dev[2][2] # dev[1][2]
  <2> SUFFICES ASSUME Len(dev) = 2, dev[2][2] = dev[1][2] PROVE dev[2][1] # dev[1][1] \/ dev[2] = dev[1]
    BY DEF IInv, Revised
  <2>1. dev[1] \in Configs /\ dev[2] \in Configs
    <3>1. dev \in Seq(Configs)
      BY DEF IInv, TypeInv
    <3>2. 1 \in 1..Len(dev) /\ 2 \in 1..Len(dev)
      OBVIOUS
    <3> QED
      BY <3>1, <3>2, ElementOf
  <2>2. dev[1] = <<dev[1][1], dev[1][2]>> /\ dev[2] = <<dev[2][1], dev[2][2]>>
    BY <2>1 DEF SessionConstants
  <2> QED
    BY <2>2, Zenon
<1>4. Len(dev) <= 2
  BY DEF IInv, Revised
<1> QED
  BY <1>1, <1>2, <1>3, <1>4 DEF SessionsSound, Runs, Complete

\* The invariant holds of every behaviour.
LEMMA SpecInv == SessionConstants => (Spec => []IInv)
<1> SUFFICES ASSUME SessionConstants PROVE Spec => []IInv
  OBVIOUS
<1>1. IInv /\ [Next]_pilotVars => IInv'
  BY NextInv
<1> QED
  BY <1>1, InitInv, PTL DEF Spec

\* However many session commands wait for one slot, are aborted or die, a
\* label's record is the one process's that created it; the session that
\* exited 0 has its two client-valid windows on record, in order and within
\* maxGap (session and replacement of cmd/percentes-pilot); and dev-2
\* revises the free parts of dev-1 only.
THEOREM SessionsAreSound == SessionConstants => (Spec => []SessionsSound)
<1> SUFFICES ASSUME SessionConstants PROVE Spec => []SessionsSound
  OBVIOUS
<1>1. Spec => []IInv
  BY SpecInv
<1>2. IInv => SessionsSound
  BY InvSound
<1> QED
  BY <1>1, <1>2, PTL

\* "A session is never re-run": once a record is there no step removes it or
\* gives it to another process, and that of a session that exited 0 no step
\* changes.
NeverRerun ==
    /\ \A l \in Labels : out[l] # None => out'[l] # None /\ out'[l].by = out[l].by
    /\ \A e \in exits : e \in exits' /\ out'[e[2]] = out[e[2]]

\* No step of any process, however many were started on a label, takes over
\* or rewrites another's session.json (the exclusive create of session and
\* its final replace, cmd/percentes-pilot).
THEOREM SessionsAreNeverRerun == SessionConstants => (Spec => [][NeverRerun]_pilotVars)
<1> SUFFICES ASSUME SessionConstants PROVE Spec => [][NeverRerun]_pilotVars
  OBVIOUS
<1>1. ASSUME IInv, [Next]_pilotVars PROVE [NeverRerun]_pilotVars
  <2>1. out \in [Labels -> RecordType \cup {None}] /\ exits \subseteq Procs \X Labels
    BY <1>1 DEF IInv, TypeInv
  <2>2. ASSUME UNCHANGED <<out, exits>> PROVE NeverRerun
    BY <2>2 DEF NeverRerun
  <2>3. ASSUME NEW p \in Procs, Wake(p) PROVE NeverRerun
    <3>1. procs[p].label \in Labels /\ exits' = exits
      BY <1>1, <2>3 DEF IInv, Waits, Wake, At
    <3>2. CASE out[procs[p].label] # None
      BY <2>3, <3>1, <3>2 DEF Wake, NeverRerun
    <3>3. CASE out[procs[p].label] = None
      <4>1. \A l \in Labels : out[l] # None => out'[l] = out[l]
        BY <2>1, <2>3, <3>1, <3>3 DEF Wake
      <4>2. \A e \in exits : e[2] \in Labels /\ out[e[2]] # None
        BY <1>1, <2>1 DEF IInv, Exited
      <4> QED
        BY <3>1, <4>1, <4>2 DEF NeverRerun
    <3> QED
      BY <3>2, <3>3
  <2>4. ASSUME NEW p \in Procs, Finish(p) PROVE NeverRerun
    <3> DEFINE l == procs[p].label
               rec == [Written(p) EXCEPT !.gap = GapExceeded(procs[p].windows)]
    <3>1. /\ Runs(p) /\ procs[p] # None /\ l \in Labels /\ out[l].by = p
          /\ out' = [out EXCEPT ![l] = rec] /\ exits \subseteq exits'
      BY <1>1, <2>4 DEF Finish, At, IInv, Owned, Runs
    <3>2. rec \in RecordType /\ rec.by = p
      <4>1. GapExceeded(procs[p].windows) \in BOOLEAN
        BY DEF GapExceeded
      <4> QED
        BY <1>1, <3>1, <4>1, WrittenFacts
    <3>3. rec # None
      BY <3>2 DEF SessionConstants
    <3> HIDE DEF rec, l
    <3>4. out'[l] = rec /\ \A k \in Labels : k # l => out'[k] = out[k]
      BY <2>1, <3>1
    <3>5. \A k \in Labels : out[k] # None => out'[k] # None /\ out'[k].by = out[k].by
      BY <3>1, <3>2, <3>3, <3>4
    <3>6. \A e \in exits : e[2] \in Labels /\ e[2] # l
      BY <1>1, <2>1, <3>1 DEF IInv, Exited, l
    <3> QED
      BY <3>1, <3>4, <3>5, <3>6 DEF NeverRerun
  <2>5. CASE Tick \/ \E c \in Configs : DevStart(c)
    BY <2>2, <2>5 DEF Tick, DevStart
  <2>6. ASSUME NEW p \in Procs,
               \/ \E l \in Labels : \E s \in Sessions \cup {None} : Start(p, l, s)
               \/ Abort(p) \/ Die(p) \/ WindowBlocked(p) \/ WindowFails(p)
               \/ WindowBegins(p) \/ WindowEnds(p)
        PROVE  NeverRerun
    <3>1. UNCHANGED <<out, exits>>
      BY <2>6, Zenon DEF Start, Abort, Die, WindowBlocked, WindowFails, WindowBegins, WindowEnds
    <3> QED
      BY <2>2, <3>1
  <2> QED
    BY <1>1, <2>3, <2>4, <2>5, <2>6 DEF Next
<1>2. Spec => []IInv
  BY SpecInv
<1> QED
  BY <1>1, <1>2, PTL DEF Spec

-----------------------------------------------------------------------------
(* NewSchedule. *)

\* A set of dates that has a last one: what Max returns of it.
LEMMA LastDate ==
    ASSUME NEW S \in SUBSET Int, S # {}, NEW n \in Int, \A x \in S : x <= n
    PROVE  Max(S) \in S /\ \A x \in S : x <= Max(S)
<1> DEFINE T == {n - x : x \in S}
<1>1. T \subseteq Nat /\ T # {}
  <2>1. \A x \in S : n - x \in Nat
    OBVIOUS
  <2>2. PICK x \in S : TRUE
    OBVIOUS
  <2>3. n - x \in T
    OBVIOUS
  <2> QED
    BY <2>1, <2>3
<1>2. PICK m \in T : \A y \in T : ~(<<y, m>> \in OpToRel(<, Nat))
  BY <1>1, NatLessThanWellFounded, WFMin
<1>3. ASSUME NEW y \in T PROVE m <= y
  <2>1. y \in Nat /\ m \in Nat /\ ~(y < m)
    BY <1>1, <1>2 DEF OpToRel
  <2> QED
    BY <2>1
<1>4. PICK z \in S : m = n - z
  OBVIOUS
<1>5. ASSUME NEW x \in S PROVE z >= x
  <2>1. n - z <= n - x
    BY <1>3, <1>4
  <2>2. z \in Int /\ x \in Int
    OBVIOUS
  <2> QED
    BY <2>1, <2>2
<1> HIDE DEF T
<1> QED
  BY <1>5 DEF Max

\* A date that pool[n] names is in the pool: the dates before each of them
\* are counted by 0, 1, ... each once.
LEMMA NthIs ==
    ASSUME NEW S \in SUBSET Int, IsFiniteSet(S), NEW n \in 0..Cardinality(S) - 1
    PROVE  Nth(S, n) \in S
<1> DEFINE Before(d) == { e \in S : e < d }
           N == Cardinality(S)
           f == [d \in S |-> Cardinality(Before(d))]
           T == 0..N - 1
<1>1. N \in Nat
  BY FS_CardinalityType
<1>2. ASSUME NEW d \in S, NEW P \in SUBSET S, P = Before(d)
      PROVE  IsFiniteSet(P) /\ Cardinality(P) \in Nat /\ Cardinality(P) <= N - 1
  <2>1. IsFiniteSet(P) /\ Cardinality(P) <= N /\ (N = Cardinality(P) => S = P)
    BY FS_Subset
  <2>2. Cardinality(P) \in Nat
    BY <2>1, FS_CardinalityType
  <2>3. d \notin P
    BY <1>2
  <2>4. N # Cardinality(P)
    BY <2>1, <2>3
  <2> HIDE DEF N
  <2> QED
    BY <1>1, <2>1, <2>2, <2>4
<1>3. ASSUME NEW c \in S, NEW d \in S, c < d, NEW P \in SUBSET S, NEW Q \in SUBSET S,
             P = Before(c), Q = Before(d)
      PROVE  Cardinality(P) < Cardinality(Q)
  <2>1. P \subseteq Q /\ c \in Q /\ c \notin P
    <3>1. \A e \in S : e < c => e < d
      BY <1>3
    <3>2. P \subseteq Q
      BY <1>3, <3>1
    <3>3. c \in Int /\ ~(c < c)
      OBVIOUS
    <3>4. c \in Q /\ c \notin P
      BY <1>3, <3>3
    <3> QED
      BY <3>2, <3>4
  <2>2. IsFiniteSet(Q) /\ Cardinality(Q) \in Nat /\ Cardinality(P) \in Nat
    BY <1>2, <1>3
  <2>3. Cardinality(P) <= Cardinality(Q) /\ (Cardinality(Q) = Cardinality(P) => Q = P)
    BY <2>1, <2>2, FS_Subset
  <2> QED
    BY <2>1, <2>2, <2>3
<1> HIDE DEF N
<1>4. f \in [S -> T]
  <2> SUFFICES ASSUME NEW d \in S PROVE Cardinality(Before(d)) \in T
    OBVIOUS
  <2>1. Cardinality(Before(d)) \in Nat /\ Cardinality(Before(d)) <= N - 1
    <3> DEFINE P == Before(d)
    <3>1. P \in SUBSET S /\ P = Before(d)
      OBVIOUS
    <3> HIDE DEF P
    <3> QED
      BY <1>2, <3>1
  <2> HIDE DEF Before
  <2> QED
    BY <1>1, <2>1
<1>5. ASSUME NEW c \in S, NEW d \in S, f[c] = f[d] PROVE c = d
  <2> DEFINE P == Before(c)
             Q == Before(d)
  <2>1. P \in SUBSET S /\ P = Before(c) /\ Q \in SUBSET S /\ Q = Before(d)
    OBVIOUS
  <2>2. f[c] = Cardinality(P) /\ f[d] = Cardinality(Q)
    OBVIOUS
  <2> HIDE DEF P, Q
  <2>3. Cardinality(P) \in Nat /\ Cardinality(Q) \in Nat
    BY <1>2, <2>1
  <2>4. ~(c < d) /\ ~(d < c)
    BY <1>3, <1>5, <2>1, <2>2, <2>3
  <2>5. c \in Int /\ d \in Int
    OBVIOUS
  <2> QED
    BY <2>4, <2>5
<1>6. IsFiniteSet(T) /\ Cardinality(T) = N
  <2>1. 0 \in Int /\ N - 1 \in Int
    BY <1>1
  <2>2. IsFiniteSet(0..N - 1) /\ Cardinality(0..N - 1) = IF 0 > N - 1 THEN 0 ELSE N - 1 - 0 + 1
    BY <2>1, FS_Interval
  <2> QED
    BY <1>1, <2>2
<1> HIDE DEF T, f
<1>7. f \in Injection(S, T)
  BY <1>4, <1>5 DEF Injection, IsInjective
<1>8. f \in Surjection(S, T)
  BY <1>6, <1>7, FS_Injection DEF N
<1>9. PICK d \in S : f[d] = n
  BY <1>8 DEF Surjection, T, N
<1>10. Cardinality({ e \in S : e < d }) = n
  BY <1>9 DEF f
<1> QED
  BY <1>10 DEF Nth

\* Six orders of the endpoints, three of each.
Balanced == { s \in [1..6 -> {0, 1}] : Cardinality({ i \in 1..6 : s[i] = 0 }) = 3 }

\* An exchange of two of them leaves three of each.
LEMMA SwapKeeps ==
    ASSUME NEW s \in Balanced, NEW i \in 2..6, NEW d \in Nat
    PROVE  LET j == (d % i) + 1 IN [s EXCEPT ![i] = s[j], ![j] = s[i]] \in Balanced
<1> DEFINE j == (d % i) + 1
           e == [s EXCEPT ![i] = s[j], ![j] = s[i]]
           Z == { k \in 1..6 : s[k] = 0 }
           W == { k \in 1..6 : e[k] = 0 }
<1>1. j \in 1..6 /\ i \in 1..6
  <2>1. i \in Nat \ {0} /\ i <= 6
    OBVIOUS
  <2>2. d % i \in 0..i - 1
    BY <2>1
  <2> QED
    BY <2>1, <2>2
<1>2. s \in [1..6 -> {0, 1}] /\ Cardinality(Z) = 3
  BY DEF Balanced
<1> HIDE DEF j
<1>3. e \in [1..6 -> {0, 1}]
  BY <1>1, <1>2
<1>4. \A k \in 1..6 : e[k] = IF k = j THEN s[i] ELSE IF k = i THEN s[j] ELSE s[k]
  BY <1>1, <1>2
<1>5. IsFiniteSet(Z)
  <2>1. IsFiniteSet(1..6)
    <3>1. 1 \in Int /\ 6 \in Int
      OBVIOUS
    <3> QED
      BY <3>1, FS_Interval, Zenon
  <2>2. Z \in SUBSET (1..6)
    OBVIOUS
  <2> HIDE DEF Z
  <2> QED
    BY <2>1, <2>2, FS_Subset
<1> HIDE DEF e
<1>6. CASE s[i] = s[j]
  <2>1. \A k \in 1..6 : e[k] = s[k]
    BY <1>1, <1>4, <1>6
  <2>2. W = Z
    BY <2>1
  <2> QED
    BY <1>2, <1>3, <2>2 DEF Balanced, e, j
<1>7. ASSUME NEW a \in 1..6, NEW b \in 1..6, a # b, s[a] = 0, s[b] # 0, e[a] # 0, e[b] = 0,
             \A k \in 1..6 : k # a /\ k # b => e[k] = s[k]
      PROVE  Cardinality(W) = 3
  <2> DEFINE Y == Z \ {a}
  <2>1. W = Y \cup {b} /\ a \in Z /\ b \notin Y
    BY <1>7
  <2> HIDE DEF Z, W
  <2>2. IsFiniteSet(Y) /\ Cardinality(Y) = 2
    BY <1>2, <1>5, <2>1, FS_RemoveElement
  <2> HIDE DEF Y
  <2>3. Cardinality(Y \cup {b}) = 3
    <3>1. Cardinality(Y \cup {b}) = IF b \in Y THEN Cardinality(Y) ELSE Cardinality(Y) + 1
      BY <2>2, FS_AddElement
    <3> QED
      BY <2>1, <2>2, <3>1
  <2> QED
    BY <2>1, <2>3
<1>8. CASE s[i] # s[j]
  <2>1. i # j /\ s[i] \in {0, 1} /\ s[j] \in {0, 1} /\ e[i] = s[j] /\ e[j] = s[i]
    BY <1>1, <1>2, <1>4, <1>8
  <2>2. \A k \in 1..6 : k # i /\ k # j => e[k] = s[k]
    BY <1>4
  <2> HIDE DEF Z, W
  <2>3. ASSUME s[i] = 0 PROVE Cardinality(W) = 3
    <3>1. s[j] # 0 /\ e[i] # 0 /\ e[j] = 0
      BY <1>8, <2>1, <2>3
    <3> QED
      BY <1>1, <1>7, <2>1, <2>2, <2>3, <3>1
  <2>4. ASSUME s[j] = 0 PROVE Cardinality(W) = 3
    <3>1. s[i] # 0 /\ e[j] # 0 /\ e[i] = 0
      BY <1>8, <2>1, <2>4
    <3>2. \A k \in 1..6 : k # j /\ k # i => e[k] = s[k]
      BY <2>2
    <3> QED
      BY <1>1, <1>7, <2>1, <2>4, <3>1, <3>2
  <2>5. Cardinality(W) = 3
    <3>1. s[i] = 0 \/ s[j] = 0
      BY <1>8, <2>1
    <3> QED
      BY <2>3, <2>4, <3>1
  <2> QED
    BY <1>3, <2>5 DEF Balanced, W, e, j
<1> QED
  BY <1>6, <1>8

\* The shuffle gives each order three times.
LEMMA OrdersAre ==
    ASSUME NEW swaps, \A i \in 2..6 : swaps[i] \in Nat
    PROVE  Orders(swaps) \in Balanced
<1> DEFINE Swap(s, i) == LET j == (swaps[i] % i) + 1 IN [s EXCEPT ![i] = s[j], ![j] = s[i]]
           b == [i \in 1..6 |-> i % 2]
<1>1. b \in Balanced
  <2>1. b \in [1..6 -> {0, 1}]
    OBVIOUS
  <2>2. { i \in 1..6 : b[i] = 0 } = {2, 4, 6}
    OBVIOUS
  <2>3. Cardinality({2, 4, 6}) = 3
    <3>1. IsFiniteSet({2}) /\ Cardinality({2}) = 1
      BY FS_Singleton
    <3>2. IsFiniteSet({2} \cup {4}) /\ Cardinality({2} \cup {4}) = 2
      <4>1. 4 \notin {2}
        OBVIOUS
      <4> QED
        BY <3>1, <4>1, FS_AddElement
    <3>3. Cardinality(({2} \cup {4}) \cup {6}) = 3
      <4> DEFINE S == {2} \cup {4}
      <4>1. IsFiniteSet(S) /\ Cardinality(S) = 2 /\ 6 \notin S
        BY <3>2
      <4> HIDE DEF S
      <4>2. Cardinality(S \cup {6}) = 3
        <5> DEFINE x == 6
        <5>1. x \notin S
          BY <4>1
        <5> HIDE DEF x
        <5>2. Cardinality(S \cup {x}) = 3
          BY <4>1, <5>1, FS_AddElement
        <5> QED
          BY <5>2 DEF x
      <4> QED
        BY <4>2 DEF S
    <3>4. ({2} \cup {4}) \cup {6} = {2, 4, 6}
      OBVIOUS
    <3> QED
      BY <3>3, <3>4
  <2> HIDE DEF b
  <2> QED
    BY <2>1, <2>2, <2>3 DEF Balanced
<1>2. ASSUME NEW s \in Balanced, NEW i \in 2..6 PROVE Swap(s, i) \in Balanced
  BY <1>2, SwapKeeps
<1> HIDE DEF Swap, b
<1>3. Swap(b, 6) \in Balanced
  BY <1>1, <1>2
<1>4. Swap(Swap(b, 6), 5) \in Balanced
  BY <1>2, <1>3
<1>5. Swap(Swap(Swap(b, 6), 5), 4) \in Balanced
  BY <1>2, <1>4
<1>6. Swap(Swap(Swap(Swap(b, 6), 5), 4), 3) \in Balanced
  BY <1>2, <1>5
<1>7. Swap(Swap(Swap(Swap(Swap(b, 6), 5), 4), 3), 2) \in Balanced
  BY <1>2, <1>6
<1>8. Orders(swaps) = Swap(Swap(Swap(Swap(Swap(b, 6), 5), 4), 3), 2)
  BY DEF Orders, Swap, b
<1> QED
  BY <1>7, <1>8

\* The dates drawn for a day type are eligible and before its reserve.
LEMMA DrawnDate ==
    ASSUME NEW in, DatesInput(in), NEW t, Cardinality(Eligible(in, t)) >= 4, NEW d \in Nat,
           NEW x, x = Nth(Pool(in, t), d % Cardinality(Pool(in, t)))
    PROVE  x \in Eligible(in, t) /\ x < ReserveDate(in, t)
<1> DEFINE E == Eligible(in, t)
           P == Pool(in, t)
           r == ReserveDate(in, t)
<1>1. in.freeze + 1 \in Int /\ in.last \in Int
  BY DEF DatesInput
<1>2. E \subseteq (in.freeze + 1)..in.last
  BY DEF Eligible
<1>3. IsFiniteSet(E) /\ E \in SUBSET Int /\ \A e \in E : e <= in.last
  <2>1. IsFiniteSet((in.freeze + 1)..in.last)
    BY <1>1, FS_Interval
  <2>2. IsFiniteSet(E)
    BY <1>2, <2>1, FS_Subset
  <2> QED
    BY <1>1, <1>2, <2>2
<1>4. Cardinality(E) \in Nat /\ Cardinality(E) >= 4
  BY <1>3, FS_CardinalityType
<1>5. E # {}
  BY <1>4, FS_EmptySet
<1>6. r \in E /\ \A e \in E : e <= r
  <2> HIDE DEF E
  <2>1. Max(E) \in E /\ \A e \in E : e <= Max(E)
    BY <1>1, <1>3, <1>5, LastDate
  <2> QED
    BY <2>1 DEF E, ReserveDate
<1>7. P = E \ {r}
  BY DEF Pool
<1> HIDE DEF E, P, r
<1>8. IsFiniteSet(P) /\ Cardinality(P) \in Nat \ {0} /\ P \in SUBSET Int
  <2>1. IsFiniteSet(P) /\ Cardinality(P) = Cardinality(E) - 1
    BY <1>3, <1>6, <1>7, FS_RemoveElement
  <2>2. Cardinality(P) \in Nat \ {0}
    BY <1>4, <2>1
  <2> QED
    BY <1>3, <1>7, <2>1, <2>2
<1>9. d % Cardinality(P) \in 0..Cardinality(P) - 1
  BY <1>8
<1>10. Nth(P, d % Cardinality(P)) \in P
  BY <1>8, <1>9, NthIs
<1>11. x \in P
  BY <1>10 DEF P
<1>12. x \in E /\ x # r /\ x \in Int /\ r \in Int /\ x <= r
  BY <1>3, <1>6, <1>7, <1>11
<1>13. x < r
  BY <1>12
<1> QED
  BY <1>12, <1>13 DEF E, r

\* Whatever the freeze, the last date, the excluded ones and the numbers
\* drawn: the dates NewSchedule gives the sessions, if it gives any, are
\* distinct, eligible and before their reserves, and each order of the
\* endpoints is used three times.
THEOREM DatesFit ==
    ASSUME NEW in, DatesInput(in)
    PROVE  ScheduleFits(in, NewSchedule(in))
<1> DEFINE s == NewSchedule(in)
           tried == SelectInSeq(in.draws, LAMBDA d : Derive(in, d) # None)
           I == { i \in 1..Len(in.draws) : Derive(in, in.draws[i]) # None }
<1> SUFFICES ASSUME s # None PROVE ScheduleFits(in, s)
  BY DEF ScheduleFits
<1>1. /\ tried # 0 /\ \A t \in {"weekday", "weekend"} : ~(Cardinality(Eligible(in, t)) < 4)
      /\ s = [dates |-> Derive(in, in.draws[tried]), orders |-> Orders(in.swaps),
              reserves |-> [t \in {"weekday", "weekend"} |-> ReserveDate(in, t)]]
  BY DEF NewSchedule
<1>2. in.draws \in Seq([1..6 -> Nat]) /\ \A i \in 2..6 : in.swaps[i] \in Nat
  BY DEF DatesInput
<1>3. tried \in I
  <2>1. tried = IF I # {} THEN Min(I) ELSE 0
    BY DEF SelectInSeq
  <2>2. I # {} /\ tried = Min(I)
    BY <1>1, <2>1
  <2>3. I \in SUBSET Nat
    BY <1>2
  <2> HIDE DEF I, tried
  <2>4. PICK m \in I : \A y \in I : ~(<<y, m>> \in OpToRel(<, Nat))
    BY <2>2, <2>3, NatLessThanWellFounded, WFMin
  <2>5. ASSUME NEW y \in I PROVE m <= y
    <3>1. y \in Nat /\ m \in Nat /\ ~(y < m)
      BY <2>3, <2>4 DEF OpToRel
    <3> QED
      BY <3>1
  <2>6. Min(I) \in I
    BY <2>5 DEF Min
  <2> QED
    BY <2>2, <2>6
<1> DEFINE draw == in.draws[tried]
<1>4. tried \in 1..Len(in.draws) /\ Derive(in, draw) # None
  BY <1>3
<1> HIDE DEF s, tried
<1>5. draw \in [1..6 -> Nat]
  BY <1>2, <1>4
<1>6. s.dates = Derive(in, draw) /\ s.orders = Orders(in.swaps)
  BY <1>1
<1>7. s.reserves = [t \in {"weekday", "weekend"} |-> ReserveDate(in, t)]
  BY <1>1
<1> HIDE DEF draw
<1>8. IsInjective(s.dates) /\ s.dates = DeriveAny(in, draw)
  BY <1>4, <1>6 DEF Derive
<1>9. DOMAIN PilotLabels = 1..6 /\ \A i \in 1..6 : PilotLabels[i][1] \in {"weekday", "weekend"}
  BY DEF PilotLabels
<1>10. ASSUME NEW i \in 1..6
       PROVE  LET t == PilotLabels[i][1] IN s.dates[i] \in Eligible(in, t) /\ s.dates[i] < s.reserves[t]
  <2> DEFINE t == PilotLabels[i][1]
  <2>1. t \in {"weekday", "weekend"}
    BY <1>9
  <2>2. s.dates[i] = Nth(Pool(in, t), draw[i] % Cardinality(Pool(in, t)))
    BY <1>8, <1>9 DEF DeriveAny
  <2>3. s.reserves[t] = ReserveDate(in, t)
    BY <1>7, <2>1
  <2>4. draw[i] \in Nat
    BY <1>5
  <2> HIDE DEF t
  <2>5. Cardinality(Eligible(in, t)) >= 4
    <3>1. ~(Cardinality(Eligible(in, t)) < 4)
      BY <1>1, <2>1
    <3>2. Cardinality(Eligible(in, t)) \in Nat
      <4>1. in.freeze + 1 \in Int /\ in.last \in Int
        BY DEF DatesInput
      <4>2. IsFiniteSet((in.freeze + 1)..in.last)
        BY <4>1, FS_Interval
      <4>3. Eligible(in, t) \subseteq (in.freeze + 1)..in.last
        BY DEF Eligible
      <4> QED
        BY <4>2, <4>3, FS_Subset, FS_CardinalityType
    <3> QED
      BY <3>1, <3>2
  <2>6. s.dates[i] \in Eligible(in, t) /\ s.dates[i] < ReserveDate(in, t)
    BY <2>2, <2>4, <2>5, DrawnDate
  <2> QED
    BY <2>3, <2>6 DEF t
<1>11. Cardinality({ i \in 1..6 : s.orders[i] = 0 }) = 3
  BY <1>2, <1>6, OrdersAre DEF Balanced
<1> QED
  BY <1>8, <1>10, <1>11 DEF ScheduleFits
=============================================================================
