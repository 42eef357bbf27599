----------------------------- MODULE CeilingRule -----------------------------
(***************************************************************************)
(* The ceiling rule of a release (internal/admission/ceiling.go): which    *)
(* steps of a route's ladder its limits and its cap admit, the verdict     *)
(* that is published, and the check of a published one against the         *)
(* configuration, CheckPublished.  ReleaseStart has Covers.                *)
(*                                                                         *)
(* The pinned rates are quarters of a request per second, so a rate and    *)
(* every demand is an integer number of quarters and the code's rationals  *)
(* are exact here; limits and caps are in quarters too.  A test compares   *)
(* them exactly; the row it publishes holds its numbers as float64.        *)
(***************************************************************************)
EXTENDS Integers, Sequences, SequencesExt, FiniteSetsExt

CONSTANT Float64(_)     \* the float64 nearest to an exact number (big.Rat.Float64)

\* PinnedReleaseStepsRPS and PinnedReleaseUnpublishedCapRPS, in quarters,
\* and PinnedReleaseCeilings.
Ladder == <<1, 2, 4, 8, 16>>
UnpublishedCap == 2
Ceilings == {512, 1024}

ReleaseCells == 12
ReleaseReruns == 2
ReleaseDayCells == 6
ReleaseProbeAllowance == 100
WarmupS == 60
StepS == 480
HardTimeoutS == 90

Dimensions == {"rpm", "rps", "tpm", "input_tpm", "output_tpm", "concurrency",
               "rpd", "tpd", "spend_window", "spend_month", "reload_threshold"}

\* The tests that admit a demand up to the limit; the others, up to half.
CoverTests == {"spend_month", "reload_threshold"}

Quarters(x) == 4 * x

-----------------------------------------------------------------------------
(* The traffic of a cell and of an edition. *)

\* Expected counts; none of the pinned products needs rounding.
ExpectedPlan ==
    [warmup |-> (Ladder[1] * WarmupS) \div 4,
     steps |-> [i \in DOMAIN Ladder |-> (Ladder[i] * StepS) \div 4],
     cells |-> ReleaseCells + ReleaseReruns,
     dayCells |-> ReleaseDayCells,
     probe |-> ReleaseProbeAllowance]

\* exactPlan: the largest warm-up and the largest count of every step over
\* the seeded ladders of the schedule's cells.
ExactPlan(ladders) ==
    [ExpectedPlan EXCEPT
        !.warmup = Max({ l.warmup : l \in ladders }),
        !.steps = [k \in DOMAIN Ladder |-> Max({ l.steps[k] : l \in ladders })]]

\* What CeilingRule asks of a plan before it uses it.
PlanFits(plan) ==
    /\ Len(plan.steps) = Len(Ladder)
    /\ plan.warmup >= 0 /\ plan.probe >= 0
    /\ plan.dayCells >= 1 /\ plan.dayCells <= plan.cells
    /\ \A i \in DOMAIN plan.steps : plan.steps[i] >= 0

\* The requests of one cell whose ladder ends with step k.
CellRequests(plan, k) ==
    LET upTo[i \in 0..k] == IF i = 0 THEN plan.warmup ELSE upTo[i - 1] + plan.steps[i]
    IN  upTo[k]

\* A request's worst price at given token bounds (checkPrice).
PerRequest(price, tok) == price.in * tok.in + price.out * tok.out

ReleaseTokens(cfg) == [in |-> cfg.input, out |-> cfg.ceiling]

ReleaseProbeTokens(cfg) == [in |-> cfg.input, out |-> Max(Ceilings)]

CellUSD(c, plan, k) == c * CellRequests(plan, k)

EditionNoProbes(c, cProbe, plan, k) == c * plan.cells * CellRequests(plan, k)

EditionUSD(c, cProbe, plan, k) ==
    c * plan.cells * CellRequests(plan, k) + cProbe * plan.probe

-----------------------------------------------------------------------------
(* One step's demands. *)

\* One request's count under the limit's counting.
Tokens(l, cfg) ==
    CASE l.counting = "input" -> cfg.input
      [] l.counting = "output_burndown" -> cfg.input + cfg.ceiling * l.burndown
      [] OTHER -> cfg.input + cfg.ceiling

\* A step's demand against limit l, in quarters.
LimitDemand(l, cfg, plan, c, cProbe, k) ==
    LET r == Ladder[k]
        perMinute == 60 * r
        day == Quarters(plan.dayCells * CellRequests(plan, k))
    IN  CASE l.dim = "rpm" -> perMinute
          [] l.dim = "rps" -> r
          [] l.dim = "tpm" -> perMinute * Tokens(l, cfg)
          [] l.dim = "input_tpm" -> perMinute * cfg.input
          [] l.dim = "output_tpm" -> perMinute * cfg.ceiling
          [] l.dim = "concurrency" -> r * HardTimeoutS
          [] l.dim = "rpd" -> day
          [] l.dim = "tpd" -> day * Tokens(l, cfg)
          [] l.dim = "spend_window" -> r * l.window * c
          [] l.dim = "spend_month" -> Quarters(EditionUSD(c, cProbe, plan, k))
          [] l.dim = "reload_threshold" -> Quarters(CellUSD(c, plan, k))

\* The exact comparison of a demand with the limit or with its half.
Passes(demand, value, half) ==
    IF half THEN 2 * demand <= value ELSE demand <= value

\* One test: passed or not on the exact numbers, published rounded.
Demand(dim, limit, value, demand, half) ==
    [dim |-> dim, limit |-> limit, unpublished |-> FALSE,
     confidential |-> FALSE, source |-> "",
     value |-> Float64(value), demand |-> Float64(demand), half |-> half,
     pass |-> Passes(demand, value, half)]

\* The demand against target.limits[i]; a confidential limit's value is
\* withheld and its source and keyed hash stand in for it.
LimitRow(cfg, plan, c, cProbe, k, i) ==
    LET l == cfg.limits[i]
        d == Demand(l.dim, i, l.value,
                    LimitDemand(l, cfg, plan, c, cProbe, k), l.dim \notin CoverTests)
    IN  IF l.confidential
        THEN [d EXCEPT !.value = 0, !.confidential = TRUE, !.source = l.source]
        ELSE d

UnpublishedRow(k, i) ==
    [Demand("unpublished", i, UnpublishedCap, Ladder[k], FALSE) EXCEPT
        !.unpublished = TRUE]

\* The tests of step k: target.limits, the unpublished limits, the cap.
Demands(cfg, plan, c, cProbe, k) ==
    [i \in DOMAIN cfg.limits |-> LimitRow(cfg, plan, c, cProbe, k, i)]
    \o [i \in 1..cfg.unpublished |-> UnpublishedRow(k, i)]
    \o << Demand("route_cap_usd", 0, cfg.routeUSD,
                 Quarters(EditionUSD(c, cProbe, plan, k)), FALSE) >>

\* A step is admitted when every test passes; else its first failed test
\* in that order binds (0: none).
Step(cfg, plan, c, cProbe, k) ==
    LET ds == Demands(cfg, plan, c, cProbe, k)
        binding == SelectInSeq(ds, LAMBDA d : ~d.pass)
    IN  [rps |-> Ladder[k], admitted |-> binding = 0, binding |-> binding, demands |-> ds]

-----------------------------------------------------------------------------
(* The verdict and the checks made of it. *)

\* The verdict at price p; callers check PlanFits first.
Verdict(cfg, p, plan) ==
    LET c == PerRequest(p, ReleaseTokens(cfg))
        cProbe == PerRequest(p, ReleaseProbeTokens(cfg))
        steps == [k \in DOMAIN Ladder |-> Step(cfg, plan, c, cProbe, k)]
        top == SelectLastInSeq(steps, LAMBDA s : s.admitted)
    IN  [perRequest |-> c, probe |-> cProbe, steps |-> steps, top |-> top,
         cellUSD |-> IF top = 0 THEN 0 ELSE CellUSD(c, plan, top),
         editionUSD |-> IF top = 0 THEN 0 ELSE EditionUSD(c, cProbe, plan, top)]

Admitted(v) == { k \in DOMAIN v.steps : v.steps[k].admitted }

\* A published demand names a limit of the configuration and its test, and
\* carries the limit's value or, for a confidential one, its source.
RowNames(cfg, d) ==
    /\ d.limit \in DOMAIN cfg.limits
    /\ LET l == cfg.limits[d.limit] IN
       /\ d.dim = l.dim /\ d.half = (l.dim \notin CoverTests)
       /\ d.confidential = l.confidential
       /\ IF l.confidential THEN d.value = 0 /\ d.source = l.source
          ELSE d.value = l.value /\ d.source = ""

\* One published demand against the limit the configuration records: a
\* confidential limit's test is made again, with the published number.
RowAgrees(cfg, d) ==
    \/ d.unpublished
    \/ d.dim = "route_cap_usd"
    \/ /\ RowNames(cfg, d)
       /\ d.confidential => d.pass = Passes(d.demand, cfg.limits[d.limit].value, d.half)

\* The problems CheckPublished reports: the demands of a published verdict,
\* the binding ones among them, that disagree with the configuration.
Problems(cfg, v) ==
    { d \in UNION { Range(v.steps[k].demands) : k \in DOMAIN v.steps } : ~RowAgrees(cfg, d) }

\* A limit's value is a float64, as the file holds it, and so is its half:
\* a demand is not rounded across either.
Rounds(l, demand) ==
    /\ Float64(l.value) = l.value /\ Float64(demand) \in Int
    /\ LET half == l.dim \notin CoverTests
           twice == IF half THEN 2 ELSE 1
       IN  IF Passes(demand, l.value, half) THEN twice * Float64(demand) <= l.value
                                            ELSE twice * Float64(demand) >= l.value

\* What the configuration, the price and the seeded ladders may be: counts,
\* tokens and prices are natural numbers, and no count is above the bound.
RuleInput(cfg, p, ladders, bound) ==
    /\ {cfg.input, cfg.ceiling, cfg.unpublished, p.in, p.out, bound} \subseteq Nat
    /\ cfg.routeUSD \in Int /\ cfg.limits \in Seq(Range(cfg.limits))
    /\ ladders # {}
    /\ \A l \in ladders : l.warmup \in 0..bound /\ l.steps \in [DOMAIN Ladder -> 0..bound]
    /\ \A l \in Range(cfg.limits) :
         /\ l.dim \in Dimensions /\ l.value \in Int /\ {l.burndown, l.window} \subseteq Nat
         /\ l.confidential \in BOOLEAN
         /\ LET plan == ExactPlan(ladders)
                c == PerRequest(p, ReleaseTokens(cfg))
                cProbe == PerRequest(p, ReleaseProbeTokens(cfg))
            IN  \A k \in DOMAIN Ladder : Rounds(l, LimitDemand(l, cfg, plan, c, cProbe, k))

-----------------------------------------------------------------------------
(* Properties. *)

\* What the rest of the release takes from a verdict: the admitted steps
\* are a prefix of the ladder (newRoute runs the first len(Admitted())
\* steps), and with every cell, re-run and probe request of an edition sent
\* up to the last of them, the route's cap covers the whole and what is
\* sent stays within half of each rate, token and concurrency limit and
\* within each cap, whichever of the eleven it is.  As published, the
\* verdict agrees with the configuration that gave it, but for a failed
\* test whose demand was rounded down to the bound it is above: that row
\* CheckPublished refuses.
VerdictSound(cfg, p, ladders, v) ==
    LET PerCell(l) == CellRequests(l, v.top)
        r == Ladder[v.top]
        c == p.in * cfg.input + p.out * cfg.ceiling
        Cost(n) == 14 * n * c + 100 * (p.in * cfg.input + p.out * 1024)
        Within(l, n) ==
            CASE l.dim = "rps" -> 2 * r <= l.value
              [] l.dim = "rpm" -> 120 * r <= l.value
              [] l.dim = "concurrency" -> 180 * r <= l.value
              [] l.dim = "tpm" -> 120 * r * Tokens(l, cfg) <= l.value
              [] l.dim = "input_tpm" -> 120 * r * cfg.input <= l.value
              [] l.dim = "output_tpm" -> 120 * r * cfg.ceiling <= l.value
              [] l.dim = "rpd" -> 48 * n <= l.value
              [] l.dim = "tpd" -> 48 * n * Tokens(l, cfg) <= l.value
              [] l.dim = "spend_window" -> 2 * r * l.window * c <= l.value
              [] l.dim = "spend_month" -> 4 * Cost(n) <= l.value
              [] l.dim = "reload_threshold" -> 4 * n * c <= l.value
        AtBound(d) ==
            /\ RowNames(cfg, d) /\ d.confidential /\ ~d.pass
            /\ cfg.limits[d.limit].value = IF d.half THEN 2 * d.demand ELSE d.demand
    IN  /\ Admitted(v) = 1..v.top
        /\ v.top > 0 => \A l \in ladders :
             /\ 4 * Cost(PerCell(l)) <= cfg.routeUSD
             /\ \A i \in DOMAIN cfg.limits : Within(cfg.limits[i], PerCell(l))
             /\ cfg.unpublished > 0 => r <= UnpublishedCap
        /\ \A d \in Problems(cfg, v) : AtBound(d)
=============================================================================
