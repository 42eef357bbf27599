------------------------------ MODULE MCSetUp ------------------------------
(***************************************************************************)
(* The machines and the rules' inputs of SetUp, small.                     *)
(***************************************************************************)
EXTENDS SetUp

CONSTANTS a, b, ra

MCHosts == {a, b}
MCRunning == {a}

\* What a request of a ceiling check may meet.
Response(status, models, shape, finish, prompt) ==
    [status |-> status, dispatched |-> TRUE, models |-> models,
     shape |-> shape, finish |-> finish, prompt |-> prompt]

MCResponses ==
    { Response(200, {"expected"}, "answer", "stop", "within"),
      Response(200, {"expected"}, "answer", "length", "within"),
      Response(200, {"other"}, "answer", "stop", "within"),
      Response(200, {}, "answer", "stop", "above"),
      Response(200, {}, "answer", "stop", "within"),
      Response(401, {}, "none", "", "none") }

File(limit, secret, group, tokens) ==
    [limit |-> limit, secret |-> secret, cap |-> 12, group |-> group,
     input |-> 1, ceiling |-> tokens]

MCFirst == File(4, "s", {a, b}, 1)
MCFiles == {File(4, "s", {a, b}, 1), File(4, "t", {a, b}, 1), File(2, "s", {}, 2)}

\* A weekday's session and its reserve, and the parts of a development
\* configuration.
MCSessionDay == [l \in {a, ra} |-> "weekday"]
MCSlot == [l \in {a, ra} |-> IF l = a THEN 1 ELSE 2]
MCConfigs == { <<1, 1>>, <<1, 2>>, <<2, 1>> }

-----------------------------------------------------------------------------
(* The rules' inputs. *)

ListPrices == { [in |-> 0, out |-> 1], [in |-> 2, out |-> 1] }

Ladders ==
    { {[warmup |-> 15, steps |-> <<120, 240, 480, 960, 1920>>]},
      {[warmup |-> 12, steps |-> <<130, 230, 500, 0, 1900>>],
       [warmup |-> 18, steps |-> <<110, 250, 470, 990, 1890>>]} }

\* A float64 with eight bits for its fifty-three: the space between two such
\* numbers, and rounding to the nearest, to the even one of two.
Bits == 8

Spacing(x) ==
    CHOOSE s \in { 2^i : i \in 0..24 } : x < s * 2^Bits /\ (s = 1 \/ x >= s * 2^(Bits - 1))

MCFloat64(x) ==
    LET s == Spacing(x)
        low == x \div s
        up == 2 * (x % s) > s \/ (2 * (x % s) = s /\ low % 2 = 1)
    IN  s * (IF up THEN low + 1 ELSE low)

\* Caps at and just below what each step demands, and limits at the float64
\* nearest to it and at the one below.
Edges(Demand(_)) == UNION { {Demand(k), Demand(k) - 1} : k \in 1..5 }

Nearest(x) == {MCFloat64(x), MCFloat64(MCFloat64(x) - Spacing(x))}

MCCeilingInputs ==
    UNION { LET c == Rate!PerRequest(p, [in |-> 3, out |-> 512])
                cp == Rate!PerRequest(p, [in |-> 3, out |-> 1024])
                plan == Rate!ExactPlan(ls)
                cfg == [input |-> 3, ceiling |-> 512]
                Dollars == Edges(LAMBDA k : 4 * Rate!EditionUSD(c, cp, plan, k))
                Limit(d) == [dim |-> d, counting |-> "sum", burndown |-> 1, window |-> 10]
                Factor(d) == IF d \in Rate!CoverTests THEN 1 ELSE 2
                Recorded == UNION { { [dim |-> d, value |-> v, confidential |-> s, source |-> "",
                                       counting |-> "sum", burndown |-> 1, window |-> 10] :
                                        v \in UNION { Nearest(Factor(d) *
                                                        Rate!LimitDemand(Limit(d), cfg, plan, c, cp, k)) : k \in 1..5 },
                                        s \in BOOLEAN } : d \in Rate!Dimensions }
                Tested == { t \in Recorded \X Dollars : t[1].confidential => \A d \in Dollars : t[2] >= d }
            IN  { [cfg |-> [input |-> 3, ceiling |-> 512, limits |-> <<t[1]>>,
                            unpublished |-> u, routeUSD |-> t[2]],
                   price |-> p, ladders |-> ls] :
                     t \in Tested, u \in {0, 1} }
          : p \in ListPrices, ls \in Ladders }

MCScheduleInputs ==
    UNION { { [first |-> f, days |-> n, routes |-> rs, configs |-> {}, lines |-> 0,
               head |-> "", ledger |-> "", draw |-> <<d, [l \in Sched!Labels |-> l[2] % 5]>>,
               shuffle |-> <<[i \in 1..20 |-> 1], [i \in 1..20 |-> 0]>>] :
                 d \in [Sched!Labels -> 0..1] }
          : f \in {3, 4}, n \in {3, 4, 14, 15},
            rs \in {<<1>>, <<1, 2, 3>>, [i \in 1..18 |-> i], [i \in 1..19 |-> i]} }

\* Four or more days of each type, and draws that collide before they do not.
MCPilotInputs ==
    { [freeze |-> f, last |-> f + n, exclude |-> ex, draws |-> <<d, e>>, swaps |-> [i \in 1..6 |-> s + i]] :
        f \in {1, 5}, n \in {20, 26}, ex \in {{}, {8, 9}},
        d \in [1..6 -> 0..1], e \in {<<0, 1, 2, 0, 1, 2>>, <<3, 4, 5, 3, 4, 5>>}, s \in {0, 1} }

Entry(name, star) == [name |-> name, star |-> star]

HeaderEntries ==
    { Entry(<<"retry", "after">>, FALSE), Entry(<<"retry">>, TRUE),
      Entry(<<"x", "request", "id">>, FALSE), Entry(<<"x">>, TRUE),
      Entry(<<"x", "ratelimit">>, TRUE), Entry(<<"x", "ratelimit">>, FALSE),
      Entry(<<"set", "cookie">>, FALSE) }

MCHeaderNames ==
    { <<"retry", "after">>, <<"x", "request", "id">>, <<"x", "ratelimit">>,
      <<"x", "ratelimit", "request", "id">>, <<"set", "cookie">>, <<"date">> }

Marked(marking) ==
    [dim |-> "rpm", value |-> 7, marking |-> marking, window |-> 0, counting |-> "",
     burndown |-> 0, hash |-> IF marking = "public" THEN "sha256" ELSE "hmac"]

Text(kind, in, carries, fixed) == [kind |-> kind, in |-> in, carries |-> carries, fixed |-> fixed]

Texts ==
    { { Text("value", Marked("confidential"), {7}, FALSE), x } :
        x \in { Text("string", None, {7}, FALSE), Text("string", None, {7}, TRUE),
                Text("comment", Marked("confidential"), {}, FALSE),
                Text("value", None, {7}, FALSE), Text("string", None, {}, FALSE) } }

ReleaseFile(tokens, adapter, bodyKey, headers, retained, marking, texts) ==
    [profile |-> "release", off |-> {}, sections |-> {"release", "target"}, ceiling |-> tokens,
     caps |-> [route |-> 1, global |-> 1], otherHosts |-> <<2>>, texts |-> texts,
     target |-> [name |-> 1, adapter |-> adapter, model |-> "m", notApplied |-> <<>>,
                 body |-> << [key |-> "stream", value |-> "true"],
                             [key |-> "case", value |-> "{{case}}"],
                             [key |-> bodyKey, value |-> "512"] >>,
                 headers |-> <<Entry(<<"retry", "after">>, FALSE)>> \o headers,
                 retained |-> retained, limits |-> <<Marked(marking)>>,
                 unpublished |-> <<>>, balance |-> None, probe |-> None]]

RunFile(profile, variant, mock, baseline, offset, timeout, partition, grace) ==
    [profile |-> profile, off |-> {}, sections |-> {}, variant |-> variant, mock |-> mock,
     baseline |-> baseline, offset |-> offset, timeout |-> timeout, partition |-> partition,
     grace |-> grace, container |-> FALSE, replicas |-> 2, metricsURLs |-> 0,
     hosted |-> FALSE, ignoreEOS |-> TRUE, connections |-> 8]

PilotTarget(i, params, notApplied) ==
    [name |-> i, url |-> i, ceilingKeys |-> {"max_tokens"}, ceiling |-> 4096,
     params |-> params, notApplied |-> notApplied]

Params == [ {"reasoning_effort", "temperature"} -> {None, 1, 2} ]
NotApplied == {<<>>, <<"temperature">>, <<"reasoning_effort">>}

MCConfigurations ==
    { ReleaseFile("512", "chat", "max_tokens", hs, rs, marking, {}) :
        hs \in BoundedSeq(HeaderEntries, 2), rs \in BoundedSeq(HeaderEntries, 1),
        marking \in {"public", "confidential"} }
    \cup
    { ReleaseFile(tokens, adapter, bodyKey, <<>>, <<>>, marking, texts) :
        tokens \in {"512", "1024"}, adapter \in {"chat", "messages"},
        bodyKey \in {"max_tokens", "max_completion_tokens"},
        marking \in {"public", "confidential"}, texts \in Texts }
    \cup
    { RunFile(profile, variant, None, baseline, offset, timeout, partition, grace) :
        profile \in {"experiment", "ac"}, variant \in {"none", "black_hole", "clean_delete"},
        baseline \in {0, 1, 300, NaN}, offset \in {0, 1, 300, NaN}, timeout \in {600, NaN},
        partition \in {0, 120}, grace \in {0, 40, 120} }
    \cup
    { RunFile("ac", "mock", mock, baseline, 1, 600, 0, 40) :
        mock \in BoundedSeq({ [start |-> s, duration |-> d] : s \in {0, 2, 4}, d \in {2, 3} }, 3),
        baseline \in {1, NaN} }
    \cup
    { [profile |-> "pilot", off |-> {}, sections |-> {"pilot"},
       targets |-> <<PilotTarget(1, p, n), PilotTarget(2, q, m)>>] :
        p, q \in Params, n, m \in NotApplied }
=============================================================================
