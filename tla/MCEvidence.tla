----------------------------- MODULE MCEvidence -----------------------------
(***************************************************************************)
(* The machines and the responses of Evidence, small.                      *)
(***************************************************************************)
EXTENDS Evidence, TLC

CONSTANTS a, b

Seqs == INSTANCE SequencesExt

MCHosted == {a, b}
MCRoutes == {a}

-----------------------------------------------------------------------------
(* What a cell's ladder may end with. *)

Request(step, outcome, itls, others) ==
    [step |-> step, warmup |-> step = 0, outcome |-> outcome, itls |-> itls,
     events |-> IF itls = <<>> THEN 0 ELSE Len(itls) + 1,
     model |-> IF outcome = "completed" THEN "expected" ELSE "", others |-> others,
     inTime |-> outcome = "completed", sent |-> outcome # ""]

Warm == Request(0, "completed", <<1>>, {})
Done == Request(1, "completed", <<0, 2, 4>>, {})
Wrong == Request(1, "completed", <<5>>, {"other"})
Unsent == Request(2, "", <<>>, {})
Censored == Request(2, "censored", <<1>>, {})

Ladder(reqs, stopped, cause, whole, steps, tripwire) ==
    [reqs |-> reqs, stopped |-> stopped, cause |-> cause, whole |-> whole,
     steps |-> steps, tripwire |-> tripwire]

MCEdges == <<1, 2, 5>>

MCResults ==
    { Ladder(<<Warm, Done, Censored>>, FALSE, "none", TRUE, <<"pass", "pass">>, FALSE),
      Ladder(<<Warm, Wrong, Done>>, FALSE, "none", TRUE, <<"pass">>, FALSE),
      Ladder(<<Warm, Done, Unsent>>, TRUE, "stop", FALSE, <<"pass", "none">>, FALSE),
      Ladder(<<Done, Unsent>>, TRUE, "emfile", FALSE, <<"fail">>, FALSE),
      Ladder(<<Done, Wrong>>, FALSE, "none", FALSE, <<"fail">>, TRUE) }

-----------------------------------------------------------------------------
(* What the host's commands may print, and the operator file hold. *)

Limit(dimension, value, confidential) ==
    [dimension |-> dimension, value |-> value, confidential |-> confidential]

Exited(code, printed) == [timedOut |-> FALSE, exit |-> code, dropped |-> 0] @@ printed

Read(dimension, value) == [dimension |-> dimension, value |-> value, unavailable |-> None]

NotRead(dimension) == [dimension |-> dimension, value |-> None, unavailable |-> "reason"]

RefreshRun(code, out) == Exited(code, [out |-> out, printed |-> {5, 7, 8}])

Clock(tool, lines) == Exited(0, [tool |-> tool, lines |-> lines])

Line(kind, text) == [kind |-> kind, text |-> text]

Balance(amount, unavailable) ==
    Exited(0, [out |-> [amount |-> amount, unavailable |-> unavailable]])

OpFile(kinds, texts, touched) ==
    [decodes |-> TRUE, kinds |-> kinds, texts |-> texts, touched |-> touched]

Documents == {"limits", "eligibility"}

MCTargets == { <<Limit("rpm", 5, FALSE), Limit("tpm", 7, TRUE)>>, <<Limit("rpm", 5, FALSE)>> }

MCClockRuns ==
    { Clock("sntp", <<Line("offset", 1)>>), Clock("sntp", <<Line("offset", -3)>>),
      Clock("chronyc", <<Line("reference", "local"), Line("system", 3), Line("leap", "Normal")>>) }

MCRefreshRuns ==
    { RefreshRun(0, <<Read("rpm", 5), Read("tpm", 8)>>), RefreshRun(0, <<Read("rpm", 5)>>),
      RefreshRun(0, <<Read("rpm", 2), NotRead("tpm")>>),
      RefreshRun(0, <<NotRead("rpm"), NotRead("tpm")>>), RefreshRun(1, None) }

MCBalanceRuns == { Balance(1, None), Balance(2, None), Balance(None, "reason") }

MCOpFiles ==
    { OpFile(Documents \cup {"prices"}, {}, Documents),
      OpFile(Documents \cup {"prices"}, {8}, Documents),
      OpFile(Documents \cup {"prices"}, {}, {"limits"}),
      OpFile(Documents, {7}, Documents) }

MCPrices == <<1, 2, 1>>

-----------------------------------------------------------------------------
(* Responses, of at most three events. *)

Payload ==
    [json |-> TRUE, type |-> "chunk", choices |-> None, usage |-> None, err |-> FALSE,
     refusal |-> None, model |-> "", field |-> <<>>, finish |-> ""]

Open == <<<<"{">>, Stream!Pair("route", "billing")>>
Whole == Open \o <<<<"}">>>>

Choice(content, reasoning, finish) ==
    [Payload EXCEPT !.choices = <<[content |-> content, reasoning |-> reasoning, finish |-> finish]>>]

ChatEvents ==
    { Choice(Open, None, ""), Choice(<<<<"}">>>>, <<<<"t">>>>, "length"), Choice(None, None, "stop"),
      Choice(Whole, None, "stop"), Choice(<<<<"}">>>>, None, "stop"), Choice(Bad, None, ""),
      [Payload EXCEPT !.err = TRUE], [Payload EXCEPT !.refusal = <<<<"no">>>>],
      [Payload EXCEPT !.usage = 3, !.model = "m"], [Payload EXCEPT !.type = "done"],
      [Payload EXCEPT !.type = "oversized"], Payload }

Event(type, field) == [Payload EXCEPT !.type = type, !.field = field]

MessagesEvents ==
    { Event("message_start", <<>>), Event("text_delta", Open), Event("text_delta", Whole),
      Event("text_delta", <<<<"}">>>>), Event("thinking_delta", <<<<"t">>>>), Event("text_delta", Bad),
      [Event("message_delta", <<>>) EXCEPT !.finish = "stop", !.usage = 2], Event("error", <<>>),
      Event("message_stop", <<>>), Event("other", <<>>), Event("done", <<>>), Event("oversized", <<>>) }

MCScoreRule ==
    [cutoff |-> 3, accepted |-> {"stop"}, length |-> {"length"}, refusal |-> {"content_filter"},
     labels |-> {"billing", "other"}]

Target(messages, hosted) ==
    [messages |-> messages, hosted |-> hosted, expected |-> "m", deadline |-> 3]

Streams(messages, events) ==
    [tgt : { Target(messages, h) : h \in BOOLEAN },
     resp : [status : {200}, events : Seqs!BoundedSeq(events, 3), end : {"eof", "reset", "timeout"},
             cut : BOOLEAN]]

MCAnswers ==
    [chat |-> Streams(FALSE, ChatEvents), messages |-> Streams(TRUE, MessagesEvents),
     failed |-> [tgt : {Target(FALSE, TRUE)},
                 resp : [status : {0, 429, 500}, events : {<<>>},
                         end : {"reset", "timeout", "refused"}, cut : {FALSE}]]]
=============================================================================
