---------------------------- MODULE StreamClient ----------------------------
(***************************************************************************)
(* One request's response, from its lines to its outcome, its record and   *)
(* its task score: sse.Events (internal/sse/sse.go), the client            *)
(* (internal/loadgen/sse_client.go), the per-attempt record                *)
(* (internal/evidence/attempts.go) and the scorer (internal/score).        *)
(*                                                                         *)
(* A response is its status, its events and how the body ended.  An event  *)
(* is a payload with the fields the two adapters read, Bad where a field   *)
(* has the wrong type and None where it is absent; text is a short         *)
(* sequence.  The k-th event arrives at time k.  Masking of secrets,       *)
(* headers and the replica header are not followed.                        *)
(***************************************************************************)
EXTENDS Integers, Sequences, FiniteSets, SequencesExt

CONSTANTS None, Bad

\* What the two adapters read of an event.
Chunk == [content |-> <<>>, reasoning |-> <<>>, finish |-> "", model |-> "", usage |-> None,
          err |-> FALSE, refusal |-> <<>>, known |-> FALSE, end |-> FALSE, output |-> None]

Ok(c) == [ok |-> TRUE, c |-> c]
NotOk == [ok |-> FALSE, c |-> Chunk]

Text(v) == IF v = None THEN <<>> ELSE v

\* parseChunk: choices of any type but a list of objects, or a delta, a
\* content, a reasoning or a refusal of the wrong type, do not decode; only
\* the first choice is read.
ParseChunk(p) ==
    LET choices == IF p.choices = None THEN <<>> ELSE p.choices
        first == IF choices = <<>> THEN [content |-> <<>>, reasoning |-> <<>>, finish |-> ""]
                 ELSE [content |-> Text(choices[1].content), reasoning |-> Text(choices[1].reasoning),
                       finish |-> choices[1].finish]
    IN  IF \/ p.json = Bad \/ p.refusal = Bad
           \/ \E i \in DOMAIN choices : choices[i].content = Bad \/ choices[i].reasoning = Bad
        THEN NotOk
        ELSE Ok([Chunk EXCEPT !.content = first.content, !.reasoning = first.reasoning,
                 !.finish = first.finish, !.model = p.model, !.usage = p.usage, !.err = p.err,
                 !.refusal = Text(p.refusal), !.output = p.usage,
                 !.known = p.choices # None \/ p.usage # None \/ p.err \/ p.refusal # None])

\* parseMessagesEvent: by the event's type; another type is unknown.
ParseMessagesEvent(p) ==
    LET known == [Chunk EXCEPT !.known = TRUE] IN
    IF p.json = Bad \/ p.field = Bad \/ p.type = "done" THEN NotOk
    ELSE
    CASE p.type = "message_start" -> Ok([known EXCEPT !.model = p.model, !.usage = p.usage])
      [] p.type \in {"content_block_start", "text_delta"} -> Ok([known EXCEPT !.content = p.field])
      [] p.type = "thinking_delta" -> Ok([known EXCEPT !.reasoning = p.field])
      [] p.type = "message_delta" -> Ok([known EXCEPT !.finish = p.finish, !.usage = p.usage,
                                                      !.output = p.usage])
      [] p.type = "error" -> Ok([known EXCEPT !.err = TRUE])
      [] p.type = "message_stop" -> Ok([known EXCEPT !.end = TRUE])
      [] p.type \in {"signature_delta", "content_block_stop", "ping"} -> Ok(known)
      [] OTHER -> Ok(Chunk)

Decode(p, messages) ==
    CASE messages -> ParseMessagesEvent(p)
      [] ~messages /\ p.type = "done" -> Ok([Chunk EXCEPT !.end = TRUE])
      [] OTHER -> ParseChunk(p)

\* mergeUsage: the last non-null count of a field stands.
MergeUsage(prev, next) == IF next = None THEN prev ELSE next

\* recordChunk and the content's arrival; a hosted target's text is kept.
RecordChunk(r, c, t, tgt) ==
    [r EXCEPT
        !.unknown = IF c.known THEN @ ELSE @ + 1,
        !.usage = MergeUsage(@, c.usage),
        !.completion = IF c.output = None THEN @ ELSE c.output,
        !.finish = IF c.finish = "" THEN @ ELSE c.finish,
        !.model = IF @ = "" THEN c.model ELSE @,
        !.mismatch = IF c.model \in {"", tgt.expected} THEN @ ELSE @ \cup {c.model},
        !.streamErr = @ \/ c.err,
        !.refusal = @ \o c.refusal,
        !.reasoning = @ + IF c.reasoning = <<>> THEN 0 ELSE 1,
        !.content = IF tgt.hosted THEN @ \o c.content ELSE @,
        !.tokens = @ + IF c.content = <<>> THEN 0 ELSE 1,
        !.firstTok = IF c.content # <<>> /\ @ = 0 THEN t ELSE @]

Request ==
    [outcome |-> "", class |-> "", done |-> 0, late |-> FALSE, unknown |-> 0, usage |-> None,
     completion |-> None, finish |-> "", model |-> "", mismatch |-> {}, streamErr |-> FALSE,
     refusal |-> <<>>, reasoning |-> 0, content |-> <<>>, tokens |-> 0, firstTok |-> 0,
     status |-> 0]

\* Events: each event is handed on until one stops the read; an oversized
\* event is dropped and counted, and an event the body's end cut off is
\* still handed on.
Unread ==
    [r |-> [Request EXCEPT !.status = 200], stop |-> 0, malformed |-> FALSE,
     sawDone |-> FALSE, inBand |-> FALSE, dropped |-> 0]

HandOn(tgt, resp, s, i) ==
    LET p == resp.events[i]
        d == Decode(p, tgt.messages)
        fails == d.c.err /\ tgt.hosted
    IN  IF s.stop > 0 THEN s
        ELSE IF p.type = "oversized" THEN [s EXCEPT !.dropped = @ + 1]
        ELSE IF ~d.ok THEN [s EXCEPT !.malformed = TRUE, !.stop = i]
        ELSE IF d.c.end THEN [s EXCEPT !.sawDone = TRUE, !.stop = i]
        ELSE [s EXCEPT !.r = RecordChunk(@, d.c, i, tgt), !.inBand = fails,
                       !.stop = IF fails THEN i ELSE 0]

ReadEvents(tgt, resp) ==
    LET read[i \in 0..Len(resp.events)] ==
          IF i = 0 THEN Unread ELSE HandOn(tgt, resp, read[i - 1], i)
    IN  read[Len(resp.events)]

\* An event stops the read unless the body's end cut it off: it is then
\* handed on after the read ended, and the read's error stands.
Stopped(s, resp) == s.stop > 0 /\ ~(resp.cut /\ s.stop = Len(resp.events))

ReadError(s, resp) == IF Stopped(s, resp) \/ resp.end = "eof" THEN "" ELSE resp.end

End(s, resp) == IF Stopped(s, resp) THEN s.stop ELSE Len(resp.events) + 1

Ended(r, outcome, class, t) == [r EXCEPT !.outcome = outcome, !.class = class, !.done = t]

ClassifyTransportErr(r, err, t) ==
    CASE err = "timeout" -> Ended(r, "censored", "", t)
      [] err = "reset" -> Ended(r, "errored", "reset", t)
      [] OTHER -> Ended(r, "errored", "connect", t)

ClassifyStreamErr(r, err, t) ==
    CASE err = "timeout" -> Ended(r, "censored", "", t)
      [] err = "reset" -> Ended(r, "errored", "reset", t)
      [] OTHER -> Ended(r, "errored", "malformed_stream", t)

ClassifyDropped(s, resp, deadline) ==
    LET t == End(s, resp)
        err == ReadError(s, resp)
    IN  IF err # "" THEN ClassifyStreamErr(s.r, err, t)
        ELSE IF s.malformed \/ ~s.sawDone THEN Ended(s.r, "errored", "malformed_stream", t)
        ELSE IF s.r.firstTok = 0 THEN Ended(s.r, "errored", "empty_stream", t)
        ELSE [Ended(s.r, "completed", "", t) EXCEPT !.late = t > deadline]

\* The outcome of a response that began with status 200: the first case
\* that applies decides.
Classify(s, resp, deadline) ==
    LET t == End(s, resp)
        err == ReadError(s, resp)
    IN  IF s.inBand /\ err = "" THEN Ended(s.r, "errored", "malformed_stream", t)
        ELSE IF err # "" THEN ClassifyStreamErr(s.r, err, t)
        ELSE IF s.malformed \/ s.dropped > 0 \/ ~s.sawDone
             THEN Ended(s.r, "errored", "malformed_stream", t)
        ELSE IF s.r.firstTok = 0 THEN Ended(s.r, "errored", "empty_stream", t)
        ELSE [Ended(s.r, "completed", "", t) EXCEPT !.late = t > deadline]

\* execute: what the request records.
Execute(tgt, resp) ==
    CASE resp.status = 0 -> ClassifyTransportErr(Request, resp.end, 1)
      [] resp.status = 429 -> [Ended(Request, "errored", "status_429", 1) EXCEPT !.status = 429]
      [] resp.status \notin {0, 200, 429} ->
           [Ended(Request, "errored", "status_other", 1) EXCEPT !.status = resp.status]
      [] OTHER -> Classify(ReadEvents(tgt, resp), resp, tgt.deadline)

-----------------------------------------------------------------------------
(* The record and its score. *)

\* Records: the request as published, its completion split at the
\* deadline; Attempt: what the scorer reads of it.
RecordOf(r) ==
    [request |-> [r EXCEPT !.content = <<>>], inTime |-> r.outcome = "completed" /\ ~r.late,
     reasoned |-> r.reasoning > 0]

Attempt(r) ==
    [ended |-> r.outcome = "completed" \/ r.class = "empty_stream", end |-> r.done,
     finish |-> r.finish, answer |-> r.content, refusal |-> r.refusal]

\* Contract.Parse of an answer, a sequence of the pieces of its text: one
\* object with the key route alone, once, and nothing around it.
Pair(key, value) == <<key, value>>

Parse(answer, labels) ==
    LET close == SelectInSeq(answer, LAMBDA p : p = <<"}">>)
        pairs == SubSeq(answer, 2, close - 1)
        repeated == \E i, j \in DOMAIN pairs : i < j /\ pairs[i][1] = pairs[j][1]
        Fails(why) == [label |-> "", reason |-> why]
    IN  IF answer = <<>> THEN Fails("empty")
        ELSE IF answer[1] = <<"fence">> THEN Fails("code_fence")
        ELSE IF answer[1] # <<"{">> THEN Fails("not_object")
        ELSE IF close = 0 \/ \E i \in DOMAIN pairs : Len(pairs[i]) = 1 THEN Fails("invalid_json")
        ELSE IF close < Len(answer) THEN Fails("trailing_text")
        ELSE IF repeated THEN Fails("duplicate_key")
        ELSE IF \E i \in DOMAIN pairs : pairs[i][1] # "route" THEN Fails("extra_key")
        ELSE IF pairs = <<>> THEN Fails("missing_route")
        ELSE IF pairs[1][2] \in labels THEN [label |-> pairs[1][2], reason |-> ""]
        ELSE Fails("unknown_label")

\* Score: the first rule that applies decides.
Score(a, rule, expected) ==
    LET late == a.ended /\ a.end > rule.cutoff
        V(class) == [class |-> class, late |-> late]
        label == Parse(a.answer, rule.labels).label
    IN  IF ~a.ended THEN V(IF a.answer # <<>> THEN "partial_answer" ELSE "no_answer")
        ELSE IF a.refusal # <<>> \/ a.finish \in rule.refusal THEN V("refusal")
        ELSE IF a.finish \in rule.length THEN V("length_limit")
        ELSE IF a.finish = "" THEN V("unknown_termination")
        ELSE IF a.finish \notin rule.accepted THEN V("instrument_incompatible")
        ELSE IF label = "" THEN V("schema_failure")
        ELSE IF label # expected THEN V("wrong_label")
        ELSE IF late THEN V("late_correct")
        ELSE V("success")

-----------------------------------------------------------------------------
(* What a response may be. *)

\* A text is a sequence of pieces, each one word, or a key and its value.
Texts == { v \in Seq(Seq(STRING)) : \A i \in DOMAIN v : Len(v[i]) \in {1, 2} }

IsPayload(p) ==
    /\ p.choices = None \/ p.choices \in Seq([content : {None, Bad} \cup Texts,
                                              reasoning : {None, Bad} \cup Texts, finish : STRING])
    /\ p.refusal \in {None, Bad} \cup Texts /\ p.field \in {Bad} \cup Texts
    /\ p.err \in BOOLEAN

\* A response a of any status, and its target, scored at the target's
\* deadline.
ResponseInput(a, rule) ==
    /\ a.tgt.hosted \in BOOLEAN /\ a.tgt.messages \in BOOLEAN
    /\ a.tgt.deadline \in Nat /\ rule.cutoff = a.tgt.deadline
    /\ a.resp.end # "" /\ a.resp.cut \in BOOLEAN
    /\ DOMAIN a.resp.events = 1..Len(a.resp.events) /\ Len(a.resp.events) \in Nat
    /\ \A i \in DOMAIN a.resp.events : IsPayload(a.resp.events[i])

-----------------------------------------------------------------------------
(* Properties. *)

Decoded(tgt, resp, i) == Decode(resp.events[i], tgt.messages)

\* An event that was read and did not end or spoil the stream; one that
\* ends it, and the first of these.
Fine(tgt, resp, i) ==
    /\ resp.events[i].type # "oversized" /\ Decoded(tgt, resp, i).ok
    /\ ~(tgt.hosted /\ Decoded(tgt, resp, i).c.err)

Terminators(tgt, resp) ==
    { i \in DOMAIN resp.events : /\ resp.events[i].type # "oversized"
                                 /\ Decoded(tgt, resp, i).ok /\ Decoded(tgt, resp, i).c.end }

Terminator(tgt, resp) ==
    CHOOSE i \in Terminators(tgt, resp) : \A j \in Terminators(tgt, resp) : i <= j

\* The events before the terminator.
Body(tgt, resp) == 1..(Terminator(tgt, resp) - 1)

\* The response is a whole answer.
Complete(tgt, resp) ==
    /\ resp.status = 200 /\ Terminators(tgt, resp) # {}
    /\ ~(resp.cut /\ Terminator(tgt, resp) = Len(resp.events) /\ resp.end # "eof")
    /\ \A i \in Body(tgt, resp) : Fine(tgt, resp, i)
    /\ \E i \in Body(tgt, resp) : Decoded(tgt, resp, i).c.content # <<>>

\* Nothing was refused, the text is the expected answer's and the last
\* finish reason an accepted one.
Right(tgt, resp, rule) ==
    LET At(i) == Decoded(tgt, resp, i).c
        finishes == { i \in Body(tgt, resp) : At(i).finish # "" }
    IN  /\ \A i \in Body(tgt, resp) : At(i).refusal = <<>>
        /\ FlattenSeq([i \in Body(tgt, resp) |-> At(i).content]) =
             <<<<"{">>, Pair("route", "billing"), <<"}">>>>
        /\ \E i \in finishes : At(i).finish \in rule.accepted /\ \A j \in finishes : j <= i

\* A request counts as completed exactly when every event up to a
\* terminator inside the body decoded, none was dropped and none carried an
\* error (of a hosted target), and one had content, whatever follows the
\* terminator; it succeeds only if, besides, nothing was refused, the last
\* finish reason before the terminator is an accepted one, the whole
\* visible text is the expected label and the end is within the deadline,
\* and none that the record has in time is scored late.
\* What follows an in-band error or a terminator leaves no trace.
AttemptSound(tgt, resp, rule, r) ==
    LET v == Score(Attempt(r), rule, "billing")
    IN  /\ (r.outcome = "completed") = Complete(tgt, resp)
        /\ r.outcome # "" /\ (r.outcome = "errored") = (r.class # "")
        /\ r.firstTok > 0 => /\ r.firstTok <= r.done
                             /\ r.outcome = "completed" => r.firstTok < r.done
        /\ v.class = "success" => Complete(tgt, resp) /\ ~r.late /\ Right(tgt, resp, rule)
        /\ v.class \in {"late_correct", "wrong_label"} => Complete(tgt, resp)
        /\ RecordOf(r).inTime => ~v.late
        /\ r.streamErr /\ tgt.hosted => r.outcome # "completed"
=============================================================================
