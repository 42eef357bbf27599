---------------------------- MODULE CeilingCheck ----------------------------
(***************************************************************************)
(* The ceiling check of the hosts of one model: percentes-release          *)
(* ceiling-check sends a host's requests and writes a record               *)
(* (internal/probe/release.go, cmd/percentes-release/ceiling.go), run      *)
(* reads the records it is given for every host, chooses the ceiling and   *)
(* refuses to start unless its configuration runs at it (route.go,         *)
(* readCeilingProbes), and pages compares what the hosts ran with          *)
(* (pages.go, sameCeiling).  A check may be sent again, so two hosts may   *)
(* be started on different records.                                        *)
(***************************************************************************)
EXTENDS Integers, Sequences, FiniteSets, SequencesExt

CONSTANTS
    Hosts,          \* the routes of the model
    Requests,       \* CeilingRequests
    Low, High,      \* PinnedReleaseCeilings
    Documented,     \* the hosts whose target.reported_model is recorded
    Responses,      \* what a request may meet: status, dispatched, models,
                    \* shape of the stream, finish reason, prompt tokens
    MaxRecords,     \* bound: records written
    None

VARIABLES
    ceiling,    \* the ceiling of each host's frozen configuration
    recs,       \* the records on disk
    ran         \* what each host's process started with

checkVars == <<ceiling, recs, ran>>

\* The pinned ceilings differ, and a stream has a status line before it: a
\* response was sent for, and its status is not the zero of none.
CheckConstants ==
    /\ Low # High /\ 0 \notin {Low, High} /\ Requests \in Nat
    /\ \A r \in Responses : r.shape # "none" => r.status # 0 /\ r.dispatched

-----------------------------------------------------------------------------
(* One check. *)

SetupDefect == {401, 403}

\* Gate: a status that blocks the start ends the requests.
Gate(status) == status \in SetupDefect

\* The first reason a request fails the ceiling check.
CeilingFail(r) ==
    IF r.status \notin {0, 200} THEN "status"
    ELSE IF r.shape = "none" THEN "no response"
    ELSE IF r.shape = "malformed" THEN "malformed stream"
    ELSE IF r.shape = "open" THEN "no terminator"
    ELSE IF r.shape = "error" THEN "in-band error"
    ELSE IF r.shape = "blank" THEN "no visible content"
    ELSE IF r.finish = "" THEN "no finish reason"
    ELSE IF r.finish = "length" THEN "stopped at the ceiling"
    ELSE ""

CheckRequest(r) == [resp |-> r, fail |-> CeilingFail(r), pass |-> CeilingFail(r) = ""]

\* The ceiling check and the input bound over a record's requests.
CeilingResult(reqs) ==
    LET passed == { i \in DOMAIN reqs : reqs[i].pass } IN
    [sent |-> Cardinality({ i \in DOMAIN reqs : reqs[i].resp.dispatched }),
     passed |-> Cardinality(passed),
     pass |-> Cardinality(passed) = Requests]

InputResult(reqs) ==
    LET reported == { i \in DOMAIN reqs : reqs[i].resp.prompt # "none" }
        exceeded == { i \in DOMAIN reqs : reqs[i].resp.prompt = "above" }
    IN  [reported |-> Cardinality(reported),
         exceeded |-> Cardinality(exceeded),
         pass |-> Cardinality(reported) = Requests /\ exceeded = {}]

Blocked(reqs) == reqs # <<>> /\ Gate(Last(reqs).resp.status)

\* The record a check writes once its requests ended.
Record(host, c, reqs) ==
    [host |-> host, ceiling |-> c, requests |-> reqs, blocked |-> Blocked(reqs),
     check |-> CeilingResult(reqs), bound |-> InputResult(reqs)]

\* Verify: the record's results are the ones its requests give.
Verify(rec) ==
    LET qs == rec.requests IN
    /\ \A i \in DOMAIN qs :
         /\ qs[i].fail = CeilingFail(qs[i].resp) /\ qs[i].pass = (qs[i].fail = "")
         /\ qs[i].pass => qs[i].resp.status = 200 /\ qs[i].resp.dispatched
         /\ i < Len(qs) => ~Gate(qs[i].resp.status)
    /\ Blocked(qs) => rec.blocked
    /\ rec.blocked \/ Len(qs) = Requests
    /\ rec.check = CeilingResult(qs) /\ rec.bound = InputResult(qs)

\* ReportedModels of a host's records together.
Reported(rs) == UNION { UNION { q.resp.models : q \in ToSet(r.requests) } : r \in rs }

\* modelFault: a reported id other than the expected one, or a documented
\* one nobody reported.  ModelFault (the host's own run) and hostModelFault
\* (another host's) differ only in how they know what is documented.
ModelFaultOf(rs, documented) ==
    \/ "other" \in Reported(rs)
    \/ documented /\ Reported(rs) = {}

ModelFault(host, rs) == ModelFaultOf(rs, host \in Documented)

\* A choice that leaves out every host that reported no model.
HostModelFaultSilent(host, rs) == rs # {} /\ ModelFaultOf(rs, TRUE)

\* The records name the expected and the requested model, which differ
\* where target.reported_model is recorded (validateReportedModel).
HostModelFault(host, rs) == rs # {} /\ ModelFaultOf(rs, host \in Documented)

-----------------------------------------------------------------------------
(* The choice. *)

Refused == [ok |-> FALSE, ceiling |-> 0, leftOut |-> {}]

\* ChooseCeiling: the low ceiling when every host not left out passed it,
\* else the high one when they all passed that, else the model is excluded
\* (ceiling 0).
ChooseCeiling(rs) ==
    LET Of(h) == { r \in rs : r.host = h }
        leftOut == { h \in Hosts : HostModelFault(h, Of(h)) }
        routes == Hosts \ leftOut
        kept == { r \in rs : r.host \in routes }
        At(h, c) == { r \in kept : r.host = h /\ r.ceiling = c }
        has(c) == \A h \in routes : At(h, c) # {}
        passed(c) == \A h \in routes : \A r \in At(h, c) : r.check.pass
        chosen(c) == [ok |-> TRUE, ceiling |-> c, leftOut |-> leftOut]
    IN  IF routes = {} THEN chosen(0)
        ELSE IF \/ \E r \in kept : r.blocked \/ ~r.bound.pass \/ r.ceiling \notin {Low, High}
                \/ \E h \in routes, c \in {Low, High} : Cardinality(At(h, c)) > 1
                \/ ~has(Low) THEN Refused
        ELSE IF passed(Low) THEN chosen(Low)
        ELSE IF ~has(High) THEN Refused
        ELSE IF passed(High) THEN chosen(High)
        ELSE chosen(0)

\* readCeilingProbes: the records verify, the host's own report no model
\* that keeps it out, and the choice runs the model at the configured
\* ceiling and needs every record given.
Startable(host, rs) ==
    LET choice == ChooseCeiling(rs) IN
    /\ rs # {}
    /\ choice.ok /\ choice.ceiling = ceiling[host]
    /\ \A r \in rs : r.ceiling \in {Low, choice.ceiling}
    /\ ~ModelFault(host, { r \in rs : r.host = host })
    /\ \A r \in rs : Verify(r)

\* sameCeiling: two hosts that both have a manifest carry one choice and
\* one set of records; else what they ran at or are configured for agrees.
RanAt(h) == IF ran[h] = None THEN ceiling[h] ELSE ran[h].choice.ceiling

SameCeiling ==
    \A h, g \in Hosts :
        IF ran[h] = None \/ ran[g] = None THEN RanAt(h) = RanAt(g)
        ELSE ran[h].choice = ran[g].choice /\ ran[h].records = ran[g].records

-----------------------------------------------------------------------------
Init ==
    /\ ceiling \in [Hosts -> {Low, High}]
    /\ recs = {}
    /\ ran = [h \in Hosts |-> None]

\* RunRelease sends requests until one's status blocks the start or the
\* operator stops the command between two of them.
Stopped(rs) == \A i \in 1..Len(rs) - 1 : ~Gate(rs[i].status)

\* ceiling-check: the requests and the record, which is written however
\* they ended; a command that dies before it leaves none.
CheckCeiling(h, c, rs) ==
    /\ Cardinality(recs) < MaxRecords
    /\ Stopped(rs)
    /\ recs' = recs \cup {Record(h, c, [i \in DOMAIN rs |-> CheckRequest(rs[i])])}
    /\ UNCHANGED <<ceiling, ran>>

\* run starts a host's process on records the operator names.
StartRoute(h, rs) ==
    /\ ran[h] = None /\ Startable(h, rs)
    /\ ran' = [ran EXCEPT ![h] = [choice |-> ChooseCeiling(rs), records |-> rs]]
    /\ UNCHANGED <<ceiling, recs>>

Next ==
    \/ \E h \in Hosts, c \in {Low, High}, rs \in BoundedSeq(Responses, Requests) :
         rs # <<>> /\ CheckCeiling(h, c, rs)
    \/ \E h \in Hosts, rs \in SUBSET recs : StartRoute(h, rs)

Spec == Init /\ [][Next]_checkVars

-----------------------------------------------------------------------------
(* Properties. *)

\* A record a check wrote verifies, unless the command was stopped before
\* its requests ended (RunRelease against ReleaseRecord.Verify: what run
\* re-derives is what was recorded).
WrittenVerify ==
    \A r \in recs : Verify(r) \/ (Len(r.requests) < Requests /\ ~r.blocked)

\* A host runs at a ceiling only on evidence of its own: all its requests
\* at that ceiling passed, and a host runs at the high one only if some
\* host the choice kept failed the low one (ChooseCeiling).
RunsOnEvidence ==
    \A h \in Hosts : ran[h] # None =>
        LET c == ran[h].choice.ceiling
            kept == { r \in ran[h].records : r.host \notin ran[h].choice.leftOut }
            Passed(g, k) == \E r \in kept : r.host = g /\ r.ceiling = k
                              /\ Len(r.requests) = Requests
                              /\ \A q \in ToSet(r.requests) : CeilingFail(q.resp) = ""
        IN  /\ h \notin ran[h].choice.leftOut
            /\ \A g \in Hosts \ ran[h].choice.leftOut : Passed(g, c)
            /\ c = High => \E g \in Hosts \ ran[h].choice.leftOut : ~Passed(g, Low)

\* A host another host's choice left out on its reported model cannot
\* itself start on the records that left it out (the comment of LeftOut),
\* and where pages accepts the hosts' choices (sameCeiling) no two hosts ran
\* at different ceilings and none ran that another left out.
LeftOutNeverRuns ==
    /\ \A h, g \in Hosts :
         (ran[h] # None /\ g \in ran[h].choice.leftOut) => ~Startable(g, ran[h].records)
    /\ SameCeiling =>
         \A h, g \in Hosts : ran[h] # None /\ ran[g] # None =>
             /\ ran[h].choice.ceiling = ran[g].choice.ceiling
             /\ g \notin ran[h].choice.leftOut

\* What run and pages rely on in a ceiling chosen from records: each record
\* is what its requests gave, each host that runs has the evidence for its
\* ceiling, and none runs that the choice left out.
ChoiceSound == WrittenVerify /\ RunsOnEvidence /\ LeftOutNeverRuns
=============================================================================
