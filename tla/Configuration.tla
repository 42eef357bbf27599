--------------------------- MODULE Configuration ---------------------------
(***************************************************************************)
(* internal/config: what Parse accepts, and what the code downstream takes *)
(* for granted of an accepted file.  A file is a record of the fields that *)
(* rules of more than one field read.  A header name is a sequence of its  *)
(* dash-separated words, case folded; a list entry is a name with or       *)
(* without a trailing star.  Every field that a rule compares with a       *)
(* pinned value, or only requires, is one member of `off` when it          *)
(* deviates.  A float may be NaN, of which every comparison is false.      *)
(***************************************************************************)
EXTENDS Integers, Sequences, FiniteSets, SequencesExt

CONSTANTS None, NaN

NoRepeat(s) == \A i, j \in DOMAIN s : i # j => s[i] # s[j]

-----------------------------------------------------------------------------
(* Response headers (config.go). *)

RetryAfter == <<"retry", "after">>
credentialHeaders == {<<"authorization">>, <<"set", "cookie">>, <<"api", "key">>}

headerMatch(e, name) == IF e.star THEN IsPrefix(e.name, name) ELSE e.name = name

\* A cover test that matches the entry's text and forgets its own star.
headerCoversText(a, e) == headerMatch(a, e.name)

headerCovers(a, e) ==
    IF a.star THEN IsPrefix(a.name, e.name) ELSE ~e.star /\ a.name = e.name

CredentialHeader(name) == name \in credentialHeaders
HeaderAllowed(allow, name) ==
    ~CredentialHeader(name) /\ \E e \in Range(allow) : headerMatch(e, name)
HeaderRetained(t, name) == \E e \in Range(t.retained) : headerMatch(e, name)

\* Ends in "requestid" and holds no "ratelimit".
RequestIDHeader(name) ==
    /\ Len(name) > 1 /\ Last(name) = "id" /\ name[Len(name) - 1] = "request"
    /\ "ratelimit" \notin Range(name)

Confidential(t) == \E l \in Range(t.limits) : l.marking = "confidential"

-----------------------------------------------------------------------------
(* The release target's rules (release.go). *)

ResponseHeadersOK(t) ==
    /\ NoRepeat(t.headers)
    /\ \A e \in Range(t.headers) :
          e.name # <<>> /\ \A n \in credentialHeaders : ~headerMatch(e, n)

RetainedHeadersOK(t) ==
    /\ NoRepeat(t.retained)
    /\ \A e \in Range(t.retained) :
          /\ e.name # <<>>
          /\ \E a \in Range(t.headers) : headerCovers(a, e)
          /\ ~headerMatch(e, RetryAfter)

ConfidentialRetentionOK(t) ==
    Confidential(t) =>
        /\ \A e \in Range(t.headers) :
              \/ ~e.star /\ (e.name = RetryAfter \/ RequestIDHeader(e.name))
              \/ \E r \in Range(t.retained) : headerCovers(r, e)
        /\ t.probe # None /\ t.probe.url => t.probe.limitsRetained

LimitDimensions ==
    {"rpm", "rps", "tpm", "itpm", "otpm", "concurrency", "rpd", "tpd",
     "spend_window", "spend_month", "reload"}
Countings == {"sum", "input", "burndown"}

LimitOK(l) ==
    /\ l.dim \in LimitDimensions /\ l.value > 0
    /\ l.marking \in {"public", "confidential"}
    /\ IF l.dim = "spend_window" THEN l.window > 0 ELSE l.window = 0
    /\ IF l.dim \in {"tpm", "tpd"} THEN l.counting \in Countings ELSE l.counting = ""
    /\ IF l.counting = "burndown" THEN l.burndown >= 1 ELSE l.burndown = 0
    /\ l.hash = IF l.marking = "confidential" THEN "hmac" ELSE "sha256"

UnpublishedOK(t) ==
    /\ NoRepeat([i \in DOMAIN t.unpublished |-> t.unpublished[i].dim])
    /\ \A u \in Range(t.unpublished) :
          (\A l \in Range(t.limits) : l.dim # u.dim) /\ u.ruled >= u.retrieved

BalanceOK(t) ==
    t.balance # None =>
        \E l \in Range(t.limits) :
            \/ t.balance = "prepaid" /\ l.dim = "reload"
            \/ t.balance = "postpaid" /\ l.dim = "spend_month"

\* A literal body: its keys in order, each with its value.
BodyKeys(body) == [i \in DOMAIN body |-> body[i].key]
LiteralBodyOK(body) ==
    /\ NoRepeat(BodyKeys(body))
    /\ [key |-> "stream", value |-> "true"] \in Range(body)
    /\ Cardinality({ i \in DOMAIN body : body[i].value = "{{case}}" }) = 1

CeilingKeys(adapter) ==
    {"max_tokens"} \cup IF adapter = "chat" THEN {"max_completion_tokens"} ELSE {}
releaseUnsentKeys == {"temperature", "ignore_eos"}
releaseParams(adapter) ==
    IF adapter = "chat" THEN {"stream_options", "reasoning_effort"} ELSE {"thinking"}

ReleaseBodyOK(body, adapter, ceiling) ==
    LET set == { i \in DOMAIN body : body[i].key \in CeilingKeys(adapter) }
    IN  /\ Cardinality(set) = 1 /\ \A i \in set : body[i].value = ceiling
        /\ \A i \in DOMAIN body \ set :
              body[i].key \notin releaseUnsentKeys \cup {"max_tokens", "max_completion_tokens"}

BodyModelOK(t) == \A p \in Range(t.body) : p.key = "model" => p.value = t.model

ReleaseBodyAt(body, adapter, ceiling) ==
    [i \in DOMAIN body |-> IF body[i].key \in CeilingKeys(adapter)
                           THEN [body[i] EXCEPT !.value = ceiling] ELSE body[i]]

NotAppliedOK(t) ==
    /\ NoRepeat(t.notApplied)
    /\ Range(t.notApplied) \subseteq releaseParams(t.adapter) \ Range(BodyKeys(t.body))

validateReleaseTarget(t, ceiling) ==
    /\ LiteralBodyOK(t.body) /\ ReleaseBodyOK(t.body, t.adapter, ceiling) /\ BodyModelOK(t)
    /\ NotAppliedOK(t)
    /\ ResponseHeadersOK(t) /\ HeaderAllowed(t.headers, RetryAfter)
    /\ RetainedHeadersOK(t) /\ ConfidentialRetentionOK(t)
    /\ t.limits # <<>> /\ \A l \in Range(t.limits) : LimitOK(l)
    /\ UnpublishedOK(t) /\ BalanceOK(t)

LedgerCapsOK(caps) == caps.route > 0 /\ caps.global > 0 /\ caps.route <= caps.global

validateRelease(c) ==
    /\ c.off = {} /\ c.sections = {"release", "target"}
    /\ c.ceiling \in {"512", "1024"}
    /\ LedgerCapsOK(c.caps)
    /\ NoRepeat(<<c.target.name>> \o c.otherHosts)
    /\ validateReleaseTarget(c.target, c.ceiling)

-----------------------------------------------------------------------------
(* The experiment and ac profiles (validate.go). *)

Less(x, y) == x # NaN /\ y # NaN /\ x < y
AtMost(x, y) == x # NaN /\ y # NaN /\ x <= y

checkFinite(c) == \A f \in {"baseline", "offset", "timeout"} : c[f] # NaN

RunOK(c) ==
    IF c.profile = "experiment" THEN c.baseline = 300 /\ c.timeout = 600
    ELSE ~AtMost(c.baseline, 0) /\ ~AtMost(c.timeout, 0)

TargetOK(c) ==
    /\ IF c.profile = "experiment"
       THEN c.replicas = IF c.variant = "process_kill" THEN 1 ELSE 2
       ELSE c.replicas >= 1
    /\ c.metricsURLs > 0 => ~c.hosted /\ c.metricsURLs = c.replicas

LoadOK(c) == c.connections >= 4 * c.replicas /\ c.ignoreEOS = ~c.hosted

FaultOK(c) ==
    /\ CASE c.variant \in {"clean_delete", "black_hole"} -> c.profile # "ac" /\ c.mock = None
         [] c.variant = "mock" -> c.mock # None
         [] c.variant = "process_kill" -> (c.mock = None) = (c.profile = "experiment") /\ c.partition = 0
         [] c.variant = "none" -> c.mock = None /\ c.offset = 0 /\ c.partition = 0
         [] OTHER -> FALSE
    /\ c.variant # "none" =>
          IF c.profile = "experiment" THEN c.offset = c.baseline
          ELSE ~Less(c.offset, c.baseline)
    /\ c.variant = "black_hole" =>
          c.partition = 120 /\ ~(c.grace > 0 /\ c.grace >= c.partition)

PinsOK(c) == IF c.variant = "process_kill" THEN c.grace = 0 /\ c.container
             ELSE c.grace > 0 /\ ~c.container

Ends(f) == f.start + f.duration

\* What sort.Slice may leave: the places of the windows by their start.
ByStart(mock) ==
    { order \in Bijection(DOMAIN mock, DOMAIN mock) :
        \A i \in 2..Len(mock) : mock[order[i - 1]].start <= mock[order[i]].start }

\* In that order each window is compared with the one before.
MockOK(c) ==
    c.mock # None =>
        /\ \A f \in Range(c.mock) : f.start >= 0 /\ f.duration > 0
        /\ \E order \in ByStart(c.mock) : \A i \in 2..Len(c.mock) :
              c.mock[order[i]].start >= Ends(c.mock[order[i - 1]])

validateRuns(c) ==
    /\ c.off = {} /\ c.sections \cap {"pilot", "release"} = {}
    /\ RunOK(c) /\ LoadOK(c) /\ TargetOK(c) /\ FaultOK(c) /\ PinsOK(c) /\ MockOK(c)

-----------------------------------------------------------------------------
(* The pilot profile (pilot.go). *)

pilotSettings == {"reasoning_effort", "temperature"}

PilotSettingsOK(ts) ==
    /\ \A i \in DOMAIN ts :
          /\ NoRepeat(ts[i].notApplied)
          /\ \A k \in Range(ts[i].notApplied) :
                /\ k \in pilotSettings /\ ts[i].params[k] = None
                /\ \E j \in DOMAIN ts \ {i} : ts[j].params[k] # None
    /\ \A k \in pilotSettings, a, b \in DOMAIN ts :
          a # b /\ ts[a].params[k] # None /\ k \notin Range(ts[b].notApplied) =>
              ts[b].params[k] # None /\ (b > a => ts[b].params[k] = ts[a].params[k])

PilotTargetOK(t) == Cardinality(t.ceilingKeys) = 1 /\ t.ceiling = 4096

validatePilot(c) ==
    /\ c.off = {} /\ c.sections = {"pilot"} /\ Len(c.targets) = 2
    /\ NoRepeat([i \in DOMAIN c.targets |-> c.targets[i].name])
    /\ NoRepeat([i \in DOMAIN c.targets |-> c.targets[i].url])
    /\ \A t \in Range(c.targets) : PilotTargetOK(t)
    /\ PilotSettingsOK(c.targets)

Validate(c) ==
    CASE c.profile = "pilot" -> validatePilot(c)
      [] c.profile = "release" -> validateRelease(c)
      [] c.profile \in {"experiment", "ac"} -> checkFinite(c) /\ validateRuns(c)
      [] OTHER -> FALSE

-----------------------------------------------------------------------------
(* What the code downstream writes of a response and of the file. *)

\* prober.headers and allowedHeaders/retainHeaders: the recorded headers,
\* each in clear or as its stand-in.
Recorded(t, names) ==
    [n \in { n \in names : HeaderAllowed(t.headers, n) } |->
        IF HeaderRetained(t, n) THEN "[retained]" ELSE "value"]

Exposed(t, rec) ==
    { n \in DOMAIN rec : rec[n] # "[retained]" /\
                         ~(HeaderAllowed(t.headers, n) /\ ~HeaderRetained(t, n)) }

ExposedByMarking(t, rec) ==
    { n \in DOMAIN rec : rec[n] # "[retained]" /\ Confidential(t) /\
                         n # RetryAfter /\ ~RequestIDHeader(n) }

\* The file as published: refused when a comment lies in a confidential
\* limit or a comment or string carries its value outside a fixed
\* identifier, and otherwise the texts with that value's node replaced.
Published(c) ==
    LET held == { l \in Range(c.target.limits) : l.marking = "confidential" }
        Carries(x) == x.carries \cap { l.value : l \in held } # {} /\ ~x.fixed
    IN  IF \E x \in c.texts : x.kind # "value" /\ (Carries(x) \/ (x.kind = "comment" /\ x.in \in held))
        THEN None
        ELSE { IF x.kind = "value" /\ x.in \in held THEN [x EXCEPT !.carries = {}] ELSE x : x \in c.texts }

\* What decoding a file gives, whatever the rules then say of it.
Decoded(c) ==
    CASE c.profile = "release" ->
           /\ \A e \in Range(c.target.headers) \cup Range(c.target.retained) : e.name \in Seq(STRING)
           /\ \A p \in Range(c.target.body) : p = [key |-> p.key, value |-> p.value]
           /\ \A x \in c.texts :
                 x = [kind |-> x.kind, in |-> x.in, carries |-> x.carries, fixed |-> x.fixed]
      [] c.profile = "pilot" -> c.targets \in Seq(Range(c.targets))
      [] OTHER ->
           /\ {c.baseline, c.offset, c.timeout} \subseteq Int \cup {NaN}
           /\ {c.grace, c.partition} \subseteq Int
           /\ c.mock # None => c.mock \in Seq([start : Int, duration : Int])

-----------------------------------------------------------------------------
(* Properties of an accepted file. *)

\* An accepted release target withholds what its markings promise: of every
\* response, the probe and attempt records hold no header that Exposed
\* reports from the file or ExposedByMarking from the record's own markings
\* alone, the Retry-After value is recorded in clear for the step tables, no
\* credential is recorded, and the body it sends at either ceiling is one
\* the rules accept at that ceiling (validateReleaseTarget, ReleaseBodyAt).
TargetSound(c, names) ==
    LET t == c.target
        rec == Recorded(t, names)
    IN  /\ Exposed(t, rec) = {} /\ ExposedByMarking(t, rec) = {}
        /\ RetryAfter \in names => rec[RetryAfter] = "value"
        /\ DOMAIN rec \cap credentialHeaders = {}
        /\ \A k \in {"512", "1024"} :
              LET sent == ReleaseBodyAt(t.body, t.adapter, k)
              IN  LiteralBodyOK(sent) /\ ReleaseBodyOK(sent, t.adapter, k)
        /\ Published(c) # None =>
              \A x \in Published(c), l \in Range(t.limits) :
                  l.marking = "confidential" /\ l.value \in x.carries =>
                      x.fixed \/ (x.kind = "value" /\ x.in # l)

\* An accepted experiment or ac file gives the runner what it relies on: a
\* baseline before the injection, a real instant, at most one mock fault
\* active at any time, a black hole whose grace period ends inside the
\* partition, and a mock for exactly the variants that need one
\* (Validate, checkFinite, validateFault, validateMock).
RunsSound(c, instants) ==
    /\ Less(0, c.baseline) /\ Less(0, c.timeout)
    /\ c.variant # "none" => AtMost(c.baseline, c.offset)
    /\ c.variant = "black_hole" => 0 < c.grace /\ c.grace < c.partition
    /\ c.mock # None =>
          \A i, j \in DOMAIN c.mock, x \in instants :
              (\A k \in {i, j} : c.mock[k].start <= x /\ x < Ends(c.mock[k])) => i = j

\* The two targets of an accepted pilot file are sent the same settings, but
\* for one a target declares it does not apply (validatePilotSettings).
PilotSound(c) ==
    \A k \in pilotSettings :
        \/ c.targets[1].params[k] = c.targets[2].params[k]
        \/ \E i \in 1..2 : k \in Range(c.targets[i].notApplied) /\ c.targets[i].params[k] = None

\* An accepted file keeps what the code downstream relies on, whatever
\* headers come back and whenever the mock is asked.
ConfigurationSound(c, names, instants) ==
    Validate(c) =>
        CASE c.profile = "release" -> TargetSound(c, names)
          [] c.profile = "pilot" -> PilotSound(c)
          [] OTHER -> RunsSound(c, instants)
=============================================================================
