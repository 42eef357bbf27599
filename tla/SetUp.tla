------------------------------- MODULE SetUp -------------------------------
(***************************************************************************)
(* What is decided before a route sends its first cell: the rules          *)
(* (CeilingRule, Schedule, Configuration), each a subject with its input,  *)
(* and the machines (CeilingCheck, ReleaseStart, PilotSession).  They      *)
(* share no state: the initial state picks a subject, and only that        *)
(* subject moves.                                                          *)
(***************************************************************************)
EXTENDS ReleaseStart

CONSTANTS
    Subjects, NaN,
    CeilingInputs, ScheduleInputs, PilotInputs, Configurations,
    PriceBound, CountBound,                   \* of the prices, and of a ladder's requests
    Float64(_),                               \* CeilingRule
    HeaderNames, Instants,                    \* what a configuration is asked about
    SlotHours,                                \* Schedule
    Requests, Low, High, Documented, Responses, MaxRecords,     \* CeilingCheck
    Sessions, Reserves, SessionDay, Slot, Tolerance, MaxGap,    \* PilotSession
    MaxTime, MaxProcs, Configs

VARIABLES
    subject, given, result,         \* a rule
    ceiling, recs, ran,             \* CeilingCheck
    now, pilots, out, dev, exits    \* PilotSession

rule == <<given, result>>
choice == <<ceiling, recs, ran>>
piloting == <<now, pilots, out, dev, exits>>
vars == <<subject, rule, choice, startVars, piloting>>

Rate == INSTANCE CeilingRule
Sched == INSTANCE Schedule
Conf == INSTANCE Configuration
Check == INSTANCE CeilingCheck
Pilot == INSTANCE PilotSession WITH procs <- pilots, DayType <- SessionDay

\* What each part asks of its constants and inputs.
ASSUME Hypotheses ==
    /\ Check!CheckConstants /\ StartConstants(PriceBound) /\ Pilot!SessionConstants
    /\ \A i \in CeilingInputs : Rate!RuleInput(i.cfg, i.price, i.ladders, CountBound)
    /\ \A i \in ScheduleInputs : Sched!ScheduleInput(i)
    /\ \A i \in PilotInputs : Pilot!DatesInput(i)
    /\ NaN \notin Int /\ \A c \in Configurations : Conf!Decoded(c)
    /\ HeaderNames \subseteq Seq(STRING) /\ Instants \subseteq Int

-----------------------------------------------------------------------------

SetUpInit ==
    /\ subject \in Subjects /\ result = None
    /\ CASE subject = "ceiling" -> given \in CeilingInputs
         [] subject = "schedule" -> given \in ScheduleInputs
         [] subject = "dates" -> given \in PilotInputs
         [] subject = "configuration" -> given \in Configurations
         [] OTHER -> given = None
    /\ IF subject = "choice" THEN Check!Init ELSE ceiling = None /\ recs = {} /\ ran = None
    /\ IF subject = "start" THEN Init
       ELSE /\ conf = None /\ key = None /\ ledger = None /\ pricing = None
            /\ sched = None /\ procs = None /\ cells = None /\ edits = None
    /\ IF subject = "session" THEN Pilot!Init
       ELSE now = None /\ pilots = None /\ out = None /\ dev = None /\ exits = None

Pure == result = None /\ UNCHANGED <<subject, given, choice, startVars, piloting>>

CeilingVerdict ==
    /\ subject = "ceiling" /\ Pure
    /\ Rate!PlanFits(Rate!ExactPlan(given.ladders))
    /\ result' = Rate!Verdict(given.cfg, given.price, Rate!ExactPlan(given.ladders))

NewSchedule == subject = "schedule" /\ Pure /\ result' = Sched!New(given)

PilotSchedule == subject = "dates" /\ Pure /\ result' = Pilot!NewSchedule(given)

Parse == subject = "configuration" /\ Pure /\ result' = Conf!Validate(given)

Choosing == subject = "choice" /\ Check!Next /\ UNCHANGED <<subject, rule, startVars, piloting>>
Starting == subject = "start" /\ Next /\ UNCHANGED <<subject, rule, choice, piloting>>
Piloting == subject = "session" /\ Pilot!Next /\ UNCHANGED <<subject, rule, choice, startVars>>

SetUpNext ==
    \/ CeilingVerdict \/ NewSchedule \/ PilotSchedule \/ Parse
    \/ Choosing \/ Starting \/ Piloting

SetUpSpec == SetUpInit /\ [][SetUpNext]_vars

-----------------------------------------------------------------------------
(* Properties. *)

\* A verdict of the ceiling rule is sound (CeilingRule!VerdictSound): the steps
\* admitted are a prefix that the recorded limits, the cap on an unpublished
\* one and the route's dollars cover, whatever the exact plan, and of the rows
\* published CheckPublished refuses only those rounded onto their bound.
VerdictSound ==
    subject = "ceiling" /\ result # None =>
        Rate!VerdictSound(given.cfg, given.price, given.ladders, result)

\* A schedule that New derives is sound (Schedule!ScheduleSound), and so is the
\* pilot's (PilotSession!ScheduleFits).
ScheduleSound ==
    result # None =>
        /\ subject = "schedule" => Sched!ScheduleSound(given, result)
        /\ subject = "dates" => Pilot!ScheduleFits(given, result)

\* An accepted configuration keeps what the code downstream relies on
\* (Configuration!ConfigurationSound).
ConfigurationSound ==
    subject = "configuration" /\ result = TRUE => Conf!ConfigurationSound(given, HeaderNames, Instants)

\* Whatever checks are sent again and whenever a host's process starts, the
\* hosts run at a ceiling on the evidence of the records they read
\* (CeilingCheck!ChoiceSound).
ChoiceSound == subject = "choice" => Check!ChoiceSound

\* Whatever the operator edits and appends between two starts, a route's
\* steps stay as frozen and its cells are priced (ReleaseStart!CellsSound).
StartSound == subject = "start" => CellsSound

\* However many session commands wait for one slot, are aborted or die, the
\* records are those of the sessions that ran (PilotSession!SessionsSound).
SessionsSound == subject = "session" => Pilot!SessionsSound
=============================================================================
