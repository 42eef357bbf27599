---------------------------- MODULE Publication ----------------------------
(***************************************************************************)
(* From the cells of a release to its publication: the commands pages,     *)
(* pack and publish-check (cmd/percentes-release/pages.go, pack.go,        *)
(* publish.go) and the publication record's check                          *)
(* (internal/evidence/publication.go, pack.go), while the routes may still *)
(* run, die, label what died and close their windows.                      *)
(*                                                                         *)
(* A file is its content, so a SHA-256 is the content it is of.  A page    *)
(* is what it is generated from; a pack the route's page and manifests.    *)
(* The record names notices and replication packs as they were sent, the   *)
(* newest or an older one of a route; a window's close is as it is, or as  *)
(* the notice's pack had it.                                               *)
(***************************************************************************)
EXTENDS Integers, FiniteSets, FiniteSetsExt

CONSTANTS
    Routes,
    Permission,     \* routes whose naming needs permission
    Replication,    \* routes that need a replication pack
    ConfidentialRoutes, \* routes with a confidential limit
    MaxDay,         \* bound: days
    Weekend,        \* days that are no weekdays
    NoticeDays,     \* NoticeWorkingDays
    MaxCells,       \* bound: attempts of a route
    Windows,        \* days a notice's window is given
    MaxSends,       \* bound: notices and replication packs sent
    None

VARIABLES
    day,
    cells,      \* a route's cells: label, outcome, start, and which of an
                \* attempts file and a manifest they have
    close,      \* a route's window-close record: its day; None
    pages,      \* the pages under --pages; None before pages ran
    mail,       \* what was sent: notices and replication packs
    published   \* what publish-check found ready; None

pubVars == <<day, cells, close, pages, mail, published>>

-----------------------------------------------------------------------------
(* pages: what the cells generate. *)

Manifests(r) == { c \in cells[r] : c.manifest }

\* A cell enters the route's frame when its record counts it.
Counted(r) == { c \in Manifests(r) : c.outcome = "counted" }

HasPage(r) == Manifests(r) # {}

\* readRouteCells: no cell runs, only a missed or an interrupted one has no
\* manifest, and the window-close record is no older than the last cell.
ReadRouteCells(r) ==
    /\ cells[r] # {}
    /\ \A c \in cells[r] :
         /\ c.outcome # "running"
         /\ ~c.manifest => c.outcome \in {"missed", "interrupted"}
    /\ \A c, d \in Counted(r) : c.label = d.label => c = d
    /\ close[r] # None => \A c \in cells[r] : close[r] >= c.start

\* A page is what it prints: the counted cells, the labelled ones and the
\* window close, all of which the manifests and the close give.
Page(r) == [cells |-> Manifests(r), close |-> close[r]]

\* buildPages: the index and each route's page; None where a route's
\* cells do not read.
BuildPages ==
    IF \E r \in Routes : ~ReadRouteCells(r) THEN None
    ELSE [r \in Routes |-> IF HasPage(r) THEN Page(r) ELSE None]

\* routePacks: the route's page files and its manifests; an inventory
\* alone where it has no page.
RoutePack(r) == IF HasPage(r) THEN Page(r) ELSE None

-----------------------------------------------------------------------------
(* The publication record's check. *)

Working(d, off) == d \notin Weekend \cup off

WorkingDaysFrom(from, to, off) == Cardinality({ d \in from..to : Working(d, off) })

WorkingDays(from, to, off) == Cardinality({ d \in from + 1..to : Working(d, off) })

\* fileSet: the manifests, window closes and pages recorded are exactly
\* the release's.
FileSet(recorded, have) == recorded = have

RouteStarted(r) == Max({0} \cup { c.start : c \in Manifests(r) })

\* No earlier than the last start among the route's manifests and its
\* window-close record.
NotBefore(sent, r) == sent >= RouteStarted(r) /\ (close[r] # None => sent >= close[r])

NoticePack(n, r) == n.pack = RoutePack(r)

NoticeComplete(n, r, off) ==
    /\ day >= n.closes + 1
    /\ WorkingDays(n.sent, n.closes, off) >= NoticeDays
    /\ NotBefore(n.sent, r)
    /\ NoticePack(n, r)

\* What a page may not print: an account or recipient, and a confidential
\* value as the configuration or a refresh read it.
Printed(text) == text \cap ({"account"} \cup (IF ConfidentialRoutes = {} THEN {} ELSE {"value"})) = {}

ResponseOk(resp, n) ==
    /\ resp.received >= n.sent
    /\ resp.verbatim => resp.consent
    /\ Printed(resp.text)

\* PackCarries: every file of the route's pack, with the same bytes (what
\* else may accompany them is left out).
PackCarries(sent, r) == sent = RoutePack(r)

ReplicationComplete(e, r) ==
    IF e.replication = None THEN r \notin Replication
    ELSE /\ PackCarries(e.replication.pack, r)
         /\ e.replication.sent <= e.notice.sent /\ NotBefore(e.replication.sent, r)

RouteComplete(rec, r) ==
    LET e == rec.routes[r] IN
    /\ e.notice # None /\ NoticeComplete(e.notice, r, rec.off)
    /\ \A resp \in e.responses : ResponseOk(resp, e.notice)
    /\ r \in Permission => e.permission
    /\ ReplicationComplete(e, r)
    /\ HasPage(r) => close[r] # None

FirstNotice(rec) == Min({ rec.routes[r].notice.sent : r \in Routes })

Disclosed(rec) == \A d \in rec.told : d < FirstNotice(rec)

Prereleased(rec) == \A c \in rec.copies : Replication \subseteq c.withheld

\* The files of the release.
Files == [manifests |-> [r \in Routes |-> Manifests(r)], closes |-> close, pages |-> BuildPages]

\* Publication.Check of a record against the release as it stands.
Check(rec) ==
    /\ Disclosed(rec) /\ Prereleased(rec)
    /\ \A r \in Routes : RouteComplete(rec, r)
    /\ FileSet(rec.files.manifests, Files.manifests)
    /\ FileSet(rec.files.closes, Files.closes)
    /\ FileSet(rec.files.pages, Files.pages)
    /\ pages = BuildPages

-----------------------------------------------------------------------------
(* Records the operator may have written. *)

Sent(r, kind) == { m \in mail : m.route = r /\ m.kind = kind }

Responses(n) ==
    { {[received |-> n.sent, verbatim |-> TRUE, consent |-> TRUE, text |-> t]} :
        t \in {{}, {"account"}, {"value"}} }

Entries(r) ==
    UNION { { [notice |-> n, responses |-> resp, permission |-> p, replication |-> send] :
                resp \in Responses(n), p \in {FALSE, (r \in Permission)},
                send \in {None} \cup Sent(r, "replication") }
          : n \in Sent(r, "notice") }

\* The release's files, as they are or with a close as a notice's pack had it.
FileLists ==
    {Files} \cup { [Files EXCEPT !.closes[n.route] = n.pack.close] :
                     n \in { m \in mail : m.pack # None } }

EntryLists ==
    { es \in [Routes -> UNION { Entries(r) : r \in Routes }] :
        \A r \in Routes : es[r].notice.route = r }

\* A holiday, someone told before the notices, and a prerelease copy: none of
\* them, or one at fault.
Circumstances ==
    LET none == [off |-> {}, told |-> {}, copies |-> {[withheld |-> Replication]}]
    IN  {none, [none EXCEPT !.off = {MaxDay - 1}], [none EXCEPT !.told = {1}],
         [none EXCEPT !.copies = {[withheld |-> {}]}]}

-----------------------------------------------------------------------------
Init ==
    /\ day = 1 /\ pages = None /\ mail = {} /\ published = None
    /\ cells = [r \in Routes |-> {}] /\ close = [r \in Routes |-> None]

Tick == day < MaxDay /\ day' = day + 1 /\ UNCHANGED <<cells, close, pages, mail, published>>

\* The route's process (ReleaseRoute): a cell runs, ends with its manifest,
\* is missed, or is left running by a process that died, marked by the
\* next one; a missed or interrupted one is labelled with a manifest of its
\* own before anything else.
Set(r, c, d) == cells' = [cells EXCEPT ![r] = (@ \ {c}) \cup {d}]

RouteUnchanged == UNCHANGED <<day, close, pages, mail, published>>

Unlabelled(r) ==
    { c \in cells[r] : c.outcome \in {"missed", "interrupted"} /\ ~c.manifest /\ ~c.attempts }

\* No cell runs, and every other was labelled or was tried to be.
Settled(r) == Unlabelled(r) = {} /\ \A c \in cells[r] : c.outcome # "running"

BeginCell(r) ==
    /\ close[r] = None /\ Cardinality(cells[r]) < MaxCells /\ Settled(r)
    /\ \E o \in {"running", "missed"} :
         cells' = [cells EXCEPT ![r] = @ \cup
             {[label |-> Cardinality(@), outcome |-> o, start |-> day,
               attempts |-> FALSE, manifest |-> FALSE]}]
    /\ RouteUnchanged

\* A cell that fails may have written its attempts file.
EndCell(r) ==
    /\ \E c \in cells[r], o \in {"counted", "interrupted"}, wrote \in BOOLEAN :
         /\ c.outcome = "running" /\ (o = "counted" => wrote)
         /\ Set(r, c, [c EXCEPT !.outcome = o, !.attempts = wrote, !.manifest = o = "counted"])
    /\ RouteUnchanged

\* labelCell: the attempts file first, so that a label that fails is not
\* tried again.
LabelCell(r) ==
    /\ \E c \in Unlabelled(r), done \in BOOLEAN :
         Set(r, c, [c EXCEPT !.attempts = TRUE, !.manifest = done])
    /\ RouteUnchanged

\* After the last cell, once every cell is labelled or was tried to be.
WindowClose(r) ==
    /\ close[r] = None /\ cells[r] # {} /\ Settled(r)
    /\ close' = [close EXCEPT ![r] = day]
    /\ UNCHANGED <<day, cells, pages, mail, published>>

\* pages writes what buildPages built.
PagesCmd ==
    /\ BuildPages # None /\ pages # BuildPages /\ pages' = BuildPages
    /\ UNCHANGED <<day, cells, close, mail, published>>

\* pack writes the pack the notice carries; a route with a page needs its
\* window-close record.
PackCmd(r) == BuildPages # None /\ (HasPage(r) => close[r] # None)

Send(m) ==
    /\ PackCmd(m.route) /\ Cardinality(mail) < MaxSends /\ mail' = mail \cup {m}
    /\ UNCHANGED <<day, cells, close, pages, published>>

SendNotice(r, closes) ==
    Send([kind |-> "notice", route |-> r, sent |-> day, pack |-> RoutePack(r), closes |-> closes])

SendReplication(r) ==
    /\ r \in Replication
    /\ Send([kind |-> "replication", route |-> r, sent |-> day, pack |-> RoutePack(r), closes |-> 0])

\* publish-check, ready: the record is complete and the publication page
\* is under --pages or is written there.
PublishCheck(rec) ==
    /\ Check(rec)
    /\ published' = [day |-> day, pages |-> pages, packs |-> [r \in Routes |-> RoutePack(r)],
                     rec |-> [routes |-> [r \in Routes |-> rec.routes[r].responses],
                              copies |-> rec.copies]]
    /\ UNCHANGED <<day, cells, close, pages, mail>>

\* publish-check of any record, once the pages are built and every route
\* has a notice to name; the release is followed until it is published.
Ready == BuildPages # None /\ pages = BuildPages /\ \A r \in Routes : Sent(r, "notice") # {}

Next ==
    /\ published = None
    /\ \/ Tick \/ PagesCmd
       \/ /\ Ready
          /\ \E f \in FileLists, es \in EntryLists, w \in Circumstances :
               PublishCheck([files |-> f, routes |-> es, off |-> w.off, told |-> w.told, copies |-> w.copies])
       \/ \E r \in Routes :
            \/ BeginCell(r) \/ EndCell(r) \/ LabelCell(r) \/ WindowClose(r)
            \/ SendReplication(r)
            \/ \E w \in Windows : SendNotice(r, day + w)

Spec == Init /\ [][Next]_pubVars

-----------------------------------------------------------------------------
\* Days are numbers, and a notice's window is given in days.
PublicationConstants == NoticeDays \in Int /\ Windows \subseteq Int

-----------------------------------------------------------------------------
(* Properties. *)

\* A route as it is published, against what was sent for it.
RouteWasNoticed(r) ==
    /\ \E m \in mail :
         /\ m.kind = "notice" /\ m.route = r /\ m.pack = published.packs[r]
         /\ Cardinality({ d \in (m.sent + 1)..(published.day - 1) : d \notin Weekend }) >= NoticeDays
    /\ published.packs[r] = published.pages[r]
    /\ published.packs[r] # None =>
         /\ published.pages[r].close # None
         /\ \A c \in published.pages[r].cells : c.start <= published.pages[r].close
         /\ r \in Replication => \A c \in published.rec.copies : r \in c.withheld
    /\ \A resp \in published.rec.routes[r] :
         "account" \notin resp.text /\ (ConfidentialRoutes # {} => "value" \notin resp.text)

\* What is found ready to publish is what every provider was sent: each
\* route's pack, as published, went out with a notice and NoticeDays whole
\* working days passed after that day before the check, every route's
\* window closed after its last cell, and nothing a provider or a
\* confidential limit withholds is printed.
PublishedWasNoticed == published # None => \A r \in Routes : RouteWasNoticed(r)
=============================================================================
