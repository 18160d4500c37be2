------------------------------ MODULE ResearchPages ------------------------------
(***************************************************************************)
(* pages/Dashboard.tsx and pages/History.tsx with the history of           *)
(* stores/analysisStore.ts, which both show: a package of evidence is      *)
(* generated on the one and opened, by its run, on the other.              *)
(***************************************************************************)
EXTENDS Screen

CONSTANTS EvidenceRuns,   \* the runs there are, by deriveResearchRecordKind:
          AgentRuns,      \* packages of evidence, runs of the agents,
          ArchivedRuns    \* and those without a result or without a kind

Runs == EvidenceRuns \cup AgentRuns \cup ArchivedRuns

\* The page where it is mounted: what Dashboard and History keep themselves.
DashboardBlank == [checking |-> FALSE, ready |-> None, busy |-> FALSE, error |-> None, failed |-> FALSE]
HistoryBlank == [selected |-> None, opened |-> FALSE]

\* A request in flight is [what, of, current]: current says that the page that
\* sent it is mounted, which is what it can still set the state of.
Request(s, what, of) == [s EXCEPT !.flying = Append(@, [what |-> what, of |-> of, current |-> TRUE])]

\* A list is read by the server at any moment until it is answered: of holds what
\* was stored when it was asked for, or the run that is to be opened then.
FetchHistory(s, what, of) == Request([s EXCEPT !.loading = TRUE, !.historyError = FALSE], what, of)

LoadHistoricalReadiness(s, what) == Request([s EXCEPT !.view.checking = TRUE], what, {})

\* What a page leaves behind sets no state of it any more.
Unmounted(flying) == [i \in DOMAIN flying |-> [flying[i] EXCEPT !.current = FALSE]]

OpenedDashboard(s) ==
    LET opened == [s EXCEPT !.at = "dashboard", !.requested = None, !.view = DashboardBlank,
                            !.detail = HistoryBlank, !.flying = Unmounted(@)]
    IN  FetchHistory(LoadHistoricalReadiness(opened, "readiness"), "history", opened.stored)

ResearchInit ==
    /\ page = "research"
    /\ \E stored \in {{}, ArchivedRuns}, authorized \in BOOLEAN :
          ui = OpenedDashboard([at |-> None, requested |-> None, stored |-> stored, authorized |-> authorized,
                                list |-> {}, loading |-> FALSE, historyError |-> FALSE,
                                view |-> DashboardBlank, detail |-> HistoryBlank, flying |-> <<>>])

\* The effect of History: the requested run is selected and opened once it is in
\* the list; else a selection stays, and the first is one that is not archived.
RecordSelected(s) ==
    IF s.at # "history" \/ s.loading \/ s.historyError THEN {s}
    ELSE IF s.list = {} THEN {[s EXCEPT !.detail = HistoryBlank]}
    ELSE IF s.requested \in s.list THEN
        {IF s.detail.selected = s.requested THEN s
         ELSE [s EXCEPT !.detail = [selected |-> s.requested, opened |-> TRUE]]}
    ELSE IF s.detail.selected # None \/ s.list \subseteq ArchivedRuns THEN {s}
    ELSE LET first == IF s.list \cap EvidenceRuns # {} THEN EvidenceRuns ELSE AgentRuns
         IN  {[s EXCEPT !.detail.selected = run] : run \in s.list \cap first}

\* History is opened, with a run in its address or without: the effect of the
\* selection sees the list of before its request.
OpenedHistory(s, requested) ==
    {FetchHistory(next, "history", s.stored) :
        next \in RecordSelected([s EXCEPT !.at = "history", !.requested = requested, !.view = DashboardBlank,
                                    !.detail = HistoryBlank, !.flying = Unmounted(@)])}

\* From a summary of the dashboard, or its link to all records.
GoToHistory(requested) ==
    /\ ui.at = "dashboard" /\ Room(ui.flying) /\ requested \in (ui.list \cap EvidenceRuns) \cup {None}
    /\ ui' \in OpenedHistory(ui, requested)

GoToDashboard ==
    /\ ui.at = "history" /\ Len(ui.flying) + 1 < MaxFlying
    /\ ui' = OpenedDashboard(ui)

PickRecord(run) ==
    /\ ui.at = "history" /\ run \in ui.list
    /\ ui' \in RecordSelected([ui EXCEPT !.detail = [selected |-> run, opened |-> TRUE]])

CloseRecord == ui.detail.opened /\ ui' = [ui EXCEPT !.detail.opened = FALSE]

RefreshHistory ==
    /\ ui.at = "history" /\ ~ui.loading /\ Room(ui.flying)
    /\ ui' = FetchHistory(ui, "history", ui.stored)

\* handleEvidenceOnlyStart: constraints that are no numbers, out of their ranges
\* or without a symbol are refused before anything is sent.
StartInvalid == ui.at = "dashboard" /\ ui.authorized /\ ~ui.view.busy /\ ui' = [ui EXCEPT !.view.error = "invalid"]

EvidenceOnlyStart ==
    /\ ui.at = "dashboard" /\ ui.authorized /\ ~ui.view.busy /\ Room(ui.flying)
    /\ ui' = Request([ui EXCEPT !.view = [@ EXCEPT !.busy = TRUE, !.error = None, !.failed = FALSE]], "generate", {})

\* Its answer: the package is stored and the list is fetched, also when the page
\* was left; or nothing is stored, which is said, and the gate is checked again.
Generated(i, run) ==
    /\ ui.flying[i].what = "generate" /\ run \in EvidenceRuns \ ui.stored
    /\ LET s == FetchHistory([ui EXCEPT !.stored = @ \cup {run}], "historyThenRun", {run})
       IN  Taken(i, [s EXCEPT !.flying[Len(s.flying)].current = ui.flying[i].current])

NotGenerated(i) ==
    /\ ui.flying[i].what = "generate"
    /\ Heard(i, LoadHistoricalReadiness([ui EXCEPT !.view.error = "generation", !.view.failed = TRUE],
                                        "readinessThenIdle"))

\* The gate: it passes, it does not, or its answer cannot be read.
ReadinessAnswer(i, ready) ==
    /\ ui.flying[i].what \in {"readiness", "readinessThenIdle"}
    /\ Heard(i, [ui EXCEPT !.view.checking = FALSE, !.view.ready = ready,
                           !.view.error = IF ready = None THEN "readiness" ELSE @,
                           !.view.busy = @ /\ ui.flying[i].what = "readiness"])

\* The list, or a failure, which keeps the one of before.
WithHistory(s, list) == [s EXCEPT !.list = list, !.loading = FALSE]
WithoutHistory(s) == [s EXCEPT !.loading = FALSE, !.historyError = TRUE]

HistoryAnswer(i, ok) ==
    /\ ui.flying[i].what = "history"
    /\ \E list \in {ui.stored, ui.flying[i].of} :
          \E next \in RecordSelected(IF ok THEN WithHistory(ui, list) ELSE WithoutHistory(ui)) : Taken(i, next)

\* After a generation the history is opened with its run, wherever the user is by
\* now and also without the list; an open history stays mounted.
HistoryThenRun(i, ok) ==
    /\ ui.flying[i].what = "historyThenRun"
    /\ LET s == IF ok THEN WithHistory(ui, ui.stored) ELSE WithoutHistory(ui)
           run == CHOOSE run \in ui.flying[i].of : TRUE
       IN  \E next \in IF s.at = "history" THEN RecordSelected([s EXCEPT !.requested = run]) ELSE OpenedHistory(s, run) :
              Taken(i, next)

\* A run of the lab is stored.
StoredElsewhere(run) == run \notin ui.stored /\ ui' = [ui EXCEPT !.stored = @ \cup {run}]

ResearchNext ==
    /\ page = "research" /\ UNCHANGED page
    /\ \/ \E i \in DOMAIN ui.flying :
             \/ \E run \in EvidenceRuns : Generated(i, run)
             \/ NotGenerated(i)
             \/ \E ready \in {"ready", "blocked", None} : ReadinessAnswer(i, ready)
             \/ \E ok \in BOOLEAN : HistoryAnswer(i, ok) \/ HistoryThenRun(i, ok)
       \/ \E requested \in EvidenceRuns \cup {None} : GoToHistory(requested)
       \/ \E run \in Runs : PickRecord(run)
       \/ \E run \in AgentRuns : StoredElsewhere(run)
       \/ GoToDashboard \/ CloseRecord \/ RefreshHistory \/ StartInvalid \/ EvidenceOnlyStart

\* deriveAnalysisIntegrity.  An item has the health its publication was given, if
\* any; with a run, the ids of its evidence by what each is worth, and for each of
\* its claims the ids it cites.
Integrity(item) ==
    LET evidence == item.captured \cup item.declared \cup item.doubtful \cup item.untold
    IN  IF item.health = "structure invalid" THEN "invalid"
        ELSE IF item.unavailable \/ item.health = "unpublishable" THEN "degraded"
        ELSE IF ~item.run THEN "unknown"
        ELSE IF ~item.hashed \/ evidence = {} \/ item.claims = {} THEN "invalid"
        ELSE IF \E cited \in item.claims : cited = {} \/ ~(cited \subseteq evidence) THEN "invalid"
        ELSE IF item.untold # {} THEN "unknown"
        ELSE IF item.doubtful # {} THEN "degraded"
        ELSE "valid"

\* deriveResearchDuration: what the server measured, else what the times of the
\* evidence, or of the start, bound; seconds that are not positive are not shown.
Duration(measured, completed, times) ==
    LET earliest == CHOOSE t \in times : \A u \in times : t <= u
    IN  IF measured > 0 THEN [seconds |-> measured, derived |-> FALSE]
        ELSE IF times # {} /\ earliest < completed THEN [seconds |-> completed - earliest, derived |-> TRUE]
        ELSE [seconds |-> 0, derived |-> TRUE]

\* The groups of the list of History, the archived ones folded; those without a
\* record are left out.
GroupKinds(s) == {kind \in {EvidenceRuns, AgentRuns, ArchivedRuns} : kind \cap s.list # {}}
HistoryGroups(s) == {[records |-> kind \cap s.list, folded |-> kind = ArchivedRuns] : kind \in GroupKinds(s)}

\* The notices over it.
HistoryNotices(s) ==
    {notice \in {"loading", "failed", "kept", "empty"} :
        CASE notice = "loading" -> s.loading /\ s.list = {}
          [] notice = "failed" -> s.historyError
          [] notice = "kept" -> s.historyError /\ s.list # {}
          [] OTHER -> ~s.loading /\ ~s.historyError /\ s.list = {}}

\* The detail of the selected record: an order on paper is offered from a package
\* of evidence only, reports are shown of agents and of records of no known kind.
DetailHead(run) == {"decision", "integrity"} \cup IF run \in EvidenceRuns THEN {"paper"} ELSE {}
DetailChain(run, hasDossier, hasRun) ==
    (IF run \in EvidenceRuns /\ hasDossier THEN {"dossier"} ELSE {}) \cup {IF hasRun THEN "audit" ELSE "legacy notice"}
DetailReports(run, unavailable) ==
    IF run \in EvidenceRuns \/ unavailable THEN {} ELSE {"conclusion", "boundary", "reports"}

\* EvidenceOnlyDossierView: what the user left out stays unknown, also where the
\* assessment of the server is missing; room below the cap needs both numbers.
ContextShown(assessed, supplied) == IF assessed # None THEN assessed = "provided" ELSE supplied
HeadroomKnown(assessed, weight, cap) == assessed \/ (weight /\ cap)
OverLimit(within, exceeded, headroom) ==
    IF within # None THEN within = "no" ELSE IF exceeded # None THEN exceeded = "yes" ELSE headroom = "negative"

\* Dashboard: the state of the gate, its reasons, the form and the latest packages.
GateShows(s) == IF s.view.checking THEN "checking" ELSE IF s.view.ready = "ready" THEN "ready" ELSE "blocked"
GateReasons(s) == s.view.ready = "blocked"
FormEnabled(s) == s.authorized /\ ~s.view.busy
SummariesShown(s) == s.list \cap EvidenceRuns

-----------------------------------------------------------------------------
\* The run of the address is the one shown once a list has it, whatever was
\* selected before and however many lists arrived in whatever order: the package
\* that was just generated, not the record the user looked at meanwhile.
HistoryRunShown ==
    page = "research" /\ ui.at = "history" /\ ~ui.loading /\ ~ui.historyError /\ ui.requested \in ui.list =>
        ui.detail.selected = ui.requested

\* That no package was generated is said until the next attempt: neither the check
\* of the gate that follows nor one that was under way takes the notice away.
DashboardFailureTold ==
    page = "research" /\ ui.view.failed => ui.view.error # None

\* A list, a check of the gate or a generation that is shown as under way is one.
ResearchNeverStuck ==
    page = "research" =>
        /\ ui.loading => \E i \in DOMAIN ui.flying : ui.flying[i].what \in {"history", "historyThenRun"}
        /\ ui.view.checking => Waiting(ui.flying, "readiness") \/ Waiting(ui.flying, "readinessThenIdle")
        /\ ui.view.busy => \E what \in {"generate", "historyThenRun", "readinessThenIdle"} : Waiting(ui.flying, what)
=============================================================================
