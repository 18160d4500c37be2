------------------------------- MODULE ShellPage -------------------------------
(***************************************************************************)
(* components/layout/StockGodShell.tsx: the frame of the market pages with *)
(* its navigation, the drawer of the watched symbols and the palette that  *)
(* searches stocks and pages.                                              *)
(*                                                                         *)
(* components/layout/GlobalDataFreshnessControl.tsx: the mark in the frame *)
(* of every page that says whether the live data is ready, its diagnosis   *)
(* and its refresh; components/layout/Layout.tsx, where the research pages *)
(* do without it; utils/dataTrust.ts.                                      *)
(***************************************************************************)
EXTENDS Screen

CONSTANTS Searches,     \* what may be typed into the search
          Watched       \* the symbols that may be watched

\* The pages that the navigation leads to; some share a path and differ by the
\* part of it they open.
Locations == {[path |-> "etf", hash |-> None], [path |-> "etf", hash |-> "cn-tools"],
              [path |-> "portfolio", hash |-> None], [path |-> "dashboard", hash |-> None],
              [path |-> "dashboard/macro", hash |-> None], [path |-> "stock", hash |-> None]}

\* navItems: every page but the one of a stock, in two groups.
NavItems == {l \in Locations : l.path # "stock"}
Cockpit == {l \in NavItems : l.path \in {"dashboard", "dashboard/macro"}}

\* An item is marked by its path or one below it, one with a part of a page by
\* both.
Below(location, item) == location.path = "dashboard/macro" /\ item.path = "dashboard"

Marked(item, location) ==
    IF item.hash # None THEN item = location ELSE item.path = location.path \/ Below(location, item)

\* The effect of the palette on its being open, its query and its retry.
SearchEffect(s) ==
    LET quiet == [s EXCEPT !.flying = Superseded(@, "search")]
    IN  IF ~s.open \/ s.query = None
        THEN [quiet EXCEPT !.results = None, !.error = FALSE, !.timer = FALSE]
        ELSE [quiet EXCEPT !.timer = TRUE]

\* The effect on the path closes the menu of the phone.
Arrived(s, location) ==
    [s EXCEPT !.location = location, !.menu = IF location.path = s.location.path THEN @ ELSE None]

ShellInit ==
    /\ page = "shell"
    /\ \E location \in Locations, watched \in SUBSET Watched :
          ui = [location |-> location, collapsed |-> FALSE, menu |-> None, drawer |-> FALSE, watched |-> watched,
                open |-> FALSE, query |-> None, timer |-> FALSE, loading |-> FALSE, error |-> FALSE,
                results |-> None, flying |-> <<>>]

\* The palette opens by the key, by the focus of a search field or by the rail.
OpenPalette == ~ui.open /\ ui' = SearchEffect([ui EXCEPT !.open = TRUE])

ClosePalette(s) == SearchEffect([s EXCEPT !.open = FALSE])

LeavePalette == ui.open /\ ui' = ClosePalette(ui)

TypeQuery(query) == ui.open /\ query # ui.query /\ ui' = SearchEffect([ui EXCEPT !.query = query])

RetrySearch == ui.open /\ ui.error /\ ~ui.loading /\ ui' = SearchEffect(ui)

\* After 180 ms the search is sent, in the market that the query looks like.
PaletteTimer ==
    /\ ui.timer /\ Room(ui.flying)
    /\ ui' = [ui EXCEPT !.timer = FALSE, !.loading = TRUE, !.error = FALSE, !.flying = Ask(@, "search", ui.query)]

PaletteAnswer(i, ok) ==
    /\ ui.flying[i].what = "search"
    /\ Heard(i, [ui EXCEPT !.loading = FALSE, !.error = ~ok, !.results = IF ok THEN ui.flying[i].of ELSE None])

\* `go`: a page of the quick links, which are not searched for, or a result.
GoFromPalette(location) ==
    /\ ui.open /\ (location.path = "stock" => ui.results # None)
    /\ ui' = Arrived(ClosePalette(ui), location)

\* The links of the sidebar and of the bar at the bottom, which the palette and
\* the drawer cover, and back and forward, which nothing covers.
Navigate(location) == ui' = Arrived(ui, location)

\* The menu of the phone, which stock pages do not have; its links toggle it.
ToggleMenu ==
    /\ ui.location.path # "stock" /\ ~ui.open /\ ~ui.drawer
    /\ ui' = [ui EXCEPT !.menu = IF @ = None THEN ui.location.path ELSE None]

GoFromMenu(location) ==
    /\ ui.menu # None /\ location \in NavItems
    /\ ui' = Arrived([ui EXCEPT !.menu = None], location)

ToggleCollapse == ui' = [ui EXCEPT !.collapsed = ~@]

\* The drawer: a symbol is opened or taken out, or the full page is shown.
OpenDrawer == ~ui.open /\ ~ui.drawer /\ ui' = [ui EXCEPT !.drawer = TRUE]

CloseDrawer == ui.drawer /\ ui' = [ui EXCEPT !.drawer = FALSE]

GoFromDrawer(location) ==
    /\ ui.drawer /\ location.path \in {"stock", "portfolio"}
    /\ location.path = "stock" => ui.watched # {}
    /\ ui' = Arrived([ui EXCEPT !.drawer = FALSE], location)

RemoveWatched(symbol) ==
    ui.drawer /\ symbol \in ui.watched /\ ui' = [ui EXCEPT !.watched = @ \ {symbol}]

\* useDialogFocus: Escape closes every dialog that is open.
Escape ==
    /\ ui.open \/ ui.drawer
    /\ ui' = IF ui.open THEN ClosePalette([ui EXCEPT !.drawer = FALSE]) ELSE [ui EXCEPT !.drawer = FALSE]

ShellNext ==
    /\ page = "shell" /\ UNCHANGED page
    /\ \/ \E i \in DOMAIN ui.flying, ok \in BOOLEAN : PaletteAnswer(i, ok)
       \/ \E location \in Locations :
             GoFromPalette(location) \/ Navigate(location) \/ GoFromMenu(location) \/ GoFromDrawer(location)
       \/ \E query \in Searches \cup {None} : TypeQuery(query)
       \/ \E symbol \in Watched : RemoveWatched(symbol)
       \/ OpenPalette \/ LeavePalette \/ RetrySearch \/ PaletteTimer
       \/ ToggleMenu \/ ToggleCollapse \/ OpenDrawer \/ CloseDrawer \/ Escape

\* The sidebar: the items with their marks, and the number of watched symbols
\* at the portfolio and at the drawer while it is not collapsed.
SidebarMarks(s) ==
    {item \in NavItems : IF item \in Cockpit THEN item.path = s.location.path ELSE Marked(item, s.location)}

\* The menu and the bar of the phone.
MenuMarks(s) == IF s.menu = None THEN {} ELSE {item \in NavItems : Marked(item, s.location)}

BottomMarks(s) == {item \in NavItems \ Cockpit : Marked(item, s.location)}

DrawerShows(s) == IF ~s.drawer THEN {} ELSE IF s.watched = {} THEN {"nothing watched"} ELSE s.watched

\* The stocks in the palette.
PaletteShows(s) ==
    {w \in {"searching", "alert", "no results", "results"} :
        /\ s.open
        /\ \/ w = "searching" /\ s.loading
           \/ w = "alert" /\ ~s.loading /\ s.error
           \/ w = "no results" /\ ~s.loading /\ ~s.error /\ s.results = None /\ s.query # None
           \/ w = "results" /\ s.results # None}

\* ------------------------------------------------------------

\* assessDataTrust of an answer: the first thing that is wrong with it counts.
TrustSession(answer) ==
    CASE ~answer.source \/ answer.time # "known" -> "unavailable"
      [] answer.source /\ answer.time = "known" /\ answer.partial -> "unavailable"
      [] answer.source /\ answer.time = "known" /\ ~answer.partial /\ answer.stale -> "stale"
      [] OTHER -> IF answer.rows THEN "live" ELSE "unavailable"

Answers == [source : BOOLEAN, time : {"known", "unknown", "future"}, partial : BOOLEAN, stale : BOOLEAN, rows : BOOLEAN]

\* summarizeGlobalDataFreshness: a status is the set of its endpoints, those
\* that the user wrote left out, and what it says as a whole.
Endpoints == [timed : BOOLEAN, stale : BOOLEAN]
Statuses == [ok : BOOLEAN, endpoints : SUBSET Endpoints]
NoStatus == [ok |-> FALSE, endpoints |-> {}]

DegradedStatus(status) ==
    \/ ~status.ok \/ status.endpoints = {}
    \/ \E endpoint \in status.endpoints : endpoint.stale \/ ~endpoint.timed

\* loadStatus; the answers of all loads count.
LoadStatus(s) == [s EXCEPT !.flying = AskOnce(@, "load")]

\* The effect on the path; on a research page nothing is loaded.
VisitSurface(s, path) ==
    LET there == [s EXCEPT !.path = path, !.error = FALSE, !.failed = FALSE]
    IN  IF path = "research" THEN [there EXCEPT !.status = NoStatus] ELSE LoadStatus(there)

FreshInit ==
    /\ page = "fresh"
    /\ \E path \in {"market", "scan", "research"} :
          ui = VisitSurface([path |-> None, status |-> NoStatus, error |-> FALSE, failed |-> FALSE,
                      refreshing |-> FALSE, details |-> FALSE, flying |-> <<>>], path)

\* What a load brings; one that fails leaves no status.
Loaded(s, status) ==
    [s EXCEPT !.status = status, !.error = @ \/ status = NoStatus]

LoadAnswer(i, status) == ui.flying[i].what = "load" /\ Taken(i, Loaded(ui, status))

\* `refresh` reads the macro series and the movers anew, then the quotes of the
\* list, then the status.
RefreshSurface ==
    /\ ~ui.refreshing /\ ui.path # "research" /\ Room(ui.flying)
    /\ ui' = [ui EXCEPT !.refreshing = TRUE, !.error = FALSE, !.failed = FALSE,
                        !.flying = Append(@, [what |-> "sources", of |-> None, current |-> TRUE])]

\* An answer that is not live is an error, as one that does not come; the
\* quotes do not fail.
SourcesAnswer(i, macro, movers) ==
    /\ ui.flying[i].what = "sources"
    /\ LET bad == TrustSession(macro) # "live" \/ TrustSession(movers) # "live"
       IN  ui' = [ui EXCEPT !.flying = Append(Answered(@, i), [what |-> "status", of |-> bad, current |-> TRUE])]

\* The status of a refresh: with it, the errors are those of the sources.
RefreshAnswer(i, status) ==
    /\ ui.flying[i].what = "status"
    /\ LET bad == ui.flying[i].of
       IN  Taken(i, [ui EXCEPT !.status = status, !.refreshing = FALSE,
                               !.failed = bad \/ status = NoStatus,
                               !.error = IF status = NoStatus THEN TRUE ELSE bad])

GoToPath(path) == path # ui.path /\ Room(ui.flying) /\ ui' = VisitSurface(ui, path)

ToggleDetails == ui.path # "research" /\ ui' = [ui EXCEPT !.details = ~@]

\* What a source may answer, by what it comes to.
SomeAnswers == {a \in Answers : a.time = "known" /\ a.source /\ a.rows /\ ~a.partial}

FreshNext ==
    /\ page = "fresh" /\ UNCHANGED page
    /\ \/ \E i \in DOMAIN ui.flying :
             \/ \E status \in Statuses \cup {NoStatus} : LoadAnswer(i, status) \/ RefreshAnswer(i, status)
             \/ \E macro, movers \in SomeAnswers : SourcesAnswer(i, macro, movers)
       \/ \E path \in {"market", "scan", "research"} : GoToPath(path)
       \/ RefreshSurface \/ ToggleDetails

\* The frame of the page: the research pages say what they are instead.
Frame(s) == IF s.path = "research" THEN {"boundary"} ELSE {"control"}

\* The mark and the time next to it.
Mark(s) == IF DegradedStatus(s.status) \/ s.error THEN "not ready" ELSE "verified"

\* The diagnosis below the mark.
Diagnosis(s) ==
    {w \in {"error", "endpoints", "no endpoints"} :
        /\ s.details /\ Frame(s) = {"control"}
        /\ \/ w = "error" /\ s.error
           \/ w = "endpoints" /\ s.status.endpoints # {}
           \/ w = "no endpoints" /\ s.status.endpoints = {}}
-----------------------------------------------------------------------------
\* Once a search has ended the palette shows the results of what is typed now,
\* or that it failed.
ShellResultsOwn ==
    page = "shell" /\ ui.open /\ ~ui.timer /\ "searching" \notin PaletteShows(ui) =>
        IF ui.query = None THEN ui.results = None
        ELSE ui.results = ui.query \/ "alert" \in PaletteShows(ui)

\* The menu of the phone never covers a page it was not opened on, whichever way
\* led there, and what the sidebar and the bar mark the menu marks too.
ShellMenuOwn ==
    page = "shell" /\ ui.menu # None =>
        /\ ui.menu = ui.location.path
        /\ SidebarMarks(ui) \cup BottomMarks(ui) \subseteq MenuMarks(ui)

\* "Searching..." for something typed has a search to wait for.
ShellNeverStuck ==
    page = "shell" /\ "searching" \in PaletteShows(ui) /\ ui.query # None => ui.timer \/ Waiting(ui.flying, "search")

\* A refresh that went wrong is told until the next one or the next page: the
\* answer of a load that was on its way does not turn the mark green.
FreshRefreshTold ==
    page = "fresh" /\ ui.failed /\ Frame(ui) = {"control"} =>
        Mark(ui) = "not ready" /\ (ui.details => "error" \in Diagnosis(ui))

\* The refresh button comes back.
FreshNeverStuck ==
    page = "fresh" /\ ui.refreshing => \E i \in DOMAIN ui.flying : ui.flying[i].what \in {"sources", "status"}
=============================================================================
