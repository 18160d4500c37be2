------------------------------- MODULE ETFPage -------------------------------
(***************************************************************************)
(* pages/ETF.tsx and stores/etfStore.ts: sectors in a current and a        *)
(* historical mode, the page of one sector or of one fund, and the lookup  *)
(* of a fund's holdings.  The store has no gate: every answer is taken,    *)
(* with the mode it carries and the category captured when it was asked.   *)
(*                                                                         *)
(* components/cn, under it: the toolbox of the mainland market.  Its two   *)
(* panels stay mounted, the one that is not open is hidden: the routines,  *)
(* whose levels can be armed as price alerts, and the picks.               *)
(***************************************************************************)
EXTENDS Screen

CONSTANTS Categories,   \* "all" among them
          Funds         \* the symbols looked up; "sector" is the address of a sector

NoSectors == [mode |-> None, category |-> None]
NoLookup == [id |-> None, status |-> "idle"]

\* activeSector: the sector of the address, also when a filter hides it.
ActiveSector(s) == s.id = "sector" /\ s.sectors # NoSectors

\* The detail effect runs again when the address, loading, the sector found or
\* the retry counter changes: a running lookup is cancelled, and one is started
\* unless the sectors load or hold the answer.
DetailEffect(s) ==
    LET stopped == [s EXCEPT !.flying = Superseded(@, "detail")]
    IN  IF s.id = None \/ s.loading \/ ActiveSector(s) THEN stopped
        ELSE [stopped EXCEPT !.lookup = [id |-> s.id, status |-> "loading"],
                             !.flying = Ask(@, "detail", s.id)]

\* Faulty: the effect only follows the address.
EffectsOfAddress(s, t) == IF s.id # t.id THEN DetailEffect(t) ELSE t

\* After a step: the effect runs if what it depends on has changed.
Effects(s, t) ==
    IF s.id # t.id \/ s.loading # t.loading \/ ActiveSector(s) # ActiveSector(t)
    THEN DetailEffect(t) ELSE t

\* fetchSectors: sectors younger than a minute are only filtered again.
FetchSectors(s, force) ==
    IF ~force /\ s.sectors # NoSectors /\ s.fresh
    THEN [s EXCEPT !.sectors.category = s.category, !.loading = FALSE, !.error = FALSE]
    ELSE [s EXCEPT !.loading = TRUE, !.error = FALSE,
                   !.flying = Append(@, [what |-> "sectors", current |-> TRUE,
                                         of |-> [mode |-> s.dataMode, category |-> s.category]])]

\* The answer of fetchSectors; without one nothing is kept.
WithSectors(s, asked, ok) ==
    IF ok THEN [s EXCEPT !.dataMode = asked.mode, !.sectors = asked, !.fresh = TRUE,
                         !.loading = FALSE, !.error = FALSE]
    ELSE [s EXCEPT !.sectors = NoSectors, !.fresh = FALSE, !.loading = FALSE, !.error = TRUE]

SectorsAnswer(i, ok) ==
    /\ ui.flying[i].what = "sectors"
    /\ ui' = Effects(ui, [WithSectors(ui, ui.flying[i].of, ok) EXCEPT !.flying = Answered(@, i)])

\* The first visit, with or without an address of its own.
ETFInit ==
    /\ page = "etf"
    /\ \E id \in Funds \cup {"sector", None} :
          ui = FetchSectors([id |-> id, sectors |-> NoSectors, fresh |-> FALSE, loading |-> FALSE,
                             error |-> FALSE, dataMode |-> "current", category |-> "all",
                             lookup |-> NoLookup, asked |-> None, holdings |-> None,
                             holdingsLoading |-> FALSE, holdingsError |-> FALSE, flying |-> <<>>], FALSE)

\* What a step that may start up to two requests needs.
RoomForTwo == Len(ui.flying) + 1 < MaxFlying

SetDataMode(mode) ==
    /\ RoomForTwo
    /\ ui' = Effects(ui, FetchSectors([ui EXCEPT !.dataMode = mode,
                                               !.fresh = FALSE, !.error = FALSE], TRUE))

\* setActiveCategory; setSortBy does the same with the order of the rows.
SetCategory(category) ==
    /\ RoomForTwo
    /\ ui' = Effects(ui, FetchSectors([ui EXCEPT !.category = category], FALSE))

\* A retry button, or a minute passes.
RetrySectors == ui.error /\ RoomForTwo /\ ui' = Effects(ui, FetchSectors(ui, TRUE))
SectorsAge == ui.fresh /\ ui' = [ui EXCEPT !.fresh = FALSE]

Visit(id) == id # ui.id /\ RoomForTwo /\ ui' = Effects(ui, [ui EXCEPT !.id = id])

\* The lookup of the address ends, or is asked for again after an error.
DetailAnswer(i, ok) ==
    /\ ui.flying[i].what = "detail"
    /\ Heard(i, [ui EXCEPT !.lookup = [id |-> ui.flying[i].of, status |-> IF ok THEN "ready" ELSE "error"]])

RetryDetail ==
    /\ ui.lookup = [id |-> ui.id, status |-> "error"] /\ Room(ui.flying)
    /\ ui' = DetailEffect(ui)

\* loadHoldings: the older holdings go at once, a later call outdates this one.
LoadHoldings(fund) ==
    /\ Room(ui.flying)
    /\ ui' = [ui EXCEPT !.asked = fund, !.holdings = None, !.holdingsError = FALSE,
                        !.holdingsLoading = TRUE, !.flying = Ask(@, "holdings", fund)]

HoldingsAnswer(i, ok) ==
    /\ ui.flying[i].what = "holdings"
    /\ Heard(i, [ui EXCEPT !.holdings = IF ok THEN ui.flying[i].of ELSE @,
                           !.holdingsError = ~ok, !.holdingsLoading = FALSE])

ETFNext ==
    /\ page = "etf" /\ UNCHANGED page
    /\ \/ \E i \in DOMAIN ui.flying, ok \in BOOLEAN :
             SectorsAnswer(i, ok) \/ DetailAnswer(i, ok) \/ HoldingsAnswer(i, ok)
       \/ ui.id = None /\ \E mode \in {"current", "historical"} : SetDataMode(mode)
       \/ ui.id = None /\ \E category \in Categories : SetCategory(category)
       \/ \E id \in Funds \cup {"sector", None} : Visit(id)
       \/ (ui.id = None \/ ActiveSector(ui)) /\ \E fund \in Funds : LoadHoldings(fund)
       \/ RetrySectors \/ RetryDetail \/ SectorsAge

\* currentDetail: a lookup of another address counts for nothing.
CurrentDetail(s) == IF s.lookup.id = s.id THEN s.lookup.status ELSE "idle"

\* The list of sectors: its spinner, its error with both ways out, or the rows.
ListForm(s) == IF s.loading THEN "list spinner" ELSE IF s.error THEN "list error" ELSE "list"

\* The holdings pane of the list and of a sector: which symbol's rows it shows.
HoldingsPane(s) == [busy |-> s.holdingsLoading, error |-> s.holdingsError, rows |-> s.holdings]

\* Which of the page's forms is rendered.
ETFForm(s) ==
    IF s.id = None THEN ListForm(s)
    ELSE IF ActiveSector(s) THEN "sector"
    ELSE IF s.loading \/ CurrentDetail(s) \in {"idle", "loading"} THEN "spinner"
    ELSE IF CurrentDetail(s) = "ready" THEN "fund" ELSE "missing"

HistoricalNotice(s) == s.dataMode = "historical" /\ ETFForm(s) \in {"list spinner", "list error", "list", "sector"}

\* ------------------------------------------------------------

CONSTANTS Routines,    \* the ids of the routines
          Editions     \* answers that differ in the prices of the levels

Panels == {"routines", "picks"}

\* The levels of a symbol: its grid, where to buy, to sell and to stop, which is
\* armed alike, and its two lines of a dip, the first of which its price has passed
\* in an answer that says so.
Grid == {"grid"}
DipLines == {"yellow", "red"}

\* What a panel has: data of an answer, the trust in it, whether it failed; last is
\* what the last answer was, for the property.
NoAnswer == [edition |-> None, trust |-> None, failed |-> FALSE, loading |-> TRUE, last |-> None]

CnToolsInit ==
    /\ page = "cn"
    /\ ui = [tab |-> "routines", panels |-> [panel \in Panels |-> NoAnswer], open |-> None, toast |-> FALSE,
             passed |-> FALSE, alerts |-> {}, flying |-> Ask(Ask(<<>>, "routines", None), "picks", None)]

\* load: what was shown stays meanwhile.
Reload(panel) ==
    /\ ~ui.panels[panel].loading
    /\ ui' = [ui EXCEPT !.panels[panel].loading = TRUE, !.panels[panel].failed = FALSE,
                        !.flying = Ask(@, panel, None)]

\* An answer replaces data and trust; the first routine is opened if none is.
Answer(edition, trust) == [edition |-> edition, trust |-> trust, failed |-> FALSE, loading |-> FALSE, last |-> trust]

RoutinesAnswer(i, edition, trust, first, passed) ==
    /\ ui.flying[i].what = "routines"
    /\ Taken(i, [ui EXCEPT !.panels["routines"] = Answer(edition, trust),
                           !.open = IF @ # None THEN @ ELSE first, !.passed = passed])

PicksAnswer(i, trust) ==
    /\ ui.flying[i].what = "picks"
    /\ Taken(i, [ui EXCEPT !.panels["picks"] = Answer("any", trust)])

\* A failure leaves nothing of the answer before.
PanelFailed(panel) ==
    [ui EXCEPT !.panels[panel] = [NoAnswer EXCEPT !.failed = TRUE, !.loading = FALSE, !.last = "failed"]]

PanelFails(i, panel) == ui.flying[i].what = panel /\ Taken(i, PanelFailed(panel))

SwitchTab(tab) == tab # ui.tab /\ ui' = [ui EXCEPT !.tab = tab]

\* What each panel renders.  The routines say first that a load failed, the picks
\* only when they have nothing to show.
RoutinesShow(s) ==
    LET has == s.panels["routines"].edition # None
    IN  IF s.panels["routines"].loading /\ ~has THEN "loading"
        ELSE IF s.panels["routines"].failed \/ ~has THEN "error"
        ELSE IF s.panels["routines"].trust = "live" THEN "live" ELSE "rules only"

PicksShow(s) ==
    LET has == s.panels["picks"].edition # None
    IN  IF s.panels["picks"].failed /\ ~has THEN "error"
        ELSE IF s.panels["picks"].loading /\ ~has THEN "loading"
        ELSE IF ~has THEN "nothing"
        ELSE IF s.panels["picks"].trust = "live" THEN "live" ELSE "notice"

OpenRoutine(routine) ==
    /\ RoutinesShow(ui) = "live"
    /\ ui' = [ui EXCEPT !.open = IF @ = routine THEN None ELSE routine]

\* addAlert by one of the buttons: an alert that is set already is not set again,
\* an alert of an older answer stays beside it.
Armed(s, levels) == [s EXCEPT !.alerts = @ \cup {[level |-> level, edition |-> s.panels["routines"].edition] : level \in levels}]

CanArm == RoutinesShow(ui) = "live" /\ ui.tab = "routines" /\ ui.open # None

ArmLevel(level) == CanArm /\ ui' = Armed(ui, {level})
ArmLevels == CanArm /\ ui' = [Armed(ui, Grid) EXCEPT !.toast = TRUE]

\* armDipAlerts and, for every symbol of the routine, armAllDipAlerts pass over a
\* line whose price is passed; the button of the line itself does not.
ArmDipAlerts ==
    CanArm /\ ui' = [Armed(ui, IF ui.passed THEN DipLines \ {"yellow"} ELSE DipLines) EXCEPT !.toast = TRUE]

ToastTimer == ui.toast /\ ui' = [ui EXCEPT !.toast = FALSE]

CnToolsNext ==
    /\ page = "cn" /\ UNCHANGED page
    /\ \/ \E panel \in Panels : Reload(panel)
       \/ \E i \in DOMAIN ui.flying :
             \/ \E panel \in Panels : PanelFails(i, panel)
             \/ \E trust \in {"live", "stale", "unavailable"} :
                   \/ PicksAnswer(i, trust)
                   \/ \E edition \in Editions, first \in Routines, passed \in BOOLEAN :
                         RoutinesAnswer(i, edition, trust, first, passed)
       \/ \E tab \in Panels : SwitchTab(tab)
       \/ \E routine \in Routines : OpenRoutine(routine)
       \/ \E level \in Grid \cup DipLines : ArmLevel(level)
       \/ ArmLevels \/ ArmDipAlerts \/ ToastTimer

\* A symbol of an open routine: without a quote it has no grid to arm.
SymbolShows(quoted, dips) ==
    {"action"} \cup (IF dips THEN {"dip lines", "dip button"} ELSE {})
               \cup (IF quoted THEN {"price", "buy", "sell", "arm all"} ELSE {"no quote"})
DipBannerShows(dips, level) == dips \/ level # None
DipLineShows(line, passed) == IF passed /\ line = "yellow" THEN "triggered" ELSE "gap"

\* Rules only: the limits of positions and the methods, no price and no level.
RulesOnlyShows(profile) == {"methods", "retry"} \cup IF profile THEN {"limits"} ELSE {}

\* The three lists of live picks.
PicksListed(hot, conviction, seed) ==
    {"etf", IF hot THEN "hot" ELSE "no hot", IF conviction THEN "conviction" ELSE "no conviction"}
        \cup IF seed THEN {"seed"} ELSE {}
-----------------------------------------------------------------------------
\* A list that has settled is marked by the mode its rows were asked for, in
\* whatever order the answers of both modes and of the filters come.
ETFListMarked ==
    page = "etf" /\ ETFForm(ui) = "list" =>
        ui.sectors.mode = ui.dataMode /\ (HistoricalNotice(ui) <=> ui.sectors.mode = "historical")

\* The holdings shown are those of the symbol in the field, however many
\* symbols were looked up before the first answer came.
ETFShowsSelection ==
    page = "etf" => /\ HoldingsPane(ui).rows \in {None, ui.asked}
                    /\ HoldingsPane(ui).rows # None => ~HoldingsPane(ui).busy /\ ~HoldingsPane(ui).error

\* A spinner of the page is always waiting for something: a lookup cancelled by
\* its effect is started again by the run of the effect that follows.
ETFNeverStuck ==
    page = "etf" =>
        /\ ui.loading => Flying(ui.flying, "sectors") # {}
        /\ ETFForm(ui) = "spinner" => ui.flying # <<>>
        /\ ui.holdingsLoading => Waiting(ui.flying, "holdings")

\* Neither panel, hidden or open, offers as live what an answer before the last one
\* brought: a failed or doubtful reload takes prices and levels away, and no alert
\* can be armed from them.
CnNothingKept ==
    page = "cn" =>
        /\ RoutinesShow(ui) = "live" => ui.panels["routines"].last = "live"
        /\ PicksShow(ui) = "live" => ui.panels["picks"].last = "live"

\* A panel that shows it is loading has a request on its way.
CnToolsNeverStuck ==
    page = "cn" => \A panel \in Panels : ui.panels[panel].loading => Waiting(ui.flying, panel)
=============================================================================
