------------------------------- MODULE RadarPage -------------------------------
(***************************************************************************)
(* components/AshareMarketRadar.tsx with FearGreedGauge.tsx: the board of  *)
(* indices, moods, mappings and plans that the home page and the research  *)
(* lab mount; its charts are in ChartGrid.  And                            *)
(* components/KeyWatchlistPanel.tsx with PineScriptModal.tsx: a list of    *)
(* symbols picked by hand, with prices where these can be verified.        *)
(***************************************************************************)
EXTENDS Screen

CONSTANTS Markets,      \* the tabs of indices
          Tiers         \* the tiers of plans

\* What an answer brings: the indices that are available and the tiers that
\* have plans.  Its moods are numbers in any case.
Boards == [indices : SUBSET Markets, plans : SUBSET Tiers]

CockpitTabs == {"ALL", "OVERVIEW", "US_MAPPING", "FORWARD_PLAN", "TRADINGVIEW_4SPLIT"}

\* last stands for the outcome of the request that ended last.
RadarInit ==
    /\ page = "radar"
    /\ \E market \in Markets :
          ui = [cockpit |-> "ALL", market |-> market, tier |-> "ALL", gauge |-> "GAUGE", data |-> {}, last |-> None,
                loading |-> TRUE, error |-> FALSE, asking |-> TRUE, refreshing |-> FALSE, timers |-> 0,
                flying |-> Ask(<<>>, "overview", "timer")]

\* fetchOverview, which does nothing while a request is on its way.
FetchOverview(by) ==
    /\ ~ui.asking
    /\ ui' = [ui EXCEPT !.asking = TRUE, !.refreshing = @ \/ by = "hand", !.flying = Ask(@, "overview", by)]

\* The poll of 8 s, not on a hidden page, and the buttons; a click while the
\* refresh is marked and no more timers are counted than the bound is the same.
PollOverview == FetchOverview("timer")
RefreshByHand == ~ui.loading /\ ui.timers < 2 /\ FetchOverview("hand")

Ended(i) ==
    [ui EXCEPT !.loading = FALSE, !.asking = FALSE, !.timers = IF ui.flying[i].of = "hand" THEN @ + 1 ELSE @]

OverviewArrived(i, board) ==
    Taken(i, [Ended(i) EXCEPT !.data = {board}, !.error = FALSE, !.last = "board"])

OverviewFailed(i) == Taken(i, [Ended(i) EXCEPT !.error = TRUE, !.data = {}, !.last = "failure"])

\* The mark of a refresh is taken away 500 ms after it ended, even when another
\* has begun since.
RefreshShown == ui.timers > 0 /\ ui' = [ui EXCEPT !.timers = @ - 1, !.refreshing = FALSE]

SetTabs(cockpit, market, tier, gauge) ==
    /\ ~ui.loading
    /\ ui' = [ui EXCEPT !.cockpit = cockpit, !.market = market, !.tier = tier, !.gauge = gauge]

RadarNext ==
    /\ page = "radar" /\ UNCHANGED page
    /\ \/ \E i \in DOMAIN ui.flying : OverviewFailed(i) \/ \E board \in Boards : OverviewArrived(i, board)
       \/ PollOverview \/ RefreshByHand \/ RefreshShown
       \/ \E cockpit \in CockpitTabs : SetTabs(cockpit, ui.market, ui.tier, ui.gauge)
       \/ \E market \in Markets : SetTabs(ui.cockpit, market, ui.tier, ui.gauge)
       \/ \E tier \in Tiers \cup {"ALL"} : SetTabs(ui.cockpit, ui.market, tier, ui.gauge)
       \/ \E gauge \in {"GAUGE", "COMPONENTS"} : SetTabs(ui.cockpit, ui.market, ui.tier, gauge)

\* The board is replaced as a whole while the first request runs and after one
\* failed.
RadarStatus(s) ==
    IF s.data # {} THEN "live" ELSE IF s.loading THEN "loading" ELSE "unavailable"

In(s, tab) == RadarStatus(s) = "live" /\ s.cockpit \in {"ALL", tab}

\* Section 1: the indices of the tab, each with its price or with no data.
IndicesShown(s) ==
    IF ~In(s, "OVERVIEW") THEN {}
    ELSE {IF s.market \in board.indices THEN "price" ELSE "no data" : board \in s.data}

\* FearGreedGauge: the score and the breadth come from the board, its other tab
\* and the rate of broken limits are fixed texts.
GaugeShown(s) ==
    IF ~In(s, "OVERVIEW") THEN {} ELSE IF s.gauge = "GAUGE" THEN {"score", "breadth", "fixed"} ELSE {"fixed", "vix"}

\* Section 3 has the mappings of the board, section 4 its plans of the tier.
MappingShown(s) == In(s, "US_MAPPING")

PlansShown(s) ==
    IF ~In(s, "FORWARD_PLAN") THEN {}
    ELSE {tier \in Tiers : s.tier \in {"ALL", tier} /\ \E board \in s.data : tier \in board.plans}

\* ------------------------------------------------------------

CONSTANTS FeaturedUS,   \* the symbols of FEATURED_STOCKS in the United States
          FeaturedCN    \* and in China

Tabs == {"ALL", "M7", "CN"}

Filtered(tab) ==
    (IF tab = "CN" THEN {} ELSE FeaturedUS) \cup (IF tab = "M7" THEN {} ELSE FeaturedCN)

\* An answer with its quotes; source and time are known or not.
QuoteResults == [quotes : SUBSET Filtered("ALL"), provenance : BOOLEAN, stale : BOOLEAN]

Usable(result) == result.provenance /\ ~result.stale /\ result.quotes # {}

\* usable tells of the answer that arrived last; copied is the list behind the
\* tick of the button.
WatchlistInit ==
    /\ page = "watchlist"
    /\ \E hidden \in BOOLEAN :
          ui = [tab |-> "ALL", expanded |-> FALSE, pine |-> FALSE, copied |-> {}, state |-> "loading", quotes |-> {},
                usable |-> FALSE, hidden |-> hidden, polling |-> ~hidden,
                flying |-> IF hidden THEN <<>> ELSE <<[what |-> "quotes", of |-> "poll", current |-> TRUE]>>]

\* refreshQuotes, which the poll waits for and the button does not.
AskWatchlist(s, by) ==
    [s EXCEPT !.state = "loading", !.polling = @ \/ by = "poll",
              !.flying = Append(@, [what |-> "quotes", of |-> by, current |-> TRUE])]

Tick(s) == IF s.hidden \/ s.polling THEN s ELSE AskWatchlist(s, "poll")

\* The interval of 15 s.
PollQuotes == ~ui.hidden /\ ~ui.polling /\ Room(ui.flying) /\ ui' = Tick(ui)

RetryQuotes == Room(ui.flying) /\ ui' = AskWatchlist(ui, "hand")

WatchlistShown == (ui.hidden => Room(ui.flying)) /\ ui' = Tick([ui EXCEPT !.hidden = ~@])

PollEnded(i) == [ui EXCEPT !.polling = @ /\ ui.flying[i].of # "poll"]

QuoteResult(i, result) ==
    Taken(i, [PollEnded(i) EXCEPT !.quotes = IF Usable(result) THEN result.quotes ELSE {}, !.usable = Usable(result),
                               !.state = IF result.stale THEN "stale" ELSE IF Usable(result) THEN "live" ELSE "unavailable"])

QuotesFailed(i) == Taken(i, [PollEnded(i) EXCEPT !.quotes = {}, !.usable = FALSE, !.state = "error"])

SetTab(tab) == ui' = [ui EXCEPT !.tab = tab]

\* copyTradingViewList copies what is listed; the tick goes after two seconds.
CopyList == ui' = [ui EXCEPT !.copied = Filtered(ui.tab)]
CopyShown == ui.copied # {} /\ ui' = [ui EXCEPT !.copied = {}]

ToggleExpanded == ui' = [ui EXCEPT !.expanded = ~@]

\* The dialog with the script covers the panel.
TogglePine == ui' = [ui EXCEPT !.pine = ~@]

WatchlistNext ==
    /\ page = "watchlist" /\ UNCHANGED page
    /\ \/ \E i \in DOMAIN ui.flying : QuotesFailed(i) \/ \E result \in QuoteResults : QuoteResult(i, result)
       \/ PollQuotes \/ WatchlistShown \/ CopyShown \/ TogglePine
       \/ ~ui.pine /\ (RetryQuotes \/ CopyList \/ ToggleExpanded \/ \E tab \in Tabs : SetTab(tab))

\* The cards: a price where the last answer has one.
Cards(s) == [symbol \in Filtered(s.tab) |-> IF symbol \in s.quotes THEN "price" ELSE "no quote"]

\* The state of the quotes, with the way to the settings while they are not live.
StatusLine(s) == [state |-> s.state, repair |-> s.state # "live"]
-----------------------------------------------------------------------------
\* After a failed request no number of an older board is left in any section,
\* and only an outage is told.
RadarFailureClears ==
    page = "radar" /\ ui.last = "failure" =>
        /\ RadarStatus(ui) = "unavailable" /\ ui.error
        /\ IndicesShown(ui) \cup GaugeShown(ui) \cup PlansShown(ui) = {} /\ ~MappingShown(ui)

\* The ref that keeps requests from overlapping is released with each of them,
\* and no mark of loading or refreshing outlives what it stands for.
RadarNeverStuck ==
    page = "radar" =>
        /\ ui.asking = (Len(ui.flying) = 1)
        /\ ui.loading => Waiting(ui.flying, "overview")
        /\ ui.refreshing => ui.timers > 0 \/ \E i \in DOMAIN ui.flying : ui.flying[i].of = "hand"

\* "A price is shown only when source and time are complete and not outdated":
\* also between an answer and the next, and while several are on their way, no
\* card has a price once an answer arrived that cannot be used, and the line
\* says live only over prices that can.
WatchlistPricesUsable ==
    page = "watchlist" =>
        /\ (\E symbol \in DOMAIN Cards(ui) : Cards(ui)[symbol] = "price") =>
              ui.usable /\ StatusLine(ui).state \in {"live", "loading"}
        /\ StatusLine(ui).state = "live" => ui.quotes # {}

\* The poll goes on after each of its requests, and a line that says loading has
\* a request to wait for or a page that nobody sees yet.
WatchlistNeverStuck ==
    page = "watchlist" =>
        /\ ui.polling => \E i \in DOMAIN ui.flying : ui.flying[i].of = "poll"
        /\ ui.state = "loading" => ui.flying # <<>> \/ ui.hidden
=============================================================================
