------------------------------- MODULE HomePage -------------------------------
(***************************************************************************)
(* The home page.  pages/Home.tsx, the heat map of a region: one effect    *)
(* validates the score evidence and the macro series and leaves the        *)
(* evidence in a ref, another loads the companies and merges the scores    *)
(* the ref then holds.  The panels around it that ask once, or again by a  *)
(* button, as page "panels": components/MarketAnomaliesRadar.tsx,          *)
(* SentimentPanel.tsx, MarketMovers.tsx and UpcomingEvents.tsx.  And the   *)
(* cache of the heat map in utils/pulseData.ts, as page "pulse": the       *)
(* promise of one region, for 45 seconds.  The canvas of the map in        *)
(* components/heatmap/Heatmap.tsx and utils/heatmap.ts, as page "heat".    *)
(***************************************************************************)
EXTENDS Screen

CONSTANT Regions     \* the regions there are tabs for, "US" among them

ASSUME HomeConstants == None \notin Regions

NoCompanies == [of |-> None, historical |-> FALSE, scored |-> FALSE]

\* The page after its first render: both effects have asked.
HomeInit ==
    /\ page = "home"
    /\ ui = [region |-> "US", mode |-> "pulse", evidence |-> FALSE, panelNote |-> "validating",
             macro |-> FALSE, macroNote |-> FALSE, companies |-> NoCompanies,
             historicalNote |-> FALSE, loading |-> TRUE, error |-> FALSE,
             flying |-> Ask(Ask(<<>>, "overview", None), "pulse", "US")]

\* The overview effect starts: the evidence is void until it is validated again.
OverviewStart(s) ==
    [s EXCEPT !.evidence = FALSE, !.panelNote = "validating", !.flying = Ask(@, "overview", None)]

\* Its two requests are answered, each usable or not: what is not usable is
\* hidden and the page says so.
OverviewAnswer(i, evidence, macro) ==
    /\ ui.flying[i].what = "overview"
    /\ Heard(i, [ui EXCEPT !.evidence = evidence, !.panelNote = IF evidence THEN None ELSE "hidden",
                           !.macro = macro, !.macroNote = ~macro])

\* The pulse effect starts; the companies of before stay.
PulseStart(s) ==
    [s EXCEPT !.loading = TRUE, !.error = FALSE, !.flying = Ask(@, "pulse", s.region)]

\* The companies arrive and take the scores of the evidence held at that
\* moment, or the request fails and nothing is shown.
WithPulse(s, region, outcome) ==
    LET failed == outcome = "failed"
        historical == outcome = "historical"
    IN  [s EXCEPT !.companies = IF failed THEN NoCompanies
                                ELSE [of |-> region, historical |-> historical, scored |-> s.evidence],
                  !.historicalNote = historical, !.error = failed, !.loading = FALSE]

PulseAnswer(i, outcome) ==
    /\ ui.flying[i].what = "pulse"
    /\ Heard(i, WithPulse(ui, ui.flying[i].of, outcome))

SelectRegion(region) ==
    /\ region # ui.region /\ Room(ui.flying)
    /\ ui' = PulseStart([ui EXCEPT !.region = region])

\* retryHomeData, the refresh event of the header, or another language: both
\* effects run again.
RetryHome ==
    /\ Len(ui.flying) + 1 < MaxFlying
    /\ ui' = PulseStart(OverviewStart(ui))

SelectMode(mode) == mode # ui.mode /\ ui' = [ui EXCEPT !.mode = mode]

HomeNext ==
    /\ page = "home" /\ UNCHANGED page
    /\ \/ \E i \in DOMAIN ui.flying :
             \/ \E evidence, macro \in BOOLEAN : OverviewAnswer(i, evidence, macro)
             \/ \E outcome \in {"live", "historical", "failed"} : PulseAnswer(i, outcome)
       \/ \E region \in Regions : SelectRegion(region)
       \/ RetryHome
       \/ \E mode \in {"pulse", "chain", "sector"} : SelectMode(mode)

\* The notices above every mode.
HomeNotices(s) ==
    {n \in {"macro", "scores", "historical"} :
        \/ n = "macro" /\ s.macroNote
        \/ n = "scores" /\ s.panelNote # None
        \/ n = "historical" /\ s.historicalNote}

\* The rows of the list: companies of the selected region only.
Listed(s) == IF s.companies.of = s.region THEN s.companies ELSE NoCompanies

\* The heat map of the first mode: a spinner, the error with its retry, the map
\* or the remark that nothing matches.
HomeMap(s) ==
    IF s.mode # "pulse" THEN {}
    ELSE {w \in {"spinner", "error", "map", "nothing"} :
             \/ w = "spinner" /\ s.loading
             \/ w = "error" /\ s.error
             \/ w = "map" /\ ~s.loading /\ ~s.error /\ Listed(s) # NoCompanies
             \/ w = "nothing" /\ ~s.loading /\ ~s.error /\ Listed(s) = NoCompanies}

\* The rankings beside it list companies while the map is loading, too.
HomeRankings(s) == IF s.mode = "pulse" THEN Listed(s) ELSE NoCompanies

\* ------------------------------------------------------------

\* MaxPulses bounds the loads started, and the sets of nodes that one map draws.
CONSTANTS PulseRegions, PulseCallers, MaxPulses

ASSUME HomePanelsConstants == MaxPulses \in Nat

\* What an answer is worth, as assessDataTrust says.
TrustStates == {"live", "stale", "unavailable"}

PanelsOfHome == {"anomalies", "sentiment", "movers", "events"}

FreshPanel(panel) ==
    [panel |-> panel, data |-> None, trust |-> None, loading |-> TRUE, error |-> FALSE,
     flying |-> Ask(<<>>, panel, None)]

PanelsInit == page = "panels" /\ \E panel \in PanelsOfHome : ui = FreshPanel(panel)

\* The mode of the page is left and chosen again; the cleanup cancels the request
\* of the component that is gone, and its state goes with it.
RemountPanel ==
    /\ Room(ui.flying)
    /\ ui' = [FreshPanel(ui.panel) EXCEPT !.flying = Ask(ui.flying, ui.panel, None)]

\* The anomalies have no check of their source; a body that is empty changes
\* nothing.  The first answer of the sentiment and of the events is all they take.
AnomaliesAnswer(i, body) ==
    /\ ui.panel = "anomalies"
    /\ Heard(i, [ui EXCEPT !.data = IF body THEN "rows" ELSE @, !.loading = FALSE])

TrustedAnswer(i, trust) ==
    /\ ui.panel \in {"sentiment", "events"}
    /\ Heard(i, [ui EXCEPT !.data = "rows", !.trust = trust, !.loading = FALSE])

MoversAnswer(i, trust) ==
    /\ ui.panel = "movers"
    /\ Heard(i, [ui EXCEPT !.data = IF trust = "unavailable" THEN None ELSE "rows", !.trust = trust,
                           !.error = trust # "live", !.loading = FALSE])

PanelRefused(i) ==
    Heard(i, [ui EXCEPT !.data = None, !.trust = IF ui.panel = "movers" THEN "unavailable" ELSE None,
                        !.error = TRUE, !.loading = FALSE])

\* The buttons of the anomalies and of the movers while there are no rows.
RetryPanel ==
    /\ ui.panel \in {"anomalies", "movers"} /\ ~ui.loading /\ ui.data = None /\ Room(ui.flying)
    /\ ui' = [ui EXCEPT !.loading = TRUE, !.error = FALSE, !.flying = Ask(@, ui.panel, None)]

PanelsNext ==
    /\ page = "panels" /\ UNCHANGED page
    /\ \/ RemountPanel \/ RetryPanel
       \/ \E i \in DOMAIN ui.flying :
             \/ PanelRefused(i)
             \/ \E body \in BOOLEAN : AnomaliesAnswer(i, body)
             \/ \E trust \in TrustStates : TrustedAnswer(i, trust) \/ MoversAnswer(i, trust)

\* What covers the panel of the anomalies, and the tabs it has otherwise.
AnomaliesShow(s) ==
    IF s.loading THEN {"loading"} ELSE IF s.error THEN {"error"} ELSE IF s.data = None THEN {"missing"}
    ELSE {"volatility", "dark pool", "night", "interviews"}

\* The notices and rows of the gauges, and the badges of the head, which do not
\* wait for the loading.
SentimentShows(s) ==
    LET rows == s.data # None /\ s.trust # "unavailable"
    IN  (IF rows THEN {"badges"} ELSE {})
        \cup (IF s.loading THEN {"loading"}
              ELSE IF s.error THEN {"unavailable"}
              ELSE (IF s.trust # "live" THEN {s.trust} ELSE {}) \cup (IF rows THEN {"rows"} ELSE {"empty"}))

MoversShow(s) ==
    IF s.data = None THEN {IF s.loading THEN "loading" ELSE "unavailable"}
    ELSE {"rows"} \cup (IF s.trust = "stale" THEN {"stale"} ELSE {})

EventsShow(s) ==
    IF s.loading THEN {"loading"} ELSE IF s.error THEN {"unavailable"}
    ELSE (IF s.trust # "live" THEN {s.trust} ELSE {}) \cup (IF s.trust # "unavailable" THEN {"rows"} ELSE {})

PanelShows(s) ==
    CASE s.panel = "anomalies" -> AnomaliesShow(s)
      [] s.panel = "sentiment" -> SentimentShows(s)
      [] s.panel = "movers" -> MoversShow(s)
      [] s.panel = "events" -> EventsShow(s)

\* The cache of the heat map: the load it holds (0: none), the region it was asked
\* for, and whether its time is not over.  A load has its region, its outcome and
\* whether the cache was emptied after it started; a caller waits for a load.
NoCaller == [on |-> 0, wants |-> None, late |-> FALSE]

PulseInit ==
    /\ page = "pulse"
    /\ ui = [cache |-> 0, cacheRegion |-> None, young |-> FALSE, loads |-> <<>>,
             callers |-> [c \in PulseCallers |-> NoCaller]]

\* invalidatePulseCache.  A caller that asked before it is late.
InvalidatePulse ==
    ui' = [ui EXCEPT !.cache = 0, !.young = FALSE,
                     !.loads = [n \in DOMAIN @ |-> [@[n] EXCEPT !.void = TRUE]],
                     !.callers = [c \in PulseCallers |-> [@[c] EXCEPT !.late = TRUE]]]

\* A caller joins the load of its region, or starts one in its place.
LoadPulse(c, region) ==
    /\ ui.callers[c] = NoCaller
    /\ IF ui.cache # 0 /\ ui.cacheRegion = region /\ ui.young
       THEN ui' = [ui EXCEPT !.callers[c] = [on |-> ui.cache, wants |-> region, late |-> FALSE]]
       ELSE /\ Len(ui.loads) < MaxPulses
            /\ LET new == Len(ui.loads) + 1
               IN  ui' = [ui EXCEPT !.loads = Append(@, [region |-> region, outcome |-> "pending", void |-> FALSE]),
                                    !.cache = new, !.cacheRegion = region, !.young = TRUE,
                                    !.callers[c] = [on |-> new, wants |-> region, late |-> FALSE]]

\* fetchPulseFile ends; a failure empties the cache if it still holds this load.
PulseLoaded(n) == ui.loads[n].outcome = "pending" /\ ui' = [ui EXCEPT !.loads[n].outcome = "done"]

PulseLoadFailed(n) ==
    /\ ui.loads[n].outcome = "pending"
    /\ ui' = [ui EXCEPT !.loads[n].outcome = "failed",
                        !.cache = IF @ = n THEN 0 ELSE @, !.young = @ /\ ui.cache # n]

PulseReturned(c) ==
    /\ ui.callers[c].on # 0 /\ ui.loads[ui.callers[c].on].outcome # "pending"
    /\ ui' = [ui EXCEPT !.callers[c] = NoCaller]

PulseExpired == ui.young /\ ui' = [ui EXCEPT !.young = FALSE]

PulseNext ==
    /\ page = "pulse" /\ UNCHANGED page
    /\ \/ \E c \in PulseCallers : PulseReturned(c) \/ \E region \in PulseRegions : LoadPulse(c, region)
       \/ \E n \in DOMAIN ui.loads : PulseLoaded(n) \/ PulseLoadFailed(n)
       \/ InvalidatePulse \/ PulseExpired

\* The canvas draws nodes that move until their simulation ends.  nodes numbers the
\* set that was given last, sims are the sets whose simulation runs, and painted is
\* what the canvas holds: the set and the symbol that is drawn highlighted.
HeatSymbols == {"n1", "n2"}

Unpainted == [of |-> 0, highlight |-> None]

\* drawNodes marks the node whose symbol the pointer is on, of whatever set.
NodesDrawn(s, of) == [s EXCEPT !.painted = [of |-> of, highlight |-> s.hovered.symbol]]

\* The effect that draws when no simulation does.
Repainted(s) == IF s.running THEN s ELSE NodesDrawn(s, s.nodes)

NotHovered == [symbol |-> None, of |-> 0]

\* The simulation of the nodes starts, and the button says so.
Simulated(s) == [s EXCEPT !.sims = @ \cup {s.nodes}, !.running = TRUE]

HeatInit ==
    /\ page = "heat"
    /\ \E layout \in {"layer-scatter", "force"} :
          ui = Simulated([nodes |-> 1, layout |-> layout, sims |-> {}, running |-> TRUE,
                          hovered |-> NotHovered, painted |-> Unpainted])

\* prepareNodes makes another set, for a lens, a filter or an industry.
Prepared(s, layout) == [s EXCEPT !.nodes = @ + 1, !.layout = layout]

\* The cleanup stops the simulation of the set of before; a map that stood still is
\* drawn at once, with what the pointer was on.
NewNodes(layout) ==
    /\ ui.nodes < MaxPulses
    /\ LET stopped == [ui EXCEPT !.sims = @ \ {ui.nodes}]
       IN  ui' = Simulated(Repainted(Prepared(stopped, layout)))

HeatTick(of) == of \in ui.sims /\ ui' = NodesDrawn(ui, of)

\* The simulation that ends says so whichever set it is of.
HeatEnd(of) ==
    /\ of \in ui.sims
    /\ ui' = Repainted([NodesDrawn(ui, of) EXCEPT !.sims = @ \ {of}, !.running = FALSE])

HeatMove(symbol) == ui' = Repainted([ui EXCEPT !.hovered = [symbol |-> symbol, of |-> ui.nodes]])

HeatLeave == ui.hovered # NotHovered /\ ui' = Repainted([ui EXCEPT !.hovered = NotHovered])

HeatRestart == ui.layout = "force" /\ ~ui.running /\ ui' = Simulated(ui)

HeatNext ==
    /\ page = "heat" /\ UNCHANGED page
    /\ \/ \E layout \in {"layer-scatter", "force"} : NewNodes(layout)
       \/ \E of \in ui.sims : HeatTick(of) \/ HeatEnd(of)
       \/ \E symbol \in HeatSymbols : HeatMove(symbol)
       \/ HeatLeave \/ HeatRestart
-----------------------------------------------------------------------------
\* A page that has settled shows the companies of the selected region or its
\* error, however many regions were selected while answers were on the way.
HomeShowsSelection ==
    page = "home" /\ ui.mode = "pulse" => HomeMap(ui) \in {{"spinner"}, {"error"}, {"map"}}

\* Scores are only shown while the evidence they rest on is validated: a refresh
\* voids it, and the two effects may be answered in either order.
HomeScoresValidated ==
    page = "home" /\ "map" \in HomeMap(ui) /\ Listed(ui).scored => "scores" \notin HomeNotices(ui)

\* Prices of a historical snapshot carry the notice that says so, also while
\* another region loads or a refresh has failed.
HomeHistoryMarked ==
    page = "home" /\ HomeRankings(ui).historical => "historical" \in HomeNotices(ui)

\* Rows whose source is not live are shown with that notice, or not at all, and
\* never under "loading" or beside an outage.
PanelsTrusted ==
    page = "panels" /\ {"rows", "badges"} \cap PanelShows(ui) # {} =>
        /\ ui.trust \in {"live", "stale"}
        /\ ui.trust = "stale" => "stale" \in PanelShows(ui)
        /\ {"loading", "unavailable"} \cap PanelShows(ui) = {}

\* A caller gets the companies of the region it asked for, from a load that was
\* not void when it asked, and a load that failed is not kept, nor does its
\* failure drop the load that took its place.
PulseCacheFresh ==
    page = "pulse" =>
        /\ \A c \in PulseCallers : ui.callers[c].on # 0 =>
              LET load == ui.loads[ui.callers[c].on]
              IN  load.region = ui.callers[c].wants /\ (load.void => ui.callers[c].late)
        /\ ui.cache # 0 =>
              LET load == ui.loads[ui.cache]
              IN  load.region = ui.cacheRegion /\ ~load.void /\ load.outcome # "failed"

\* A map that stands still is drawn of the nodes it was given last, with the mark
\* where the pointer is, however often the nodes changed under it: no simulation of
\* an earlier set draws on, and while one is said to run the map has one.
HeatDrawsCurrent ==
    page = "heat" =>
        /\ ui.sims = (IF ui.running THEN {ui.nodes} ELSE {})
        /\ ~ui.running => ui.painted = [of |-> ui.nodes, highlight |-> ui.hovered.symbol]

\* A panel that is loading waits for its answer.
PanelsNeverStuck == page = "panels" /\ ui.loading => Waiting(ui.flying, ui.panel)
=============================================================================
