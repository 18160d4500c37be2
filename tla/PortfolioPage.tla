------------------------------- MODULE PortfolioPage -------------------------------
(***************************************************************************)
(* pages/Portfolio.tsx with stores/portfolioStore.ts, the personal ledger  *)
(* of this browser: watchlist and holdings, the poll of their quotes       *)
(* (utils/liveQuotes.ts), the risk of the holdings (utils/                 *)
(* portfolioRisk.ts) and the search for symbols to watch.  The ledger is   *)
(* taken to fit one poll (60 symbols).                                     *)
(*                                                                         *)
(* The two parts of the page that need the server: the paper portfolio,    *)
(* for an admin session only, and the batch analysis, a loop that asks for *)
(* the progress of a job every two seconds.                                *)
(***************************************************************************)
EXTENDS Screen

CONSTANTS Symbols,
          Mainland,      \* those of them that are held in CNY, the others are in USD
          Details        \* what a holding may come with: "stop", "sector"

ASSUME PortfolioConstants == Mainland \subseteq Symbols /\ Details \subseteq {"stop", "sector"}

\* held maps a symbol to the details given for it; NotHeld is no holding.
NotHeld == [units |-> FALSE, has |-> {}]
Held(s) == {sym \in Symbols : s.held[sym] # NotHeld}
Quoted(s) == s.watch \cup Held(s)

\* A poll starts unless the page is hidden; one that runs in the same effect
\* keeps the next tick from starting.
Poll(s) ==
    IF ~s.visible \/ Waiting(s.flying, "quotes") THEN s
    ELSE [s EXCEPT !.status = [state |-> "loading", missing |-> {}],
                   !.flying = Ask(@, "quotes", Quoted(s))]

\* The effect on watchlist and holdings: the poll of the older ledger is
\* cancelled; an empty ledger has no quotes.
LedgerEffect(s) ==
    LET stopped == [s EXCEPT !.flying = Superseded(@, "quotes")]
    IN  IF Quoted(s) = {}
        THEN [stopped EXCEPT !.quotes = {}, !.status = [state |-> "unavailable", missing |-> {}]]
        ELSE Poll(stopped)

PortfolioInit ==
    /\ page = "portfolio"
    /\ \E watch \in SUBSET Symbols :
          ui = LedgerEffect([tab |-> "watchlist", watch |-> watch, held |-> [sym \in Symbols |-> NotHeld], quotes |-> {},
                             status |-> [state |-> "loading", missing |-> {}], visible |-> TRUE,
                             query |-> None, hits |-> None, flying |-> <<>>])

\* fetchQuoteResult and what the poll makes of it: every symbol asked for is
\* quoted or missing; stale quotes and those without source or time are hidden.
WithQuotes(s, asked, got, provenance) ==
    [s EXCEPT !.quotes = IF provenance = "live" THEN got ELSE {},
              !.status = [state |-> provenance, missing |-> asked \ got]]

QuotesAnswer(i, got, provenance) ==
    /\ ui.flying[i].what = "quotes" /\ got \subseteq ui.flying[i].of
    /\ Heard(i, WithQuotes(ui, ui.flying[i].of, got, provenance))

\* The interval of 15 s, and the page hidden or shown again.
PollTimer == Quoted(ui) # {} /\ Room(ui.flying) /\ ui' = Poll(ui)

ShowOrHide ==
    /\ Room(ui.flying)
    /\ LET turned == [ui EXCEPT !.visible = ~@]
       IN  ui' = IF Quoted(ui) = {} THEN turned ELSE Poll(turned)

\* addToWatchlist and removeFromWatchlist, which only write when they change
\* the list or find the symbol in it.
Watch(sym) ==
    /\ ui.tab = "watchlist" /\ ui.visible /\ Room(ui.flying)
    /\ sym \notin ui.watch => ui.hits # None
    /\ ui' = LedgerEffect([ui EXCEPT !.watch = IF sym \in @ THEN @ \ {sym} ELSE @ \cup {sym}])

\* addHolding merges into the holding there is: details given before stay.
AddHolding(s, sym, has) ==
    LedgerEffect([s EXCEPT !.held[sym] = [units |-> TRUE, has |-> @.has \cup has]])

\* submitHolding: without a name it looks the symbol up before it adds.
SubmitHolding(sym, has, named) ==
    /\ ui.tab = "holdings" /\ ui.visible /\ Room(ui.flying)
    /\ ui' = IF named THEN AddHolding(ui, sym, has)
             ELSE [ui EXCEPT !.flying = Append(@, [what |-> "name", of |-> [sym |-> sym, has |-> has],
                                                   current |-> TRUE])]

\* The name arrives, the page may be hidden by now; or the lookup fails and
\* nothing is added.
NameAnswer(i, ok) ==
    /\ ui.flying[i].what = "name"
    /\ LET asked == ui.flying[i].of
           rest == [ui EXCEPT !.flying = Answered(@, i)]
       IN  ui' = IF ok THEN AddHolding(rest, asked.sym, asked.has) ELSE rest

RemoveHolding(sym) ==
    /\ ui.tab = "holdings" /\ ui.visible /\ sym \in Held(ui) /\ Room(ui.flying)
    /\ ui' = LedgerEffect([ui EXCEPT !.held[sym] = NotHeld])

\* The debounced query changes: the search of the older one is cancelled.
SearchSymbols(query) ==
    /\ ui.tab = "watchlist" /\ query # ui.query /\ Room(ui.flying)
    /\ ui' = IF query = None
             THEN [ui EXCEPT !.query = None, !.hits = None, !.flying = Superseded(@, "hits")]
             ELSE [ui EXCEPT !.query = query, !.flying = Ask(@, "hits", query)]

HitsAnswer(i) ==
    /\ ui.flying[i].what = "hits"
    /\ Heard(i, [ui EXCEPT !.hits = ui.flying[i].of])

\* SystemDataSyncController reloads the ledger from the browser's storage when
\* the window gets the focus: another tab may have written any ledger there.
ReloadLedger(watch, sym) ==
    /\ ui.visible /\ Room(ui.flying)
    /\ ui' = LedgerEffect([ui EXCEPT !.watch = watch,
                                     !.held[sym] = IF @ = NotHeld THEN [units |-> TRUE, has |-> {}] ELSE NotHeld])

SelectTab(tab) == tab # ui.tab /\ ui' = [ui EXCEPT !.tab = tab]

PortfolioNext ==
    /\ page = "portfolio" /\ UNCHANGED page
    /\ \/ \E i \in DOMAIN ui.flying :
             \/ \E got \in SUBSET Symbols, provenance \in {"live", "stale"} :
                   QuotesAnswer(i, got, provenance)
             \/ HitsAnswer(i)
             \/ \E ok \in BOOLEAN : NameAnswer(i, ok)
       \/ \E sym \in Symbols : Watch(sym) \/ RemoveHolding(sym)
       \/ \E sym \in Symbols, has \in SUBSET Details, named \in BOOLEAN : SubmitHolding(sym, has, named)
       \/ \E query \in {"q", None} : SearchSymbols(query)
       \/ \E tab \in {"watchlist", "holdings"} : SelectTab(tab)
       \/ \E watch \in SUBSET Symbols, sym \in Symbols : ReloadLedger(watch, sym)
       \/ PollTimer \/ ShowOrHide

\* buildPortfolioRisk for one currency: value, exposure, profit and weights need
\* every holding quoted, the largest sector also every sector, and the planned
\* loss every stop.
RiskGroup(s, mainland) ==
    LET rows == {sym \in Held(s) : (sym \in Mainland) <=> mainland}
        complete == rows \subseteq s.quotes
        given(detail) == \A sym \in rows : detail \in s.held[sym].has
    IN  [rows |-> rows, valued |-> complete, sector |-> complete /\ given("sector"),
         plannedLoss |-> given("stop")]

\* The holdings tab: one card per currency that is held.
RiskCards(s) ==
    IF s.tab # "holdings" THEN {}
    ELSE {g \in {RiskGroup(s, mainland) : mainland \in BOOLEAN} : g.rows # {}}

\* The watchlist tab: the hits to add and the cards, with a price if quoted.
WatchTab(s) ==
    IF s.tab # "watchlist" THEN {}
    ELSE {[what |-> "hits", of |-> q] : q \in {s.hits} \ {None}} \cup
         {[what |-> "card", of |-> sym] : sym \in s.watch} \cup
         (IF s.watch = {} THEN {[what |-> "empty", of |-> None]} ELSE {})

\* The line that tells the state of the quotes.
QuoteLine(s) == IF Quoted(s) = {} THEN [state |-> "absent", missing |-> {}] ELSE s.status

\* ------------------------------------------------------------

CONSTANT MaxAttempts     \* status requests of one loop; 30 in the code

ASSUME PaperPanelConstants == MaxAttempts \in Nat \ {0}

\* The effect on the session: without one the portfolio is gone and its answer
\* cancelled.
SessionEffect(s) ==
    IF s.authorized THEN [s EXCEPT !.flying = Ask(@, "paper", None)]
    ELSE [s EXCEPT !.paper = FALSE, !.paperError = "unauthorized", !.flying = Superseded(@, "paper")]

PaperPanelInit ==
    /\ page = "paper"
    /\ \E authorized \in BOOLEAN :
          ui = SessionEffect([authorized |-> authorized, paper |-> FALSE, paperError |-> None,
                              job |-> None, polling |-> FALSE, batch |-> None, loops |-> {}, flying |-> <<>>])

SessionTurns ==
    /\ Room(ui.flying)
    /\ ui' = SessionEffect([ui EXCEPT !.authorized = ~@])

\* A failure leaves the portfolio of before.
PaperAnswer(i, ok) ==
    /\ ui.flying[i].what = "paper"
    /\ Heard(i, IF ok THEN [ui EXCEPT !.paper = TRUE, !.paperError = None]
                ELSE [ui EXCEPT !.paperError = "failed"])

\* pollBatch: loops is the set of the loops that run, each with its job, the
\* attempts left and whether it sleeps.
StartLoop(s, job) ==
    [s EXCEPT !.polling = TRUE, !.flying = Append(@, [what |-> "status", current |-> TRUE,
                                                       of |-> [job |-> job, left |-> MaxAttempts - 1]])]

\* runBatch: the button is only disabled while a loop runs.
RunBatch ==
    /\ ~ui.polling /\ Room(ui.flying)
    /\ ui' = [ui EXCEPT !.batch = "queued", !.flying = Append(@, [what |-> "batch", of |-> None, current |-> TRUE])]

BatchAnswer(i, job) ==
    /\ ui.flying[i].what = "batch"
    /\ LET rest == [ui EXCEPT !.flying = Answered(@, i)]
       IN  ui' = IF job = None THEN [rest EXCEPT !.batch = "failed"]
                 ELSE StartLoop([rest EXCEPT !.job = job, !.batch = "started"], job)

\* The button below checks the last job again.
CheckBatch == ui.job # None /\ ~ui.polling /\ Room(ui.flying) /\ ui' = StartLoop(ui, ui.job)

\* The status of the job: while it runs the loop sleeps, any end of it and any
\* error ends the loop and, whatever other loops do, the mark of polling.
StatusAnswer(i, state) ==
    /\ ui.flying[i].what = "status"
    /\ LET rest == [ui EXCEPT !.flying = Answered(@, i), !.batch = state]
       IN  ui' = IF state = "running"
                 THEN [rest EXCEPT !.loops = @ \cup {ui.flying[i].of}]
                 ELSE [rest EXCEPT !.polling = FALSE]

\* Two seconds later: the next attempt, or the loop gives up.
LoopWakes(loop) ==
    /\ loop \in ui.loops
    /\ IF loop.left = 0
       THEN ui' = [ui EXCEPT !.loops = @ \ {loop}, !.batch = "still running", !.polling = FALSE]
       ELSE /\ Room(ui.flying)
            /\ ui' = [ui EXCEPT !.loops = @ \ {loop},
                                !.flying = Append(@, [what |-> "status", current |-> TRUE,
                                                      of |-> [loop EXCEPT !.left = @ - 1]])]

PaperPanelNext ==
    /\ page = "paper" /\ UNCHANGED page
    /\ \/ \E i \in DOMAIN ui.flying :
             \/ \E ok \in BOOLEAN : PaperAnswer(i, ok)
             \/ \E job \in {"j1", "j2", None} : BatchAnswer(i, job)
             \/ \E state \in {"running", "done", "failed"} : StatusAnswer(i, state)
       \/ \E loop \in ui.loops : LoopWakes(loop)
       \/ SessionTurns \/ RunBatch \/ CheckBatch

\* What the section of the server's portfolio shows.
PaperSection(s) ==
    {w \in {"error", "sign in", "groups"} :
        \/ w = "error" /\ s.paperError # None
        \/ w = "sign in" /\ ~s.authorized
        \/ w = "groups" /\ s.paper}

\* The line under the batch button; a check can be asked for between loops.
BatchButtons(s) == (IF s.polling THEN {"running"} ELSE {"run"}) \cup
                   (IF s.job # None /\ ~s.polling THEN {"check"} ELSE {})
-----------------------------------------------------------------------------
\* Live quotes are those of the ledger as it is: the line counts exactly the
\* symbols without a quote, also after a holding was added by a late lookup or
\* while the page was hidden.
PortfolioQuotesTold ==
    page = "portfolio" /\ ui.visible /\ QuoteLine(ui).state = "live" =>
        QuoteLine(ui).missing = Quoted(ui) \ ui.quotes

\* No card values holdings under a line that calls the quotes stale or
\* unavailable: a poll that fails takes the values of the one before away.
PortfolioValuesMarked ==
    page = "portfolio" =>
        \A g \in RiskCards(ui) : g.valued => QuoteLine(ui).state \in {"live", "loading"}

\* The hits listed answer the query unless its answer is on the way, and a
\* visible page whose quotes are loading waits for them.
PortfolioNeverStuck ==
    page = "portfolio" =>
        /\ [what |-> "hits", of |-> ui.hits] \in WatchTab(ui) => ui.hits = ui.query \/ Waiting(ui.flying, "hits")
        /\ ui.visible /\ QuoteLine(ui).state = "loading" => Waiting(ui.flying, "quotes")

\* The paper portfolio of the server is only shown in an admin session, also
\* when the session ends while the portfolio is on its way.
PaperPortfolioPrivate == page = "paper" /\ "groups" \in PaperSection(ui) => ui.authorized

\* A batch whose button says that it runs has a loop that will end; a started
\* job that no loop follows can be checked again.
BatchNeverStuck ==
    page = "paper" =>
        /\ "running" \in BatchButtons(ui) => ui.loops # {} \/ Flying(ui.flying, "status") # {}
        /\ ui.batch = "queued" => ui.flying # <<>>
=============================================================================
