------------------------------- MODULE ScanPage -------------------------------
(***************************************************************************)
(* pages/Scan.tsx with stores/stocksStore.ts: the list of a market, which  *)
(* the page filters and pages on its own, and the store's page of the same *)
(* list, which is the one whose quotes are asked for.  The order of the    *)
(* rows is taken as fixed.                                                 *)
(*                                                                         *)
(* utils/stockgodData.ts: the cache of the US list, a promise that every   *)
(* caller shares for a minute, filled from five files and endpoints.       *)
(***************************************************************************)
EXTENDS Screen

\* A page of rows: of a market, matching a search (None: all), by number.
Rows == [of : {"us", "cn"}, query : {None, "q"}, page : {1, 2}]
NoRows == [of |-> None, query |-> None, page |-> 0]

\* The page of rows the store has selected.
Selected(s) == [of |-> s.market, query |-> s.query, page |-> s.page]

\* refreshQuotes: only the newest request is waited for; no rows, no request.
RefreshQuotes(s) ==
    IF s.stocks = NoRows
    THEN [s EXCEPT !.quotes = [@ EXCEPT !.state = "unavailable"], !.flying = Dropped(@, "quotes")]
    ELSE [s EXCEPT !.flying = AskAnew(@, "quotes", [asked |-> s.stocks, then |-> Selected(s)])]

\* The list is there: its selected page, and the quotes of that page.
Listing(s, rows) ==
    RefreshQuotes([s EXCEPT !.lists = @ \cup {rows.of}, !.stocks = rows, !.loading = FALSE])

\* fetchStocks: the list of the US is loaded anew, the other one is kept.
FetchStocks(s) ==
    LET quiet == Dropped(Dropped(s.flying, "quotes"), "stocks")
        started == [s EXCEPT !.loading = TRUE, !.error = FALSE, !.flying = quiet]
    IN  IF s.market = "cn" /\ "cn" \in s.lists THEN Listing(started, Selected(s))
        ELSE [started EXCEPT !.flying = AskAnew(@, "stocks", Selected(s))]

ScanInit ==
    /\ page = "scan"
    /\ \E market \in {"us", "cn"}, query \in {None, "q"} :
          ui = FetchStocks([market |-> market, query |-> query, debounced |-> query, page |-> 1, local |-> 1,
                            filtered |-> FALSE, lists |-> {}, stocks |-> NoRows, loading |-> FALSE, error |-> FALSE,
                            quotes |-> [state |-> "loading", of |-> NoRows], flying |-> <<>>])

\* The list arrives; an A-share list that cannot be had is an empty one.
StocksAnswer(i, outcome) ==
    /\ ui.flying[i].what = "stocks"
    /\ LET rows == ui.flying[i].of
           rest == [ui EXCEPT !.flying = Answered(@, i)]
       IN  \/ outcome = "ok" /\ ui' = Listing(rest, rows)
           \/ outcome = "empty" /\ rows.of = "cn" /\ ui' = RefreshQuotes([rest EXCEPT !.stocks = NoRows, !.loading = FALSE])
           \/ outcome = "failed" /\ rows.of = "us" /\ ui' = [rest EXCEPT !.error = TRUE, !.loading = FALSE]

\* The quotes arrive: usable ones go into the lists of both markets, and the
\* store shows the page that was selected when they were asked for, of the
\* market that is selected now.
WithListQuotes(s, request, state) ==
    IF state # "live" THEN [s EXCEPT !.quotes.state = state]
    ELSE [s EXCEPT !.quotes = [state |-> "live", of |-> request.asked],
                   !.stocks = IF s.market \in s.lists THEN [request.then EXCEPT !.of = s.market] ELSE NoRows]

ListQuotesAnswer(i, state) ==
    /\ ui.flying[i].what = "quotes"
    /\ Heard(i, WithListQuotes(ui, ui.flying[i].of, state))

\* setMarket and what the effects on it do; a change of the filters goes back
\* to the first page of both.
SelectMarket(market) ==
    /\ market # ui.market /\ Room(ui.flying)
    /\ ui' = FetchStocks([ui EXCEPT !.market = market, !.page = 1, !.local = 1,
                                    !.quotes.state = "loading"])

\* A page selected in the store is fetched, if it is another one.
ToStorePage(s, number) == IF number = s.page THEN s ELSE FetchStocks([s EXCEPT !.page = number])

Filter(on) ==
    /\ on # ui.filtered /\ Room(ui.flying)
    /\ ui' = ToStorePage([ui EXCEPT !.filtered = on, !.local = 1], 1)

GoPage(number) ==
    /\ number # ui.local /\ Room(ui.flying)
    /\ ui' = ToStorePage([ui EXCEPT !.local = number], number)

\* Typing goes to the store at once, and 300 ms later to the list.
TypeSearch(query) ==
    /\ query # ui.query /\ Room(ui.flying)
    /\ ui' = ToStorePage([ui EXCEPT !.query = query], 1)

SearchSettles ==
    /\ ui.debounced # ui.query /\ Room(ui.flying)
    /\ ui' = FetchStocks([ui EXCEPT !.debounced = ui.query, !.page = 1, !.local = 1])

\* The poll of 45 s and the button of the quotes; the retry of a failed list.
PollListQuotes == Room(ui.flying) /\ ui' = RefreshQuotes(ui)

RetryList == ui.error /\ Room(ui.flying) /\ ui' = FetchStocks(ui)

ScanNext ==
    /\ page = "scan" /\ UNCHANGED page
    /\ \/ \E i \in DOMAIN ui.flying :
             \/ \E outcome \in {"ok", "empty", "failed"} : StocksAnswer(i, outcome)
             \/ \E state \in {"live", "stale", "unavailable"} : ListQuotesAnswer(i, state)
       \/ \E market \in {"us", "cn"} : SelectMarket(market)
       \/ \E on \in BOOLEAN : Filter(on)
       \/ \E number \in {1, 2} : GoPage(number)
       \/ \E query \in {None, "q"} : TypeSearch(query)
       \/ SearchSettles \/ PollListQuotes \/ RetryList

\* The line of the quotes: their prices, and the sort by them, are only used
\* while it is live.
ListQuoteLine(s) == s.quotes.state

\* Below it the spinner, the error, the remark that nothing matches, the rows.
ScanList(s) ==
    {w \in {"spinner", "error", "rows", "nothing"} :
        \/ w = "spinner" /\ s.loading /\ s.stocks = NoRows
        \/ w = "error" /\ s.error
        \/ w = "rows" /\ s.market \in s.lists
        \/ w = "nothing" /\ ~s.loading /\ ~s.error /\ s.market \notin s.lists}

\* The rows the table shows: a page of the list as it is filtered, where the
\* store pages the whole list.
TableRows(s) == [of |-> s.market, query |-> s.debounced, page |-> s.local, filtered |-> s.filtered]

QuotedRows(s) == [of |-> s.quotes.of.of, query |-> s.quotes.of.query, page |-> s.quotes.of.page, filtered |-> FALSE]

\* A row shows its price and change with a live line and a quote of its own,
\* and dashes otherwise.
RowsPriced(s) == ListQuoteLine(s) = "live" /\ QuotedRows(s) = TableRows(s)

ScanSettled(s) == s.debounced = s.query /\ \A i \in DOMAIN s.flying : ~s.flying[i].current

\* ------------------------------------------------------------

CONSTANTS Callers, MaxLoads     \* bound on the loads started

ASSUME MarketCacheConstants == MaxLoads \in Nat

\* loads is the sequence of the loads started: since the last invalidation or
\* before it (fresh), with their outcome.  cached is the promise the cache
\* holds (0: none), young whether its minute is not over.  A caller waits for
\* a load or has its outcome; since is whether it asked after the last
\* invalidation.
Idle == [on |-> 0, since |-> FALSE]

CacheInit ==
    /\ page = "cache"
    /\ ui = [cached |-> 0, young |-> FALSE, loads |-> <<>>, fresh |-> {},
             callers |-> [c \in Callers |-> Idle]]

\* Faulty: a load on its way is not given up.
InvalidatedOld(s) == [s EXCEPT !.young = @ /\ s.loads[s.cached] = "pending", !.fresh = {},
                               !.callers = [c \in Callers |-> [@[c] EXCEPT !.since = FALSE]]]

\* invalidateUsStocksCache: the stocks store, before it fetches the list.
Invalidated(s) == [s EXCEPT !.cached = 0, !.young = FALSE, !.fresh = {},
                            !.callers = [c \in Callers |-> [@[c] EXCEPT !.since = FALSE]]]

Invalidate == ui' = Invalidated(ui)

\* loadUsMarketStocks: a caller joins the load the cache holds, pending or not,
\* or starts one.
LoadStocks(c) ==
    /\ ui.callers[c] = Idle
    /\ IF ui.cached # 0 /\ ui.young
       THEN ui' = [ui EXCEPT !.callers[c] = [on |-> ui.cached, since |-> TRUE]]
       ELSE /\ Len(ui.loads) < MaxLoads
            /\ LET new == Len(ui.loads) + 1
               IN  ui' = [ui EXCEPT !.loads = Append(@, "pending"), !.fresh = @ \cup {new},
                                    !.cached = new, !.young = TRUE,
                                    !.callers[c] = [on |-> new, since |-> TRUE]]

\* One of the three files cannot be had: the load fails for everyone who waits,
\* and the cache is emptied, whichever load it holds by now.
LoadFailed(n) ==
    /\ ui.loads[n] = "pending"
    /\ ui' = [ui EXCEPT !.loads[n] = "failed", !.cached = 0, !.young = FALSE]

\* The rows are made of what could be had: the panel and the live market may
\* be missing or not usable.
LoadDone(n) == ui.loads[n] = "pending" /\ ui' = [ui EXCEPT !.loads[n] = "done"]

\* A caller that has its outcome is done with it.
Returned(c) ==
    /\ ui.callers[c].on # 0 /\ ui.loads[ui.callers[c].on] # "pending"
    /\ ui' = [ui EXCEPT !.callers[c] = Idle]

\* isFreshCache: the minute is over.
MinuteOver == ui.young /\ ui' = [ui EXCEPT !.young = FALSE]

CacheNext ==
    /\ page = "cache" /\ UNCHANGED page
    /\ \/ \E c \in Callers : LoadStocks(c) \/ Returned(c)
       \/ \E n \in DOMAIN ui.loads : LoadFailed(n) \/ LoadDone(n)
       \/ Invalidate \/ MinuteOver
-----------------------------------------------------------------------------
\* The next poll asks for the page that is selected: no answer, of a list or of
\* quotes, leaves the store at a page or a market of before.
ScanStoreCurrent ==
    page = "scan" /\ ScanSettled(ui) /\ ~ui.error /\ ui.stocks # NoRows =>
        ui.stocks.of = ui.market /\ ui.stocks.page = ui.page

\* A list that loads has its request, and a page without rows says why.
ScanNeverStuck ==
    page = "scan" =>
        /\ ui.loading => Waiting(ui.flying, "stocks")
        /\ ScanSettled(ui) => ScanList(ui) # {}

\* Whoever asks after an invalidation gets a list that was loaded after it, also
\* while older loads are still on their way.
CacheFresh ==
    page = "cache" => \A c \in Callers : ui.callers[c].since => ui.callers[c].on \in ui.fresh

\* The cache never holds a load that failed: the next caller starts anew.
CacheHoldsNoFailure == page = "cache" /\ ui.cached # 0 => ui.loads[ui.cached] # "failed"
=============================================================================
