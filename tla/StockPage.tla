------------------------------- MODULE StockPage -------------------------------
(***************************************************************************)
(* pages/StockDetail.tsx: the page of one symbol, filled by a snapshot,    *)
(* then by six requests that are awaited together, and kept current by a   *)
(* poll of its quote whose answer nothing checks against the symbol.       *)
(***************************************************************************)
EXTENDS Screen

CONSTANT Tickers

\* The stock on the page: whose name it bears, whose price, whether that is a
\* current quote, whether the five scores are those of validated evidence, and
\* whether the price is that of a poll whose symbol had been left.
NoStock == [of |-> None, priced |-> None, current |-> FALSE, scored |-> FALSE, late |-> FALSE]
Similar == "similar"
NoEvidence == [of |-> None, fundamentals |-> None, holders |-> None]

\* The effects on the symbol: the owners are asked for, everything but the
\* owners of before is cleared, and the snapshot is looked up.
FetchData(s) ==
    [s EXCEPT !.loading = TRUE, !.failed = FALSE, !.stock = NoStock, !.evidence = NoEvidence,
              !.quote = "loading", !.score = "loading", !.flying = Ask(Superseded(@, "details"), "snapshot", s.ticker)]

FetchOwners(s) == [s EXCEPT !.flying = Ask(@, "owners", s.ticker)]

StockInit ==
    /\ page = "stock"
    /\ \E ticker \in Tickers :
          ui = FetchOwners(FetchData([ticker |-> ticker, loading |-> TRUE, stock |-> NoStock,
                                      evidence |-> NoEvidence, owners |-> None, quote |-> "loading",
                                      score |-> "loading", failed |-> FALSE, snapshot |-> FALSE, flying |-> <<>>]))

\* Faulty: a snapshot counts as a current quote.
WithSnapshotLive(s, of, found) ==
    LET asked == [s EXCEPT !.snapshot = found # "missing", !.flying = Ask(@, "details", of)]
    IN  IF found = "missing" THEN asked
        ELSE [asked EXCEPT !.stock = [NoStock EXCEPT !.of = of, !.priced = of, !.current = found = "fresh"],
                           !.quote = "live", !.loading = FALSE]

\* findUsStock answers: a snapshot is shown, marked stale unless it is fresh.
\* Then the six requests are sent, of which the page waits for all.
WithSnapshot(s, of, found) ==
    LET asked == [s EXCEPT !.snapshot = found # "missing", !.flying = Ask(@, "details", of)]
    IN  IF found = "missing" THEN asked
        ELSE [asked EXCEPT !.stock = [NoStock EXCEPT !.of = of, !.priced = of, !.current = found = "fresh"],
                           !.quote = IF found = "fresh" THEN "live" ELSE "stale", !.loading = FALSE]

SnapshotAnswer(i, found) ==
    /\ ui.flying[i].what = "snapshot"
    /\ ui' = IF ui.flying[i].current
             THEN WithSnapshot([ui EXCEPT !.flying = Answered(@, i)], ui.flying[i].of, found)
             ELSE [ui EXCEPT !.flying = Answered(@, i)]

\* The six answers: the state of the quote, of the score evidence, and whether
\* the symbol is known to the search or to the fundamentals alone; the search may
\* only have found a similar symbol, whose stock is taken.  The price is the live
\* quote of the symbol, else that of the snapshot or the search.  The score is
\* only usable when its evidence is live and validated.
WithDetails(s, of, quote, score, known) ==
    LET live == quote = "live"
        exact == s.snapshot \/ known \in {"search", Similar}
        of1 == IF ~s.snapshot /\ known = Similar THEN Similar ELSE of
        stock == [of |-> of1, priced |-> IF live THEN of ELSE IF exact THEN of1 ELSE None,
                  current |-> live, scored |-> exact /\ score = "live", late |-> FALSE]
    IN  [s EXCEPT !.evidence = [of |-> of, fundamentals |-> of, holders |-> of],
                  !.quote = quote, !.score = score, !.loading = FALSE,
                  !.stock = IF exact \/ known = "fundamentals" THEN stock ELSE NoStock]

\* Faulty: the cleanup of the effect does not cancel it.
DetailsAnswerLate(i, quote, score, known) ==
    /\ ui.flying[i].what = "details"
    /\ Taken(i, WithDetails(ui, ui.flying[i].of, quote, score, known))

DetailsAnswer(i, quote, score, known) ==
    /\ ui.flying[i].what = "details"
    /\ Heard(i, WithDetails(ui, ui.flying[i].of, quote, score, known))

\* The search answers something without results: the evidence that was set before
\* it is read stays, without a stock and under the error.
WithoutResults(s, of, score) ==
    [s EXCEPT !.evidence = [of |-> of, fundamentals |-> of, holders |-> of],
              !.score = score, !.loading = FALSE, !.failed = TRUE]

DetailsFail(i, score) ==
    /\ ui.flying[i].what = "details" /\ ~ui.snapshot
    /\ Heard(i, WithoutResults(ui, ui.flying[i].of, score))

OwnersAnswer(i, found) ==
    /\ ui.flying[i].what = "owners"
    /\ Heard(i, [ui EXCEPT !.owners = IF found THEN ui.flying[i].of ELSE None])

\* The interval of 15 s: one request of each symbol at a time.
QuoteTimer ==
    /\ Room(ui.flying) /\ ~Waiting(ui.flying, "tick")
    /\ ui' = [ui EXCEPT !.flying = Ask(@, "tick", ui.ticker)]

\* Its answer, also when it is the answer for a symbol that was left: a live
\* price is written into whatever stock is shown.
QuoteTick(i, quote) ==
    /\ ui.flying[i].what = "tick"
    /\ Taken(i, IF quote # "live" THEN [ui EXCEPT !.quote = quote]
                ELSE [ui EXCEPT !.quote = "live",
                                !.stock = IF @ = NoStock THEN @
                                          ELSE [@ EXCEPT !.current = TRUE, !.priced = ui.flying[i].of,
                                                         !.late = ~ui.flying[i].current]])

\* A link to another symbol, of which the owners are asked for too and a poll of
\* its own begins.
OpenTicker(ticker) ==
    /\ ticker # ui.ticker /\ Len(ui.flying) + 1 < MaxFlying
    /\ ui' = FetchOwners(FetchData([ui EXCEPT !.ticker = ticker, !.flying = Superseded(@, "tick")]))

\* The button of the error: the symbol is looked up again.
RetryStock == ui.failed /\ Room(ui.flying) /\ ui' = FetchData(ui)

StockNext ==
    /\ page = "stock" /\ UNCHANGED page
    /\ \/ \E i \in DOMAIN ui.flying :
             \/ \E found \in {"fresh", "stale", "missing"} : SnapshotAnswer(i, found)
             \/ \E quote \in {"live", "stale"}, score \in {"live", "unavailable"},
                   known \in {"search", Similar, "fundamentals", "unknown"} : DetailsAnswer(i, quote, score, known)
             \/ \E score \in {"live", "unavailable"} : DetailsFail(i, score)
             \/ \E found \in BOOLEAN : OwnersAnswer(i, found)
             \/ \E quote \in {"live", "stale"} : QuoteTick(i, quote)
       \/ \E ticker \in Tickers : OpenTicker(ticker)
       \/ QuoteTimer \/ RetryStock

\* The headline: the price with its change when the quote is live, the price
\* under a warning otherwise, or no stock.
PriceLine(s) ==
    IF s.loading \/ s.stock = NoStock THEN "none" ELSE IF s.quote = "live" THEN "price" ELSE "snapshot price"

\* Neither a stock nor holders: the page does not know the symbol.
StockMissing(s) == ~s.loading /\ s.stock = NoStock /\ s.evidence.holders = None

\* The blocks below, each with the symbol its content is of: the evidence ledger
\* with figures, chart and fundamentals; the five scores, or the state of their
\* evidence; the funds that own the symbol; its holders.
Shown(s, of) == IF s.loading \/ StockMissing(s) THEN None ELSE of

LedgerBlock(s) == IF s.stock = NoStock THEN None ELSE Shown(s, s.stock.of)

ScoresBlock(s) ==
    [scores |-> LedgerBlock(s) # None /\ s.score = "live",
     hidden |-> LedgerBlock(s) # None /\ s.score # "live"]

OwnersBlock(s) == IF s.stock = NoStock THEN None ELSE Shown(s, s.owners)

HoldersBlock(s) == Shown(s, s.evidence.holders)
-----------------------------------------------------------------------------
\* Holders, fundamentals, news and scores under a symbol are its own, or not
\* there yet: no answer for a symbol that was left fills the page of the next
\* one.  So is the price, but for one: a poll that was asked before its symbol
\* was left and answers later writes the price of that symbol into the stock
\* that is shown by then, where it stands until the next price.
StockShowsOwn ==
    page = "stock" =>
        /\ HoldersBlock(ui) \in {None, ui.ticker}
        /\ LedgerBlock(ui) \in {None, Similar, ui.ticker}
        /\ ScoresBlock(ui).scores => ui.evidence.of = ui.ticker
        /\ PriceLine(ui) # "none" /\ ~ui.stock.late => ui.stock.priced \in {None, Similar, ui.ticker}

\* A price without the warning of a snapshot is a current quote, in whatever
\* order the snapshot, the six requests and the poll are answered.
StockPriceCurrent == page = "stock" /\ PriceLine(ui) = "price" => ui.stock.current

\* The spinner of the page waits for the snapshot or for the six requests.
StockNeverStuck ==
    page = "stock" /\ ui.loading =>
        Waiting(ui.flying, "snapshot") \/ Waiting(ui.flying, "details")
=============================================================================
