-------------------------------- MODULE GPUPage --------------------------------
(***************************************************************************)
(* pages/GPUPrices.tsx with hooks/useGPUPrices.ts and utils/gpuPrices.ts:  *)
(* the rents of graphics cards as the server last had them, polled; an     *)
(* administrator may have them fetched or the credentials read again; the  *)
(* history of one quote; and the official prices, which are fixed.         *)
(* What the server does behind these is GPURefresh.                        *)
(***************************************************************************)
EXTENDS Screen

CONSTANTS Renters, Models, Billings, Spans     \* providers, cards, ways to pay, days of history

Quotes == [provider : Renters, model : Models, billing : Billings]

\* None of the three hooks tells an older answer from a newer one.
SentPrices(s, what, of) == [s EXCEPT !.flying = Append(@, [what |-> what, of |-> of, current |-> TRUE])]

\* useGPUPrices.refresh; by is what called it and waits for its end.
RefreshPrices(s, by) == SentPrices([s EXCEPT !.loading = TRUE, !.error = FALSE], "current", by)

\* useGPUPriceHistory: a change of the quote or of the days asks again; without a
\* quote the points go, an error stays.  Any answer may be of any question, for all
\* the page can tell.
HistoryAsked(s) ==
    IF s.chosen = {} THEN [s EXCEPT !.history = "none", !.historyLoading = FALSE]
    ELSE SentPrices([s EXCEPT !.historyLoading = TRUE, !.historyError = FALSE],
              "history", None)

\* The effect on the quotes and on the choice: a quote that is gone gives way to the
\* first; the order of the quotes is the server's.
ChosenAmong(quotes, wanted) ==
    IF quotes = {} THEN {{}} ELSE IF wanted \subseteq quotes /\ wanted # {} THEN {wanted} ELSE {{q} : q \in quotes}

Choosing(s, wanted) ==
    {IF chosen = s.chosen THEN s ELSE HistoryAsked([s EXCEPT !.chosen = chosen]) : chosen \in ChosenAmong(s.quotes, wanted)}

GPUInit ==
    /\ page = "gpu"
    /\ ui = SentPrices(RefreshPrices([quotes |-> {}, live |-> FALSE, configured |-> FALSE, refreshable |-> "unknown",
                          loading |-> FALSE, error |-> FALSE, refreshing |-> FALSE, refreshError |-> FALSE,
                          reloading |-> FALSE, feedback |-> FALSE, reference |-> "loading", chosen |-> {},
                          days |-> CHOOSE days \in Spans : TRUE, history |-> "none", historyLoading |-> FALSE,
                          historyError |-> FALSE, flying |-> <<>>], "poll"), "reference", None)

\* The poll of every minute while the window is seen, and the button.
Reread == Room(ui.flying) /\ ui' = RefreshPrices(ui, "poll")

\* getGPUUpstreamRefreshAvailability: why the button of the upstream is shut, or open.
UpstreamRefresh(s, session) ==
    IF s.refreshable # "unknown" /\ ~s.configured THEN "unconfigured"
    ELSE IF s.refreshable = "no" THEN "not refreshable"
    ELSE IF session = "checking" \/ (s.loading /\ s.refreshable = "unknown") THEN "checking"
    ELSE IF session # "authorized" THEN "session needed"
    ELSE IF s.refreshable # "yes" THEN "unconfirmed"
    ELSE "open"

\* The session is AdminSession's, and may be any.
RefreshUpstream ==
    /\ UpstreamRefresh(ui, "authorized") = "open" /\ ~ui.refreshing /\ Room(ui.flying)
    /\ ui' = SentPrices([ui EXCEPT !.refreshing = TRUE, !.refreshError = FALSE], "upstream", None)

UpstreamAnswer(i, ok) ==
    /\ ui.flying[i].what = "upstream"
    /\ Taken(i, IF ok THEN RefreshPrices(ui, "upstream") ELSE [ui EXCEPT !.refreshError = TRUE, !.refreshing = FALSE])

ReloadConfiguration ==
    /\ ~ui.reloading /\ Room(ui.flying)
    /\ ui' = SentPrices([ui EXCEPT !.reloading = TRUE, !.feedback = FALSE], "config", None)

PriceConfigAnswer(i, ok) ==
    /\ ui.flying[i].what = "config"
    /\ Taken(i, IF ok THEN RefreshPrices([ui EXCEPT !.feedback = TRUE], "config")
                ELSE [ui EXCEPT !.feedback = TRUE, !.reloading = FALSE])

\* adaptGPUPricesResponse: quotes count only if each row can be used, the number is
\* the one declared and the answer is fresh; a provider is configured if its row says
\* so; what the server can refresh is in the meta, which an error may carry too.
Adapted(s, rows, usable, configured, refreshable, failed) ==
    LET live == rows # {} /\ usable /\ ~failed
    IN  [s EXCEPT !.live = live, !.quotes = IF live THEN rows ELSE {}, !.configured = configured,
                  !.refreshable = refreshable, !.error = failed, !.loading = FALSE]

\* Whoever asked for the prices after its own request is done with them.
Done(s, by) ==
    [s EXCEPT !.refreshing = @ /\ by # "upstream", !.reloading = @ /\ by # "config"]

\* A change of the quotes runs the effect on the choice.
CurrentAnswer(i) ==
    /\ ui.flying[i].what = "current"
    /\ \E rows \in SUBSET Quotes, usable, failed, configured \in BOOLEAN, refreshable \in {"yes", "no", "unknown"} :
          /\ usable => rows # {}
          /\ failed => ~usable
          /\ refreshable = "unknown" => ~usable
          /\ ~usable => rows = {}
          /\ \E next \in Choosing(Done(Adapted(ui, rows, usable, configured, refreshable, failed), ui.flying[i].of), ui.chosen) :
                Taken(i, next)

\* The three selects of the history: a provider brings its first quote, a card the
\* first of its provider, a way to pay just that one: any other quote, as the order is
\* the server's.
ChooseHistory ==
    /\ ui.live /\ Room(ui.flying)
    /\ \E q \in ui.quotes \ ui.chosen : ui' \in Choosing(ui, {q})

ChooseDays(days) ==
    ui.live /\ days # ui.days /\ Room(ui.flying) /\ ui' = HistoryAsked([ui EXCEPT !.days = days])

\* adaptGPUPriceHistoryResponse, of whatever question: points that can be used, nothing
\* stored yet, or neither.
PriceHistoryAnswer(i, shown) ==
    /\ ui.flying[i].what = "history"
    /\ Taken(i, [ui EXCEPT !.history = shown, !.historyLoading = FALSE, !.historyError = shown = "failed"])

\* adaptGPUPriceReferenceResponse: the official prices count only as old ones, verified
\* on a day, complete and without a fixed one of the market of offers.
ReferenceUsable(mode, verified, complete, vast) ==
    mode \in {"historical", "stale"} /\ verified /\ complete /\ ~vast

ReferenceAnswer(i) ==
    /\ ui.flying[i].what = "reference"
    /\ \E mode \in {"historical", "stale", "live"}, verified, complete, vast \in BOOLEAN :
          Taken(i, [ui EXCEPT !.reference =
                       IF ReferenceUsable(mode, verified, complete, vast) THEN "available" ELSE "unavailable"])

RetryReference ==
    /\ ~Waiting(ui.flying, "reference") /\ Room(ui.flying)
    /\ ui' = SentPrices([ui EXCEPT !.reference = "loading"], "reference", None)

GPUNext ==
    /\ page = "gpu" /\ UNCHANGED page
    /\ \/ Reread \/ RefreshUpstream \/ ReloadConfiguration \/ ChooseHistory \/ RetryReference
       \/ \E days \in Spans : ChooseDays(days)
       \/ \E i \in DOMAIN ui.flying :
             \/ CurrentAnswer(i) \/ ReferenceAnswer(i)
             \/ \E ok \in BOOLEAN : UpstreamAnswer(i, ok) \/ PriceConfigAnswer(i, ok)
             \/ \E shown \in {"points", "empty", "unusable", "failed"} : PriceHistoryAnswer(i, shown)

\* The table under its three filters, which are kept when the quotes change.
TableOf(s, provider, model, billing) ==
    {q \in s.quotes : /\ provider \in {"all", q.provider}
                      /\ model \in {"all", q.model}
                      /\ billing \in {"all", q.billing}}
ComparisonShown(s) == s.live
SpreadShown(s, provider, model, billing) == Cardinality(TableOf(s, provider, model, billing)) > 1
HistoryShows(s) ==
    IF ~s.live THEN "hidden" ELSE IF s.historyLoading /\ s.history = "none" THEN "loading"
    ELSE IF s.historyError THEN "failed" ELSE s.history
ReferenceShows(s) == s.reference
-----------------------------------------------------------------------------
\* Whatever poll, refresh of the upstream or failure changed the prices last, the
\* history that is open is of a quote in the table, and of none when there is no table.
GPUHistoryQuoted ==
    page = "gpu" => ui.chosen \subseteq ui.quotes /\ (ui.quotes # {} => ui.chosen # {})

\* A button that is shut waits for its own request or for the prices after it.
GPUPageNeverStuck ==
    page = "gpu" =>
        /\ ui.refreshing => \E i \in DOMAIN ui.flying : \/ ui.flying[i].what = "upstream"
                                                        \/ ui.flying[i].what = "current" /\ ui.flying[i].of = "upstream"
        /\ ui.reloading => \E i \in DOMAIN ui.flying : \/ ui.flying[i].what = "config"
                                                       \/ ui.flying[i].what = "current" /\ ui.flying[i].of = "config"
        /\ ui.loading => Waiting(ui.flying, "current")
        /\ ui.historyLoading => Waiting(ui.flying, "history")
=============================================================================
