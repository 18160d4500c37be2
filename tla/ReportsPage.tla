------------------------------ MODULE ReportsPage ------------------------------
(***************************************************************************)
(* pages/Reports.tsx with stores/reportsStore.ts and stores/flashStore.ts: *)
(* the tab of the reports, as page "reports", and the tab of the flash     *)
(* news with the calendar beside it, as page "flash".  Both stores outlive *)
(* the page.                                                               *)
(***************************************************************************)
EXTENDS Screen, Integers

CONSTANTS Archive,      \* the reports of the archive are 1 .. Archive, newest first
          PerPage,      \* how many of them one answer lists
          Kinds         \* the kinds of flash news

ASSUME ReportsConstants == Archive \in Nat /\ PerPage \in Nat \ {0}

\* The path /reports names no report, /reports/:id names one.
NoReport == 0
Routes == 0 .. Archive

\* fetchReports and fetchReportById share a sequence number.  asker tells the
\* page from the refresh of the whole system.
FetchReports(s, offset, asker) ==
    [s EXCEPT !.loading = TRUE, !.error = FALSE,
              !.flying = Ask(@, "reports", [id |-> NoReport, offset |-> offset, asker |-> asker])]

FetchReportById(s, id) ==
    [s EXCEPT !.loading = TRUE, !.error = FALSE, !.list = <<>>, !.meta = FALSE, !.expanded = {},
              !.flying = Ask(@, "reports", [id |-> id, offset |-> 0, asker |-> "page"])]

FetchForRoute(s) ==
    IF s.route # NoReport THEN FetchReportById(s, s.route) ELSE FetchReports(s, 0, "page")

\* The effect on the tab and the path.  asked is reportsRequested: the path that
\* the page asked for last, if any.
RequestEffect(s) ==
    IF s.tab # "reports" \/ s.asked = {s.route} THEN s
    ELSE FetchForRoute([s EXCEPT !.asked = {s.route}])

\* The effect on the path and the number of reports opens the report of the path.
ExpandEffect(old, s) ==
    IF <<s.route, Len(s.list)>> # <<old.route, Len(old.list)>> /\ s.route # NoReport /\ s.list # <<>>
    THEN [s EXCEPT !.expanded = @ \cup {s.route}] ELSE s

ReportEffects(old, s) == ExpandEffect(old, RequestEffect(s))

ReportsMounted(s, route) ==
    RequestEffect([s EXCEPT !.route = route, !.asked = {},
                            !.tab = IF route = NoReport THEN "flash" ELSE "reports"])

ReportsInit ==
    /\ page = "reports"
    /\ \E route \in Routes :
          ui = ReportsMounted([route |-> route, tab |-> "flash", asked |-> {}, list |-> <<>>, by |-> "page",
                               whole |-> TRUE, meta |-> FALSE, loading |-> FALSE, error |-> FALSE,
                               hasMore |-> TRUE, expanded |-> {}, flying |-> <<>>], route)

\* Back and forward, and the links of the listed reports.
FollowReport(route) ==
    /\ route # ui.route /\ Room(ui.flying)
    /\ ui' = ReportEffects(ui, [ui EXCEPT !.route = route])

ReopenReports(route) == Room(ui.flying) /\ ui' = ReportsMounted(ui, route)

SetReportsTab(tab) ==
    /\ tab # ui.tab /\ Room(ui.flying)
    /\ ui' = ReportEffects(ui, [ui EXCEPT !.tab = tab])

\* refreshActivePageData, whichever tab is open.
RefreshReports ==
    /\ ui.route = NoReport /\ Room(ui.flying)
    /\ ui' = FetchReports(ui, 0, "system")

RetryReports ==
    /\ ui.tab = "reports" /\ Room(ui.flying)
    /\ ui' = ExpandEffect(ui, FetchForRoute(ui))

MoreReports ==
    /\ ui.tab = "reports" /\ ui.hasMore /\ ui.list # <<>> /\ Room(ui.flying)
    /\ ui' = FetchReports(ui, Len(ui.list), "page")

ToggleReport(id) ==
    /\ ui.tab = "reports" /\ id \in ToSet(ui.list)
    /\ ui' = [ui EXCEPT !.expanded = IF id \in @ THEN @ \ {id} ELSE @ \cup {id}]

\* What the server lists from an offset on.
Batch(offset) ==
    [k \in 1 .. (IF Archive < offset THEN 0 ELSE IF Archive < offset + PerPage THEN Archive - offset ELSE PerPage)
        |-> offset + k]

\* A list from the start replaces the reports and opens the first; a later part
\* is appended.
WithBatch(s, of) ==
    LET batch == Batch(of.offset)
    IN  [s EXCEPT !.list = IF of.offset = 0 THEN batch ELSE @ \o batch,
                  !.by = IF of.offset = 0 THEN of.asker ELSE @, !.whole = @ \/ of.offset = 0,
                  !.hasMore = of.offset + PerPage < Archive, !.meta = TRUE, !.loading = FALSE,
                  !.expanded = IF of.offset = 0 /\ batch # <<>> THEN {batch[1]} ELSE @]

\* The reports of a list but one, in their order.
OtherReports(list, id) ==
    LET others == {k \in DOMAIN list : list[k] # id}
    IN  [n \in 1 .. Cardinality(others) |-> list[CHOOSE k \in others : Cardinality({j \in others : j <= k}) = n]]

WithReport(s, id) ==
    [s EXCEPT !.list = <<id>> \o OtherReports(@, id), !.by = "page", !.whole = FALSE,
              !.meta = TRUE, !.loading = FALSE, !.expanded = @ \cup {id}]

ReportsAnswer(i) ==
    /\ ui.flying[i].what = "reports"
    /\ LET of == ui.flying[i].of
       IN  Heard(i, ExpandEffect(ui, IF of.id = NoReport THEN WithBatch(ui, of) ELSE WithReport(ui, of.id)))

ReportsFailed(i) ==
    /\ ui.flying[i].what = "reports"
    /\ Heard(i, [ui EXCEPT !.error = TRUE, !.loading = FALSE])

ReportsNext ==
    /\ page = "reports" /\ UNCHANGED page
    /\ \/ \E route \in Routes : FollowReport(route) \/ ReopenReports(route)
       \/ \E tab \in {"flash", "reports"} : SetReportsTab(tab)
       \/ \E id \in 1 .. Archive : ToggleReport(id)
       \/ RefreshReports \/ RetryReports \/ MoreReports
       \/ \E i \in DOMAIN ui.flying : ReportsAnswer(i) \/ ReportsFailed(i)

ReportsStatus(s) ==
    IF s.error THEN "error" ELSE IF s.meta THEN "live" ELSE IF s.loading THEN "loading" ELSE "unavailable"

\* The body under the status line, on the tab of the reports.
ReportsBody(s) ==
    IF s.list # <<>> THEN "reports" ELSE IF s.loading THEN "loading" ELSE IF s.error THEN "failed" ELSE "empty"

\* An article shows its content when it is open and its summary otherwise.
ArticleShows(s, id) == IF id \in s.expanded THEN "content" ELSE "summary"
\* The flash news.  fetchFlash asks with the filters as they are; the silent ones of the filters,
\* of resuming and of the poll do not mark the feed as loading.
FetchFlash(s, silent) ==
    [s EXCEPT !.loading = @ \/ ~silent,
              !.flying = Append(@, [what |-> "flash", of |-> [importance |-> s.importance, kind |-> s.kind],
                                    current |-> TRUE])]

FetchCalendar(s) == [s EXCEPT !.calendarError = FALSE, !.flying = AskOnce(@, "calendar")]

FlashInit ==
    /\ page = "flash"
    /\ ui = FetchCalendar(FetchFlash([importance |-> "all", kind |-> "all", items |-> {}, loading |-> FALSE,
                                      error |-> FALSE, degraded |-> FALSE, paused |-> FALSE,
                                      calendar |-> None, calendarError |-> FALSE, flying |-> <<>>], FALSE))

SetImportance(importance) ==
    importance # ui.importance /\ Room(ui.flying) /\ ui' = FetchFlash([ui EXCEPT !.importance = importance], TRUE)

SetKind(kind) ==
    kind # ui.kind /\ Room(ui.flying) /\ ui' = FetchFlash([ui EXCEPT !.kind = kind], TRUE)

SetPaused ==
    /\ Room(ui.flying)
    /\ ui' = IF ui.paused THEN FetchFlash([ui EXCEPT !.paused = FALSE], TRUE) ELSE [ui EXCEPT !.paused = TRUE]

\* startPolling: the poll of the store, which pausing stops.
FlashPoll == ~ui.paused /\ Room(ui.flying) /\ ui' = FetchFlash(ui, TRUE)

\* The button, the retry, the page opened again, and SystemDataSyncController,
\* which asks every twelve seconds whether the feed is paused or not.
RefreshFlash == Room(ui.flying) /\ ui' = FetchFlash(ui, FALSE)

RefreshCalendar == Room(ui.flying) /\ ui' = FetchCalendar(ui)

\* There is no gate: every answer is taken, in the order of their arrival.
FlashAnswer(i, stale) ==
    /\ ui.flying[i].what = "flash"
    /\ LET of == ui.flying[i].of
       IN  Taken(i, [ui EXCEPT !.items = {[importance |-> of.importance, kind |-> of.kind, stale |-> stale]},
                               !.degraded = stale, !.loading = FALSE, !.error = FALSE])

FlashFailed(i) ==
    /\ ui.flying[i].what = "flash"
    /\ Taken(i, [ui EXCEPT !.items = {}, !.degraded = TRUE, !.loading = FALSE, !.error = TRUE])

CalendarAnswer(i, stale) ==
    /\ ui.flying[i].what = "calendar"
    /\ Taken(i, [ui EXCEPT !.calendar = IF stale THEN "stale" ELSE "live", !.calendarError = FALSE])

\* The events stay.
CalendarFailed(i) ==
    /\ ui.flying[i].what = "calendar"
    /\ Taken(i, [ui EXCEPT !.calendar = None, !.calendarError = TRUE])

FlashNext ==
    /\ page = "flash" /\ UNCHANGED page
    /\ \/ \E importance \in {"all", "important"} : SetImportance(importance)
       \/ \E kind \in Kinds \cup {"all"} : SetKind(kind)
       \/ SetPaused \/ FlashPoll \/ RefreshFlash \/ RefreshCalendar
       \/ \E i \in DOMAIN ui.flying :
             \/ FlashFailed(i) \/ CalendarFailed(i)
             \/ \E stale \in BOOLEAN : FlashAnswer(i, stale) \/ CalendarAnswer(i, stale)

FlashStatus(s) ==
    IF s.error THEN "unavailable"
    ELSE IF s.loading /\ s.items = {} THEN "checking"
    ELSE IF s.degraded THEN "snapshot"
    ELSE IF s.paused THEN "paused" ELSE "live"

\* Of the news of an answer those that the filters let through are shown.
FlashShows(s) ==
    {shown \in [importance : {"all", "important"}, kind : Kinds] :
        /\ s.importance = "important" => shown.importance = "important"
        /\ s.kind # "all" => shown.kind = s.kind
        /\ \E news \in s.items :
              /\ news.importance = "important" => shown.importance = "important"
              /\ news.kind # "all" => shown.kind = news.kind}

CalendarStatus(s) ==
    IF s.calendarError THEN "error" ELSE IF s.calendar = None THEN "loading" ELSE s.calendar
-----------------------------------------------------------------------------
\* Whoever opens the link of a report sees it once nothing is asked any more,
\* whatever lists were asked before; only the refresh of the whole system, which
\* asks on the other tab too, may have put a list in its place.  And a list that
\* was loaded from its start and continued names no report twice while none is
\* added to the archive: "more" asks from the length of the list, which no other
\* answer changes meanwhile.
ReportRouteShown ==
    page = "reports" =>
        /\ ui.tab = "reports" /\ ui.route # NoReport /\ ~ui.loading /\ ~ui.error /\ ui.by = "page"
              => ui.route \in ToSet(ui.list)
        /\ ui.whole => IsInjective(ui.list)

\* "Live" is said over news of a live answer, however many are in flight and in
\* whatever order they fail, and news that a failed call left behind are gone.
FlashLiveTold ==
    page = "flash" =>
        /\ FlashStatus(ui) = "live" => \A news \in ui.items : ~news.stale
        /\ FlashShows(ui) # {} => FlashStatus(ui) \in {"live", "paused", "snapshot"}

\* Reports, news and a calendar that are loading have a request to wait for.
ReportsNeverStuck ==
    /\ page = "reports" /\ ui.loading => Waiting(ui.flying, "reports")
    /\ page = "flash" =>
          /\ ui.loading => Waiting(ui.flying, "flash")
          /\ CalendarStatus(ui) = "loading" => Waiting(ui.flying, "calendar")
=============================================================================
