------------------------------- MODULE JournalPage -------------------------------
(***************************************************************************)
(* Two pages over stores/commandStore.ts.  pages/Journal.tsx: trades on    *)
(* paper are entered in a form and listed with their statistics, which are *)
(* two requests.  pages/Macro.tsx: a calendar of the user's own events and *)
(* of a feed, by months.                                                   *)
(***************************************************************************)
EXTENDS Screen

CONSTANT Trades     \* the trades that may be entered

\* fetchTrades and fetchStats, which nothing numbers.  The server reads what it
\* answers at any moment until then: of is what was stored when it was asked;
\* current says that the form waits for it.
FetchTrades(s, saving) ==
    [s EXCEPT !.tradesError = FALSE, !.statsError = FALSE,
              !.flying = @ \o <<[what |-> "trades", of |-> s.stored, current |-> saving],
                                [what |-> "stats", of |-> s.stored, current |-> saving]>>]

\* The page is opened: what the store has stays, the form is new, with the symbol of
\* the address if it comes from an order on paper.
OpenedJournal(s, symbol) ==
    FetchTrades([s EXCEPT !.form = [symbol |-> symbol, trade |-> None], !.saving = FALSE, !.saveError = FALSE, !.last = None,
                          !.flying = [i \in DOMAIN @ |-> [@[i] EXCEPT !.current = FALSE]]], FALSE)

\* listed and counted are what the store has: the trades, and those that are in the
\* statistics; last is the trade that was submitted last.
JournalInit ==
    /\ page = "journal"
    /\ \E symbol \in BOOLEAN :
          ui = OpenedJournal([form |-> [symbol |-> FALSE, trade |-> None], saving |-> FALSE, saveError |-> FALSE,
                              last |-> None, stored |-> {}, listed |-> {}, counted |-> {}, statistics |-> FALSE,
                              tradesError |-> FALSE, statsError |-> FALSE, flying |-> <<>>], symbol)

TwoMore(flying) == Len(flying) + 1 < MaxFlying

RevisitJournal == TwoMore(ui.flying) /\ \E symbol \in BOOLEAN : ui' = OpenedJournal(ui, symbol)

RetryJournal ==
    (ui.tradesError \/ ui.statsError) /\ TwoMore(ui.flying) /\ ui' = FetchTrades(ui, FALSE)

\* Whoever saves a trade may go on typing.
EnterTrade(trade) == ui' = [ui EXCEPT !.form = [symbol |-> TRUE, trade |-> trade]]

\* The profit follows from the prices until it is typed over, and again after each
\* change of one of them.
ProfitOf(direction, entry, exit, shares) ==
    IF direction = "BUY" THEN (exit - entry) * shares ELSE (entry - exit) * shares

SubmitTrade ==
    /\ ~ui.saving /\ ui.form.trade # None /\ Room(ui.flying)
    /\ ui' = [ui EXCEPT !.saving = TRUE, !.saveError = FALSE, !.last = ui.form.trade,
                        !.flying = Append(@, [what |-> "post", of |-> {ui.form.trade}, current |-> TRUE])]

\* addTrade: once the trade is stored both lists are fetched, and the form waits for
\* them.  An answer that is lost leaves a stored trade that the page calls a failure.
TradePosted(i) ==
    /\ ui.flying[i].what = "post"
    /\ Taken(i, FetchTrades([ui EXCEPT !.stored = @ \cup ui.flying[i].of], ui.flying[i].current))

\* Faulty: the failure is caught in the store, as its fetches do.
NotPostedQuiet(s) == [s EXCEPT !.saving = FALSE, !.form = [symbol |-> FALSE, trade |-> None]]
NotPosted(s) == [s EXCEPT !.saving = FALSE, !.saveError = TRUE]

TradeNotPosted(i, stored) ==
    /\ ui.flying[i].what = "post"
    /\ LET s == [ui EXCEPT !.stored = IF stored THEN @ \cup ui.flying[i].of ELSE @]
       IN  Taken(i, IF ui.flying[i].current THEN NotPosted(s) ELSE s)

\* The form is cleared when the last answer it waits for is there.
AfterAnswer(s, i) ==
    IF s.flying[i].current /\ ~(\E k \in DOMAIN s.flying \ {i} : s.flying[k].current)
    THEN [s EXCEPT !.saving = FALSE, !.form = [symbol |-> FALSE, trade |-> None]] ELSE s

\* A list that cannot be had is emptied, and so are the statistics.
TradesAnswer(i, ok) ==
    /\ ui.flying[i].what = "trades"
    /\ \E list \in {ui.flying[i].of, ui.stored} :
          Taken(i, AfterAnswer([ui EXCEPT !.listed = IF ok THEN list ELSE {}, !.tradesError = ~ok], i))

StatsAnswer(i, ok) ==
    /\ ui.flying[i].what = "stats"
    /\ \E list \in {ui.flying[i].of, ui.stored} :
          Taken(i, AfterAnswer([ui EXCEPT !.counted = IF ok THEN list ELSE {}, !.statistics = ok,
                                         !.statsError = ~ok], i))

JournalNext ==
    /\ page = "journal" /\ UNCHANGED page
    /\ \/ RevisitJournal \/ RetryJournal \/ SubmitTrade
       \/ \E trade \in Trades : EnterTrade(trade)
       \/ \E i \in DOMAIN ui.flying, ok \in BOOLEAN :
             TradePosted(i) \/ TradeNotPosted(i, ok) \/ TradesAnswer(i, ok) \/ StatsAnswer(i, ok)

\* The figures over the form: a number that could not be had is a dash; one that is
\* not there yet is zero.
ProfitShown(s) == IF s.statsError THEN "dash" ELSE IF s.statistics THEN "sum" ELSE "zero"
CountShown(s) == IF s.tradesError THEN "dash" ELSE "count"
ExportOffered(s) == ~s.tradesError /\ s.listed # {}
SymbolChosen(s) == s.form.symbol
TableShows(s) == IF s.tradesError THEN "unavailable" ELSE IF s.listed = {} THEN "empty" ELSE "trades"

\* ------------------------------------------------------------

CONSTANT MaxMonth     \* bound on the months that are paged through

\* The events that the user enters are in the first two months.
ASSUME MacroConstants == MaxMonth \in Nat /\ MaxMonth >= 2

\* Months differ in their number of days.
DaysIn(month) == IF month % 2 = 1 THEN 3 ELSE 2
Dates == {date \in (1 .. MaxMonth) \X (1 .. 3) : date[2] <= DaysIn(date[1])}
Today == <<1, 3>>
Own == {Today, <<2, 2>>}     \* the events that the user enters

\* An event is its date; the feed has one that matters much and one that does not.
Feed == {Today, <<2, 1>>}
Important == {Today}

\* fetchEvents and fetchFeed, whose answers are not numbered.  of is what the server
\* reads of the user's events, current says that the form waits for them.
FetchEvents(s, saving) ==
    [s EXCEPT !.eventsError = FALSE,
              !.flying = Append(@, [what |-> "events", of |-> s.stored, current |-> saving])]
FetchFeed(s) ==
    [s EXCEPT !.feedError = FALSE, !.flying = Append(@, [what |-> "feed", of |-> {}, current |-> FALSE])]

MacroInit ==
    /\ page = "macro"
    /\ ui = FetchFeed(FetchEvents([view |-> Today, adding |-> FALSE, saving |-> FALSE,
                                   saveError |-> FALSE, last |-> {}, stored |-> {}, events |-> {}, eventsError |-> FALSE,
                                   feed |-> {}, trust |-> None, feedError |-> FALSE, flying |-> <<>>], FALSE))

\* Another language asks for both anew; after a failure each has its button.
RefetchBoth == Len(ui.flying) + 1 < MaxFlying /\ ui' = FetchFeed(FetchEvents(ui, FALSE))
RetryEvents == ui.eventsError /\ Room(ui.flying) /\ ui' = FetchEvents(ui, FALSE)
RetryFeed == ui.feedError /\ Room(ui.flying) /\ ui' = FetchFeed(ui)

\* shiftMonth goes to the first day.
ShiftMonth(month) ==
    /\ month \in 1 .. MaxMonth /\ (month = ui.view[1] + 1 \/ month + 1 = ui.view[1])
    /\ ui' = [ui EXCEPT !.view = <<month, 1>>]

GoToday == ui' = [ui EXCEPT !.view = Today]
SelectDay(day) == day <= DaysIn(ui.view[1]) /\ ui' = [ui EXCEPT !.view[2] = day]

\* The form can be closed while it saves.
ToggleAdd == ui' = [ui EXCEPT !.adding = ~@]

SubmitEvent(date) ==
    /\ ui.adding /\ ~ui.saving /\ Room(ui.flying) /\ date \notin ui.stored
    /\ ui' = [ui EXCEPT !.saving = TRUE, !.saveError = FALSE, !.last = {date},
                        !.flying = Append(@, [what |-> "post", of |-> {date}, current |-> TRUE])]

\* addEvent: once the event is stored the form waits for the list.
EventPosted(i) ==
    /\ ui.flying[i].what = "post"
    /\ Taken(i, FetchEvents([ui EXCEPT !.stored = @ \cup ui.flying[i].of], TRUE))

EventNotPosted(i) ==
    /\ ui.flying[i].what = "post"
    /\ Taken(i, [ui EXCEPT !.saving = FALSE, !.saveError = TRUE])

\* The list, or none; the form that waited is closed and the calendar goes to the
\* day of the event.
WithEvents(s, list, ok) == [s EXCEPT !.events = IF ok THEN list ELSE {}, !.eventsError = ~ok]
EventSaved(s) == [s EXCEPT !.saving = FALSE, !.adding = FALSE, !.view = CHOOSE date \in s.last : TRUE]

EventsAnswer(i, ok) ==
    /\ ui.flying[i].what = "events"
    /\ LET s == WithEvents(ui, ui.flying[i].of, ok)
       IN  Taken(i, IF ui.flying[i].current THEN EventSaved(s) ELSE s)

FeedAnswer(i, trust) ==
    /\ ui.flying[i].what = "feed"
    /\ Taken(i, [ui EXCEPT !.feed = IF trust = None THEN {} ELSE Feed, !.trust = trust, !.feedError = trust = None])

MacroNext ==
    /\ page = "macro" /\ UNCHANGED page
    /\ \/ RefetchBoth \/ RetryEvents \/ RetryFeed \/ GoToday \/ ToggleAdd
       \/ \E month \in 1 .. MaxMonth : ShiftMonth(month)
       \/ \E day \in 1 .. 3 : SelectDay(day)
       \/ \E date \in Own : SubmitEvent(date)
       \/ \E i \in DOMAIN ui.flying :
             \/ EventPosted(i) \/ EventNotPosted(i)
             \/ \E ok \in BOOLEAN : EventsAnswer(i, ok)
             \/ \E trust \in {"live", "unavailable", None} : FeedAnswer(i, trust)

\* What is listed: an event of the feed not a second time, none of a feed that
\* cannot be trusted; then those of the month.
AllItems(s) == s.events \cup IF s.trust = "unavailable" THEN {} ELSE s.feed
MonthItems(s, scope) == {item \in AllItems(s) : item[1] = s.view[1] /\ (scope = "all" \/ item \in Important)}
DayItems(s, scope) == {item \in MonthItems(s, scope) : item = s.view}

\* The notices over the calendar, and a cell of its grid.
MacroNotices(s) ==
    (IF s.eventsError THEN {"retry events"} ELSE {}) \cup (IF s.feedError THEN {"retry feed"} ELSE {})
        \cup (IF ~s.feedError /\ s.trust \notin {None, "live"} THEN {"feed status"} ELSE {})
CellShows(s, scope, day) ==
    [today |-> <<s.view[1], day>> = Today, selected |-> day = s.view[2],
     events |-> {item \in MonthItems(s, scope) : item[2] = day}]
AddFormShows(s) == IF ~s.adding THEN {} ELSE {"fields", IF s.saving THEN "saving" ELSE "save"}
                                             \cup IF s.saveError THEN {"error"} ELSE {}
-----------------------------------------------------------------------------
\* A trade that was submitted and is not stored is told about: the form never goes
\* quiet over a trade that is nowhere, whatever answers of lists come meanwhile.
JournalFailureTold ==
    page = "journal" /\ ~ui.saving /\ ui.last # None /\ ui.last \notin ui.stored => ui.saveError

\* A form that saves waits for the trade or for the lists after it.
JournalNeverStuck ==
    page = "journal" /\ ui.saving => \E i \in DOMAIN ui.flying : ui.flying[i].current

\* The selected day exists in the month that is shown, however months are paged
\* through while a save is about to move the calendar to the day of its event.
MacroDayExists == page = "macro" => ui.view \in Dates

\* A form that saves waits for the event or for the list after it.
MacroNeverStuck ==
    page = "macro" /\ ui.saving => \E i \in DOMAIN ui.flying : ui.flying[i].current
=============================================================================
