------------------------------- MODULE AlertMonitor -------------------------------
(***************************************************************************)
(* Price alerts: stores/alertsStore.ts with utils/alertEvaluation.ts and   *)
(* the check of the quotes in components/SystemDataSyncController.tsx,     *)
(* which runs on every page but the research pages.                        *)
(*                                                                         *)
(* QDII premiums: components/QDIIPremiumRadar.tsx with                     *)
(* hooks/useQDIIPremiums.ts, the trust in an answer                        *)
(* (utils/qdiiPremiums.ts, utils/dataTrust.ts) and the alarms of           *)
(* stores/alertsStore.ts: one fund, whose premium is at a level that is    *)
(* told ("high" stands for high, negative and small premiums) or lies      *)
(* between.                                                                *)
(***************************************************************************)
EXTENDS Screen

CONSTANT Alerts     \* the alerts a user may set: a symbol, an operator and a price each

\* list: the alerts set, with the time they were last told as cooling; stored is
\* the list in the browser's storage.  told counts the times an alert was told
\* since it last cooled.
Fresh == [enabled |-> TRUE, cooling |-> FALSE]
NoAlert == [enabled |-> FALSE, cooling |-> FALSE]

Enabled(s) == {a \in Alerts : s.list[a].enabled}

\* The section of the portfolio page: the state of the checks, and a row with a
\* button per alert.
AlertPanel(s) ==
    [checks |-> CASE s.monitor = "checking" -> "loading" [] s.monitor = "idle" -> "unavailable"
                  [] OTHER -> s.monitor,
     rows |-> Enabled(s)]

\* checkPriceAlerts: each run of the effect has a flag of its own that keeps it
\* from checking twice at a time; older runs are not waited for.
CheckAlerts(s) ==
    IF ~s.visible \/ s.research \/ Enabled(s) = {} \/ Waiting(s.flying, "alerts") THEN s
    ELSE [s EXCEPT !.monitor = "checking", !.flying = Ask(@, "alerts", None)]

AlertsInit ==
    /\ page = "alerts"
    /\ \E list \in [Alerts -> {Fresh, NoAlert}] :
          ui = CheckAlerts([list |-> list, stored |-> list, told |-> [a \in Alerts |-> 0],
                            monitor |-> "idle", visible |-> TRUE, research |-> FALSE, flying |-> <<>>])

\* evaluatePriceAlerts: enabled, matched by its quote, and not cooling.
Hits(s, matched) == {a \in matched : s.list[a].enabled /\ ~s.list[a].cooling}

\* Faulty: the list is only saved when the user changes it.
CheckQuotesUnsaved(s, matched) ==
    [s EXCEPT !.list = [a \in Alerts |-> IF a \in Hits(s, matched) THEN [@[a] EXCEPT !.cooling = TRUE] ELSE @[a]],
              !.told = [a \in Alerts |-> IF a \in Hits(s, matched) THEN @[a] + 1 ELSE @[a]],
              !.monitor = "live"]

\* checkQuotes with usable quotes: every hit is told, marked and saved.
CheckQuotes(s, matched) ==
    LET hits == Hits(s, matched)
        list == [a \in Alerts |-> IF a \in hits THEN [s.list[a] EXCEPT !.cooling = TRUE] ELSE s.list[a]]
    IN  [s EXCEPT !.list = list, !.stored = IF hits = {} THEN @ ELSE list,
                  !.told = [a \in Alerts |-> IF a \in hits THEN @[a] + 1 ELSE @[a]],
                  !.monitor = "live"]

\* The quotes arrive, whatever page is shown by now: usable, or stale, or
\* without source, time or any quote.  An alert is matched or not.
AlertQuotes(i, matched) ==
    /\ ui.flying[i].what = "alerts"
    /\ Taken(i, CheckQuotes(ui, matched))

AlertQuotesUnusable(i, why) ==
    /\ ui.flying[i].what = "alerts"
    /\ Taken(i, [ui EXCEPT !.monitor = why])

\* addAlert refuses an alert that is set and enabled; removeAlert.
AddAlert(a) ==
    /\ ~ui.list[a].enabled
    /\ LET list == [ui.list EXCEPT ![a] = Fresh]
       IN  ui' = [ui EXCEPT !.list = list, !.stored = list, !.told[a] = 0]

RemoveAlert(a) ==
    /\ a \in AlertPanel(ui).rows
    /\ LET list == [ui.list EXCEPT ![a] = NoAlert]
       IN  ui' = [ui EXCEPT !.list = list, !.stored = list]

\* The interval of 12 s, or the refresh button of the header.
AlertTimer == Room(ui.flying) /\ ui' = CheckAlerts(ui)

\* handleSync: also checks when the page is shown again.
ShowOrHideAlerts ==
    /\ Room(ui.flying)
    /\ ui' = CheckAlerts([ui EXCEPT !.visible = ~@])

\* Another page: the effect runs again, with a flag of its own.
GoTo(research) ==
    /\ Room(ui.flying)
    /\ ui' = CheckAlerts([ui EXCEPT !.research = research, !.flying = Superseded(@, "alerts")])

\* Fifteen minutes after an alert was told.
AlertCooled(a) ==
    /\ ui.list[a].cooling
    /\ ui' = [ui EXCEPT !.list[a].cooling = FALSE, !.stored[a].cooling = FALSE, !.told[a] = 0]

\* The browser loads the page again, or a second start of the application.
ReloadAlerts ==
    ui' = CheckAlerts([ui EXCEPT !.list = ui.stored, !.monitor = "idle", !.flying = <<>>])

AlertsNext ==
    /\ page = "alerts" /\ UNCHANGED page
    /\ \/ \E i \in DOMAIN ui.flying :
             \/ \E matched \in SUBSET Alerts : AlertQuotes(i, matched)
             \/ \E why \in {"stale", "error"} : AlertQuotesUnusable(i, why)
       \/ \E a \in Alerts : AddAlert(a) \/ RemoveAlert(a) \/ AlertCooled(a)
       \/ \E research \in BOOLEAN : GoTo(research)
       \/ AlertTimer \/ ShowOrHideAlerts \/ ReloadAlerts

\* ------------------------------------------------------------

\* What may be wrong with an answer.
Defects == {"no source", "stale", "incomplete"}

\* assessDataTrust: metadata first (no metadata, source or time, or partial
\* errors: "no source"), then age, then the completeness of the payload.
Trust(defects) ==
    IF "no source" \in defects THEN "unavailable"
    ELSE IF "stale" \in defects THEN "stale"
    ELSE IF "incomplete" \in defects THEN "unavailable" ELSE "live"

\* checkQDIIPremiums: a fund is told at most once in ten minutes (cooling, kept
\* in the browser's storage as stored).
CheckPremium(s, level) ==
    IF s.enabled /\ level = "high" /\ ~s.cooling
    THEN [s EXCEPT !.cooling = TRUE, !.stored = TRUE] ELSE s

Refresh(s) ==
    [s EXCEPT !.loading = TRUE, !.error = FALSE,
              !.flying = Append(@, [what |-> "premiums", of |-> None, current |-> TRUE])]

QDIIInit ==
    /\ page = "qdii"
    /\ \E enabled \in BOOLEAN :
          ui = Refresh([level |-> None, loading |-> TRUE, error |-> FALSE, meta |-> FALSE,
                        trust |-> "unavailable", enabled |-> enabled, cooling |-> FALSE,
                        stored |-> FALSE, flying |-> <<>>])

\* The answer: only a live one has items, and they are checked at once.
WithPremiums(s, defects, level) ==
    LET t == [s EXCEPT !.meta = TRUE, !.trust = Trust(defects), !.loading = FALSE,
                       !.level = IF Trust(defects) = "live" THEN level ELSE None]
    IN  IF t.trust = "live" THEN CheckPremium(t, level) ELSE t

PremiumsAnswer(i, defects, level) ==
    /\ ui.flying[i].what = "premiums"
    /\ Taken(i, WithPremiums(ui, defects, level))

PremiumsError(i) ==
    /\ ui.flying[i].what = "premiums"
    /\ Taken(i, [ui EXCEPT !.meta = FALSE, !.trust = Trust({"no source"}), !.level = None,
                           !.error = TRUE, !.loading = FALSE])

\* The interval of 30 s and the retry button.
RefreshPremiums == Room(ui.flying) /\ ui' = Refresh(ui)

\* Which form the panel has.
QDIIPanel(s) ==
    IF s.loading /\ ~s.meta THEN "spinner"
    ELSE IF s.error \/ s.trust # "live" THEN "paused" ELSE "data"

\* handleToggleAlerts: switching on may wait for the user to answer the
\* browser's question; the items of the click are checked afterwards.
ToggleAlerts(asks) ==
    /\ QDIIPanel(ui) = "data"
    /\ IF ui.enabled THEN ui' = [ui EXCEPT !.enabled = FALSE]
       ELSE IF asks
       THEN Room(ui.flying) /\ ui' = [ui EXCEPT !.flying = Ask(@, "permission", ui.level)]
       ELSE ui' = CheckPremium([ui EXCEPT !.enabled = TRUE], ui.level)

PermissionAnswer(i) ==
    /\ ui.flying[i].what = "permission"
    /\ Taken(i, CheckPremium([ui EXCEPT !.enabled = TRUE], ui.flying[i].of))

\* Ten minutes pass.
PremiumCooled == ui.cooling /\ ui' = [ui EXCEPT !.cooling = FALSE, !.stored = FALSE]

\* The page is loaded again: what was asked is forgotten, what was stored stays.
ReloadRadar ==
    /\ ui.flying # <<>>
    /\ ui' = Refresh([ui EXCEPT !.level = None, !.meta = FALSE, !.trust = "unavailable",
                                !.cooling = ui.stored, !.flying = <<>>])

QDIINext ==
    /\ page = "qdii" /\ UNCHANGED page
    /\ \/ \E i \in DOMAIN ui.flying :
             \/ \E defects \in SUBSET Defects, level \in {"high", "between"} : PremiumsAnswer(i, defects, level)
             \/ PremiumsError(i) \/ PermissionAnswer(i)
       \/ \E asks \in BOOLEAN : ToggleAlerts(asks)
       \/ RefreshPremiums \/ PremiumCooled \/ ReloadRadar
-----------------------------------------------------------------------------
\* An alert is told at most once in fifteen minutes, although two checks may
\* overlap and the page may be loaded again in between.
AlertsToldOnce == page = "alerts" => \A a \in Alerts : ui.told[a] <= 1

\* The monitor only says that it is checking while a check is on its way.
AlertsNeverStuck ==
    page = "alerts" /\ AlertPanel(ui).checks = "loading" => Flying(ui.flying, "alerts") # {}

\* Premiums only exist while they can be trusted: no answer that is stale,
\* incomplete, unsourced or missing leaves those of before behind, for the cards
\* or for the alarms.
QDIIItemsLive == page = "qdii" /\ ui.level # None => ui.trust = "live"

\* The panel waits for an answer whenever it shows its spinner.
QDIINeverStuck == page = "qdii" /\ ui.loading => Flying(ui.flying, "premiums") # {}
=============================================================================
