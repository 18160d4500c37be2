------------------------------- MODULE DeskOrders -------------------------------
(***************************************************************************)
(* pages/TacticalCommand.tsx in two screens.  The orders: submitting a     *)
(* plan, filling and cancelling the order that is shown, with requests of  *)
(* utils/paperOrders.ts that may be lost on the way, or only their         *)
(* answers, or reach the server after the browser gave up; PaperCalls      *)
(* models the server, here it is what these requests need of it: an order  *)
(* id and a fill id are each taken once.  And what the page reads: the     *)
(* quote of the ticker in the form, paper orders, accounts and audit       *)
(* chain, the stop scanner and the daily baseline, and when a plan may be  *)
(* copied and submitted.  The account is taken to afford the plan.         *)
(***************************************************************************)
EXTENDS Screen

CONSTANTS Plans,      \* the plans the form may hold
          MaxIds      \* bound on the order ids and on the fill ids made

ASSUME DeskOrdersConstants == MaxIds \in Nat \ {0}

\* orders[id] is the server's order of that id (NoOrder: none), of two units,
\* fills[id] the order a fill id was recorded for.  shown is the order the
\* desk shows, as its last answer told it.
NoOrder == [plan |-> None, left |-> 0, open |-> FALSE]
Ids == 1 .. MaxIds
NoRequest == [call |-> None, id |-> 0, plan |-> None, fill |-> 0]

\* paperBusy: a call is under way.
Busy(s) == s.stage # NoRequest

DeskOrdersInit ==
    /\ page = "orders"
    /\ ui = [shown |-> [id |-> 0, left |-> 0, open |-> FALSE], confirm |-> FALSE,
             pendingOrder |-> 0, pendingFill |-> 0, made |-> [order |-> 0, fill |-> 0],
             stage |-> NoRequest, late |-> {},
             orders |-> [id \in Ids |-> NoOrder], fills |-> [id \in Ids |-> 0],
             toldOrders |-> {}, settledFills |-> {}]

\* What the server does with a request that reaches it: `accept` is its own
\* judgement of the plan or of the fill (risk, quote, session).
Server(s, r, accept) ==
    CASE r.call = "submit" /\ s.orders[r.id] = NoOrder ->
            [s EXCEPT !.orders[r.id] = [plan |-> r.plan, left |-> 2, open |-> accept]]
      [] r.call = "cancel" -> [s EXCEPT !.orders[r.id].open = FALSE]
      [] r.call = "fill" /\ s.fills[r.fill] = 0 /\ s.orders[r.id].open /\ accept ->
            [s EXCEPT !.fills[r.fill] = r.id,
                      !.orders[r.id].left = @ - 1,
                      !.orders[r.id].open = s.orders[r.id].left > 1]
      [] OTHER -> s

\* Whether the answer carries the order; a conflict carries an error only.  A
\* rejected submission, or a fill the policy rejects, carries it too.
Carries(s, r) ==
    \/ r.call = "submit" /\ s.orders[r.id].plan = r.plan
    \/ r.call = "cancel" /\ s.orders[r.id].left > 0
    \/ r.call = "fill" /\ (s.fills[r.fill] = r.id \/ (s.fills[r.fill] = 0 /\ s.orders[r.id].open))

Show(s, id) == [s EXCEPT !.shown = [id |-> id, left |-> s.orders[id].left, open |-> s.orders[id].open]]

\* submitCurrentPaperOrder: a submission that was not answered is repeated
\* under its id, whatever the form holds by now.
Submit(plan) ==
    /\ ~Busy(ui)
    /\ ui.pendingOrder = 0 => ui.made.order < MaxIds
    /\ LET fresh == ui.pendingOrder = 0
           id == IF fresh THEN ui.made.order + 1 ELSE ui.pendingOrder
       IN  ui' = [ui EXCEPT !.pendingOrder = id,
                            !.made.order = IF fresh THEN id ELSE @,
                            !.stage = [NoRequest EXCEPT !.call = "validate", !.id = id, !.plan = plan]]

\* The server's check of the plan passes or not, the order is submitted all the
\* same; or the check is not answered.
Validated(ok) ==
    /\ ui.stage.call = "validate"
    /\ ui' = IF ok THEN [ui EXCEPT !.stage.call = "submit"]
             ELSE [ui EXCEPT !.stage = NoRequest]

\* Faulty: a call that failed is over.
UnsettledForgets(s) ==
    [s EXCEPT !.stage = NoRequest, !.pendingOrder = 0, !.pendingFill = 0]

\* An answer without an order, or none: the ids stay for the repeat.
Unsettled(s) == [s EXCEPT !.stage = NoRequest]

\* An answer with the order: it is shown, its id is settled and the state of
\* the desk is read anew.  A fill that the policy rejects keeps its id.
Settled(s, r) ==
    LET shown == [Show(s, r.id) EXCEPT !.stage = [NoRequest EXCEPT !.call = "refresh"]]
    IN  CASE r.call = "submit" ->
               [shown EXCEPT !.pendingOrder = 0, !.confirm = FALSE, !.toldOrders = @ \cup {r.id}]
          [] r.call = "fill" /\ s.fills[r.fill] = 0 ->
               [Show(s, r.id) EXCEPT !.stage = NoRequest]
          [] OTHER ->
               [shown EXCEPT !.pendingFill = 0, !.confirm = FALSE,
                             !.settledFills = @ \cup ({r.fill, s.pendingFill} \ {0})]

\* The request under way reaches the server and is answered; or only its answer
\* is lost; or it may still reach the server after the timeout.
CallAnswered(accept) ==
    /\ ui.stage.call \in {"submit", "cancel", "fill"}
    /\ LET done == Server(ui, ui.stage, accept)
       IN  ui' = IF Carries(done, ui.stage) THEN Settled(done, ui.stage) ELSE Unsettled(done)

AnswerLost(accept) ==
    /\ ui.stage.call \in {"submit", "cancel", "fill"}
    /\ ui' = Unsettled(Server(ui, ui.stage, accept))

CallLate ==
    /\ ui.stage.call \in {"submit", "cancel", "fill"} /\ ui.late = {}
    /\ ui' = [Unsettled(ui) EXCEPT !.late = {ui.stage}]

LateCallTaken(accept) ==
    \E r \in ui.late : ui' = [Server(ui, r, accept) EXCEPT !.late = {}]

\* refreshPaperState has ended, with an error or not.
Refreshed == ui.stage.call = "refresh" /\ ui' = [ui EXCEPT !.stage = NoRequest]

\* transitionPaperOrder, for the order shown while it is open.  A fill is
\* confirmed first, and repeated under its id.
Fill ==
    /\ ui.shown.open /\ ui.confirm /\ ~Busy(ui)
    /\ ui.pendingFill = 0 => ui.made.fill < MaxIds
    /\ LET fresh == ui.pendingFill = 0
           fill == IF fresh THEN ui.made.fill + 1 ELSE ui.pendingFill
       IN  ui' = [ui EXCEPT !.pendingFill = fill,
                            !.made.fill = IF fresh THEN fill ELSE @,
                            !.stage = [NoRequest EXCEPT !.call = "fill", !.id = ui.shown.id, !.fill = fill]]

Cancel ==
    /\ ui.shown.open /\ ~Busy(ui)
    /\ ui' = [ui EXCEPT !.stage = [NoRequest EXCEPT !.call = "cancel", !.id = ui.shown.id]]

\* The confirmation is opened or closed.
Confirm(open) ==
    /\ ui.shown.open /\ open # ui.confirm
    /\ open => ~Busy(ui)
    /\ ui' = [ui EXCEPT !.confirm = open]

\* The quantity is edited: the fill under way is no longer the one confirmed.
EditQuantity ==
    /\ ui.shown.open
    /\ ui' = [ui EXCEPT !.pendingFill = 0, !.confirm = FALSE, !.settledFills = @ \cup ({ui.pendingFill} \ {0})]

\* A row of the table, as the list of orders has it.
SelectOrder(id) ==
    /\ ui.orders[id] # NoOrder
    /\ ui' = [Show(ui, id) EXCEPT !.pendingFill = 0, !.confirm = FALSE,
                                  !.settledFills = @ \cup ({ui.pendingFill} \ {0})]

DeskOrdersNext ==
    /\ page = "orders" /\ UNCHANGED page
    /\ \/ \E accept \in BOOLEAN : CallAnswered(accept) \/ AnswerLost(accept) \/ LateCallTaken(accept)
       \/ \E ok \in BOOLEAN : Validated(ok) \/ Confirm(ok)
       \/ \E plan \in Plans : Submit(plan)
       \/ \E id \in Ids : SelectOrder(id)
       \/ Fill \/ Cancel \/ CallLate \/ Refreshed \/ EditQuantity

\* The buttons of the order that is shown.
OrderButtons(s) ==
    IF s.shown.id = 0 THEN {}
    ELSE IF ~s.shown.open THEN {"journal"}
    ELSE {"cancel", "quantity"} \cup (IF s.confirm THEN {"back", "fill"} ELSE {"confirm"})

\* ------------------------------------------------------------

CONSTANTS Stocks,
          MaxRefreshes     \* bound on the refreshes of the paper state

ASSUME DeskStateConstants == MaxRefreshes \in Nat

NoQuote == [of |-> None, state |-> "unusable"]

\* The effect on the ticker and on the refresh button: a poll of a new
\* generation.  A poll that runs keeps the timer from starting another.
PollQuote(s) == [s EXCEPT !.loading = TRUE, !.flying = Ask(@, "quote", s.ticker)]

\* refreshPaperState by a render with a session or without; then tells whether
\* the daily baseline was asked for and waits for it.
RefreshPaper(s, authorized, baseline) ==
    IF ~authorized
    THEN [s EXCEPT !.loadError = TRUE, !.refreshing = FALSE, !.busy = @ /\ ~baseline,
                   !.flying = Superseded(@, "paper")]
    ELSE [s EXCEPT !.refreshing = TRUE, !.made = @ + 1,
                   !.flying = Ask(@, "paper", [stage |-> "orders", version |-> s.made + 1, baseline |-> baseline])]

\* The effects on the session: the state is read, and the scanner is polled
\* while there is one; its status stays when the session ends.
SessionEffects(s) ==
    LET read == RefreshPaper(s, s.authorized, FALSE)
    IN  IF s.authorized THEN [read EXCEPT !.flying = Ask(@, "scanner", None), !.timer = FALSE]
        ELSE [read EXCEPT !.flying = Superseded(@, "scanner"), !.timer = FALSE]

DeskStateInit ==
    /\ page = "desk"
    /\ \E authorized \in BOOLEAN, ticker \in Stocks, strategy \in {"buy", None} :
          ui = SessionEffects(PollQuote(
                 [authorized |-> authorized, ticker |-> ticker, strategy |-> strategy,
                  quote |-> NoQuote, loading |-> TRUE,
                  ordersOf |-> 0, auditOf |-> 0, baseline |-> None, loadError |-> FALSE, refreshing |-> FALSE,
                  made |-> 0, scanner |-> None, timer |-> FALSE, busy |-> FALSE, flying |-> <<>>]))

\* fetchQuoteResult, which answers an error by calling its symbols missing; missing, without
\* source or time, and stale are unusable.
QuoteAnswer(i, state) ==
    /\ ui.flying[i].what = "quote"
    /\ Heard(i, [ui EXCEPT !.quote = [of |-> ui.flying[i].of, state |-> state], !.loading = FALSE])

\* The rest of a refresh: `baseline` has waited for it, also if it is outdated.
EndsRefresh(s, asked) == [s EXCEPT !.busy = @ /\ ~asked.baseline]

\* The orders, accounts and the risk arrive, and the audit chain is asked for;
\* a newer refresh takes over after either answer.
OrdersAnswer(i, ok, baseline) ==
    /\ ui.flying[i].what = "paper" /\ ui.flying[i].of.stage = "orders"
    /\ LET request == ui.flying[i]
           rest == [ui EXCEPT !.flying = Answered(@, i)]
       IN  ui' = IF ~request.current THEN EndsRefresh(rest, request.of)
                 ELSE IF ~ok THEN EndsRefresh([rest EXCEPT !.loadError = TRUE, !.refreshing = FALSE], request.of)
                 ELSE [rest EXCEPT !.ordersOf = request.of.version, !.baseline = baseline,
                                   !.flying = Append(@, [request EXCEPT !.of.stage = "audit"])]

\* Its events and its verification; a failure of either is shown in its place.
AuditAnswer(i) ==
    /\ ui.flying[i].what = "paper" /\ ui.flying[i].of.stage = "audit"
    /\ LET request == ui.flying[i]
           rest == [ui EXCEPT !.flying = Answered(@, i)]
       IN  ui' = EndsRefresh(IF ~request.current THEN rest
                             ELSE [rest EXCEPT !.auditOf = request.of.version,
                                               !.loadError = FALSE, !.refreshing = FALSE], request.of)

\* The poll of the scanner, and its next timeout.
ScannerAnswer(i, state) ==
    /\ ui.flying[i].what = "scanner"
    /\ Heard(i, [ui EXCEPT !.scanner = IF state = "error" THEN @ ELSE state, !.timer = TRUE])

ScannerTimer ==
    /\ ui.timer /\ Room(ui.flying)
    /\ ui' = [ui EXCEPT !.timer = FALSE, !.flying = Ask(@, "scanner", None)]

\* The form, which re-runs the poll of the quote, and the button and the timer
\* of the quote.
SelectTicker(ticker) == ticker # ui.ticker /\ Room(ui.flying) /\ ui' = PollQuote([ui EXCEPT !.ticker = ticker])

SelectStrategy(strategy) == strategy # ui.strategy /\ ui' = [ui EXCEPT !.strategy = strategy]

DeskQuoteTimer == ~Waiting(ui.flying, "quote") /\ Room(ui.flying) /\ ui' = PollQuote(ui)

DeskSession ==
    /\ Len(ui.flying) + 1 < MaxFlying /\ ui.made < MaxRefreshes
    /\ ui' = SessionEffects([ui EXCEPT !.authorized = ~@])

\* The button of the table.
RefreshDesk ==
    /\ ~ui.busy /\ ~ui.refreshing /\ Room(ui.flying) /\ ui.made < MaxRefreshes
    /\ ui' = RefreshPaper(ui, ui.authorized, FALSE)

BaselineMissing(s) == s.baseline = "missing"

\* establishDailyBaseline; the state is read anew by the render that asked.
Establish ==
    /\ ui.authorized /\ BaselineMissing(ui) /\ ~ui.busy /\ ui.scanner = "running" /\ Room(ui.flying)
    /\ ui' = [ui EXCEPT !.busy = TRUE, !.flying = Ask(@, "baseline", None)]

BaselineAnswer(i, ok) ==
    /\ ui.flying[i].what = "baseline" /\ ui.made < MaxRefreshes
    /\ LET rest == [ui EXCEPT !.flying = Answered(@, i)]
       IN  ui' = IF ok THEN RefreshPaper(rest, TRUE, TRUE) ELSE [rest EXCEPT !.busy = FALSE]

DeskStateNext ==
    /\ page = "desk" /\ UNCHANGED page
    /\ \/ \E i \in DOMAIN ui.flying :
             \/ \E state \in {"live", "closed", "unusable"} : QuoteAnswer(i, state)
             \/ \E ok \in BOOLEAN, baseline \in {"missing", "known"} : OrdersAnswer(i, ok, baseline)
             \/ AuditAnswer(i)
             \/ \E state \in {"running", "stopped", "error"} : ScannerAnswer(i, state)
             \/ \E ok \in BOOLEAN : BaselineAnswer(i, ok)
       \/ \E ticker \in Stocks : SelectTicker(ticker)
       \/ \E strategy \in {"buy", "protect"} : SelectStrategy(strategy)
       \/ ScannerTimer \/ DeskQuoteTimer \/ DeskSession \/ RefreshDesk \/ Establish

\* planningBlockReason and the strategy: what keeps a plan from being made.
PlanBlocked(s) ==
    \/ s.strategy = None \/ ~s.authorized \/ s.ordersOf = 0 \/ s.loading
    \/ s.quote.of # s.ticker \/ s.quote.state = "unusable"

\* marketQuoteBlockReason and quoteBlockReason add the session and the baseline.
SubmitBlocked(s) ==
    PlanBlocked(s) \/ s.quote.state = "closed" \/ (BaselineMissing(s) /\ s.strategy = "buy")

\* The card of the plan and its buttons.
PlanCard(s) ==
    {w \in {"plan", "review only", "copy", "submit", "locked", "forbidden"} :
        \/ w \in {"plan", "copy"} /\ ~PlanBlocked(s)
        \/ w = "review only" /\ ~PlanBlocked(s) /\ s.quote.state = "closed"
        \/ w = "submit" /\ ~SubmitBlocked(s) /\ ~s.busy
        \/ w = "locked" /\ ~s.authorized
        \/ w = "forbidden" /\ PlanBlocked(s)}

\* The panels below: the scanner; the positions, the portfolio and the table of
\* the orders, which come together; and the audit chain.
ScannerPanel(s) ==
    {w \in {"running", "unauthorized", "establish"} :
        \/ w = "running" /\ s.scanner = "running"
        \/ w = "unauthorized" /\ s.scanner # "running" /\ ~s.authorized
        \/ w = "establish" /\ s.authorized /\ BaselineMissing(s)}

PaperPanels(s) ==
    {w \in {"orders", "audit", "load error", "refreshing"} :
        \/ w = "orders" /\ s.ordersOf # 0
        \/ w = "audit" /\ s.auditOf # 0
        \/ w = "load error" /\ s.loadError
        \/ w = "refreshing" /\ s.refreshing}
-----------------------------------------------------------------------------
\* Every order the server has was told to the user or is the one that the next
\* submission repeats: an unanswered submission never becomes a second order
\* behind the user's back.
DeskOrdersKnown ==
    page = "orders" =>
        {id \in Ids : ui.orders[id] # NoOrder} \subseteq ui.toldOrders \cup {ui.pendingOrder}

\* So are the fills, but for one the user gave up by editing its quantity, by
\* selecting an order or by cancelling.
DeskFillsKnown ==
    page = "orders" =>
        {id \in Ids : ui.fills[id] # 0} \subseteq ui.settledFills \cup {ui.pendingFill}

\* A quote that is not loading is the one of the ticker in the form, so that a
\* plan is never withheld for the ticker before.
DeskQuoteOwn == page = "desk" /\ ~ui.loading => ui.quote.of = ui.ticker

\* Audit chain and orders below are of the same refresh unless one is under way
\* or an error is shown.
DeskAuditOfOrders ==
    page = "desk" /\ "audit" \in PaperPanels(ui) /\ PaperPanels(ui) \cap {"load error", "refreshing"} = {} =>
        ui.auditOf = ui.ordersOf

\* The busy and the refreshing mark end with a call, and the scanner is polled
\* as long as there is a session.
DeskNeverStuck ==
    page = "desk" =>
        /\ "refreshing" \in PaperPanels(ui) => Waiting(ui.flying, "paper")
        /\ ui.busy => \E i \in DOMAIN ui.flying :
              ui.flying[i].what = "baseline" \/ (ui.flying[i].what = "paper" /\ ui.flying[i].of.baseline)
        /\ ui.authorized => ui.timer \/ Waiting(ui.flying, "scanner")
        /\ ui.loading => Waiting(ui.flying, "quote")
=============================================================================
