------------------------------ MODULE PaperCalls ------------------------------
(***************************************************************************)
(* The callers of the Paper ledger's transactions: HTTP handlers filling   *)
(* and cancelling SELL stop orders, and the stop scanner.  A caller reads  *)
(* its clock, the order and a quote before its transaction; other callers  *)
(* commit in between, the answer may be lost, the client may call again    *)
(* and the process may restart.                                            *)
(*                                                                         *)
(* PaperLedger shows what the transactions do to cash, shares and legs     *)
(* (NothingStuck: a SELL is never short of shares); here a transaction is  *)
(* reduced to the rows its answer depends on.                              *)
(***************************************************************************)
EXTENDS Integers, Sequences, FiniteSets, FiniteSetsExt, Functions

CONSTANTS
    Orders,      \* ids of accepted SELL stop orders
    Size,        \* shares of each order
    Callers,     \* concurrent HTTP requests
    FillIds,     \* fill ids clients choose: any valid id, also one of the form
                 \* the server or the scanner derives from an order
    MaxTime,     \* bound on the clock
    MaxCalls,    \* bound on the requests made
    MaxRestarts  \* bound on the restarts

ASSUME CallConstants ==
    /\ Orders \subseteq Nat /\ Orders # {} /\ IsFiniteSet(Orders) /\ Size \in Nat \ {0}
    /\ {MaxTime, MaxCalls, MaxRestarts} \subseteq Nat

VARIABLES
    time,      \* the clock callers read
    orders,    \* paper_orders: status and shares left
    log,       \* paper_fills in the order of their row ids
    calls,     \* the requests in flight
    answers,   \* what clients were told, with the fills the order had then
    scan,      \* the scan in progress
    made,      \* requests made so far
    restarts   \* restarts so far

vars == <<time, orders, log, calls, answers, scan, made, restarts>>

ManualId(o) == <<"manual-full", o>>
\* Faulty: one fill id for the whole scan.
ScannerIdShared(o) == <<"full", Min(Orders)>>

ScannerId(o) == <<"full", o>>
AllIds == FillIds \cup {ManualId(o) : o \in Orders} \cup {ScannerId(o) : o \in Orders}

\* A fill of everything may leave its id to the server; a partial fill names it.
\* Any valid id will do (:759), also that of a scanner.
Requests ==
    [kind : {"fill"}, order : Orders, id : FillIds, qty : 0..Size]
    \cup {[kind |-> "fill", order |-> o, id |-> ManualId(o), qty |-> 0] : o \in Orders}
    \cup {[kind |-> "cancel", order |-> o, id |-> ManualId(o), qty |-> 0] : o \in Orders}

AnyRequest == [kind |-> "cancel", order |-> Min(Orders), id |-> ManualId(Min(Orders)), qty |-> 0]
NoCall == [step |-> "idle", request |-> AnyRequest, now |-> 0, quoted |-> FALSE, answer |-> "none"]
NoScan == [step |-> "idle", now |-> 0, todo |-> {}]

\* The rows of an order's fills.
FillsOf(o) == {i \in DOMAIN log : log[i].order = o}

Init ==
    /\ time = 0
    /\ orders = [o \in Orders |-> [status |-> "ACCEPTED", left |-> Size]]
    /\ log = <<>>
    /\ calls = [p \in Callers |-> NoCall]
    /\ answers = {}
    /\ scan = NoScan
    /\ made = 0 /\ restarts = 0
-----------------------------------------------------------------------------
(* The transaction, reduced to what its answer depends on *)

\* Faulty: only the newest fill is looked at.
FillIdNewest(id) == log # <<>> /\ log[Len(log)].id = id

FillIdUsed(id) == \E f \in Range(log) : f.id = id

SameFill(o, id, qty) == \E f \in Range(log) : f.id = id /\ f.order = o /\ qty \in {0, f.qty}

\* Faulty: a partial fill is not compared with what is left.
FillAnswerUnbounded(o, id, qty, quoted) ==
    IF FillIdUsed(id) THEN IF SameFill(o, id, qty) THEN "replay" ELSE "conflict"
    ELSE IF orders[o].status = "SIMULATED_FILLED" THEN "replay"
    ELSE IF orders[o].status = "ACCEPTED" /\ quoted THEN "filled"
    ELSE "conflict"

\* Faulty: the status the caller read is not read again.
FillAnswerStale(o, id, qty, quoted) ==
    IF FillIdUsed(id) THEN IF SameFill(o, id, qty) THEN "replay" ELSE "conflict"
    ELSE IF orders[o].status = "SIMULATED_FILLED" THEN "replay"
    ELSE IF qty <= orders[o].left /\ quoted THEN "filled"
    ELSE "conflict"

\* Faulty: a used id is a replay whatever it filled.
FillAnswerAnyReplay(o, id, qty, quoted) ==
    IF FillIdUsed(id) \/ orders[o].status = "SIMULATED_FILLED" THEN "replay"
    ELSE IF orders[o].status = "ACCEPTED" /\ qty <= orders[o].left /\ quoted THEN "filled"
    ELSE "conflict"

\* The early returns of transitionPaperOrderDBWithPolicyQuantity, in order.
FillAnswer(o, id, qty, quoted) ==
    IF FillIdUsed(id) THEN IF SameFill(o, id, qty) THEN "replay" ELSE "conflict"
    ELSE IF orders[o].status = "SIMULATED_FILLED" THEN "replay"
    ELSE IF orders[o].status = "ACCEPTED" /\ qty <= orders[o].left /\ quoted THEN "filled"
    ELSE "conflict"

\* Faulty: any fill completes the order.
FillTxCompletes(o, id, qty, quoted, now) ==
    LET n == IF qty = 0 THEN orders[o].left ELSE qty
    IN  IF FillAnswer(o, id, qty, quoted) = "filled"
        THEN /\ orders' = [orders EXCEPT ![o] = [status |-> "SIMULATED_FILLED", left |-> @.left - n]]
             /\ log' = Append(log, [id |-> id, order |-> o, qty |-> n, at |-> now,
                                    seq |-> Cardinality(FillsOf(o)) + 1])
        ELSE UNCHANGED <<orders, log>>

FillTx(o, id, qty, quoted, now) ==
    LET n == IF qty = 0 THEN orders[o].left ELSE qty
        left == orders[o].left - n
    IN  IF FillAnswer(o, id, qty, quoted) = "filled"
        THEN /\ orders' = [orders EXCEPT ![o] =
                    [status |-> IF left = 0 THEN "SIMULATED_FILLED" ELSE "ACCEPTED", left |-> left]]
             /\ log' = Append(log, [id |-> id, order |-> o, qty |-> n, at |-> now,
                                    seq |-> Cardinality(FillsOf(o)) + 1])
        ELSE UNCHANGED <<orders, log>>

CancelAnswer(o) ==
    CASE orders[o].status = "CANCELLED" -> "replay"
      [] orders[o].status = "ACCEPTED" -> "cancelled"
      [] OTHER -> "conflict"

CancelTx(o) ==
    /\ orders' = IF CancelAnswer(o) = "cancelled"
                 THEN [orders EXCEPT ![o].status = "CANCELLED"] ELSE orders
    /\ UNCHANGED log
-----------------------------------------------------------------------------
(* HTTP requests *)

\* A request arrives; the handler reads its clock and, before a fill, the
\* order: only an ACCEPTED one is worth a quote.
Call(p, r) ==
    /\ calls[p].step = "idle"
    /\ made < MaxCalls
    /\ made' = made + 1
    /\ calls' = [calls EXCEPT ![p] =
           [step |-> IF r.kind = "fill" /\ orders[r.order].status = "ACCEPTED"
                     THEN "pricing" ELSE "committing",
            request |-> r, now |-> time, quoted |-> FALSE, answer |-> "none"]]
    /\ UNCHANGED <<time, orders, log, answers, scan, restarts>>

\* The quote arrives and triggers the order, or the request is answered without
\* a transaction: market closed, no quote, or a stale one.
Price(p) ==
    /\ calls[p].step = "pricing"
    /\ \/ calls' = [calls EXCEPT ![p].step = "committing", ![p].quoted = TRUE]
       \/ calls' = [calls EXCEPT ![p].step = "committing"]   \* a fresh quote that triggers nothing
       \/ calls' = [calls EXCEPT ![p].step = "answering", ![p].answer = "conflict"]
    /\ UNCHANGED <<time, orders, log, answers, scan, made, restarts>>

Commit(p) ==
    LET call == calls[p]
        r == call.request
    IN  /\ call.step = "committing"
        /\ \/ /\ r.kind = "fill"
              /\ FillTx(r.order, r.id, r.qty, call.quoted, call.now)
              /\ calls' = [calls EXCEPT ![p].step = "answering",
                              ![p].answer = FillAnswer(r.order, r.id, r.qty, call.quoted)]
           \/ /\ r.kind = "cancel"
              /\ CancelTx(r.order)
              /\ calls' = [calls EXCEPT ![p].step = "answering", ![p].answer = CancelAnswer(r.order)]
        /\ UNCHANGED <<time, answers, scan, made, restarts>>

\* The answer reaches the client, or is lost on the way.
Reply(p) ==
    /\ calls[p].step = "answering"
    /\ calls' = [calls EXCEPT ![p] = NoCall]
    /\ answers' \in {answers,
           answers \cup {[request |-> calls[p].request, answer |-> calls[p].answer,
                          fills |-> Cardinality(FillsOf(calls[p].request.order))]}}
    /\ UNCHANGED <<time, orders, log, scan, made, restarts>>
-----------------------------------------------------------------------------
(* The stop scanner: one scan at a time (operationMu) *)

\* ScanOnce reads its clock and loads the accepted automatic exits.
ScanStart ==
    /\ scan.step = "idle"
    /\ \E o \in Orders : orders[o].status = "ACCEPTED"
    /\ scan' = [step |-> "pricing", now |-> time,
                todo |-> {o \in Orders : orders[o].status = "ACCEPTED"}]
    /\ UNCHANGED <<time, orders, log, calls, answers, made, restarts>>

\* Quotes come back: the orders in triggered have a fresh quote that triggers
\* them; the others are skipped or counted as errors.
ScanPrice(triggered) ==
    /\ scan.step = "pricing"
    /\ triggered \subseteq scan.todo
    /\ scan' = [scan EXCEPT !.step = IF triggered = {} THEN "idle" ELSE "filling", !.todo = triggered]
    /\ UNCHANGED <<time, orders, log, calls, answers, made, restarts>>

\* One transaction per order, in id order, stamped with the scan's start.
ScanFill ==
    LET o == Min(scan.todo)
        rest == scan.todo \ {o}
    IN  /\ scan.step = "filling"
        /\ FillTx(o, ScannerId(o), 0, TRUE, scan.now)
        /\ scan' = [scan EXCEPT !.step = IF rest = {} THEN "idle" ELSE "filling", !.todo = rest]
        /\ UNCHANGED <<time, calls, answers, made, restarts>>
-----------------------------------------------------------------------------
Tick ==
    /\ time < MaxTime
    /\ time' = time + 1
    /\ UNCHANGED <<orders, log, calls, answers, scan, made, restarts>>

\* The process stops, also between a commit and its answer, and starts again.
Restart ==
    /\ restarts < MaxRestarts
    /\ restarts' = restarts + 1
    /\ calls' = [p \in Callers |-> NoCall]
    /\ scan' = NoScan
    /\ UNCHANGED <<time, orders, log, answers, made>>

Next ==
    \/ \E p \in Callers : (\E r \in Requests : Call(p, r)) \/ Price(p) \/ Commit(p) \/ Reply(p)
    \/ ScanStart \/ (\E triggered \in SUBSET Orders : ScanPrice(triggered)) \/ ScanFill
    \/ Tick \/ Restart

\* The scanner's goroutine keeps running, and the quote service does not miss a
\* triggered order for ever.
Fairness ==
    /\ WF_vars(ScanStart) /\ WF_vars(ScanFill)
    /\ WF_vars(\E triggered \in SUBSET Orders : ScanPrice(triggered))
    /\ \A o \in Orders :
          SF_vars(\E triggered \in SUBSET Orders : o \in triggered /\ ScanPrice(triggered))

Spec == Init /\ [][Next]_vars /\ Fairness
-----------------------------------------------------------------------------
(* Properties *)

TypeOK ==
    /\ time \in 0..MaxTime /\ made \in 0..MaxCalls /\ restarts \in 0..MaxRestarts
    /\ orders \in [Orders -> [status : {"ACCEPTED", "CANCELLED", "SIMULATED_FILLED"}, left : 0..Size]]
    /\ log \in Seq([id : AllIds, order : Orders, qty : 1..Size, at : 0..MaxTime, seq : Nat])
    /\ calls \in [Callers -> [step : {"idle", "pricing", "committing", "answering"},
                              request : Requests, now : 0..MaxTime, quoted : BOOLEAN,
                              answer : {"none", "filled", "cancelled", "replay", "conflict"}]]
    /\ answers \subseteq [request : Requests, answer : {"filled", "cancelled", "replay", "conflict"},
                          fills : Nat]
    /\ scan \in [step : {"idle", "pricing", "filling"}, now : 0..MaxTime, todo : SUBSET Orders]

\* Callers that read the order before others changed it never fill it beyond its
\* size, fill a cancelled order's rest, or leave status and fills apart.
NeverOverfilled == \A o \in Orders :
    /\ SumFunctionOnSet([i \in DOMAIN log |-> log[i].qty], FillsOf(o)) = Size - orders[o].left
    /\ orders[o].status = "SIMULATED_FILLED" <=> orders[o].left = 0

\* A client that calls again after a lost answer, or whose request races another
\* with the same id, gets one fill of what it asked for, and every "filled" it
\* was told is a recorded fill.
FillsOnce ==
    /\ \A i, j \in DOMAIN log : log[i].id = log[j].id => i = j
    /\ \A a \in answers : a.answer = "filled" => SameFill(a.request.order, a.request.id, a.request.qty)

\* Once a client was told its order is cancelled, no fill of it is recorded: not
\* by a handler or a scan that loaded it before.
CancelledStaysCancelled == \A a \in answers :
    a.request.kind = "cancel" /\ a.answer # "conflict" =>
        /\ orders[a.request.order].status = "CANCELLED"
        /\ Cardinality(FillsOf(a.request.order)) = a.fills

\* A replayed fill was recorded under its id or the order was filled anyway.
ReplaysAreReal == \A a \in answers :
    a.request.kind = "fill" /\ a.answer = "replay" =>
        \/ SameFill(a.request.order, a.request.id, a.request.qty)
        \/ orders[a.request.order].status = "SIMULATED_FILLED"

\* A client has used the scanner's id for a part of the order or for another
\* order: every scan of the order is then answered as a replay or a conflict, and
\* it can only end by other requests.
TakenByClient(o) == ScannerId(o) \in FillIds /\ FillIdUsed(ScannerId(o))

\* A triggered stop order does not stay open for ever, whatever requests and
\* restarts do meanwhile, unless a client takes the scanner's own id for it.
StopsEventuallyFire == \A o \in Orders : <>(orders[o].status # "ACCEPTED" \/ TakenByClient(o))

\* What verifyPaperLedgerIntegrity asserts of an order's fills: read in the
\* order of created_at and row id, their sequence numbers count 1, 2, 3...
Earlier(i, j) == log[i].at < log[j].at \/ (log[i].at = log[j].at /\ i <= j)
FillSequenceReplays == \A j \in DOMAIN log :
    log[j].seq = Cardinality({i \in DOMAIN log : log[i].order = log[j].order /\ Earlier(i, j)})
=============================================================================
