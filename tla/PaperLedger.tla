----------------------------- MODULE PaperLedger -----------------------------
(***************************************************************************)
(* The Paper (simulated) order-management ledger of                        *)
(* app/backend/internal/api/paper_orders_handlers.go for one currency and  *)
(* one symbol: explicit orders, the automatic OCO legs that protect filled *)
(* BUY lots, the cash account, the position and the append-only fill log.  *)
(*                                                                         *)
(* Every action is one SQLite immediate transaction (the DSN asks for      *)
(* _txlock=immediate, so transactions of all connections and processes are *)
(* serialised); a transaction that returns an error rolls back and is the  *)
(* same as no step.  What a caller reads before its transaction is the     *)
(* subject of PaperCalls.                                               *)
(*                                                                         *)
(* Data abstractions: money and prices are integers (hundredths); the      *)
(* quote, provenance and portfolio-policy verdicts are a free choice; row  *)
(* versions are left out, because inside an immediate transaction their    *)
(* compare-and-set cannot miss.                                            *)
(***************************************************************************)
EXTENDS Integers, FiniteSets, FiniteSetsExt

CONSTANTS
    ClientIds,        \* client_order_id values of explicit orders
    FillIds,          \* fill_id values a client chooses for its fills: any valid
                      \* id, also one of the form the server derives (Owner below)
    Requests,         \* the payloads clients submit: [side, type, price, qty]
    Quotes,           \* the market prices the quote service returns
    Instants,         \* the clock readings a fill can carry
    StopPrice,        \* protectiveStop of every BUY
    TakeProfitPrice,  \* takeProfit of every BUY
    Slippage,         \* adverse slippage of a fill price (paperSlippageRate)
    MinimumFee,       \* paperMinimumFee
    Tolerance,        \* the 0.01 of cash the reservation checks forgive
    InitialCash       \* seed of the account

ASSUME PaperConstants ==
    /\ IsFiniteSet(ClientIds)
    /\ Requests \subseteq [side : {"BUY", "SELL"}, type : {"LIMIT", "STOP_MARKET"},
                           price : Nat \ {0}, qty : Nat \ {0}]
    /\ \A r \in Requests : r.side = "SELL" => r.type = "STOP_MARKET"
    /\ Instants \subseteq Nat \ {0}
    /\ Quotes \subseteq Nat /\ \A q \in Quotes : q > Slippage
    /\ {StopPrice, TakeProfitPrice, Slippage, MinimumFee, Tolerance, InitialCash} \subseteq Nat

VARIABLES
    orders,    \* paper_orders rows without a parent, by client id
    legs,      \* paper_orders rows with a parent: the newest child of each
               \* (parent, kind); older ones are terminal
    account,   \* paper_accounts row
    position,  \* paper_positions row
    fills,     \* paper_fills rows
    nextId     \* the autoincrement id the next explicit order gets

vars == <<orders, legs, account, position, fills, nextId>>

Kinds == {"stop", "take-profit"}
Terminal == {"REJECTED", "CANCELLED", "SIMULATED_FILLED"}

NoOrder == [status |-> "NONE", side |-> "BUY", type |-> "LIMIT", price |-> 0,
            qty |-> 0, fillQty |-> 0, remaining |-> 0, reservedCash |-> 0,
            reservedQty |-> 0, protection |-> 0, filledAt |-> 0, id |-> 0,
            filledLegs |-> 0]
NoLeg == [status |-> "NONE", qty |-> 0, fillQty |-> 0, remaining |-> 0,
          reserved |-> 0, revision |-> 0]

Order == [status : {"NONE", "ACCEPTED"} \cup Terminal, side : {"BUY", "SELL"},
          type : {"LIMIT", "STOP_MARKET"}, price : Nat, qty : Nat, fillQty : Nat,
          remaining : Nat, reservedCash : Nat, reservedQty : Nat, protection : Nat,
          filledAt : Nat, id : Nat, filledLegs : Nat]
Leg == [status : {"NONE", "ACCEPTED", "CANCELLED", "SIMULATED_FILLED"}, qty : Nat,
        fillQty : Nat, remaining : Nat, reserved : Nat, revision : Nat]

\* A fill names its owner: an explicit order is <<c, "order", 0>>, a leg is
\* <<parent, kind, revision>>.
Owner == ClientIds \X ({"order"} \cup Kinds) \X Nat
Fill == [id : FillIds \cup Owner, owner : Owner, side : {"BUY", "SELL"},
         qty : Nat \ {0}, price : Nat, fee : Nat]

Init ==
    /\ orders = [c \in ClientIds |-> NoOrder]
    /\ legs = [c \in ClientIds |-> [k \in Kinds |-> NoLeg]]
    /\ account = [cash |-> InitialCash, reserved |-> 0]
    /\ position = [qty |-> 0, reserved |-> 0]
    /\ fills = {}
    /\ nextId = 1
-----------------------------------------------------------------------------
(* Money and prices *)

\* roundPaperMoney(max(minimum, 5bps)) in hundredths.
Fee(notional) == LET rate == (5 * notional + 5000) \div 10000
                 IN  IF rate > MinimumFee THEN rate ELSE MinimumFee

Least(a, b) == IF a < b THEN a ELSE b
Most(a, b) == IF a > b THEN a ELSE b

\* A limit order is marketable, a stop order triggered, at the market price q.
Marketable(side, type, price, q) ==
    IF (side = "BUY") <=> (type = "LIMIT") THEN q <= price ELSE q >= price

\* The fill prices a market price q allows: none, or the one with slippage
\* against the order, never worse than a limit.
FillPrice(side, type, price, q) ==
    LET slipped == IF side = "BUY" THEN q + Slippage ELSE q - Slippage
        protected == IF side = "BUY" THEN Least(slipped, price) ELSE Most(slipped, price)
    IN  IF Marketable(side, type, price, q)
        THEN {IF type = "LIMIT" THEN protected ELSE slipped}
        ELSE {}

LegType(k) == IF k = "stop" THEN "STOP_MARKET" ELSE "LIMIT"
LegPrice(k) == IF k = "stop" THEN StopPrice ELSE TakeProfitPrice

\* The share of a reservation a fill of n of the remaining shares releases,
\* rounded half up to a hundredth; the last fill takes all that is left.
ReservedShare(reserved, n, remaining) ==
    IF n < remaining THEN (2 * reserved * n + remaining) \div (2 * remaining) ELSE reserved
-----------------------------------------------------------------------------
(* Protection of filled BUY lots *)

\* SQL order "filled_at asc, id asc"; filled_at is NULL (0) and sorts first
\* while a lot is still filling.
FilledBefore(os, c, d) ==
    \/ os[c].filledAt < os[d].filledAt
    \/ os[c].filledAt = os[d].filledAt /\ os[c].id < os[d].id

ProtectedLots(os) == {c \in ClientIds : os[c].protection > 0}

\* Deals amount out to the protected lots in order, each up to its remaining
\* protection; the lots in preferred come first.
Allocate(os, amount, preferred) ==
    LET Ahead(c) == {d \in ProtectedLots(os) \ {c} :
                        \/ d \in preferred /\ c \notin preferred
                        \/ (d \in preferred <=> c \in preferred) /\ FilledBefore(os, d, c)}
        Left(c) == amount - SumFunctionOnSet([d \in ClientIds |-> os[d].protection], Ahead(c))
    IN  [c \in ClientIds |-> IF Left(c) \in Nat THEN Least(Left(c), os[c].protection) ELSE 0]

\* Faulty: only fills of a leg use up protection.
ConsumeByLegsOnly(os, n, preferred) ==
    LET used == Allocate(os, n, preferred)
    IN  [c \in ClientIds |-> [os[c] EXCEPT !.protection = @ - IF preferred = {} THEN 0 ELSE used[c]]]

\* Faulty: the oldest lot pays, not the lot whose leg filled.
ConsumeFifo(os, n, preferred) ==
    LET used == Allocate(os, n, {})
    IN  [c \in ClientIds |-> [os[c] EXCEPT !.protection = @ - used[c]]]

\* consumePaperProtectionCapacity: n shares of protection are used up.
Consume(os, n, preferred) ==
    LET used == Allocate(os, n, preferred)
    IN  [c \in ClientIds |-> [os[c] EXCEPT !.protection = @ - used[c]]]

LegsReserved(ls) == SumFunction([c \in ClientIds |-> ls[c]["stop"].reserved + ls[c]["take-profit"].reserved])

\* Faulty: a cancelled leg keeps its reservation.
CancelledLegKeepsShares(leg) ==
    IF leg.status = "ACCEPTED" THEN [leg EXCEPT !.status = "CANCELLED"] ELSE leg

CancelledLeg(leg) ==
    IF leg.status = "ACCEPTED" THEN [leg EXCEPT !.status = "CANCELLED", !.reserved = 0] ELSE leg

\* Faulty: resizing a partly filled leg forgets what it filled.
FittedLegForgetsFill(leg, k, want) ==
    LET held == IF k = "stop" THEN want ELSE 0
        opened == [status |-> "ACCEPTED", qty |-> want, fillQty |-> 0, remaining |-> want,
                   reserved |-> held, revision |-> leg.revision + 1]
        resized == [leg EXCEPT !.qty = want, !.remaining = want, !.reserved = held]
    IN  IF want = 0 THEN CancelledLeg(leg)
        ELSE IF leg.status = "ACCEPTED" THEN resized ELSE opened

\* Faulty: a closed leg is opened again instead of a new child row.
FittedLegReopens(leg, k, want) ==
    LET held == IF k = "stop" THEN want ELSE 0
        opened == [status |-> "ACCEPTED", qty |-> want, fillQty |-> 0, remaining |-> want,
                   reserved |-> held, revision |-> leg.revision]
        resized == [leg EXCEPT !.qty = leg.fillQty + want, !.remaining = want, !.reserved = held]
    IN  IF want = 0 THEN CancelledLeg(leg)
        ELSE IF leg.status = "ACCEPTED" THEN resized ELSE opened

\* The leg of kind k after reconciliation, when its lot may reserve want shares.
FittedLeg(leg, k, want) ==
    LET held == IF k = "stop" THEN want ELSE 0
        opened == [status |-> "ACCEPTED", qty |-> want, fillQty |-> 0, remaining |-> want,
                   reserved |-> held, revision |-> leg.revision + 1]
        resized == [leg EXCEPT !.qty = leg.fillQty + want, !.remaining = want, !.reserved = held]
    IN  IF want = 0 THEN CancelledLeg(leg)
        ELSE IF leg.status = "ACCEPTED" THEN resized ELSE opened

\* What explicit SELL orders hold of the position.
ManualReserved(ls, pos) == pos.reserved - LegsReserved(ls)

\* The protection each lot gets when extra more shares are promised to an
\* explicit SELL.
Fitted(os, ls, pos, extra) == Allocate(os, pos.qty - ManualReserved(ls, pos) - extra, {})

FittedLegs(os, ls, pos, extra) ==
    LET want == Fitted(os, ls, pos, extra)
    IN  [c \in ClientIds |-> [k \in Kinds |-> FittedLeg(ls[c][k], k, want[c])]]

FittedReserved(os, ls, pos, extra) ==
    ManualReserved(ls, pos) + SumFunction(Fitted(os, ls, pos, extra))

\* The error returns of reconcilePaperOCOOrders: when one is taken, the
\* surrounding transaction rolls back.
ReconcileSucceeds(os, ls, pos, extra) ==
    /\ ManualReserved(ls, pos) + extra >= 0
    /\ pos.qty - ManualReserved(ls, pos) - extra >= 0
    /\ FittedReserved(os, ls, pos, extra) \in 0..pos.qty

\* reconcilePaperOCOOrders run on the rows os, ls, pos the transaction has so
\* far; it ends the transaction.
Reconcile(os, ls, pos) ==
    /\ ReconcileSucceeds(os, ls, pos, 0)
    /\ orders' = os
    /\ legs' = FittedLegs(os, ls, pos, 0)
    /\ position' = [pos EXCEPT !.reserved = FittedReserved(os, ls, pos, 0)]
-----------------------------------------------------------------------------
(* Transactions *)

Cost(r) == r.price * r.qty + Fee(r.price * r.qty)

\* validatePaperOrderAgainstLedger, as far as the ledger decides: the account is
\* sound, a BUY can be paid and a SELL has the shares that no explicit order holds.
LedgerAccepts(r) ==
    /\ account.cash >= 0 /\ account.reserved >= 0
    /\ r.side = "BUY" => account.cash > 0 /\ account.cash + Tolerance >= Cost(r)
    /\ r.side = "SELL" => position.qty - ManualReserved(legs, position) >= r.qty

\* The row a submission creates: what it holds when accepted, nothing when not.
NewOrder(r, accepted, cash, shares) ==
    [status |-> IF accepted THEN "ACCEPTED" ELSE "REJECTED", side |-> r.side,
     type |-> r.type, price |-> r.price, qty |-> r.qty, fillQty |-> 0, remaining |-> r.qty,
     reservedCash |-> IF accepted THEN cash ELSE 0,
     reservedQty |-> IF accepted THEN shares ELSE 0,
     protection |-> 0, filledAt |-> 0, id |-> nextId, filledLegs |-> 0]

\* SubmitPaperOrder of a BUY.  acceptable is the verdict of the checks whose
\* data is not modelled (shape, quote, provenance, portfolio policy).  A client
\* id that exists already is answered from its row and changes nothing.
SubmitBuy(c, r, acceptable) ==
    LET accepted == acceptable /\ LedgerAccepts(r)
    IN  /\ orders[c].status = "NONE"
        /\ r.side = "BUY"
        /\ orders' = [orders EXCEPT ![c] = NewOrder(r, accepted, Cost(r), 0)]
        /\ account' = IF accepted
                      THEN [cash |-> account.cash - Cost(r), reserved |-> account.reserved + Cost(r)]
                      ELSE account
        /\ nextId' = nextId + 1
        /\ UNCHANGED <<legs, position, fills>>

\* SubmitPaperOrder of a SELL: the shares the automatic legs hold count as
\* available, and the legs shrink to make room for it.
SubmitSell(c, r, acceptable) ==
    LET accepted == acceptable /\ LedgerAccepts(r)
    IN  /\ orders[c].status = "NONE"
        /\ r.side = "SELL"
        /\ accepted => /\ ReconcileSucceeds(orders, legs, position, r.qty)
                       /\ position.qty - FittedReserved(orders, legs, position, r.qty) >= r.qty
        /\ orders' = [orders EXCEPT ![c] = NewOrder(r, accepted, 0, r.qty)]
        /\ legs' = IF accepted THEN FittedLegs(orders, legs, position, r.qty) ELSE legs
        /\ position' = IF accepted
                       THEN [position EXCEPT !.reserved =
                                FittedReserved(orders, legs, position, r.qty) + r.qty]
                       ELSE position
        /\ nextId' = nextId + 1
        /\ UNCHANGED <<account, fills>>

FillIdUsed(id) == \E f \in fills : f.id = id

\* The fill ids a caller may send for n of the remaining shares of owner: a
\* partial fill names its own; a fill of everything may leave it to the
\* server or the scanner, which derive it from the order.
FillIdChoices(owner, n, remaining) ==
    FillIds \cup (IF n = remaining THEN {owner} ELSE {})

Record(id, owner, side, n, price) ==
    fills' = fills \cup {[id |-> id, owner |-> owner, side |-> side, qty |-> n,
                         price |-> price, fee |-> Fee(price * n)]}

\* Faulty: complete when one fill is as large as the order.
FilledByQuantity(o, n, at) ==
    [o EXCEPT !.fillQty = @ + n, !.remaining = @ - n,
              !.status = IF n = o.qty THEN "SIMULATED_FILLED" ELSE "ACCEPTED",
              !.filledAt = IF n = o.qty THEN at ELSE @]

\* The row of an order after n shares filled by a handler that read the clock at
\* at.  It did so before the quote and the transaction (:796, :1014), so instants
\* need not follow the order of the commits.
Filled(o, n, at) ==
    [o EXCEPT !.fillQty = @ + n, !.remaining = @ - n,
              !.status = IF n = o.remaining THEN "SIMULATED_FILLED" ELSE "ACCEPTED",
              !.filledAt = IF n = o.remaining THEN at ELSE @]

\* transitionPaperOrderDBWithPolicyQuantity filling n shares of a BUY; a fill
\* the policy refuses leaves the modelled rows as they are.
FillBuy(c, n, id, price, at) ==
    LET o == orders[c]
        share == ReservedShare(o.reservedCash, n, o.remaining)
        cost == price * n + Fee(price * n)
        additional == Most(0, cost - share)
        refund == Most(0, share - cost)
        after == [Filled(o, n, at) EXCEPT !.reservedCash = Most(0, @ - share), !.protection = @ + n]
    IN  /\ o.status = "ACCEPTED" /\ o.side = "BUY"
        /\ n <= o.remaining
        /\ ~FillIdUsed(id)
        /\ account.reserved + Tolerance >= share
        /\ account.cash + Tolerance >= additional
        /\ account' = [cash |-> account.cash - additional + refund,
                       reserved |-> account.reserved - share]
        /\ Record(id, <<c, "order", 0>>, "BUY", n, price)
        /\ Reconcile([orders EXCEPT ![c] = after], legs, [position EXCEPT !.qty = @ + n])
        /\ UNCHANGED nextId

\* Faulty: sold shares stay reserved.
SoldKeepsReserved(pos, n, heldBefore) == [pos EXCEPT !.qty = @ - n]

\* applyPaperFill's check and effect on the position of a SELL of n shares,
\* heldBefore of which the order has reserved.
Sold(pos, n, heldBefore) ==
    [qty |-> pos.qty - n, reserved |-> pos.reserved - Least(n, heldBefore)]
CanSell(pos, n, heldBefore) ==
    /\ pos.qty >= n
    /\ pos.reserved >= Least(n, heldBefore)
    /\ heldBefore = 0 => pos.qty - pos.reserved >= n
\* Faulty: a sale pays no fee.
ProceedsWithoutFee(price, n) == price * n

Proceeds(price, n) == price * n - Fee(price * n)

\* transitionPaperOrderDBWithPolicyQuantity filling n shares of an explicit SELL.
FillSell(c, n, id, price, at) ==
    LET o == orders[c]
        after == [Filled(o, n, at) EXCEPT !.reservedQty = @ - Least(n, @)]
    IN  /\ o.status = "ACCEPTED" /\ o.side = "SELL"
        /\ n <= o.remaining
        /\ ~FillIdUsed(id)
        /\ CanSell(position, n, o.reservedQty)
        /\ account' = [account EXCEPT !.cash = @ + Proceeds(price, n)]
        /\ Record(id, <<c, "order", 0>>, "SELL", n, price)
        /\ Reconcile(Consume([orders EXCEPT ![c] = after], n, {}), legs,
                     Sold(position, n, o.reservedQty))
        /\ UNCHANGED nextId

\* claimPaperOCOReservationTx: the group's one reservation moves to the leg
\* that is about to change.
GroupReserved(c) == legs[c]["stop"].reserved + legs[c]["take-profit"].reserved
ClaimSucceeds(c, k) == GroupReserved(c) = legs[c][k].remaining

\* The row of a leg after n shares filled and hold stay reserved.
FilledLeg(leg, n, hold) ==
    [leg EXCEPT !.fillQty = @ + n, !.remaining = @ - n, !.reserved = hold,
                !.status = IF n = leg.remaining THEN "SIMULATED_FILLED" ELSE "ACCEPTED"]

\* A fill of n shares of an automatic leg.  A complete fill ends the group: the
\* sibling is cancelled and nothing is refitted.  A partial fill refits the
\* legs of the whole symbol.
FillLeg(c, k, n, id, price) ==
    LET leg == legs[c][k]
        held == GroupReserved(c)
        complete == n = leg.remaining
        after == FilledLeg(leg, n, held - Least(n, held))
        spent == Consume(orders, n, {c})
        sold == Sold(position, n, held)
    IN  /\ leg.status = "ACCEPTED"
        /\ n <= leg.remaining
        /\ ~FillIdUsed(id)
        /\ ClaimSucceeds(c, k)
        /\ CanSell(position, n, held)
        /\ account' = [account EXCEPT !.cash = @ + Proceeds(price, n)]
        /\ Record(id, <<c, k, leg.revision>>, "SELL", n, price)
        /\ \/ /\ complete
              /\ orders' = [spent EXCEPT ![c].filledLegs = @ + 1]
              /\ legs' = [legs EXCEPT ![c] = [j \in Kinds |->
                              IF j = k THEN after ELSE CancelledLeg(legs[c][j])]]
              /\ position' = sold
           \/ /\ ~complete
              /\ Reconcile(spent,
                           [legs EXCEPT ![c] = [j \in Kinds |->
                              IF j = k THEN after ELSE [legs[c][j] EXCEPT !.reserved = 0]]],
                           sold)
        /\ UNCHANGED nextId

\* CancelPaperOrder of an explicit order: what it held is free again and the
\* legs grow into the shares a SELL gives back.
Cancel(c) ==
    LET o == orders[c]
        after == [o EXCEPT !.status = "CANCELLED", !.reservedCash = 0, !.reservedQty = 0]
    IN  /\ o.status = "ACCEPTED"
        /\ account.reserved + Tolerance >= o.reservedCash
        /\ position.reserved >= o.reservedQty
        /\ account' = [cash |-> account.cash + o.reservedCash,
                       reserved |-> account.reserved - o.reservedCash]
        /\ Reconcile([orders EXCEPT ![c] = after], legs,
                     [position EXCEPT !.reserved = @ - o.reservedQty])
        /\ UNCHANGED <<fills, nextId>>

\* CancelPaperOrder of an automatic leg: both legs end and the lot loses as
\* much protection as the leg's quantity; nothing is refitted.
CancelLeg(c, k) ==
    LET leg == legs[c][k]
        held == GroupReserved(c)
    IN  /\ leg.status = "ACCEPTED"
        /\ ClaimSucceeds(c, k)
        /\ position.reserved >= held
        /\ position' = [position EXCEPT !.reserved = @ - held]
        /\ legs' = [legs EXCEPT ![c] = [j \in Kinds |-> CancelledLeg(legs[c][j])]]
        /\ orders' = Consume(orders, leg.qty, {c})
        /\ UNCHANGED <<account, fills, nextId>>

\* RecoverProtectiveOrders when the stop scanner starts with the process.
Recover ==
    /\ \E c \in ClientIds : orders[c].side = "BUY" /\ orders[c].fillQty > 0
    /\ Reconcile(orders, legs, position)
    /\ UNCHANGED <<account, fills, nextId>>

Submit == \E c \in ClientIds, r \in Requests, acceptable \in BOOLEAN :
              SubmitBuy(c, r, acceptable) \/ SubmitSell(c, r, acceptable)

FillOrder == \E c \in ClientIds : \E n \in 1..orders[c].remaining :
    \E id \in FillIdChoices(<<c, "order", 0>>, n, orders[c].remaining), q \in Quotes :
        \E price \in FillPrice(orders[c].side, orders[c].type, orders[c].price, q), at \in Instants :
            FillBuy(c, n, id, price, at) \/ FillSell(c, n, id, price, at)

FillAutomatic == \E c \in ClientIds, k \in Kinds : \E n \in 1..legs[c][k].remaining :
    \E id \in FillIdChoices(<<c, k, legs[c][k].revision>>, n, legs[c][k].remaining), q \in Quotes :
        \E price \in FillPrice("SELL", LegType(k), LegPrice(k), q) :
            FillLeg(c, k, n, id, price)

CancelAny == \E c \in ClientIds : Cancel(c) \/ \E k \in Kinds : CancelLeg(c, k)

Next == Submit \/ FillOrder \/ FillAutomatic \/ CancelAny \/ Recover

Spec == Init /\ [][Next]_vars
-----------------------------------------------------------------------------
(* Properties *)

\* The rows keep their shape: every column in its domain and no share count
\* below zero.
TypeOK ==
    /\ orders \in [ClientIds -> Order]
    /\ legs \in [ClientIds -> [Kinds -> Leg]]
    /\ account \in [cash : Int, reserved : Int]
    /\ position \in [qty : Nat, reserved : Nat]
    /\ fills \subseteq Fill
    /\ nextId \in Nat

Accepted(S) == {c \in S : orders[c].status = "ACCEPTED"}

\* Reservations are backed: the account and position rows hold exactly what the
\* open orders hold, never more shares than there are, and a closed order
\* holds nothing.  A missed or doubled release on any path breaks it.
ReservationsBacked ==
    /\ account.reserved = SumFunction([c \in Accepted(ClientIds) |-> orders[c].reservedCash])
    /\ position.reserved =
          LegsReserved(legs) + SumFunction([c \in Accepted(ClientIds) |-> orders[c].reservedQty])
    /\ position.reserved <= position.qty
    /\ \A c \in ClientIds : orders[c].status \in Terminal =>
           orders[c].reservedCash = 0 /\ orders[c].reservedQty = 0

\* What a fill moves, and the shares filled of one order or leg.
CashFlow(f) == IF f.side = "BUY" THEN -(f.price * f.qty) - f.fee ELSE f.price * f.qty - f.fee
ShareFlow(f) == IF f.side = "BUY" THEN f.qty ELSE -f.qty
FilledFor(owner) == SumFunction([f \in {g \in fills : g.owner = owner} |-> f.qty])

\* The account and the position are what the fill log says: replaying it from
\* the seed gives the cash (free and reserved) and the shares there are, so
\* reserving, releasing and partial fills neither make nor lose money.
LedgerReplaysFills ==
    /\ account.cash + account.reserved = InitialCash + SumFunction([f \in fills |-> CashFlow(f)])
    /\ position.qty = SumFunction([f \in fills |-> ShareFlow(f)])

\* Every order row agrees with its status and with its fills, the per-order part
\* of verifyPaperLedgerIntegrity: nothing is filled twice or beyond the
\* quantity, also after legs were refitted between two partial fills.
RowsAgreeWithFills ==
    /\ \A c \in ClientIds : LET o == orders[c] IN
          /\ o.fillQty = FilledFor(<<c, "order", 0>>)
          /\ o.fillQty + o.remaining = o.qty
          /\ (o.status = "SIMULATED_FILLED") <=> (o.remaining = 0 /\ o.status # "NONE")
          /\ o.status = "REJECTED" => o.fillQty = 0
    /\ \A c \in ClientIds, k \in Kinds : LET leg == legs[c][k] IN
          /\ leg.fillQty = FilledFor(<<c, k, leg.revision>>)
          /\ leg.fillQty + leg.remaining = leg.qty
          /\ (leg.status = "SIMULATED_FILLED") <=> (leg.remaining = 0 /\ leg.status # "NONE")

\* Protection is never promised for shares that are gone: each lot's part is
\* within what the lot bought, all of it within the position.
ProtectionBacked ==
    /\ \A c \in ClientIds : orders[c].protection <= orders[c].fillQty
    /\ SumFunction([c \in ClientIds |-> orders[c].protection]) <= position.qty

\* The two legs of a lot live and die together and share one reservation, which
\* is the whole remaining quantity of either: whichever leg triggers can claim
\* it, so "paper OCO reservation invariant violated" is never returned.
OneReservationPerGroup == \A c \in ClientIds :
    /\ legs[c]["stop"].status = "ACCEPTED" <=> legs[c]["take-profit"].status = "ACCEPTED"
    /\ \A k \in Kinds : legs[c][k].status = "ACCEPTED" => ClaimSucceeds(c, k)

\* What is left of the checks in Cancel, FillSell and FillLeg once the row is open
\* and the fill has an unused id: the invariant errors of the code.
CancelGoesThrough(c) ==
    LET o == orders[c]
        after == [o EXCEPT !.status = "CANCELLED", !.reservedCash = 0, !.reservedQty = 0]
    IN  /\ account.reserved + Tolerance >= o.reservedCash
        /\ position.reserved >= o.reservedQty
        /\ ReconcileSucceeds([orders EXCEPT ![c] = after], legs,
                             [position EXCEPT !.reserved = @ - o.reservedQty], 0)

\* Only a client can have taken the id the server derives from an open row, by
\* naming another fill so; the row can then be filled under any unused id.
ServerIdLeft(owner) == FillIdUsed(owner) => owner \in FillIds

SellGoesThrough(c, n, at) ==
    LET o == orders[c]
        after == [Filled(o, n, at) EXCEPT !.reservedQty = @ - Least(n, @)]
    IN  /\ ServerIdLeft(<<c, "order", 0>>)
        /\ CanSell(position, n, o.reservedQty)
        /\ ReconcileSucceeds(Consume([orders EXCEPT ![c] = after], n, {}), legs,
                             Sold(position, n, o.reservedQty), 0)

LegGoesThrough(c, k, n) ==
    LET leg == legs[c][k]
        held == GroupReserved(c)
        after == FilledLeg(leg, n, held - Least(n, held))
    IN  /\ ServerIdLeft(<<c, k, leg.revision>>)
        /\ ClaimSucceeds(c, k)
        /\ CanSell(position, n, held)
        /\ n = leg.remaining
           \/ ReconcileSucceeds(Consume(orders, n, {c}),
                  [legs EXCEPT ![c] = [j \in Kinds |->
                      IF j = k THEN after ELSE [legs[c][j] EXCEPT !.reserved = 0]]],
                  Sold(position, n, held), 0)

\* Nothing open gets stuck: an accepted order or leg can always be cancelled, an
\* explicit SELL and a leg can be filled by any part of what is left, and a
\* restart can recover.  No legal history leads a transaction to one of its
\* invariant errors (OCO reservation, reserved shares, reconciliation), which
\* would block the order, and for reconciliation the whole symbol; and the
\* server's own id for it is free unless a client gave that id to another fill.
NothingStuck ==
    /\ ReconcileSucceeds(orders, legs, position, 0)
    /\ \A c \in Accepted(ClientIds) :
          /\ CancelGoesThrough(c)
          /\ orders[c].side = "SELL" =>
                 \A n \in 1..orders[c].remaining, at \in Instants : SellGoesThrough(c, n, at)
    /\ \A c \in ClientIds, k \in Kinds : legs[c][k].status = "ACCEPTED" =>
          /\ ClaimSucceeds(c, k) /\ position.reserved >= GroupReserved(c)
          /\ \A n \in 1..legs[c][k].remaining : LegGoesThrough(c, k, n)

\* The legs are exactly what reconciliation would make of the rows: a restart
\* finds nothing missing, shrunk or left over.
LegsFitted ==
    /\ legs = FittedLegs(orders, legs, position, 0)
    /\ position.reserved = FittedReserved(orders, legs, position, 0)

\* Every transaction leaves fitted legs fitted, unless it is the manual cancel of a leg.
StaysFitted == [][LegsFitted => LegsFitted' \/ \E c \in ClientIds, k \in Kinds : CancelLeg(c, k)]_vars

OrderShape(o) ==
    /\ o.fillQty + o.remaining = o.qty
    /\ o.protection <= o.fillQty
    /\ o.status \in {"NONE", "REJECTED"} => o.fillQty = 0
    /\ o.status = "ACCEPTED" => o.remaining > 0
    /\ o.status = "ACCEPTED" /\ o.side = "SELL" => o.reservedQty = o.remaining
    /\ o.status = "SIMULATED_FILLED" => o.remaining = 0
    /\ o.status # "ACCEPTED" => o.reservedCash = 0 /\ o.reservedQty = 0
    /\ o.side = "BUY" => o.reservedQty = 0
    /\ o.side = "SELL" => o.reservedCash = 0

LegShape(leg) ==
    /\ leg.fillQty + leg.remaining = leg.qty
    /\ leg.status = "ACCEPTED" => leg.remaining > 0
    /\ leg.status # "ACCEPTED" => leg.reserved = 0

\* Rows in the shape their status asks for, no more shares reserved than owned,
\* and one reservation per OCO group.
RowsInv ==
    /\ TypeOK
    /\ IsFiniteSet(fills)
    /\ position.reserved <= position.qty
    /\ \A c \in ClientIds : OrderShape(orders[c])
    /\ \A c \in ClientIds, k \in Kinds : LegShape(legs[c][k])
    /\ OneReservationPerGroup

\* What verifyPaperLedgerIntegrity asserts of an OCO group: at most one sibling
\* filled, and none active once one has.
OcoGroupEndsWithFill == \A c \in ClientIds :
    /\ orders[c].filledLegs <= 1
    /\ orders[c].filledLegs = 1 => \A k \in Kinds : legs[c][k].status # "ACCEPTED"

\* The orders and legs that can never fill again.
ClosedOrders == {<<c, "order", 0>> : c \in {d \in ClientIds : orders[d].status \in Terminal}}
ClosedLegs(c, k) ==
    {<<c, k, v>> : v \in {u \in 0..legs[c][k].revision :
                             u < legs[c][k].revision \/ legs[c][k].status \in Terminal}}
ClosedOwners ==
    ClosedOrders \cup UNION {ClosedLegs(c, "stop") \cup ClosedLegs(c, "take-profit") : c \in ClientIds}

\* Every submission gets an id of its own.
IdsGiven ==
    /\ \A c \in ClientIds : orders[c].status # "NONE" => orders[c].id < nextId
    /\ \A c, d \in ClientIds :
          orders[c].status # "NONE" /\ orders[d].status # "NONE" /\ orders[c].id = orders[d].id => c = d

\* The fills of a leg are of its rows so far, and a fill id that no client chose
\* is of an order or leg that is closed.
LogPlaced == \A f \in fills :
    /\ \A c \in ClientIds, k \in Kinds :
          f.owner[1] = c /\ f.owner[2] = k => f.owner[3] <= legs[c][k].revision
    /\ f.id \in FillIds \/ f.id \in ClosedOwners

\* The inductive invariant, to which the proofs add the sums above.
LedgerInv == RowsInv /\ IdsGiven /\ LogPlaced

\* The ledger implements the owner's view: only fills move cash and shares, each
\* fill id once, never for an order or leg that is closed, and what is closed
\* stays closed through cancels, fills and restarts racing each other.
Book == INSTANCE TradeBook WITH
    cash <- account.cash + account.reserved,
    shares <- position.qty,
    trades <- fills,
    closed <- ClosedOwners

ImplementsTradeBook == Book!BookSpec
=============================================================================
