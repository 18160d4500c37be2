-------------------------- MODULE PaperLedger_proofs --------------------------
(***************************************************************************)
(* Proofs about PaperLedger for every set of clients, requests and quotes. *)
(* RowsInv is inductive; the safety properties that do not sum over rows   *)
(* and the refinement of TradeBook follow from it.  Then the sums: what    *)
(* the account and the position hold back is what the rows reserve, and    *)
(* the fill log replays to the account and the position.  Then the         *)
(* protection of filled BUY lots: what the waterfall over the lots deals   *)
(* out, that protection stays within the shares, and that no transaction   *)
(* an open order or leg needs ever runs into one of its invariant errors.  *)
(***************************************************************************)
EXTENDS PaperLedger, Aggregates

\* The waterfall never gives a lot more than the protection it has.
LEMMA AllocateBounds ==
    ASSUME NEW os \in [ClientIds -> Order], NEW amount, NEW preferred, NEW c \in ClientIds
    PROVE  Allocate(os, amount, preferred)[c] \in 0..os[c].protection
  <1> DEFINE Ahead(e) == {d \in ProtectedLots(os) \ {e} :
                        \/ d \in preferred /\ e \notin preferred
                        \/ (d \in preferred <=> e \in preferred) /\ FilledBefore(os, d, e)}
             left(e) == amount - SumFunctionOnSet([d \in ClientIds |-> os[d].protection], Ahead(e))
  <1>1. Allocate(os, amount, preferred)[c]
            = IF left(c) \in Nat THEN Least(left(c), os[c].protection) ELSE 0
    BY DEF Allocate
  <1>2. os[c].protection \in Nat
    BY DEF Order
  <1> HIDE DEF left
  <1> QED
    BY <1>1, <1>2 DEF Least

\* Money: fees and the share of a reservation a fill releases are naturals.
LEMMA FeeType ==
    ASSUME NEW notional \in Nat PROVE Fee(notional) \in Nat
  <1>1. MinimumFee \in Nat
    BY PaperConstants
  <1>2. (5 * notional + 5000) \div 10000 \in Nat
    OBVIOUS
  <1> QED
    BY <1>1, <1>2 DEF Fee

LEMMA ReservedShareType ==
    ASSUME NEW reserved \in Nat, NEW remaining \in Nat \ {0}, NEW n \in 1..remaining
    PROVE  ReservedShare(reserved, n, remaining) \in Nat
  <1>1. 2 * reserved * n + remaining \in Nat /\ 2 * remaining \in Nat \ {0}
    OBVIOUS
  <1>2. \A a \in Nat, b \in Nat \ {0} : a \div b \in Nat
    OBVIOUS
  <1> QED
    BY <1>1, <1>2 DEF ReservedShare

LEMMA FillPriceType ==
    ASSUME NEW side \in {"BUY", "SELL"}, NEW type \in {"LIMIT", "STOP_MARKET"},
           NEW price \in Nat, NEW q \in Quotes, NEW p \in FillPrice(side, type, price, q)
    PROVE  p \in Nat
  <1>1. q \in Nat /\ Slippage \in Nat /\ q > Slippage
    BY PaperConstants
  <1> QED
    BY <1>1 DEF FillPrice, Marketable, Least, Most
-----------------------------------------------------------------------------
(* What the operators on the rows preserve *)

OrdersOK(os) == os \in [ClientIds -> Order] /\ \A c \in ClientIds : OrderShape(os[c])

\* What reconciliation needs of the legs it finds: the shares add up and the
\* two legs of a lot are open together.
LegsReady(ls) ==
    /\ ls \in [ClientIds -> [Kinds -> Leg]]
    /\ \A c \in ClientIds : ls[c]["stop"].status = "ACCEPTED" <=> ls[c]["take-profit"].status = "ACCEPTED"
    /\ \A c \in ClientIds, k \in Kinds :
          /\ ls[c][k].fillQty + ls[c][k].remaining = ls[c][k].qty
          /\ ls[c][k].status # "ACCEPTED" => ls[c][k].reserved = 0

\* ... and what it makes of them.
LegsOK(ls) ==
    /\ ls \in [ClientIds -> [Kinds -> Leg]]
    /\ \A c \in ClientIds, k \in Kinds : LegShape(ls[c][k])
    /\ \A c \in ClientIds :
          /\ ls[c]["stop"].status = "ACCEPTED" <=> ls[c]["take-profit"].status = "ACCEPTED"
          /\ \A k \in Kinds : ls[c][k].status = "ACCEPTED" =>
                 ls[c]["stop"].reserved + ls[c]["take-profit"].reserved = ls[c][k].remaining

PositionOK(pos) == pos \in [qty : Nat, reserved : Nat] /\ pos.reserved <= pos.qty

\* The invariant, by the rows it speaks of.
LEMMA RowsInvParts ==
    RowsInv <=> /\ OrdersOK(orders) /\ LegsOK(legs) /\ PositionOK(position)
                  /\ account \in [cash : Int, reserved : Int]
                  /\ fills \subseteq Fill /\ IsFiniteSet(fills)
                  /\ nextId \in Nat
  BY DEF RowsInv, TypeOK, OrdersOK, LegsOK, PositionOK, OneReservationPerGroup,
         ClaimSucceeds, GroupReserved

\* The same one step later.
LEMMA RowsInvPartsNext ==
    RowsInv' <=> /\ OrdersOK(orders') /\ LegsOK(legs') /\ PositionOK(position')
                   /\ account' \in [cash : Int, reserved : Int]
                   /\ fills' \subseteq Fill /\ IsFiniteSet(fills')
                   /\ nextId' \in Nat
  BY DEF RowsInv, TypeOK, OrdersOK, LegsOK, PositionOK, OneReservationPerGroup,
         ClaimSucceeds, GroupReserved

\* Using up protection disturbs nothing else of an order.
LEMMA ConsumeOK ==
    ASSUME NEW os, OrdersOK(os), NEW n, NEW preferred
    PROVE  OrdersOK(Consume(os, n, preferred))
  <1> DEFINE used == Allocate(os, n, preferred)
             after == Consume(os, n, preferred)
  <1>1. \A c \in ClientIds : used[c] \in 0..os[c].protection
    BY AllocateBounds DEF OrdersOK
  <1>2. after = [c \in ClientIds |-> [os[c] EXCEPT !.protection = @ - used[c]]]
    BY DEF Consume
  <1> HIDE DEF used, after
  <1>3. ASSUME NEW c \in ClientIds
        PROVE  after[c] \in Order /\ OrderShape(after[c])
    <2>1. os[c] \in Order /\ OrderShape(os[c]) /\ used[c] \in 0..os[c].protection
      BY <1>1 DEF OrdersOK
    <2>2. after[c] = [os[c] EXCEPT !.protection = os[c].protection - used[c]]
      BY <1>2
    <2> QED
      BY <2>1, <2>2 DEF Order, OrderShape
  <1>4. after \in [ClientIds -> Order]
    BY <1>2, <1>3
  <1> QED
    BY <1>3, <1>4 DEF OrdersOK, after

\* One leg after reconciliation: open exactly when shares are wanted, for
\* exactly as many, held by the stop leg.
LEMMA FittedLegOK ==
    ASSUME NEW leg \in Leg, NEW k \in Kinds, NEW want \in Nat,
           leg.fillQty + leg.remaining = leg.qty,
           leg.status # "ACCEPTED" => leg.reserved = 0
    PROVE  LET new == FittedLeg(leg, k, want)
           IN  /\ new \in Leg /\ LegShape(new)
               /\ (new.status = "ACCEPTED") <=> (want # 0)
               /\ want # 0 => /\ new.remaining = want
                              /\ new.reserved = IF k = "stop" THEN want ELSE 0
  <1> DEFINE new == FittedLeg(leg, k, want)
             held == IF k = "stop" THEN want ELSE 0
  <1>1. CASE want = 0
    <2>1. new = CancelledLeg(leg)
      BY <1>1 DEF FittedLeg
    <2>2. CASE leg.status = "ACCEPTED"
      <3>1. new = [leg EXCEPT !.status = "CANCELLED", !.reserved = 0]
        BY <2>1, <2>2 DEF CancelledLeg
      <3> QED
        BY <1>1, <3>1 DEF Leg, LegShape
    <2>3. CASE leg.status # "ACCEPTED"
      BY <1>1, <2>1, <2>3 DEF CancelledLeg, LegShape
    <2> QED
      BY <2>2, <2>3
  <1>2. CASE want # 0 /\ leg.status = "ACCEPTED"
    <2>1. new = [leg EXCEPT !.qty = leg.fillQty + want, !.remaining = want, !.reserved = held]
      BY <1>2 DEF FittedLeg
    <2>2. held \in Nat /\ (k # "stop" => held = 0) /\ (k = "stop" => held = want)
      OBVIOUS
    <2> HIDE DEF new, held
    <2>3. new \in Leg
      <3>1. leg.fillQty + want \in Nat
        BY DEF Leg
      <3> DEFINE size == leg.fillQty + want
      <3> HIDE DEF size
      <3>2. size \in Nat /\ new = [leg EXCEPT !.qty = size, !.remaining = want, !.reserved = held]
        BY <2>1, <3>1 DEF size
      <3> QED
        BY <2>2, <3>2 DEF Leg
    <2>4. /\ new.status = "ACCEPTED" /\ new.remaining = want /\ new.reserved = held
          /\ new.qty = leg.fillQty + want /\ new.fillQty = leg.fillQty
      BY <1>2, <2>1 DEF Leg
    <2>5. LegShape(new)
      BY <1>2, <2>4 DEF LegShape
    <2> QED
      BY <1>2, <2>2, <2>3, <2>4, <2>5 DEF new, held
  <1>3. CASE want # 0 /\ leg.status # "ACCEPTED"
    <2>1. new = [status |-> "ACCEPTED", qty |-> want, fillQty |-> 0, remaining |-> want,
                 reserved |-> held, revision |-> leg.revision + 1]
      BY <1>3 DEF FittedLeg
    <2> QED
      BY <1>3, <2>1 DEF Leg, LegShape
  <1> QED
    BY <1>1, <1>2, <1>3

\* Reconciliation repairs legs that are ready.
LEMMA FittedLegsOK ==
    ASSUME NEW os \in [ClientIds -> Order], NEW ls, LegsReady(ls), NEW pos, NEW extra
    PROVE  LegsOK(FittedLegs(os, ls, pos, extra))
  <1> DEFINE want == Fitted(os, ls, pos, extra)
             new == FittedLegs(os, ls, pos, extra)
  <1>1. \A c \in ClientIds : want[c] \in Nat
    <2>1. ASSUME NEW c \in ClientIds PROVE want[c] \in Nat
      <3>1. want[c] \in 0..os[c].protection /\ os[c].protection \in Nat
        BY AllocateBounds DEF Fitted, Order
      <3> QED
        BY <3>1
    <2> QED
      BY <2>1
  <1>2. new = [c \in ClientIds |-> [k \in Kinds |-> FittedLeg(ls[c][k], k, want[c])]]
    BY DEF FittedLegs
  <1> HIDE DEF want, new
  <1>3. ASSUME NEW c \in ClientIds, NEW k \in Kinds
        PROVE  /\ new[c][k] \in Leg /\ LegShape(new[c][k])
               /\ (new[c][k].status = "ACCEPTED") <=> (want[c] # 0)
               /\ want[c] # 0 => /\ new[c][k].remaining = want[c]
                                 /\ new[c][k].reserved = IF k = "stop" THEN want[c] ELSE 0
    <2>1. ls[c][k] \in Leg /\ want[c] \in Nat
      BY <1>1 DEF LegsReady
    <2>2. /\ ls[c][k].fillQty + ls[c][k].remaining = ls[c][k].qty
          /\ ls[c][k].status # "ACCEPTED" => ls[c][k].reserved = 0
      BY DEF LegsReady
    <2>3. new[c][k] = FittedLeg(ls[c][k], k, want[c])
      BY <1>2
    <2> QED
      BY <2>1, <2>2, <2>3, FittedLegOK
  <1>4. new \in [ClientIds -> [Kinds -> Leg]]
    BY <1>2, <1>3
  <1>5. ASSUME NEW c \in ClientIds, NEW k \in Kinds, new[c][k].status = "ACCEPTED"
        PROVE  new[c]["stop"].reserved + new[c]["take-profit"].reserved = new[c][k].remaining
    BY <1>1, <1>3, <1>5 DEF Kinds
  <1> QED
    BY <1>3, <1>4, <1>5 DEF LegsOK, Kinds, new

\* A transaction that ends in reconciliation leaves legs and position sound.
LEMMA ReconcileOK ==
    ASSUME NEW os \in [ClientIds -> Order], NEW ls, LegsReady(ls),
           NEW pos \in [qty : Nat, reserved : Nat], Reconcile(os, ls, pos)
    PROVE  orders' = os /\ LegsOK(legs') /\ PositionOK(position') /\ position'.qty = pos.qty
  <1>1. LegsOK(legs')
    BY FittedLegsOK DEF Reconcile
  <1>2. FittedReserved(os, ls, pos, 0) \in 0..pos.qty
    BY DEF Reconcile, ReconcileSucceeds
  <1>3. position' = [pos EXCEPT !.reserved = FittedReserved(os, ls, pos, 0)]
    BY DEF Reconcile
  <1>4. PositionOK(position') /\ position'.qty = pos.qty
    BY <1>2, <1>3 DEF PositionOK
  <1> QED
    BY <1>1, <1>4 DEF Reconcile

LEMMA LegsOKReady ==
    ASSUME NEW ls, LegsOK(ls) PROVE LegsReady(ls)
  BY DEF LegsOK, LegsReady, LegShape
-----------------------------------------------------------------------------
(* Every action preserves the invariant *)

LEMMA InitInv ==
    Init => RowsInv
  <1> SUFFICES ASSUME Init PROVE RowsInv
    OBVIOUS
  <1>1. OrdersOK(orders)
    BY DEF Init, OrdersOK, NoOrder, Order, OrderShape, Terminal
  <1>2. LegsOK(legs)
    BY DEF Init, LegsOK, NoLeg, Leg, LegShape, Kinds
  <1>3. PositionOK(position)
    BY DEF Init, PositionOK
  <1>4. account \in [cash : Int, reserved : Int]
    BY PaperConstants DEF Init
  <1>5. fills \subseteq Fill /\ IsFiniteSet(fills) /\ nextId \in Nat
    BY FS_EmptySet DEF Init
  <1> QED
    BY <1>1, <1>2, <1>3, <1>4, <1>5, RowsInvParts

\* A request's cost is a natural.
LEMMA RequestType ==
    ASSUME NEW r \in Requests
    PROVE  /\ r.side \in {"BUY", "SELL"} /\ r.type \in {"LIMIT", "STOP_MARKET"}
           /\ r.price \in Nat /\ r.qty \in Nat \ {0}
           /\ r.price * r.qty \in Nat
           /\ r.price * r.qty + Fee(r.price * r.qty) \in Nat
  <1>1. /\ r.side \in {"BUY", "SELL"} /\ r.type \in {"LIMIT", "STOP_MARKET"}
        /\ r.price \in Nat /\ r.qty \in Nat \ {0}
    BY PaperConstants
  <1>2. r.price * r.qty \in Nat
    BY <1>1
  <1>3. Fee(r.price * r.qty) \in Nat
    BY <1>2, FeeType
  <1> QED
    BY <1>1, <1>2, <1>3

\* A submission creates a sound row.
LEMMA NewOrderOK ==
    ASSUME NEW r \in Requests, NEW accepted \in BOOLEAN, NEW cash \in Nat, NEW shares \in Nat,
           r.side = "SELL" => cash = 0 /\ shares = r.qty, r.side = "BUY" => shares = 0, nextId \in Nat
    PROVE  NewOrder(r, accepted, cash, shares) \in Order
           /\ OrderShape(NewOrder(r, accepted, cash, shares))
  <1> DEFINE new == NewOrder(r, accepted, cash, shares)
  <1>1. /\ r.side \in {"BUY", "SELL"} /\ r.type \in {"LIMIT", "STOP_MARKET"}
        /\ r.price \in Nat /\ r.qty \in Nat \ {0}
    BY RequestType
  <1>2. new \in Order
    BY <1>1 DEF NewOrder, Order, Terminal
  <1>3. OrderShape(new)
    BY <1>1 DEF NewOrder, OrderShape
  <1> QED
    BY <1>2, <1>3

LEMMA SubmitBuyInv ==
    ASSUME RowsInv, NEW c \in ClientIds, NEW r \in Requests, NEW acceptable \in BOOLEAN,
           SubmitBuy(c, r, acceptable)
    PROVE  RowsInv'
  <1> DEFINE cost == r.price * r.qty + Fee(r.price * r.qty)
             accepted == acceptable /\ LedgerAccepts(r)
             new == NewOrder(r, accepted, cost, 0)
  <1>1. cost \in Nat /\ r.type \in {"LIMIT", "STOP_MARKET"} /\ r.price \in Nat /\ r.qty \in Nat \ {0}
    BY RequestType
  <1>2. /\ orders' = [orders EXCEPT ![c] = new] /\ r.side = "BUY"
        /\ account' = IF accepted
                      THEN [cash |-> account.cash - cost, reserved |-> account.reserved + cost]
                      ELSE account
        /\ nextId' = nextId + 1
        /\ legs' = legs /\ position' = position /\ fills' = fills
    BY DEF SubmitBuy, Cost
  <1>5. nextId \in Nat /\ account \in [cash : Int, reserved : Int]
    BY RowsInvParts
  <1>6. new \in Order /\ OrderShape(new)
    BY <1>1, <1>2, <1>5, NewOrderOK
  <1> HIDE DEF new, cost, accepted
  <1>7. OrdersOK(orders')
    BY <1>2, <1>6, RowsInvParts DEF OrdersOK
  <1>8. account' \in [cash : Int, reserved : Int]
    BY <1>1, <1>2, <1>5
  <1> QED
    BY <1>2, <1>5, <1>7, <1>8, RowsInvParts, RowsInvPartsNext

LEMMA SubmitSellInv ==
    ASSUME RowsInv, NEW c \in ClientIds, NEW r \in Requests, NEW acceptable \in BOOLEAN,
           SubmitSell(c, r, acceptable)
    PROVE  RowsInv'
  <1> DEFINE accepted == acceptable /\ LedgerAccepts(r)
             fitted == FittedReserved(orders, legs, position, r.qty)
             new == NewOrder(r, accepted, 0, r.qty)
  <1>1. r.type \in {"LIMIT", "STOP_MARKET"} /\ r.price \in Nat /\ r.qty \in Nat \ {0}
    BY RequestType
  <1>2. /\ orders' = [orders EXCEPT ![c] = new] /\ r.side = "SELL"
        /\ legs' = IF accepted THEN FittedLegs(orders, legs, position, r.qty) ELSE legs
        /\ position' = IF accepted THEN [position EXCEPT !.reserved = fitted + r.qty] ELSE position
        /\ accepted => fitted \in 0..position.qty /\ position.qty - fitted >= r.qty
        /\ nextId' = nextId + 1 /\ account' = account /\ fills' = fills
    BY DEF SubmitSell, ReconcileSucceeds
  <1>4. nextId \in Nat
    BY RowsInvParts
  <1>5. new \in Order /\ OrderShape(new)
    BY <1>1, <1>2, <1>4, NewOrderOK
  <1> HIDE DEF new, accepted, fitted
  <1>6. OrdersOK(orders')
    BY <1>2, <1>5, RowsInvParts DEF OrdersOK
  <1>7. LegsOK(legs')
    <2>1. orders \in [ClientIds -> Order] /\ LegsReady(legs) /\ LegsOK(legs)
      BY RowsInvParts, LegsOKReady DEF OrdersOK
    <2>2. LegsOK(FittedLegs(orders, legs, position, r.qty))
      BY <2>1, FittedLegsOK
    <2> QED
      BY <1>2, <2>1, <2>2
  <1>8. PositionOK(position')
    <2>1. PositionOK(position)
      BY RowsInvParts
    <2>2. CASE ~accepted
      BY <1>2, <2>1, <2>2
    <2>3. CASE accepted
      <3> DEFINE total == fitted + r.qty
      <3>1. total \in Nat /\ total <= position.qty
        BY <1>1, <1>2, <2>1, <2>3 DEF PositionOK
      <3>2. position' = [position EXCEPT !.reserved = total]
        BY <1>2, <2>3
      <3> HIDE DEF total
      <3> QED
        BY <2>1, <3>1, <3>2 DEF PositionOK
    <2> QED
      BY <2>2, <2>3
  <1> QED
    BY <1>2, <1>4, <1>6, <1>7, <1>8, RowsInvParts, RowsInvPartsNext

\* A fill's record is a fill, and the log stays finite.
LEMMA RecordOK ==
    ASSUME fills \subseteq Fill, IsFiniteSet(fills), NEW owner \in Owner,
           NEW side \in {"BUY", "SELL"}, NEW remaining \in Nat, NEW n \in 1..remaining,
           NEW id \in FillIdChoices(owner, n, remaining), NEW price \in Nat,
           Record(id, owner, side, n, price)
    PROVE  fills' \subseteq Fill /\ IsFiniteSet(fills')
  <1> DEFINE new == [id |-> id, owner |-> owner, side |-> side, qty |-> n,
                     price |-> price, fee |-> Fee(price * n)]
  <1>1. fills' = fills \cup {new}
    BY DEF Record
  <1>2. IsFiniteSet(fills')
    BY <1>1, FS_AddElement
  <1>3. price * n \in Nat /\ n \in Nat \ {0} /\ id \in FillIds \cup Owner
    BY DEF FillIdChoices
  <1>4. Fee(price * n) \in Nat
    BY <1>3, FeeType
  <1>5. new \in Fill
    BY <1>3, <1>4 DEF Fill
  <1> QED
    BY <1>1, <1>2, <1>5

LEMMA OwnerType ==
    ASSUME NEW c \in ClientIds
    PROVE  /\ <<c, "order", 0>> \in Owner
           /\ \A k \in Kinds, v \in Nat : <<c, k, v>> \in Owner
  BY DEF Owner

\* The columns every fill of an open order changes.
LEMMA FilledOK ==
    ASSUME NEW o \in Order, OrderShape(o), o.status = "ACCEPTED",
           NEW n \in 1..o.remaining, NEW at \in Instants
    PROVE  LET new == Filled(o, n, at)
           IN  /\ new \in Order
               /\ new.fillQty = o.fillQty + n /\ new.remaining = o.remaining - n
               /\ new.qty = o.qty /\ new.side = o.side /\ new.protection = o.protection
               /\ new.reservedCash = o.reservedCash /\ new.reservedQty = o.reservedQty
               /\ new.status = IF n = o.remaining THEN "SIMULATED_FILLED" ELSE "ACCEPTED"
  <1> DEFINE filled == o.fillQty + n
             left == o.remaining - n
             status == IF n = o.remaining THEN "SIMULATED_FILLED" ELSE "ACCEPTED"
             last == IF n = o.remaining THEN at ELSE o.filledAt
             new == Filled(o, n, at)
  <1>1. new = [o EXCEPT !.fillQty = filled, !.remaining = left, !.status = status, !.filledAt = last]
    BY DEF Filled
  <1>2. o.remaining \in Nat /\ o.fillQty \in Nat /\ o.filledAt \in Nat
    BY DEF Order
  <1>3. at \in Nat
    BY PaperConstants
  <1>4. filled \in Nat /\ left \in Nat /\ last \in Nat /\ status \in {"SIMULATED_FILLED", "ACCEPTED"}
    BY <1>2, <1>3
  <1> HIDE DEF filled, left, status, last, new
  <1>5. new \in Order
    BY <1>1, <1>4 DEF Order, Terminal
  <1>6. /\ new.fillQty = filled /\ new.remaining = left /\ new.qty = o.qty /\ new.side = o.side
        /\ new.protection = o.protection /\ new.reservedCash = o.reservedCash
        /\ new.reservedQty = o.reservedQty /\ new.status = status
    BY <1>1 DEF Order
  <1> QED
    BY <1>5, <1>6 DEF filled, left, status, new

LEMMA FillBuyInv ==
    ASSUME RowsInv, NEW c \in ClientIds, NEW n \in 1..orders[c].remaining,
           NEW id \in FillIdChoices(<<c, "order", 0>>, n, orders[c].remaining),
           NEW price \in Nat, NEW at \in Instants, FillBuy(c, n, id, price, at)
    PROVE  RowsInv'
  <1> DEFINE o == orders[c]
             share == ReservedShare(o.reservedCash, n, o.remaining)
             cost == price * n + Fee(price * n)
             filled == Filled(o, n, at)
             hold == Most(0, o.reservedCash - share)
             lot == o.protection + n
             after == [filled EXCEPT !.reservedCash = hold, !.protection = lot]
             os == [orders EXCEPT ![c] = after]
             pos == [position EXCEPT !.qty = position.qty + n]
  <1>1. /\ OrdersOK(orders) /\ LegsOK(legs) /\ PositionOK(position)
        /\ account \in [cash : Int, reserved : Int] /\ nextId \in Nat
        /\ fills \subseteq Fill /\ IsFiniteSet(fills)
    BY RowsInvParts
  <1>2. o \in Order /\ OrderShape(o) /\ o.remaining \in Nat \ {0} /\ o.reservedCash \in Nat
        /\ o.protection \in Nat /\ o.status = "ACCEPTED" /\ o.side = "BUY" /\ n \in Nat
    BY <1>1 DEF OrdersOK, Order, FillBuy
  <1>3. filled \in Order
        /\ filled.fillQty = o.fillQty + n /\ filled.remaining = o.remaining - n
        /\ filled.qty = o.qty /\ filled.side = o.side /\ filled.protection = o.protection
        /\ filled.reservedCash = o.reservedCash /\ filled.reservedQty = o.reservedQty
        /\ filled.status = IF n = o.remaining THEN "SIMULATED_FILLED" ELSE "ACCEPTED"
    BY <1>1, <1>2, FilledOK
  <1>4. /\ account' = [cash |-> account.cash - Most(0, cost - share) + Most(0, share - cost),
                       reserved |-> account.reserved - share]
        /\ Record(id, <<c, "order", 0>>, "BUY", n, price)
        /\ Reconcile(os, legs, pos)
        /\ nextId' = nextId
    BY <1>3 DEF FillBuy
  <1>5. share \in Nat
    BY <1>2, ReservedShareType
  <1>6. cost \in Nat
    <2>1. price * n \in Nat
      BY <1>2
    <2>2. Fee(price * n) \in Nat
      BY <2>1, FeeType
    <2> QED
      BY <2>1, <2>2
  <1>7. n = o.remaining => share = o.reservedCash
    BY <1>2 DEF ReservedShare
  <1>8. hold \in Nat /\ (n = o.remaining => hold = 0) /\ lot \in Nat
    BY <1>2, <1>5, <1>7 DEF Most
  <1> HIDE DEF share, cost, filled, hold
  <1>9. after \in Order
    <2> HIDE DEF lot
    <2> QED
      BY <1>3, <1>8 DEF Order
  <1>10. OrderShape(after)
    <2>1. /\ after.fillQty = filled.fillQty /\ after.remaining = filled.remaining
          /\ after.qty = filled.qty /\ after.side = filled.side /\ after.status = filled.status
          /\ after.reservedQty = filled.reservedQty
          /\ after.reservedCash = hold /\ after.protection = lot
      <3> HIDE DEF lot
      <3> QED
        BY <1>3 DEF Order
    <2> HIDE DEF after
    <2>2. o.fillQty \in Nat /\ o.qty \in Nat
      BY <1>2 DEF Order
    <2> QED
      BY <1>2, <1>3, <1>8, <2>1, <2>2 DEF OrderShape
  <1> HIDE DEF after
  <1>11. OrdersOK(os)
    BY <1>1, <1>9, <1>10 DEF OrdersOK
  <1>12. pos \in [qty : Nat, reserved : Nat]
    BY <1>1, <1>2 DEF PositionOK
  <1>13. orders' = os /\ LegsOK(legs') /\ PositionOK(position')
    <2> HIDE DEF os, pos
    <2> QED
      BY <1>1, <1>4, <1>11, <1>12, LegsOKReady, ReconcileOK DEF OrdersOK
  <1>14. account' \in [cash : Int, reserved : Int]
    BY <1>1, <1>4, <1>5, <1>6 DEF Most
  <1>15. fills' \subseteq Fill /\ IsFiniteSet(fills')
    BY <1>1, <1>2, <1>4, OwnerType, RecordOK
  <1> QED
    BY <1>1, <1>4, <1>11, <1>13, <1>14, <1>15, RowsInvPartsNext

\* What a SELL leaves of the position.
LEMMA SoldOK ==
    ASSUME NEW pos, PositionOK(pos), NEW n \in Nat, NEW held \in Nat, CanSell(pos, n, held)
    PROVE  Sold(pos, n, held) \in [qty : Nat, reserved : Nat]
  <1>1. pos.qty \in Nat /\ pos.reserved \in Nat /\ pos.qty >= n /\ pos.reserved >= Least(n, held)
    BY DEF CanSell, PositionOK
  <1>2. Least(n, held) \in Nat
    BY DEF Least
  <1>3. pos.qty - n \in Nat /\ pos.reserved - Least(n, held) \in Nat
    BY <1>1, <1>2
  <1> QED
    BY <1>3 DEF Sold

LEMMA ProceedsType ==
    ASSUME NEW price \in Nat, NEW n \in Nat PROVE Proceeds(price, n) \in Int
  <1>1. price * n \in Nat
    OBVIOUS
  <1>2. Fee(price * n) \in Nat
    BY <1>1, FeeType
  <1> QED
    BY <1>1, <1>2 DEF Proceeds

LEMMA PaidType ==
    ASSUME account \in [cash : Int, reserved : Int], NEW amount \in Int,
           account' = [account EXCEPT !.cash = @ + amount]
    PROVE  account' \in [cash : Int, reserved : Int]
  OBVIOUS

LEMMA FillSellInv ==
    ASSUME RowsInv, NEW c \in ClientIds, NEW n \in 1..orders[c].remaining,
           NEW id \in FillIdChoices(<<c, "order", 0>>, n, orders[c].remaining),
           NEW price \in Nat, NEW at \in Instants, FillSell(c, n, id, price, at)
    PROVE  RowsInv'
  <1> DEFINE o == orders[c]
             filled == Filled(o, n, at)
             hold == o.reservedQty - Least(n, o.reservedQty)
             after == [filled EXCEPT !.reservedQty = hold]
             os == [orders EXCEPT ![c] = after]
             spent == Consume(os, n, {})
             pos == Sold(position, n, o.reservedQty)
  <1>1. /\ OrdersOK(orders) /\ LegsOK(legs) /\ PositionOK(position)
        /\ account \in [cash : Int, reserved : Int] /\ nextId \in Nat
        /\ fills \subseteq Fill /\ IsFiniteSet(fills)
    BY RowsInvParts
  <1>2. o \in Order /\ OrderShape(o) /\ o.remaining \in Nat \ {0} /\ o.reservedQty \in Nat
        /\ o.status = "ACCEPTED" /\ o.side = "SELL" /\ n \in Nat
    BY <1>1 DEF OrdersOK, Order, FillSell
  <1>3. filled \in Order
        /\ filled.fillQty = o.fillQty + n /\ filled.remaining = o.remaining - n
        /\ filled.qty = o.qty /\ filled.side = o.side /\ filled.protection = o.protection
        /\ filled.reservedCash = o.reservedCash /\ filled.reservedQty = o.reservedQty
        /\ filled.status = IF n = o.remaining THEN "SIMULATED_FILLED" ELSE "ACCEPTED"
    BY <1>1, <1>2, FilledOK
  <1>4. /\ account' = [account EXCEPT !.cash = @ + Proceeds(price, n)]
        /\ Record(id, <<c, "order", 0>>, "SELL", n, price)
        /\ Reconcile(spent, legs, pos)
        /\ CanSell(position, n, o.reservedQty)
        /\ nextId' = nextId
    BY <1>3 DEF FillSell
  <1>5. o.reservedQty = o.remaining
    BY <1>2 DEF OrderShape
  <1>6. hold \in Nat /\ hold = o.remaining - n
    BY <1>2, <1>5 DEF Least
  <1> HIDE DEF filled, hold
  <1>7. after \in Order
    BY <1>3, <1>6 DEF Order
  <1>8. OrderShape(after)
    <2>1. /\ after.fillQty = filled.fillQty /\ after.remaining = filled.remaining
          /\ after.qty = filled.qty /\ after.side = filled.side /\ after.status = filled.status
          /\ after.reservedQty = hold
          /\ after.reservedCash = filled.reservedCash /\ after.protection = filled.protection
      BY <1>3 DEF Order
    <2> HIDE DEF after
    <2>2. o.fillQty \in Nat /\ o.qty \in Nat /\ o.protection \in Nat
      BY <1>2 DEF Order
    <2> QED
      BY <1>2, <1>3, <1>6, <2>1, <2>2 DEF OrderShape
  <1> HIDE DEF after
  <1>9. OrdersOK(os)
    BY <1>1, <1>7, <1>8 DEF OrdersOK
  <1> HIDE DEF os
  <1>10. OrdersOK(spent)
    BY <1>9, ConsumeOK
  <1>11. pos \in [qty : Nat, reserved : Nat]
    BY <1>1, <1>2, <1>4, SoldOK
  <1> HIDE DEF pos, spent
  <1>12. orders' = spent /\ LegsOK(legs') /\ PositionOK(position')
    BY <1>1, <1>4, <1>10, <1>11, LegsOKReady, ReconcileOK DEF OrdersOK
  <1>13. account' \in [cash : Int, reserved : Int]
    BY <1>1, <1>2, <1>4, ProceedsType, PaidType
  <1>14. fills' \subseteq Fill /\ IsFiniteSet(fills')
    BY <1>1, <1>2, <1>4, OwnerType, RecordOK
  <1> QED
    BY <1>1, <1>4, <1>10, <1>12, <1>13, <1>14, RowsInvPartsNext

\* The leg a partial or complete fill leaves, its group's reservation claimed.
LEMMA FilledLegOK ==
    ASSUME NEW leg \in Leg, LegShape(leg), NEW n \in 1..leg.remaining, NEW hold \in Nat
    PROVE  LET new == FilledLeg(leg, n, hold)
           IN  /\ new \in Leg
               /\ new.fillQty + new.remaining = new.qty
               /\ new.reserved = hold
               /\ new.status = IF n = leg.remaining THEN "SIMULATED_FILLED" ELSE "ACCEPTED"
  <1> DEFINE filled == leg.fillQty + n
             left == leg.remaining - n
             status == IF n = leg.remaining THEN "SIMULATED_FILLED" ELSE "ACCEPTED"
             new == FilledLeg(leg, n, hold)
  <1>1. leg.remaining \in Nat /\ leg.fillQty \in Nat /\ leg.qty \in Nat
    BY DEF Leg
  <1>2. filled \in Nat /\ left \in Nat /\ status \in {"SIMULATED_FILLED", "ACCEPTED"}
    BY <1>1
  <1>3. filled + left = leg.qty
    BY <1>1 DEF LegShape
  <1>4. new = [leg EXCEPT !.fillQty = filled, !.remaining = left, !.reserved = hold, !.status = status]
    BY DEF FilledLeg
  <1> HIDE DEF filled, left, status, new
  <1>5. new \in Leg
    BY <1>2, <1>4 DEF Leg
  <1>6. new.fillQty = filled /\ new.remaining = left /\ new.qty = leg.qty
        /\ new.reserved = hold /\ new.status = status
    BY <1>4 DEF Leg
  <1> QED
    BY <1>3, <1>5, <1>6 DEF status, new

LEMMA CancelledLegOK ==
    ASSUME NEW leg \in Leg, LegShape(leg)
    PROVE  /\ CancelledLeg(leg) \in Leg /\ LegShape(CancelledLeg(leg))
           /\ CancelledLeg(leg).status # "ACCEPTED"
  BY DEF CancelledLeg, Leg, LegShape

\* A group that ends: no leg of it is open and the others are as they were.
LEMMA GroupEndsOK ==
    ASSUME LegsOK(legs), NEW c \in ClientIds, NEW group \in [Kinds -> Leg],
           \A k \in Kinds : LegShape(group[k]) /\ group[k].status # "ACCEPTED"
    PROVE  LegsOK([legs EXCEPT ![c] = group])
  <1> DEFINE ls == [legs EXCEPT ![c] = group]
  <1>1. ls \in [ClientIds -> [Kinds -> Leg]]
    BY DEF LegsOK
  <1>2. ASSUME NEW d \in ClientIds
        PROVE  /\ \A j \in Kinds : LegShape(ls[d][j])
               /\ ls[d]["stop"].status = "ACCEPTED" <=> ls[d]["take-profit"].status = "ACCEPTED"
               /\ \A j \in Kinds : ls[d][j].status = "ACCEPTED" =>
                      ls[d]["stop"].reserved + ls[d]["take-profit"].reserved = ls[d][j].remaining
    <2>1. CASE d = c
      <3>1. ls[d] = group
        BY <2>1 DEF LegsOK
      <3> HIDE DEF ls
      <3> QED
        BY <3>1 DEF Kinds
    <2>2. CASE d # c
      <3>1. ls[d] = legs[d]
        BY <2>2 DEF LegsOK
      <3> HIDE DEF ls
      <3> QED
        BY <3>1 DEF LegsOK
    <2> QED
      BY <2>1, <2>2
  <1> HIDE DEF ls
  <1>3. LegsOK(ls)
    BY <1>1, <1>2 DEF LegsOK
  <1> QED
    BY <1>3 DEF ls

\* A complete fill ends both legs of the group.
LEMMA FillLegWholeInv ==
    ASSUME RowsInv, NEW c \in ClientIds, NEW k \in Kinds, NEW n \in 1..legs[c][k].remaining,
           NEW id, NEW price \in Nat, FillLeg(c, k, n, id, price), n = legs[c][k].remaining
    PROVE  OrdersOK(orders') /\ LegsOK(legs') /\ PositionOK(position')
  <1> DEFINE leg == legs[c][k]
             held == GroupReserved(c)
             hold == held - Least(n, held)
             after == FilledLeg(leg, n, hold)
             group == [j \in Kinds |-> IF j = k THEN after ELSE CancelledLeg(legs[c][j])]
             spent == Consume(orders, n, {c})
  <1>1. OrdersOK(orders) /\ LegsOK(legs) /\ PositionOK(position)
    BY RowsInvParts
  <1>2. leg \in Leg /\ LegShape(leg) /\ n \in Nat /\ held = n /\ CanSell(position, n, held)
    BY <1>1 DEF LegsOK, FillLeg, ClaimSucceeds, Leg
  <1>3. /\ orders' = [spent EXCEPT ![c].filledLegs = @ + 1]
        /\ legs' = [legs EXCEPT ![c] = group]
        /\ position' = Sold(position, n, held)
    BY DEF FillLeg
  <1>4. hold = 0
    BY <1>2 DEF Least
  <1> HIDE DEF held, hold
  <1>5. after \in Leg /\ after.status = "SIMULATED_FILLED" /\ LegShape(after)
    BY <1>2, <1>4, FilledLegOK DEF LegShape
  <1> HIDE DEF after
  <1>6. group \in [Kinds -> Leg]
        /\ \A j \in Kinds : LegShape(group[j]) /\ group[j].status # "ACCEPTED"
    BY <1>1, <1>5, CancelledLegOK DEF LegsOK
  <1> HIDE DEF group
  <1>7. LegsOK(legs')
    BY <1>1, <1>3, <1>6, GroupEndsOK
  <1>8. OrdersOK(orders')
    <2>1. OrdersOK(spent)
      BY <1>1, ConsumeOK
    <2> HIDE DEF spent
    <2> DEFINE count == spent[c].filledLegs + 1
               new == [spent[c] EXCEPT !.filledLegs = count]
    <2>2. count \in Nat
      BY <2>1 DEF OrdersOK, Order
    <2>3. orders' = [spent EXCEPT ![c] = new]
      BY <1>3, <2>1 DEF OrdersOK
    <2> HIDE DEF count
    <2>4. new \in Order /\ OrderShape(new)
      BY <2>1, <2>2 DEF OrdersOK, Order, OrderShape
    <2> HIDE DEF new
    <2> QED
      BY <2>1, <2>3, <2>4 DEF OrdersOK
  <1>9. PositionOK(position')
    <2>1. position.qty \in Nat /\ position.reserved \in Nat /\ position.reserved <= position.qty
          /\ position.reserved >= n
      BY <1>1, <1>2 DEF PositionOK, CanSell, Least
    <2>2. position' = [qty |-> position.qty - n, reserved |-> position.reserved - n]
      BY <1>2, <1>3 DEF Sold, Least
    <2> QED
      BY <1>2, <2>1, <2>2 DEF PositionOK
  <1> QED
    BY <1>7, <1>8, <1>9

\* A partial fill leaves a stale sibling, which reconciliation refits.
LEMMA FillLegPartRefits ==
    ASSUME RowsInv, NEW c \in ClientIds, NEW k \in Kinds, NEW n \in 1..legs[c][k].remaining,
           NEW id, NEW price \in Nat, FillLeg(c, k, n, id, price), n # legs[c][k].remaining
    PROVE  \E os, ls, pos : /\ OrdersOK(os) /\ LegsReady(ls) /\ pos \in [qty : Nat, reserved : Nat]
                            /\ Reconcile(os, ls, pos)
  <1> DEFINE leg == legs[c][k]
             held == GroupReserved(c)
             hold == held - Least(n, held)
             after == FilledLeg(leg, n, hold)
             Stale(j) == [legs[c][j] EXCEPT !.reserved = 0]
             group == [j \in Kinds |-> IF j = k THEN after ELSE Stale(j)]
             ls == [legs EXCEPT ![c] = group]
             spent == Consume(orders, n, {c})
             sold == Sold(position, n, held)
  <1>1. OrdersOK(orders) /\ LegsOK(legs) /\ PositionOK(position)
    BY RowsInvParts
  <1>2. leg \in Leg /\ LegShape(leg) /\ leg.status = "ACCEPTED" /\ n \in Nat
        /\ held = leg.remaining /\ held \in Nat /\ CanSell(position, n, held)
    BY <1>1 DEF LegsOK, FillLeg, ClaimSucceeds, Leg
  <1>3. Reconcile(spent, ls, sold)
    BY DEF FillLeg
  <1>4. hold \in Nat
    BY <1>2 DEF Least
  <1> HIDE DEF held, hold
  <1>5. after \in Leg /\ after.status = "ACCEPTED" /\ after.fillQty + after.remaining = after.qty
    BY <1>2, <1>4, FilledLegOK
  <1> HIDE DEF after
  <1>6. ASSUME NEW j \in Kinds
        PROVE  Stale(j) \in Leg /\ Stale(j).fillQty + Stale(j).remaining = Stale(j).qty
               /\ Stale(j).status = "ACCEPTED"
    <2>1. legs[c][j] \in Leg /\ LegShape(legs[c][j]) /\ legs[c][j].status = "ACCEPTED"
      BY <1>1, <1>2 DEF LegsOK, Kinds
    <2> QED
      BY <2>1 DEF Leg, LegShape
  <1> HIDE DEF Stale
  <1>7. group \in [Kinds -> Leg]
        /\ \A j \in Kinds : /\ group[j].status = "ACCEPTED"
                            /\ group[j].fillQty + group[j].remaining = group[j].qty
    BY <1>5, <1>6
  <1> HIDE DEF group
  <1>8. LegsReady(ls)
    <2>1. ls \in [ClientIds -> [Kinds -> Leg]] /\ ls[c] = group
          /\ \A d \in ClientIds : d # c => ls[d] = legs[d]
      BY <1>1, <1>7 DEF LegsOK
    <2> HIDE DEF ls
    <2>2. ASSUME NEW d \in ClientIds
          PROVE  /\ ls[d]["stop"].status = "ACCEPTED" <=> ls[d]["take-profit"].status = "ACCEPTED"
                 /\ \A j \in Kinds :
                       /\ ls[d][j].fillQty + ls[d][j].remaining = ls[d][j].qty
                       /\ ls[d][j].status # "ACCEPTED" => ls[d][j].reserved = 0
      <3>1. CASE d = c
        BY <1>7, <2>1, <3>1 DEF Kinds
      <3>2. CASE d # c
        BY <1>1, <2>1, <3>2 DEF LegsOK, LegShape
      <3> QED
        BY <3>1, <3>2
    <2> QED
      BY <2>1, <2>2 DEF LegsReady
  <1>9. OrdersOK(spent)
    BY <1>1, ConsumeOK
  <1>10. sold \in [qty : Nat, reserved : Nat]
    BY <1>1, <1>2, SoldOK
  <1> HIDE DEF spent, sold, ls
  <1> QED
    BY <1>3, <1>8, <1>9, <1>10

LEMMA FillLegPartInv ==
    ASSUME RowsInv, NEW c \in ClientIds, NEW k \in Kinds, NEW n \in 1..legs[c][k].remaining,
           NEW id, NEW price \in Nat, FillLeg(c, k, n, id, price), n # legs[c][k].remaining
    PROVE  OrdersOK(orders') /\ LegsOK(legs') /\ PositionOK(position')
  <1>1. PICK os, ls, pos : /\ OrdersOK(os) /\ LegsReady(ls) /\ pos \in [qty : Nat, reserved : Nat]
                           /\ Reconcile(os, ls, pos)
    BY FillLegPartRefits
  <1> QED
    BY <1>1, ReconcileOK DEF OrdersOK

LEMMA FillLegInv ==
    ASSUME RowsInv, NEW c \in ClientIds, NEW k \in Kinds, NEW n \in 1..legs[c][k].remaining,
           NEW id \in FillIdChoices(<<c, k, legs[c][k].revision>>, n, legs[c][k].remaining),
           NEW price \in Nat, FillLeg(c, k, n, id, price)
    PROVE  RowsInv'
  <1>1. /\ LegsOK(legs) /\ account \in [cash : Int, reserved : Int] /\ nextId \in Nat
        /\ fills \subseteq Fill /\ IsFiniteSet(fills)
    BY RowsInvParts
  <1>2. OrdersOK(orders') /\ LegsOK(legs') /\ PositionOK(position')
    BY FillLegWholeInv, FillLegPartInv
  <1>3. /\ account' = [account EXCEPT !.cash = @ + Proceeds(price, n)]
        /\ Record(id, <<c, k, legs[c][k].revision>>, "SELL", n, price)
        /\ nextId' = nextId
    BY DEF FillLeg
  <1>4. legs[c][k].remaining \in Nat /\ legs[c][k].revision \in Nat /\ n \in Nat
    BY <1>1 DEF LegsOK, Leg
  <1>5. account' \in [cash : Int, reserved : Int]
    BY <1>1, <1>3, <1>4, ProceedsType, PaidType
  <1>6. fills' \subseteq Fill /\ IsFiniteSet(fills')
    BY <1>1, <1>3, <1>4, OwnerType, RecordOK
  <1> QED
    BY <1>1, <1>2, <1>3, <1>5, <1>6, RowsInvPartsNext

LEMMA CancelInv ==
    ASSUME RowsInv, NEW c \in ClientIds, Cancel(c)
    PROVE  RowsInv'
  <1> DEFINE o == orders[c]
             after == [o EXCEPT !.status = "CANCELLED", !.reservedCash = 0, !.reservedQty = 0]
             os == [orders EXCEPT ![c] = after]
             left == position.reserved - o.reservedQty
             pos == [position EXCEPT !.reserved = left]
  <1>1. /\ OrdersOK(orders) /\ LegsOK(legs) /\ PositionOK(position)
        /\ account \in [cash : Int, reserved : Int] /\ nextId \in Nat
        /\ fills \subseteq Fill /\ IsFiniteSet(fills)
    BY RowsInvParts
  <1>2. o \in Order /\ OrderShape(o) /\ o.status = "ACCEPTED" /\ o.reservedCash \in Nat
        /\ o.reservedQty \in Nat
    BY <1>1 DEF OrdersOK, Order, Cancel
  <1>3. /\ account' = [cash |-> account.cash + o.reservedCash,
                       reserved |-> account.reserved - o.reservedCash]
        /\ position.reserved >= o.reservedQty
        /\ Reconcile(os, legs, pos)
        /\ fills' = fills /\ nextId' = nextId
    BY DEF Cancel
  <1>4. after \in Order /\ OrderShape(after)
    BY <1>2 DEF Order, OrderShape, Terminal
  <1> HIDE DEF after
  <1>5. OrdersOK(os)
    BY <1>1, <1>4 DEF OrdersOK
  <1>6. pos \in [qty : Nat, reserved : Nat]
    <2>1. left \in Nat
      BY <1>1, <1>2, <1>3 DEF PositionOK
    <2> HIDE DEF left
    <2> QED
      BY <1>1, <2>1 DEF PositionOK
  <1> HIDE DEF os, pos
  <1>7. orders' = os /\ LegsOK(legs') /\ PositionOK(position')
    BY <1>1, <1>3, <1>5, <1>6, LegsOKReady, ReconcileOK DEF OrdersOK
  <1>8. account' \in [cash : Int, reserved : Int]
    BY <1>1, <1>2, <1>3
  <1> QED
    BY <1>1, <1>3, <1>5, <1>7, <1>8, RowsInvPartsNext

LEMMA CancelLegInv ==
    ASSUME RowsInv, NEW c \in ClientIds, NEW k \in Kinds, CancelLeg(c, k)
    PROVE  RowsInv'
  <1> DEFINE held == GroupReserved(c)
             left == position.reserved - held
             group == [j \in Kinds |-> CancelledLeg(legs[c][j])]
  <1>1. /\ OrdersOK(orders) /\ LegsOK(legs) /\ PositionOK(position)
        /\ account \in [cash : Int, reserved : Int] /\ nextId \in Nat
        /\ fills \subseteq Fill /\ IsFiniteSet(fills)
    BY RowsInvParts
  <1>2. /\ held = legs[c][k].remaining /\ position.reserved >= held
        /\ position' = [position EXCEPT !.reserved = left]
        /\ legs' = [legs EXCEPT ![c] = group]
        /\ orders' = Consume(orders, legs[c][k].qty, {c})
        /\ account' = account /\ fills' = fills /\ nextId' = nextId
    BY DEF CancelLeg, ClaimSucceeds
  <1>3. OrdersOK(orders')
    BY <1>1, <1>2, ConsumeOK
  <1>4. LegsOK(legs')
    <2>1. group \in [Kinds -> Leg] /\ \A j \in Kinds : LegShape(group[j]) /\ group[j].status # "ACCEPTED"
      BY <1>1, CancelledLegOK DEF LegsOK
    <2> HIDE DEF group
    <2> QED
      BY <1>1, <1>2, <2>1, GroupEndsOK
  <1>5. PositionOK(position')
    <2>1. held \in Nat
      BY <1>1, <1>2 DEF LegsOK, Leg
    <2> HIDE DEF held
    <2>2. left \in Nat /\ left <= position.qty
      BY <1>1, <1>2, <2>1 DEF PositionOK
    <2> HIDE DEF left
    <2> QED
      BY <1>1, <1>2, <2>2 DEF PositionOK
  <1> QED
    BY <1>1, <1>2, <1>3, <1>4, <1>5, RowsInvPartsNext

LEMMA RecoverInv ==
    ASSUME RowsInv, Recover
    PROVE  RowsInv'
  <1>1. /\ OrdersOK(orders) /\ LegsOK(legs) /\ PositionOK(position)
        /\ account \in [cash : Int, reserved : Int] /\ nextId \in Nat
        /\ fills \subseteq Fill /\ IsFiniteSet(fills)
    BY RowsInvParts
  <1>2. Reconcile(orders, legs, position) /\ account' = account /\ fills' = fills /\ nextId' = nextId
    BY DEF Recover
  <1>3. orders' = orders /\ LegsOK(legs') /\ PositionOK(position')
    BY <1>1, <1>2, LegsOKReady, ReconcileOK DEF OrdersOK, PositionOK
  <1> QED
    BY <1>1, <1>2, <1>3, RowsInvPartsNext

\* A fill of an explicit order and of a leg, with the price its quote gave.
LEMMA OrderPriceType ==
    ASSUME RowsInv, NEW c \in ClientIds, NEW q \in Quotes,
           NEW price \in FillPrice(orders[c].side, orders[c].type, orders[c].price, q)
    PROVE  price \in Nat
  <1>1. orders[c] \in Order
    BY RowsInvParts DEF OrdersOK
  <1>2. /\ orders[c].side \in {"BUY", "SELL"} /\ orders[c].type \in {"LIMIT", "STOP_MARKET"}
        /\ orders[c].price \in Nat
    BY <1>1 DEF Order
  <1> QED
    BY <1>2, FillPriceType

LEMMA LegPriceType ==
    ASSUME NEW k \in Kinds, NEW q \in Quotes,
           NEW price \in FillPrice("SELL", LegType(k), LegPrice(k), q)
    PROVE  price \in Nat
  <1>1. LegType(k) \in {"LIMIT", "STOP_MARKET"} /\ LegPrice(k) \in Nat
    BY PaperConstants DEF LegType, LegPrice
  <1> QED
    BY <1>1, FillPriceType

LEMMA NextInv ==
    RowsInv /\ [Next]_vars => RowsInv'
  <1> SUFFICES ASSUME RowsInv, [Next]_vars PROVE RowsInv'
    OBVIOUS
  <1>1. CASE Submit
    BY <1>1, SubmitBuyInv, SubmitSellInv DEF Submit
  <1>2. CASE FillOrder
    BY <1>2, OrderPriceType, FillBuyInv, FillSellInv DEF FillOrder
  <1>3. CASE FillAutomatic
    BY <1>3, LegPriceType, FillLegInv DEF FillAutomatic
  <1>4. CASE CancelAny
    BY <1>4, CancelInv, CancelLegInv DEF CancelAny
  <1>5. CASE Recover
    BY <1>5, RecoverInv
  <1>6. CASE UNCHANGED vars
    BY <1>6 DEF vars, RowsInv, TypeOK, OneReservationPerGroup, ClaimSucceeds, GroupReserved
  <1> QED
    BY <1>1, <1>2, <1>3, <1>4, <1>5, <1>6 DEF Next
-----------------------------------------------------------------------------
(* Theorems *)

\* The inductive invariant holds in every reachable state of the ledger.
THEOREM RowsInvHolds == Spec => []RowsInv
  BY InitInv, NextInv, PTL DEF Spec

\* Every row the transactions write stays in its columns' domains: no share
\* count, reservation or protection goes below zero.
THEOREM TypeCorrect == Spec => []TypeOK
  <1>1. RowsInv => TypeOK
    BY DEF RowsInv
  <1> QED
    BY <1>1, RowsInvHolds, PTL

\* The legs of a lot are open together and their one reservation is the whole
\* remaining quantity, so claimPaperOCOReservationTx never refuses a leg.
THEOREM GroupsCanClaim == Spec => []OneReservationPerGroup
  <1>1. RowsInv => OneReservationPerGroup
    BY DEF RowsInv
  <1> QED
    BY <1>1, RowsInvHolds, PTL
-----------------------------------------------------------------------------
(* PaperLedger implements TradeBook: every transaction is a trade of the book, *)
(* a closing of owners, or a stutter.                                          *)

-----------------------------------------------------------------------------
(* Owners that closed stay closed *)

\* What is never undone: a terminal order and a terminal or replaced leg.
OrdersMove(before, after) ==
    \A c \in ClientIds : before[c].status \in Terminal => after[c].status \in Terminal

LegsMove(before, after) == \A c \in ClientIds, k \in Kinds :
    /\ before[c][k].revision \in Nat /\ after[c][k].revision \in Nat
    /\ before[c][k].revision <= after[c][k].revision
    /\ before[c][k].revision = after[c][k].revision /\ before[c][k].status \in Terminal
           => after[c][k].status \in Terminal

LegClosed(ls, c, k, v) ==
    v \in 0..ls[c][k].revision /\ (v < ls[c][k].revision \/ ls[c][k].status \in Terminal)

LEMMA ClosedOrderMember ==
    ASSUME NEW x
    PROVE  x \in ClosedOrders <=> \E c \in ClientIds : orders[c].status \in Terminal /\ x = <<c, "order", 0>>
  BY DEF ClosedOrders

LEMMA ClosedLegMember ==
    ASSUME NEW c, NEW k, NEW x
    PROVE  x \in ClosedLegs(c, k) <=> \E v : LegClosed(legs, c, k, v) /\ x = <<c, k, v>>
  BY DEF ClosedLegs, LegClosed

LEMMA ClosedMember ==
    ASSUME NEW x
    PROVE  x \in ClosedOwners <=>
              \/ x \in ClosedOrders
              \/ \E c \in ClientIds, k \in Kinds : x \in ClosedLegs(c, k)
  BY DEF ClosedOwners, Kinds

\* The same one step later.
LEMMA ClosedOrderMemberNext ==
    ASSUME NEW x
    PROVE  x \in ClosedOrders' <=> \E c \in ClientIds : orders'[c].status \in Terminal /\ x = <<c, "order", 0>>
  BY DEF ClosedOrders

LEMMA ClosedLegMemberNext ==
    ASSUME NEW c, NEW k, NEW x
    PROVE  x \in ClosedLegs(c, k)' <=> \E v : LegClosed(legs', c, k, v) /\ x = <<c, k, v>>
  BY DEF ClosedLegs, LegClosed

LEMMA ClosedMemberNext ==
    ASSUME NEW x
    PROVE  x \in ClosedOwners' <=>
              \/ x \in ClosedOrders'
              \/ \E c \in ClientIds, k \in Kinds : x \in ClosedLegs(c, k)'
  BY DEF ClosedOwners, Kinds

LEMMA ClosedGrows ==
    ASSUME OrdersMove(orders, orders'), LegsMove(legs, legs')
    PROVE  ClosedOwners \subseteq ClosedOwners'
  <1>1. ASSUME NEW c \in ClientIds, NEW k \in Kinds, NEW v, LegClosed(legs, c, k, v)
        PROVE  LegClosed(legs', c, k, v)
    BY <1>1 DEF LegsMove, LegClosed
  <1>2. ClosedOrders \subseteq ClosedOrders'
    BY ClosedOrderMember, ClosedOrderMemberNext DEF OrdersMove
  <1>3. \A c \in ClientIds, k \in Kinds : ClosedLegs(c, k) \subseteq ClosedLegs(c, k)'
    BY <1>1, ClosedLegMember, ClosedLegMemberNext
  <1> QED
    BY <1>2, <1>3, ClosedMember, ClosedMemberNext

LEMMA LegsMoveRefl ==
    ASSUME NEW ls \in [ClientIds -> [Kinds -> Leg]] PROVE LegsMove(ls, ls)
  BY DEF LegsMove, Leg

LEMMA LegsMoveTrans ==
    ASSUME NEW a, NEW b, NEW c, LegsMove(a, b), LegsMove(b, c) PROVE LegsMove(a, c)
  BY DEF LegsMove

LEMMA ConsumeMoves ==
    ASSUME NEW os, OrdersOK(os), NEW n, NEW preferred
    PROVE  OrdersMove(os, Consume(os, n, preferred))
  <1> DEFINE used == Allocate(os, n, preferred)
  <1>1. Consume(os, n, preferred) = [c \in ClientIds |-> [os[c] EXCEPT !.protection = @ - used[c]]]
    BY DEF Consume
  <1> HIDE DEF used
  <1> QED
    BY <1>1 DEF OrdersMove, OrdersOK, Order

\* Reconciliation cancels or resizes an open leg and replaces a closed one.
LEMMA FittedLegMoves ==
    ASSUME NEW leg \in Leg, NEW k \in Kinds, NEW want \in Nat
    PROVE  LET new == FittedLeg(leg, k, want)
           IN  /\ new.revision \in Nat /\ leg.revision <= new.revision
               /\ new.revision = leg.revision /\ leg.status \in Terminal => new.status \in Terminal
  <1> DEFINE new == FittedLeg(leg, k, want)
             held == IF k = "stop" THEN want ELSE 0
             size == leg.fillQty + want
  <1>1. leg.revision \in Nat
    BY DEF Leg
  <1>2. CASE want = 0
    BY <1>1, <1>2 DEF FittedLeg, CancelledLeg, Leg, Terminal
  <1>3. CASE want # 0 /\ leg.status = "ACCEPTED"
    <2>1. new = [leg EXCEPT !.qty = size, !.remaining = want, !.reserved = held]
      BY <1>3 DEF FittedLeg
    <2> HIDE DEF size, held, new
    <2>2. new.revision = leg.revision
      BY <2>1 DEF Leg
    <2> QED
      BY <1>1, <1>3, <2>2 DEF Terminal, new
  <1>4. CASE want # 0 /\ leg.status # "ACCEPTED"
    <2>1. new.revision = leg.revision + 1
      BY <1>4 DEF FittedLeg
    <2> QED
      BY <1>1, <2>1
  <1> QED
    BY <1>2, <1>3, <1>4

LEMMA FittedLegsMove ==
    ASSUME NEW os \in [ClientIds -> Order], NEW ls \in [ClientIds -> [Kinds -> Leg]], NEW pos, NEW extra
    PROVE  LegsMove(ls, FittedLegs(os, ls, pos, extra))
  <1> DEFINE want == Fitted(os, ls, pos, extra)
             new == FittedLegs(os, ls, pos, extra)
  <1>1. ASSUME NEW c \in ClientIds PROVE want[c] \in Nat
    <2>1. want[c] \in 0..os[c].protection /\ os[c].protection \in Nat
      BY AllocateBounds DEF Fitted, Order
    <2> QED
      BY <2>1
  <1>2. new = [c \in ClientIds |-> [k \in Kinds |-> FittedLeg(ls[c][k], k, want[c])]]
    BY DEF FittedLegs
  <1> HIDE DEF want, new
  <1>3. ASSUME NEW c \in ClientIds, NEW k \in Kinds
        PROVE  /\ ls[c][k].revision \in Nat /\ new[c][k].revision \in Nat
               /\ ls[c][k].revision <= new[c][k].revision
               /\ ls[c][k].revision = new[c][k].revision /\ ls[c][k].status \in Terminal
                      => new[c][k].status \in Terminal
    <2>1. ls[c][k] \in Leg /\ ls[c][k].revision \in Nat /\ want[c] \in Nat
      BY <1>1 DEF Leg
    <2>2. new[c][k] = FittedLeg(ls[c][k], k, want[c])
      BY <1>2
    <2> QED
      BY <2>1, <2>2, FittedLegMoves
  <1> QED
    BY <1>3 DEF LegsMove, new
-----------------------------------------------------------------------------
(* Steps of the book *)

\* A transaction that records a fill of an open owner and moves what the fill
\* says is a trade.
LEMMA TradeStep ==
    ASSUME NEW id, NEW owner, NEW side \in {"BUY", "SELL"}, NEW n \in Nat, NEW price \in Nat,
           Record(id, owner, side, n, price), ~FillIdUsed(id), owner \notin ClosedOwners,
           side = "SELL" => n <= position.qty,
           account'.cash + account'.reserved = account.cash + account.reserved
               + (IF side = "BUY" THEN -(price * n) - Fee(price * n) ELSE price * n - Fee(price * n)),
           position'.qty = position.qty + (IF side = "BUY" THEN n ELSE -n),
           ClosedOwners \subseteq ClosedOwners'
    PROVE  Book!BookNext
  <1> DEFINE t == [id |-> id, owner |-> owner, side |-> side, qty |-> n,
                   price |-> price, fee |-> Fee(price * n)]
  <1>1. fills' = fills \cup {t}
    BY DEF Record
  <1>2. t.id = id /\ t.owner = owner /\ t.side = side /\ t.qty = n /\ t.price = price
        /\ t.fee = Fee(price * n)
    OBVIOUS
  <1> HIDE DEF t
  <1>3. \A u \in fills : u.id # t.id
    BY <1>2 DEF FillIdUsed
  <1>4. account'.cash + account'.reserved = account.cash + account.reserved + Book!CashFlow(t)
        /\ position'.qty = position.qty + Book!ShareFlow(t)
    BY <1>2 DEF Book!CashFlow, Book!ShareFlow
  <1>5. Book!Trade(t)
    BY <1>1, <1>2, <1>3, <1>4 DEF Book!Trade
  <1>6. t \in fills'
    BY <1>1
  <1> QED
    BY <1>5, <1>6 DEF Book!BookNext

LEMMA CloseStep ==
    ASSUME fills' = fills, position'.qty = position.qty,
           account'.cash + account'.reserved = account.cash + account.reserved,
           OrdersMove(orders, orders'), LegsMove(legs, legs')
    PROVE  Book!BookNext
  BY ClosedGrows DEF Book!BookNext, Book!Close

\* An open order, and an open leg's newest version, are not closed.
LEMMA OpenOrder ==
    ASSUME NEW c \in ClientIds, orders[c].status = "ACCEPTED"
    PROVE  <<c, "order", 0>> \notin ClosedOwners
  <1>1. <<c, "order", 0>> \notin ClosedOrders
    BY ClosedOrderMember DEF Terminal
  <1>2. \A d \in ClientIds, k \in Kinds : <<c, "order", 0>> \notin ClosedLegs(d, k)
    BY ClosedLegMember DEF Kinds
  <1> QED
    BY <1>1, <1>2, ClosedMember

LEMMA OpenLeg ==
    ASSUME NEW c \in ClientIds, NEW k \in Kinds, legs[c][k].status = "ACCEPTED",
           legs[c][k].revision \in Nat
    PROVE  <<c, k, legs[c][k].revision>> \notin ClosedOwners
  <1> DEFINE x == <<c, k, legs[c][k].revision>>
  <1>1. x \notin ClosedOrders
    BY ClosedOrderMember DEF Kinds
  <1>2. ASSUME NEW d \in ClientIds, NEW j \in Kinds, x \in ClosedLegs(d, j) PROVE FALSE
    <2>1. PICK v : LegClosed(legs, d, j, v) /\ x = <<d, j, v>>
      BY <1>2, ClosedLegMember
    <2>2. d = c /\ j = k /\ v = legs[c][k].revision
      BY <2>1
    <2> QED
      BY <2>1, <2>2 DEF LegClosed, Terminal
  <1> QED
    BY <1>1, <1>2, ClosedMember

LEMMA SubmitStep ==
    ASSUME RowsInv, NEW c \in ClientIds, NEW r \in Requests, NEW acceptable \in BOOLEAN,
           SubmitBuy(c, r, acceptable) \/ SubmitSell(c, r, acceptable)
    PROVE  Book!BookNext
  <1>1. orders \in [ClientIds -> Order] /\ legs \in [ClientIds -> [Kinds -> Leg]]
        /\ account \in [cash : Int, reserved : Int] /\ position \in [qty : Nat, reserved : Nat]
    BY DEF RowsInv, TypeOK
  <1>2. orders[c].status = "NONE" /\ \E new : orders' = [orders EXCEPT ![c] = new]
    BY DEF SubmitBuy, SubmitSell
  <1>3. OrdersMove(orders, orders')
    BY <1>1, <1>2 DEF OrdersMove, Terminal
  <1>4. CASE SubmitBuy(c, r, acceptable)
    <2>1. r.price * r.qty + Fee(r.price * r.qty) \in Nat
      BY RequestType
    <2> DEFINE cost == r.price * r.qty + Fee(r.price * r.qty)
    <2>2. account' = account \/ account' = [cash |-> account.cash - cost, reserved |-> account.reserved + cost]
      BY <1>4 DEF SubmitBuy, Cost
    <2>3. legs' = legs /\ position' = position /\ fills' = fills
      BY <1>4 DEF SubmitBuy
    <2> HIDE DEF cost
    <2>4. account'.cash + account'.reserved = account.cash + account.reserved
      BY <1>1, <2>1, <2>2 DEF cost
    <2> QED
      BY <1>1, <1>3, <2>3, <2>4, LegsMoveRefl, CloseStep
  <1>5. CASE SubmitSell(c, r, acceptable)
    <2>1. /\ fills' = fills /\ account' = account
          /\ legs' = legs \/ legs' = FittedLegs(orders, legs, position, r.qty)
          /\ position' = position \/ \E x : position' = [position EXCEPT !.reserved = x]
      BY <1>5 DEF SubmitSell
    <2>2. position'.qty = position.qty
      BY <1>1, <2>1
    <2>3. LegsMove(legs, legs')
      BY <1>1, <2>1, LegsMoveRefl, FittedLegsMove
    <2> QED
      BY <1>3, <2>1, <2>2, <2>3, CloseStep
  <1> QED
    BY <1>4, <1>5

LEMMA FillBuyStep ==
    ASSUME RowsInv, NEW c \in ClientIds, NEW n \in 1..orders[c].remaining,
           NEW id, NEW price \in Nat, NEW at \in Instants, FillBuy(c, n, id, price, at), RowsInv'
    PROVE  Book!BookNext
  <1> DEFINE o == orders[c]
             share == ReservedShare(o.reservedCash, n, o.remaining)
             cost == price * n + Fee(price * n)
  <1>1. orders \in [ClientIds -> Order] /\ legs \in [ClientIds -> [Kinds -> Leg]]
        /\ account \in [cash : Int, reserved : Int] /\ position \in [qty : Nat, reserved : Nat]
        /\ IsFiniteSet(fills) /\ OrderShape(o)
    BY DEF RowsInv, TypeOK
  <1>2. o \in Order /\ o.remaining \in Nat \ {0} /\ o.reservedCash \in Nat /\ n \in Nat
        /\ o.status = "ACCEPTED"
    BY <1>1 DEF Order, FillBuy
  <1>3. /\ account' = [cash |-> account.cash - Most(0, cost - share) + Most(0, share - cost),
                       reserved |-> account.reserved - share]
        /\ Record(id, <<c, "order", 0>>, "BUY", n, price) /\ ~FillIdUsed(id)
        /\ \E new : orders' = [orders EXCEPT ![c] = new]
        /\ \E os : legs' = FittedLegs(os, legs, [position EXCEPT !.qty = position.qty + n], 0)
                   /\ os = orders'
        /\ \E x : position' = [[position EXCEPT !.qty = position.qty + n] EXCEPT !.reserved = x]
    BY DEF FillBuy, Reconcile
  <1>4. share \in Int
    BY <1>2, ReservedShareType
  <1>5. cost \in Int
    <2>1. price * n \in Nat
      BY <1>2
    <2>2. Fee(price * n) \in Nat
      BY <2>1, FeeType
    <2> QED
      BY <2>1, <2>2
  <1> HIDE DEF share, cost
  <1>6. account'.cash + account'.reserved = account.cash + account.reserved - cost
    <2>1. account.cash \in Int /\ account.reserved \in Int
      BY <1>1
    <2> QED
      BY <1>3, <1>4, <1>5, <2>1 DEF Most
  <1>7. position'.qty = position.qty + n
    BY <1>1, <1>3
  <1>8. OrdersMove(orders, orders')
    BY <1>1, <1>2, <1>3 DEF OrdersMove, Terminal
  <1>9. LegsMove(legs, legs')
    <2> DEFINE pos == [position EXCEPT !.qty = position.qty + n]
    <2>1. PICK os : legs' = FittedLegs(os, legs, pos, 0) /\ os = orders'
      BY <1>3
    <2> HIDE DEF pos
    <2>2. os \in [ClientIds -> Order]
      BY <2>1 DEF RowsInv, TypeOK
    <2>3. LegsMove(legs, FittedLegs(os, legs, pos, 0))
      BY <1>1, <2>2, FittedLegsMove
    <2> QED
      BY <2>1, <2>3
  <1>10. <<c, "order", 0>> \notin ClosedOwners
    BY <1>2, OpenOrder
  <1>11. ClosedOwners \subseteq ClosedOwners'
    BY <1>8, <1>9, ClosedGrows
  <1>12. account'.cash + account'.reserved = account.cash + account.reserved
             + (-(price * n) - Fee(price * n))
    <2>1. price * n \in Int /\ Fee(price * n) \in Int
      BY <1>2, FeeType
    <2>2. account.cash \in Int /\ account.reserved \in Int
      BY <1>1
    <2> QED
      BY <1>6, <2>1, <2>2 DEF cost
  <1> QED
    BY <1>2, <1>3, <1>7, <1>10, <1>11, <1>12, TradeStep

\* The money of a SELL reaches the account.
LEMMA PaidStep ==
    ASSUME account \in [cash : Int, reserved : Int], NEW price \in Nat, NEW n \in Nat,
           account' = [account EXCEPT !.cash = @ + Proceeds(price, n)]
    PROVE  account'.cash + account'.reserved = account.cash + account.reserved
               + (price * n - Fee(price * n))
  <1>1. price * n \in Nat
    OBVIOUS
  <1>2. Fee(price * n) \in Nat
    BY <1>1, FeeType
  <1> DEFINE paid == price * n - Fee(price * n)
             money == account.cash + paid
  <1>3. paid \in Int /\ Proceeds(price, n) = paid
    BY <1>1, <1>2 DEF Proceeds
  <1> HIDE DEF paid
  <1>4. account' = [account EXCEPT !.cash = money] /\ money \in Int
    BY <1>3
  <1>5. account'.cash = money /\ account'.reserved = account.reserved
    BY <1>4
  <1>6. account.cash \in Int /\ account.reserved \in Int
    OBVIOUS
  <1> QED
    BY <1>3, <1>5, <1>6 DEF paid

\* Reconciliation moves legs forward and no shares.
LEMMA ReconcileStep ==
    ASSUME RowsInv', NEW os, NEW ls \in [ClientIds -> [Kinds -> Leg]],
           NEW pos \in [qty : Nat, reserved : Nat], Reconcile(os, ls, pos)
    PROVE  LegsMove(ls, legs') /\ position'.qty = pos.qty /\ orders' = os
  <1>1. orders' = os /\ legs' = FittedLegs(os, ls, pos, 0)
        /\ \E x : position' = [pos EXCEPT !.reserved = x]
    BY DEF Reconcile
  <1>2. os \in [ClientIds -> Order]
    BY <1>1 DEF RowsInv, TypeOK
  <1> QED
    BY <1>1, <1>2, FittedLegsMove

LEMMA FillSellStep ==
    ASSUME RowsInv, NEW c \in ClientIds, NEW n \in 1..orders[c].remaining,
           NEW id, NEW price \in Nat, NEW at \in Instants, FillSell(c, n, id, price, at), RowsInv'
    PROVE  Book!BookNext
  <1> DEFINE o == orders[c]
             new == [Filled(o, n, at) EXCEPT !.reservedQty = @ - Least(n, @)]
             os == [orders EXCEPT ![c] = new]
             spent == Consume(os, n, {})
             used == Allocate(os, n, {})
             pos == Sold(position, n, o.reservedQty)
  <1>1. orders \in [ClientIds -> Order] /\ legs \in [ClientIds -> [Kinds -> Leg]]
        /\ account \in [cash : Int, reserved : Int] /\ PositionOK(position)
    BY DEF RowsInv, TypeOK, PositionOK
  <1>2. o.status = "ACCEPTED" /\ n \in Nat /\ o.reservedQty \in Nat /\ o.remaining \in Nat
    BY <1>1 DEF Order, FillSell
  <1>3. /\ account' = [account EXCEPT !.cash = @ + Proceeds(price, n)]
        /\ Record(id, <<c, "order", 0>>, "SELL", n, price) /\ ~FillIdUsed(id)
        /\ CanSell(position, n, o.reservedQty)
        /\ Reconcile(spent, legs, pos)
    BY DEF FillSell
  <1>4. spent = [d \in ClientIds |-> [os[d] EXCEPT !.protection = @ - used[d]]]
    BY DEF Consume
  <1> HIDE DEF new, used
  <1>5. pos \in [qty : Nat, reserved : Nat] /\ pos.qty = position.qty - n /\ n <= position.qty
    <2>1. pos \in [qty : Nat, reserved : Nat]
      BY <1>1, <1>2, <1>3, SoldOK
    <2> QED
      BY <1>1, <1>2, <1>3, <2>1 DEF Sold, CanSell, PositionOK
  <1> HIDE DEF spent, pos
  <1>6. orders' = spent /\ LegsMove(legs, legs') /\ position'.qty = pos.qty
    BY <1>1, <1>3, <1>5, ReconcileStep
  <1>7. OrdersMove(orders, orders')
    <2>1. ASSUME NEW d \in ClientIds, d # c PROVE spent[d].status = orders[d].status
      BY <1>1, <1>4, <2>1 DEF Order
    <2> QED
      BY <1>2, <1>6, <2>1 DEF OrdersMove, Terminal
  <1>8. <<c, "order", 0>> \notin ClosedOwners
    BY <1>2, OpenOrder
  <1>9. ClosedOwners \subseteq ClosedOwners'
    BY <1>6, <1>7, ClosedGrows
  <1>10. account'.cash + account'.reserved = account.cash + account.reserved + (price * n - Fee(price * n))
    BY <1>1, <1>2, <1>3, PaidStep
  <1>11. position'.qty = position.qty + (-n)
    BY <1>1, <1>2, <1>5, <1>6 DEF PositionOK
  <1> QED
    BY <1>2, <1>3, <1>5, <1>8, <1>9, <1>10, <1>11, TradeStep

LEMMA FillLegMoves ==
    ASSUME RowsInv, NEW c \in ClientIds, NEW k \in Kinds, NEW n \in 1..legs[c][k].remaining,
           NEW id, NEW price \in Nat, FillLeg(c, k, n, id, price), RowsInv'
    PROVE  /\ OrdersMove(orders, orders') /\ LegsMove(legs, legs')
           /\ position'.qty = position.qty + (-n) /\ n <= position.qty
  <1> DEFINE leg == legs[c][k]
             held == GroupReserved(c)
             after == FilledLeg(leg, n, held - Least(n, held))
             Ended(j) == IF j = k THEN after ELSE CancelledLeg(legs[c][j])
             Left(j) == IF j = k THEN after ELSE [legs[c][j] EXCEPT !.reserved = 0]
             ls == [legs EXCEPT ![c] = [j \in Kinds |-> Left(j)]]
             spent == Consume(orders, n, {c})
             sold == Sold(position, n, held)
  <1>1. OrdersOK(orders) /\ LegsOK(legs) /\ PositionOK(position)
    BY RowsInvParts
  <1>2. leg \in Leg /\ LegShape(leg) /\ leg.status = "ACCEPTED" /\ n \in Nat
        /\ held = leg.remaining /\ held \in Nat /\ CanSell(position, n, held)
    BY <1>1 DEF LegsOK, FillLeg, ClaimSucceeds, Leg
  <1>3. after \in Leg /\ after.revision = leg.revision
    <2>1. held - Least(n, held) \in Nat
      BY <1>2 DEF Least
    <2>2. after \in Leg
      BY <1>2, <2>1, FilledLegOK
    <2>3. \E a, b, d, e : after = [leg EXCEPT !.fillQty = a, !.remaining = b, !.reserved = d, !.status = e]
      BY DEF FilledLeg
    <2> HIDE DEF after, held
    <2> QED
      BY <1>2, <2>2, <2>3 DEF Leg
  <1>4. sold \in [qty : Nat, reserved : Nat] /\ sold.qty = position.qty - n /\ n <= position.qty
    <2>1. sold \in [qty : Nat, reserved : Nat]
      BY <1>1, <1>2, SoldOK
    <2> QED
      BY <1>1, <1>2, <2>1 DEF Sold, CanSell, PositionOK
  <1>5. OrdersMove(orders, spent) /\ OrdersOK(spent)
    BY <1>1, ConsumeMoves, ConsumeOK
  <1>6. \/ /\ orders' = [spent EXCEPT ![c].filledLegs = @ + 1]
           /\ legs' = [legs EXCEPT ![c] = [j \in Kinds |-> Ended(j)]]
           /\ position' = sold
        \/ Reconcile(spent, ls, sold)
    BY DEF FillLeg
  <1>7. ASSUME NEW j \in Kinds
        PROVE  /\ legs[c][j] \in Leg /\ legs[c][j].revision \in Nat
               /\ Ended(j).revision = legs[c][j].revision
               /\ j # k /\ legs[c][j].status \in Terminal => Ended(j).status \in Terminal
               /\ Left(j) \in Leg /\ Left(j).revision = legs[c][j].revision
               /\ j # k => Left(j).status = legs[c][j].status
    <2>1. legs[c][j] \in Leg
      BY <1>1 DEF LegsOK
    <2> HIDE DEF after
    <2>2. CASE j = k
      BY <1>3, <2>1, <2>2 DEF Leg
    <2>3. CASE j # k
      BY <2>1, <2>3 DEF Leg, CancelledLeg, Terminal
    <2> QED
      BY <2>2, <2>3
  <1> HIDE DEF Ended, Left, spent, sold, held, after
  <1>8. CASE /\ orders' = [spent EXCEPT ![c].filledLegs = @ + 1]
             /\ legs' = [legs EXCEPT ![c] = [j \in Kinds |-> Ended(j)]]
             /\ position' = sold
    <2>1. OrdersMove(spent, orders')
      BY <1>5, <1>8 DEF OrdersMove, OrdersOK, Order
    <2>2. LegsMove(legs, legs')
      <3>1. ASSUME NEW d \in ClientIds, NEW j \in Kinds
            PROVE  /\ legs[d][j].revision \in Nat /\ legs'[d][j].revision \in Nat
                   /\ legs[d][j].revision <= legs'[d][j].revision
                   /\ legs[d][j].revision = legs'[d][j].revision /\ legs[d][j].status \in Terminal
                          => legs'[d][j].status \in Terminal
        <4>1. legs[d][j] \in Leg /\ legs[d][j].revision \in Nat
          BY <1>1 DEF LegsOK, Leg
        <4>2. CASE d = c
          <5>1. legs'[d][j] = Ended(j)
            BY <1>1, <1>8, <4>2 DEF LegsOK
          <5> QED
            BY <1>2, <1>7, <4>1, <4>2, <5>1 DEF Terminal
        <4>3. CASE d # c
          <5>1. legs'[d][j] = legs[d][j]
            BY <1>1, <1>8, <4>3 DEF LegsOK
          <5> QED
            BY <4>1, <5>1
        <4> QED
          BY <4>2, <4>3
      <3> QED
        BY <3>1 DEF LegsMove
    <2>3. OrdersMove(orders, orders')
      BY <1>5, <2>1 DEF OrdersMove
    <2>4. position.qty \in Nat
      BY <1>1 DEF PositionOK
    <2> QED
      BY <1>2, <1>4, <1>8, <2>2, <2>3, <2>4
  <1>9. CASE Reconcile(spent, ls, sold)
    <2>1. ls \in [ClientIds -> [Kinds -> Leg]]
      BY <1>1, <1>7 DEF LegsOK
    <2>2. LegsMove(legs, ls)
      <3>1. ASSUME NEW d \in ClientIds, NEW j \in Kinds
            PROVE  /\ legs[d][j].revision \in Nat /\ ls[d][j].revision = legs[d][j].revision
                   /\ legs[d][j].status \in Terminal => ls[d][j].status \in Terminal
        <4>1. legs[d][j] \in Leg /\ legs[d][j].revision \in Nat
          BY <1>1 DEF LegsOK, Leg
        <4>2. CASE d = c
          <5>1. ls[d][j] = Left(j)
            BY <1>1, <4>2 DEF LegsOK
          <5> QED
            BY <1>2, <1>7, <4>1, <4>2, <5>1 DEF Terminal
        <4>3. CASE d # c
          <5>1. ls[d][j] = legs[d][j]
            BY <1>1, <4>3 DEF LegsOK
          <5> QED
            BY <4>1, <5>1
        <4> QED
          BY <4>2, <4>3
      <3> HIDE DEF ls
      <3> QED
        BY <3>1 DEF LegsMove
    <2> HIDE DEF ls
    <2>3. LegsMove(ls, legs') /\ position'.qty = sold.qty /\ orders' = spent
      BY <1>4, <1>9, <2>1, ReconcileStep
    <2>4. position.qty \in Nat
      BY <1>1 DEF PositionOK
    <2> QED
      BY <1>2, <1>4, <1>5, <2>2, <2>3, <2>4, LegsMoveTrans
  <1> QED
    BY <1>6, <1>8, <1>9

LEMMA FillLegStep ==
    ASSUME RowsInv, NEW c \in ClientIds, NEW k \in Kinds, NEW n \in 1..legs[c][k].remaining,
           NEW id, NEW price \in Nat, FillLeg(c, k, n, id, price), RowsInv'
    PROVE  Book!BookNext
  <1>1. legs[c][k] \in Leg /\ account \in [cash : Int, reserved : Int]
    BY DEF RowsInv, TypeOK
  <1>2. legs[c][k].status = "ACCEPTED" /\ n \in Nat /\ legs[c][k].revision \in Nat
    BY <1>1 DEF Leg, FillLeg
  <1>3. /\ account' = [account EXCEPT !.cash = @ + Proceeds(price, n)]
        /\ Record(id, <<c, k, legs[c][k].revision>>, "SELL", n, price) /\ ~FillIdUsed(id)
    BY DEF FillLeg
  <1>4. ClosedOwners \subseteq ClosedOwners' /\ position'.qty = position.qty + (-n) /\ n <= position.qty
    BY FillLegMoves, ClosedGrows
  <1>5. <<c, k, legs[c][k].revision>> \notin ClosedOwners
    BY <1>2, OpenLeg
  <1>6. account'.cash + account'.reserved = account.cash + account.reserved + (price * n - Fee(price * n))
    BY <1>1, <1>2, <1>3, PaidStep
  <1> QED
    BY <1>2, <1>3, <1>4, <1>5, <1>6, TradeStep

LEMMA CancelStep ==
    ASSUME RowsInv, NEW c \in ClientIds, Cancel(c), RowsInv'
    PROVE  Book!BookNext
  <1> DEFINE o == orders[c]
             new == [o EXCEPT !.status = "CANCELLED", !.reservedCash = 0, !.reservedQty = 0]
             os == [orders EXCEPT ![c] = new]
             left == position.reserved - o.reservedQty
             pos == [position EXCEPT !.reserved = left]
  <1>1. orders \in [ClientIds -> Order] /\ legs \in [ClientIds -> [Kinds -> Leg]]
        /\ account \in [cash : Int, reserved : Int] /\ PositionOK(position)
    BY DEF RowsInv, TypeOK, PositionOK
  <1>2. o.status = "ACCEPTED" /\ o.reservedQty \in Nat /\ o.reservedCash \in Nat
    BY <1>1 DEF Order, Cancel
  <1>3. /\ account' = [cash |-> account.cash + o.reservedCash,
                       reserved |-> account.reserved - o.reservedCash]
        /\ position.reserved >= o.reservedQty
        /\ Reconcile(os, legs, pos)
        /\ fills' = fills
    BY DEF Cancel
  <1>4. pos \in [qty : Nat, reserved : Nat] /\ pos.qty = position.qty
    <2>1. left \in Nat
      BY <1>1, <1>2, <1>3 DEF PositionOK
    <2> HIDE DEF left
    <2> QED
      BY <1>1, <2>1 DEF PositionOK
  <1> HIDE DEF pos, new
  <1>5. LegsMove(legs, legs') /\ position'.qty = position.qty /\ orders' = os
    BY <1>1, <1>3, <1>4, ReconcileStep
  <1>6. OrdersMove(orders, orders')
    BY <1>1, <1>2, <1>5 DEF OrdersMove, Terminal
  <1>7. account'.cash + account'.reserved = account.cash + account.reserved
    <2>1. account.cash \in Int /\ account.reserved \in Int
      BY <1>1
    <2> QED
      BY <1>2, <1>3, <2>1
  <1> QED
    BY <1>3, <1>5, <1>6, <1>7, CloseStep

LEMMA CancelLegStep ==
    ASSUME RowsInv, NEW c \in ClientIds, NEW k \in Kinds, CancelLeg(c, k)
    PROVE  Book!BookNext
  <1> DEFINE Ended(j) == CancelledLeg(legs[c][j])
  <1>1. OrdersOK(orders) /\ LegsOK(legs) /\ PositionOK(position)
    BY RowsInvParts
  <1>2. /\ \E x : position' = [position EXCEPT !.reserved = x]
        /\ legs' = [legs EXCEPT ![c] = [j \in Kinds |-> Ended(j)]]
        /\ orders' = Consume(orders, legs[c][k].qty, {c})
        /\ account' = account /\ fills' = fills
    BY DEF CancelLeg
  <1>3. OrdersMove(orders, orders')
    BY <1>1, <1>2, ConsumeMoves
  <1>4. position'.qty = position.qty
    BY <1>1, <1>2 DEF PositionOK
  <1>5. ASSUME NEW j \in Kinds
        PROVE  /\ Ended(j).revision = legs[c][j].revision
               /\ legs[c][j].status \in Terminal => Ended(j).status \in Terminal
    <2>1. legs[c][j] \in Leg
      BY <1>1 DEF LegsOK
    <2> QED
      BY <2>1 DEF Leg, CancelledLeg, Terminal
  <1> HIDE DEF Ended
  <1>6. ASSUME NEW d \in ClientIds, NEW j \in Kinds
        PROVE  /\ legs[d][j].revision \in Nat /\ legs'[d][j].revision = legs[d][j].revision
               /\ legs[d][j].status \in Terminal => legs'[d][j].status \in Terminal
    <2>1. legs[d][j].revision \in Nat
      BY <1>1 DEF LegsOK, Leg
    <2>2. CASE d = c
      <3>1. legs'[d][j] = Ended(j)
        BY <1>1, <1>2, <2>2 DEF LegsOK
      <3> QED
        BY <1>5, <2>1, <2>2, <3>1
    <2>3. CASE d # c
      <3>1. legs'[d][j] = legs[d][j]
        BY <1>1, <1>2, <2>3 DEF LegsOK
      <3> QED
        BY <2>1, <3>1
    <2> QED
      BY <2>2, <2>3
  <1>7. LegsMove(legs, legs')
    BY <1>6 DEF LegsMove
  <1> QED
    BY <1>2, <1>3, <1>4, <1>7, CloseStep

LEMMA RecoverStep ==
    ASSUME RowsInv, Recover, RowsInv'
    PROVE  Book!BookNext
  <1>1. legs \in [ClientIds -> [Kinds -> Leg]] /\ position \in [qty : Nat, reserved : Nat]
    BY DEF RowsInv, TypeOK
  <1>2. Reconcile(orders, legs, position) /\ account' = account /\ fills' = fills
    BY DEF Recover
  <1>3. LegsMove(legs, legs') /\ position'.qty = position.qty /\ orders' = orders
    BY <1>1, <1>2, ReconcileStep
  <1> QED
    BY <1>2, <1>3, CloseStep DEF OrdersMove
-----------------------------------------------------------------------------
(* The refinement *)

LEMMA BookInitHolds ==
    Init => Book!BookInit
  <1> SUFFICES ASSUME Init PROVE Book!BookInit
    OBVIOUS
  <1>1. account.cash + account.reserved = InitialCash /\ position.qty = 0 /\ fills = {}
    BY PaperConstants DEF Init
  <1>2. \A c \in ClientIds : orders[c].status = "NONE"
    BY DEF Init, NoOrder
  <1>3. \A c \in ClientIds, k \in Kinds : legs[c][k].status = "NONE" /\ legs[c][k].revision = 0
    BY DEF Init, NoLeg
  <1>4. \A x : x \notin ClosedOrders
    BY <1>2, ClosedOrderMember DEF Terminal
  <1>5. \A c \in ClientIds, k \in Kinds : \A x : x \notin ClosedLegs(c, k)
    BY <1>3, ClosedLegMember DEF LegClosed, Terminal
  <1>6. ClosedOwners = {}
    BY <1>4, <1>5, ClosedMember
  <1> QED
    BY <1>1, <1>6 DEF Book!BookInit

LEMMA BookStep ==
    RowsInv /\ RowsInv' /\ [Next]_vars => [Book!BookNext]_(Book!bookVars)
  <1> SUFFICES ASSUME RowsInv, RowsInv', [Next]_vars
               PROVE  Book!BookNext \/ UNCHANGED Book!bookVars
    OBVIOUS
  <1>1. CASE Submit
    BY <1>1, SubmitStep DEF Submit
  <1>2. CASE FillOrder
    BY <1>2, OrderPriceType, FillBuyStep, FillSellStep DEF FillOrder
  <1>3. CASE FillAutomatic
    BY <1>3, LegPriceType, FillLegStep DEF FillAutomatic
  <1>4. CASE CancelAny
    BY <1>4, CancelStep, CancelLegStep DEF CancelAny
  <1>5. CASE Recover
    BY <1>5, RecoverStep
  <1>6. CASE UNCHANGED vars
    <2>1. orders' = orders /\ legs' = legs /\ account' = account /\ position' = position /\ fills' = fills
      BY <1>6 DEF vars
    <2>2. ClosedOwners' = ClosedOwners
      BY <2>1 DEF ClosedOwners, ClosedOrders, ClosedLegs
    <2> QED
      BY <2>1, <2>2 DEF Book!bookVars
  <1> QED
    BY <1>1, <1>2, <1>3, <1>4, <1>5, <1>6 DEF Next

\* The Paper ledger implements its owner's view: cash and shares change only by
\* recorded fills, each id once, sells only of owned shares, and a closed order
\* or leg never trades again.
THEOREM LedgerImplementsBook == Spec => ImplementsTradeBook
  <1>1. Init => Book!BookInit
    BY BookInitHolds
  <1>2. RowsInv /\ RowsInv' /\ [Next]_vars => [Book!BookNext]_(Book!bookVars)
    BY BookStep
  <1> QED
    BY <1>1, <1>2, RowsInvHolds, PTL DEF Spec, ImplementsTradeBook, Book!BookSpec

-----------------------------------------------------------------------------
(* Reservations: the sums over rows *)

CashHeld(os) == SumFunction([c \in ClientIds |-> os[c].reservedCash])
SharesHeld(os) == SumFunction([c \in ClientIds |-> os[c].reservedQty])

\* The account and the position hold back what the rows reserve.
Backed == account.reserved = CashHeld(orders) /\ ManualReserved(legs, position) = SharesHeld(orders)

\* The sums are natural numbers.
LEMMA HeldType ==
    ASSUME NEW os \in [ClientIds -> Order]
    PROVE  CashHeld(os) \in Nat /\ SharesHeld(os) \in Nat
  <1> DEFINE cash == [c \in ClientIds |-> os[c].reservedCash]
             shares == [c \in ClientIds |-> os[c].reservedQty]
  <1>1. cash \in [ClientIds -> Nat] /\ shares \in [ClientIds -> Nat]
    BY DEF Order
  <1>2. CashHeld(os) = SumFunction(cash) /\ SharesHeld(os) = SumFunction(shares)
    BY DEF CashHeld, SharesHeld
  <1> HIDE DEF cash, shares
  <1> QED
    BY <1>1, <1>2, PaperConstants, SumFunctionIsNatural

\* One order changes: so do the sums.
LEMMA HeldChanged ==
    ASSUME NEW os \in [ClientIds -> Order], NEW ns \in [ClientIds -> Order], NEW c \in ClientIds,
           \A d \in ClientIds \ {c} : ns[d].reservedCash = os[d].reservedCash
                                      /\ ns[d].reservedQty = os[d].reservedQty
    PROVE  /\ CashHeld(ns) = CashHeld(os) - os[c].reservedCash + ns[c].reservedCash
           /\ SharesHeld(ns) = SharesHeld(os) - os[c].reservedQty + ns[c].reservedQty
  <1>1. \A d \in ClientIds : /\ os[d].reservedCash \in Nat /\ ns[d].reservedCash \in Nat
                             /\ os[d].reservedQty \in Nat /\ ns[d].reservedQty \in Nat
    BY DEF Order
  <1>2. CashHeld(ns) = CashHeld(os) - os[c].reservedCash + ns[c].reservedCash
    <2> DEFINE f == [d \in ClientIds |-> os[d].reservedCash]
               g == [d \in ClientIds |-> ns[d].reservedCash]
    <2>1. f \in [ClientIds -> Int] /\ g \in [ClientIds -> Int] /\ \A d \in ClientIds \ {c} : g[d] = f[d]
      BY <1>1
    <2>2. CashHeld(os) = SumFunction(f) /\ CashHeld(ns) = SumFunction(g)
          /\ f[c] = os[c].reservedCash /\ g[c] = ns[c].reservedCash
      BY DEF CashHeld
    <2> HIDE DEF f, g
    <2> QED
      BY <2>1, <2>2, PaperConstants, SumFunctionChanged
  <1>3. SharesHeld(ns) = SharesHeld(os) - os[c].reservedQty + ns[c].reservedQty
    <2> DEFINE f == [d \in ClientIds |-> os[d].reservedQty]
               g == [d \in ClientIds |-> ns[d].reservedQty]
    <2>1. f \in [ClientIds -> Int] /\ g \in [ClientIds -> Int] /\ \A d \in ClientIds \ {c} : g[d] = f[d]
      BY <1>1
    <2>2. SharesHeld(os) = SumFunction(f) /\ SharesHeld(ns) = SumFunction(g)
          /\ f[c] = os[c].reservedQty /\ g[c] = ns[c].reservedQty
      BY DEF SharesHeld
    <2> HIDE DEF f, g
    <2> QED
      BY <2>1, <2>2, PaperConstants, SumFunctionChanged
  <1> QED
    BY <1>2, <1>3

\* Rows that differ in nothing they reserve have the same sums.
LEMMA HeldSame ==
    ASSUME NEW os, NEW ns,
           \A d \in ClientIds : ns[d].reservedCash = os[d].reservedCash
                                /\ ns[d].reservedQty = os[d].reservedQty
    PROVE  CashHeld(ns) = CashHeld(os) /\ SharesHeld(ns) = SharesHeld(os)
  <1>1. /\ [d \in ClientIds |-> ns[d].reservedCash] = [d \in ClientIds |-> os[d].reservedCash]
        /\ [d \in ClientIds |-> ns[d].reservedQty] = [d \in ClientIds |-> os[d].reservedQty]
    OBVIOUS
  <1> QED
    BY <1>1 DEF CashHeld, SharesHeld

\* Using up protection reserves and releases nothing.
LEMMA HeldConsumed ==
    ASSUME NEW os \in [ClientIds -> Order], NEW n, NEW preferred
    PROVE  /\ CashHeld(Consume(os, n, preferred)) = CashHeld(os)
           /\ SharesHeld(Consume(os, n, preferred)) = SharesHeld(os)
  <1> DEFINE used == Allocate(os, n, preferred)
             after == Consume(os, n, preferred)
  <1>1. after = [c \in ClientIds |-> [os[c] EXCEPT !.protection = @ - used[c]]]
    BY DEF Consume
  <1> HIDE DEF used, after
  <1>2. \A d \in ClientIds : after[d].reservedCash = os[d].reservedCash
                             /\ after[d].reservedQty = os[d].reservedQty
    BY <1>1 DEF Order
  <1> QED
    BY <1>2, HeldSame DEF after

\* What the legs of lots hold.
LEMMA LegsReservedType ==
    ASSUME NEW ls \in [ClientIds -> [Kinds -> Leg]]
    PROVE  LegsReserved(ls) \in Nat
  <1> DEFINE group == [c \in ClientIds |-> ls[c]["stop"].reserved + ls[c]["take-profit"].reserved]
  <1>1. group \in [ClientIds -> Nat]
    BY DEF Leg, Kinds
  <1>2. LegsReserved(ls) = SumFunction(group)
    BY DEF LegsReserved
  <1> HIDE DEF group
  <1> QED
    BY <1>1, <1>2, PaperConstants, SumFunctionIsNatural

\* One group changes: so does the sum.
LEMMA LegsReservedChanged ==
    ASSUME NEW ls \in [ClientIds -> [Kinds -> Leg]], NEW ms \in [ClientIds -> [Kinds -> Leg]],
           NEW c \in ClientIds, \A d \in ClientIds \ {c} : ms[d] = ls[d]
    PROVE  LegsReserved(ms) = LegsReserved(ls)
               - (ls[c]["stop"].reserved + ls[c]["take-profit"].reserved)
               + (ms[c]["stop"].reserved + ms[c]["take-profit"].reserved)
  <1> DEFINE f == [d \in ClientIds |-> ls[d]["stop"].reserved + ls[d]["take-profit"].reserved]
             g == [d \in ClientIds |-> ms[d]["stop"].reserved + ms[d]["take-profit"].reserved]
  <1>1. f \in [ClientIds -> Int] /\ g \in [ClientIds -> Int] /\ \A d \in ClientIds \ {c} : g[d] = f[d]
    BY DEF Leg, Kinds
  <1>2. /\ LegsReserved(ls) = SumFunction(f) /\ LegsReserved(ms) = SumFunction(g)
        /\ f[c] = ls[c]["stop"].reserved + ls[c]["take-profit"].reserved
        /\ g[c] = ms[c]["stop"].reserved + ms[c]["take-profit"].reserved
    BY DEF LegsReserved
  <1> HIDE DEF f, g
  <1> QED
    BY <1>1, <1>2, PaperConstants, SumFunctionChanged

\* A waterfall deals out natural numbers.
LEMMA AllocateType ==
    ASSUME NEW os \in [ClientIds -> Order], NEW amount, NEW preferred
    PROVE  Allocate(os, amount, preferred) \in [ClientIds -> Nat]
  <1> DEFINE used == Allocate(os, amount, preferred)
  <1>1. DOMAIN used = ClientIds /\ used = [c \in ClientIds |-> used[c]]
    BY DEF Allocate
  <1> HIDE DEF used
  <1>2. ASSUME NEW c \in ClientIds PROVE used[c] \in Nat
    <2>1. used[c] \in 0..os[c].protection /\ os[c].protection \in Nat
      BY AllocateBounds DEF used, Order
    <2> QED
      BY <2>1
  <1> QED
    BY <1>1, <1>2 DEF used

\* Fitted legs hold what their lots were dealt.
LEMMA FittedLegsReserved ==
    ASSUME NEW os \in [ClientIds -> Order], NEW ls, LegsReady(ls), NEW pos, NEW extra
    PROVE  LegsReserved(FittedLegs(os, ls, pos, extra)) = SumFunction(Fitted(os, ls, pos, extra))
  <1> DEFINE want == Fitted(os, ls, pos, extra)
             new == FittedLegs(os, ls, pos, extra)
             group == [c \in ClientIds |-> new[c]["stop"].reserved + new[c]["take-profit"].reserved]
  <1>1. want \in [ClientIds -> Nat]
    BY AllocateType DEF Fitted
  <1>2. new = [c \in ClientIds |-> [k \in Kinds |-> FittedLeg(ls[c][k], k, want[c])]]
    BY DEF FittedLegs
  <1>3. LegsReserved(new) = SumFunction(group)
    BY DEF LegsReserved
  <1> HIDE DEF want, new
  <1>4. ASSUME NEW c \in ClientIds
        PROVE  new[c]["stop"].reserved + new[c]["take-profit"].reserved = want[c]
    <2>1. ASSUME NEW k \in Kinds
          PROVE  new[c][k].reserved = IF k = "stop" THEN want[c] ELSE 0
      <3>1. ls[c][k] \in Leg /\ want[c] \in Nat /\ ls[c][k].fillQty + ls[c][k].remaining = ls[c][k].qty
            /\ (ls[c][k].status # "ACCEPTED" => ls[c][k].reserved = 0)
        BY <1>1 DEF LegsReady
      <3>2. new[c][k] = FittedLeg(ls[c][k], k, want[c])
        BY <1>2
      <3>3. /\ LegShape(new[c][k]) /\ (new[c][k].status = "ACCEPTED" <=> want[c] # 0)
            /\ want[c] # 0 => new[c][k].reserved = IF k = "stop" THEN want[c] ELSE 0
        BY <3>1, <3>2, FittedLegOK
      <3> QED
        BY <3>3 DEF LegShape
    <2>2. want[c] \in Nat
      BY <1>1
    <2> QED
      BY <2>1, <2>2 DEF Kinds
  <1>5. group = want
    BY <1>1, <1>4
  <1> HIDE DEF group
  <1> QED
    BY <1>3, <1>5 DEF new, want

\* Reconciliation does not touch what explicit SELL orders hold.
LEMMA ReconcileKeepsManual ==
    ASSUME NEW os \in [ClientIds -> Order], NEW ls, LegsReady(ls),
           NEW pos \in [qty : Nat, reserved : Nat], Reconcile(os, ls, pos)
    PROVE  ManualReserved(legs', position') = ManualReserved(ls, pos)
  <1> DEFINE dealt == SumFunction(Fitted(os, ls, pos, 0))
             total == ManualReserved(ls, pos) + dealt
  <1>1. LegsReserved(legs') = dealt
    BY FittedLegsReserved DEF Reconcile
  <1>2. position' = [pos EXCEPT !.reserved = total]
    BY DEF Reconcile, FittedReserved
  <1>3. dealt \in Int /\ ManualReserved(ls, pos) \in Int
    <2>1. Fitted(os, ls, pos, 0) \in [ClientIds -> Nat]
      BY AllocateType DEF Fitted
    <2>2. LegsReserved(ls) \in Nat
      BY LegsReservedType DEF LegsReady
    <2> QED
      BY <2>1, <2>2, PaperConstants, SumFunctionIsNatural DEF ManualReserved
  <1> HIDE DEF dealt, total
  <1>4. position'.reserved = total
    BY <1>2
  <1> QED
    BY <1>1, <1>3, <1>4 DEF ManualReserved, total
-----------------------------------------------------------------------------
(* What is held back is what open orders and legs reserve *)

\* A function that is zero elsewhere sums up to what a part of it does.
LEMMA SumOfRestriction ==
    ASSUME NEW T, IsFiniteSet(T), NEW S \in SUBSET T, NEW f \in [T -> Int],
           \A x \in T \ S : f[x] = 0
    PROVE  SumFunction([x \in S |-> f[x]]) = SumFunction(f)
  <1> DEFINE g == [x \in S |-> f[x]]
  <1>1. IsFiniteSet(S) /\ DOMAIN g = S /\ \A x \in S : g[x] = f[x]
    BY FS_Subset
  <1> HIDE DEF g
  <1>2. SumFunctionOnSet(g, S) = SumFunctionOnSet(f, S)
    BY <1>1, SumOfSame
  <1>3. SumFunctionOnSet(f, S) = SumFunctionOnSet(f, T)
    BY SumOfSupport
  <1> QED
    BY <1>1, <1>2, <1>3 DEF SumFunction, g

\* Only accepted orders hold something, so summing over all of them is the same.
LEMMA BackedMeans ==
    ASSUME RowsInv, Backed
    PROVE  ReservationsBacked
  <1>1. /\ orders \in [ClientIds -> Order] /\ \A c \in ClientIds : OrderShape(orders[c])
        /\ legs \in [ClientIds -> [Kinds -> Leg]] /\ PositionOK(position)
    BY RowsInvParts DEF OrdersOK, LegsOK
  <1>2. Accepted(ClientIds) \in SUBSET ClientIds
        /\ \A c \in ClientIds \ Accepted(ClientIds) : orders[c].reservedCash = 0 /\ orders[c].reservedQty = 0
    BY <1>1 DEF Accepted, OrderShape
  <1> DEFINE A == Accepted(ClientIds)
  <1> HIDE DEF A
  <1>3. SumFunction([c \in A |-> orders[c].reservedCash]) = CashHeld(orders)
    <2> DEFINE f == [c \in ClientIds |-> orders[c].reservedCash]
    <2>1. f \in [ClientIds -> Int] /\ \A c \in ClientIds \ A : f[c] = 0
      BY <1>1, <1>2 DEF Order, A
    <2>2. [c \in A |-> orders[c].reservedCash] = [c \in A |-> f[c]]
      BY <1>2 DEF A
    <2>3. CashHeld(orders) = SumFunction(f)
      BY DEF CashHeld
    <2> HIDE DEF f
    <2>4. SumFunction([c \in A |-> f[c]]) = SumFunction(f)
      BY <1>2, <2>1, PaperConstants, SumOfRestriction DEF A
    <2> QED
      BY <2>2, <2>3, <2>4
  <1>4. SumFunction([c \in A |-> orders[c].reservedQty]) = SharesHeld(orders)
    <2> DEFINE f == [c \in ClientIds |-> orders[c].reservedQty]
    <2>1. f \in [ClientIds -> Int] /\ \A c \in ClientIds \ A : f[c] = 0
      BY <1>1, <1>2 DEF Order, A
    <2>2. [c \in A |-> orders[c].reservedQty] = [c \in A |-> f[c]]
      BY <1>2 DEF A
    <2>3. SharesHeld(orders) = SumFunction(f)
      BY DEF SharesHeld
    <2> HIDE DEF f
    <2>4. SumFunction([c \in A |-> f[c]]) = SumFunction(f)
      BY <1>2, <2>1, PaperConstants, SumOfRestriction DEF A
    <2> QED
      BY <2>2, <2>3, <2>4
  <1>5. position.reserved = LegsReserved(legs) + SharesHeld(orders)
    BY <1>1, LegsReservedType, HeldType DEF Backed, ManualReserved, PositionOK
  <1>6. \A c \in ClientIds : orders[c].status \in Terminal =>
            orders[c].reservedCash = 0 /\ orders[c].reservedQty = 0
    BY <1>1 DEF OrderShape, Terminal
  <1> QED
    BY <1>1, <1>3, <1>4, <1>5, <1>6 DEF ReservationsBacked, Backed, PositionOK, A

\* A part of a reservation is never more than the whole, despite the rounding.
LEMMA ReservedShareBound ==
    ASSUME NEW reserved \in Nat, NEW remaining \in Nat \ {0}, NEW n \in 1..remaining
    PROVE  ReservedShare(reserved, n, remaining) <= reserved
  <1> DEFINE a == 2 * reserved * n + remaining
             b == 2 * remaining
             q == a \div b
  <1>1. CASE n < remaining
    <2>1. a \in Nat /\ b \in Nat \ {0}
      OBVIOUS
    <2>2. q \in Nat /\ b * q <= a
      <3> HIDE DEF a, b
      <3> QED
        BY <2>1
    <2>3. SUFFICES ASSUME q >= reserved + 1 PROVE FALSE
      BY <1>1, <2>2 DEF ReservedShare
    <2> HIDE DEF q
    <2>4. remaining * q >= remaining * (reserved + 1)
      BY <2>2, <2>3
    <2>5. reserved * n <= reserved * remaining
      BY <1>1
    <2>6. remaining * (reserved + 1) = reserved * remaining + remaining
      OBVIOUS
    <2>7. b * q = 2 * (remaining * q) /\ a = 2 * (reserved * n) + remaining
      BY <2>2
    <2> QED
      BY <2>2, <2>4, <2>5, <2>6, <2>7
  <1>2. CASE n = remaining
    BY <1>2 DEF ReservedShare
  <1> QED
    BY <1>1, <1>2

\* Before the first order nothing is held.
LEMMA InitBacked ==
    ASSUME Init PROVE Backed
  <1>1. orders = [c \in ClientIds |-> NoOrder] /\ account.reserved = 0 /\ position.reserved = 0
        /\ legs = [c \in ClientIds |-> [k \in Kinds |-> NoLeg]]
    BY DEF Init
  <1>2. \A c \in ClientIds : orders[c].reservedCash = 0 /\ orders[c].reservedQty = 0
                             /\ legs[c]["stop"].reserved + legs[c]["take-profit"].reserved = 0
    BY <1>1 DEF NoOrder, NoLeg, Kinds
  <1> DEFINE zero == [c \in ClientIds |-> 0]
  <1>3. CashHeld(orders) = SumFunction(zero) /\ SharesHeld(orders) = SumFunction(zero)
    <2>1. [c \in ClientIds |-> orders[c].reservedCash] = zero
          /\ [c \in ClientIds |-> orders[c].reservedQty] = zero
      BY <1>2
    <2> QED
      BY <2>1 DEF CashHeld, SharesHeld
  <1>4. LegsReserved(legs) = SumFunction(zero)
    <2>1. [c \in ClientIds |-> legs[c]["stop"].reserved + legs[c]["take-profit"].reserved] = zero
      BY <1>2
    <2> QED
      BY <2>1 DEF LegsReserved
  <1>5. SumFunction(zero) = 0
    <2>1. DOMAIN zero = ClientIds /\ \A c \in ClientIds : zero[c] = 0
      OBVIOUS
    <2> HIDE DEF zero
    <2> QED
      BY <2>1, PaperConstants, SumOfZeros DEF SumFunction
  <1> QED
    BY <1>1, <1>3, <1>4, <1>5 DEF Backed, ManualReserved

LEMMA SubmitBuyBacked ==
    ASSUME RowsInv, RowsInv', Backed, NEW c \in ClientIds, NEW r \in Requests,
           NEW acceptable \in BOOLEAN, SubmitBuy(c, r, acceptable)
    PROVE  Backed'
  <1> DEFINE cost == r.price * r.qty + Fee(r.price * r.qty)
             accepted == acceptable /\ LedgerAccepts(r)
             new == NewOrder(r, accepted, cost, 0)
  <1>1. cost \in Nat
    BY RequestType
  <1>2. /\ orders' = [orders EXCEPT ![c] = new] /\ orders[c].status = "NONE"
        /\ account' = IF accepted
                      THEN [cash |-> account.cash - cost, reserved |-> account.reserved + cost]
                      ELSE account
        /\ legs' = legs /\ position' = position
    BY DEF SubmitBuy, Cost
  <1>3. new.reservedCash = (IF accepted THEN cost ELSE 0) /\ new.reservedQty = 0
    BY DEF NewOrder
  <1> HIDE DEF new, accepted, cost
  <1>4. /\ orders \in [ClientIds -> Order] /\ orders' \in [ClientIds -> Order]
        /\ OrderShape(orders[c]) /\ account \in [cash : Int, reserved : Int]
    BY RowsInvParts, RowsInvPartsNext DEF OrdersOK
  <1>5. orders[c].reservedCash = 0 /\ orders[c].reservedQty = 0
    BY <1>2, <1>4 DEF OrderShape
  <1>6. orders'[c] = new /\ \A d \in ClientIds \ {c} : orders'[d] = orders[d]
    BY <1>2, <1>4
  <1>7. /\ CashHeld(orders') = CashHeld(orders) - 0 + (IF accepted THEN cost ELSE 0)
        /\ SharesHeld(orders') = SharesHeld(orders) - 0 + 0
    BY <1>3, <1>4, <1>5, <1>6, HeldChanged
  <1>8. CashHeld(orders) \in Nat /\ SharesHeld(orders) \in Nat
    BY <1>4, HeldType
  <1>9. account'.reserved = account.reserved + (IF accepted THEN cost ELSE 0)
    BY <1>1, <1>2, <1>4
  <1>10. ManualReserved(legs', position') = ManualReserved(legs, position)
    BY <1>2
  <1> QED
    BY <1>1, <1>7, <1>8, <1>9, <1>10 DEF Backed

LEMMA SubmitSellBacked ==
    ASSUME RowsInv, RowsInv', Backed, NEW c \in ClientIds, NEW r \in Requests,
           NEW acceptable \in BOOLEAN, SubmitSell(c, r, acceptable)
    PROVE  Backed'
  <1> DEFINE accepted == acceptable /\ LedgerAccepts(r)
             dealt == SumFunction(Fitted(orders, legs, position, r.qty))
             total == ManualReserved(legs, position) + dealt + r.qty
             new == NewOrder(r, accepted, 0, r.qty)
  <1>1. r.qty \in Nat
    BY RequestType
  <1>2. /\ orders' = [orders EXCEPT ![c] = new] /\ orders[c].status = "NONE"
        /\ legs' = IF accepted THEN FittedLegs(orders, legs, position, r.qty) ELSE legs
        /\ position' = IF accepted THEN [position EXCEPT !.reserved = total] ELSE position
        /\ account' = account
    BY DEF SubmitSell, FittedReserved
  <1>3. new.reservedCash = 0 /\ new.reservedQty = (IF accepted THEN r.qty ELSE 0)
    BY DEF NewOrder
  <1> HIDE DEF new, accepted
  <1>4. /\ orders \in [ClientIds -> Order] /\ orders' \in [ClientIds -> Order]
        /\ OrderShape(orders[c]) /\ LegsReady(legs) /\ PositionOK(position)
    BY RowsInvParts, RowsInvPartsNext, LegsOKReady DEF OrdersOK
  <1>5. orders[c].reservedCash = 0 /\ orders[c].reservedQty = 0
    BY <1>2, <1>4 DEF OrderShape
  <1>6. orders'[c] = new /\ \A d \in ClientIds \ {c} : orders'[d] = orders[d]
    BY <1>2, <1>4
  <1>7. /\ CashHeld(orders') = CashHeld(orders) - 0 + 0
        /\ SharesHeld(orders') = SharesHeld(orders) - 0 + (IF accepted THEN r.qty ELSE 0)
    BY <1>3, <1>4, <1>5, <1>6, HeldChanged
  <1>8. CashHeld(orders) \in Nat /\ SharesHeld(orders) \in Nat
    BY <1>4, HeldType
  <1>9. ManualReserved(legs', position')
            = ManualReserved(legs, position) + (IF accepted THEN r.qty ELSE 0)
    <2>1. dealt \in Nat
      <3>1. Fitted(orders, legs, position, r.qty) \in [ClientIds -> Nat]
        BY <1>4, AllocateType DEF Fitted
      <3> QED
        BY <3>1, PaperConstants, SumFunctionIsNatural
    <2>2. ManualReserved(legs, position) \in Int
      BY <1>4, LegsReservedType DEF ManualReserved, PositionOK, LegsReady
    <2>3. LegsReserved(FittedLegs(orders, legs, position, r.qty)) = dealt
      BY <1>4, FittedLegsReserved
    <2> HIDE DEF dealt
    <2>4. CASE accepted
      <3>1. position'.reserved = total
        <4> HIDE DEF total
        <4> QED
          BY <1>2, <1>4, <2>4 DEF PositionOK
      <3>2. LegsReserved(legs') = dealt
        BY <1>2, <2>3, <2>4
      <3> DEFINE manual == ManualReserved(legs, position)
      <3> HIDE DEF manual
      <3>3. ManualReserved(legs', position') = (manual + dealt + r.qty) - dealt
        BY <3>1, <3>2 DEF ManualReserved, manual
      <3> QED
        BY <1>1, <2>1, <2>2, <2>4, <3>3 DEF manual
    <2>5. CASE ~accepted
      BY <1>2, <2>2, <2>5
    <2> QED
      BY <2>4, <2>5
  <1> QED
    BY <1>1, <1>2, <1>7, <1>8, <1>9 DEF Backed

\* A transaction that ends in reconciliation: what the orders hold is what the
\* position held back for them before.
LEMMA ReconcileBacked ==
    ASSUME NEW os \in [ClientIds -> Order], NEW ls, LegsReady(ls),
           NEW pos \in [qty : Nat, reserved : Nat], Reconcile(os, ls, pos),
           ManualReserved(ls, pos) = SharesHeld(os), account'.reserved = CashHeld(os)
    PROVE  Backed'
  <1>1. ManualReserved(legs', position') = ManualReserved(ls, pos) /\ orders' = os
    BY ReconcileKeepsManual DEF Reconcile
  <1> QED
    BY <1>1 DEF Backed

LEMMA FillBuyBacked ==
    ASSUME RowsInv, Backed, NEW c \in ClientIds, NEW n \in 1..orders[c].remaining,
           NEW id, NEW price \in Nat, NEW at \in Instants, FillBuy(c, n, id, price, at), RowsInv'
    PROVE  Backed'
  <1> DEFINE o == orders[c]
             share == ReservedShare(o.reservedCash, n, o.remaining)
             cost == price * n + Fee(price * n)
             filled == Filled(o, n, at)
             hold == Most(0, o.reservedCash - share)
             lot == o.protection + n
             after == [filled EXCEPT !.reservedCash = hold, !.protection = lot]
             os == [orders EXCEPT ![c] = after]
             pos == [position EXCEPT !.qty = position.qty + n]
  <1>1. /\ orders \in [ClientIds -> Order] /\ OrderShape(o) /\ LegsReady(legs)
        /\ account \in [cash : Int, reserved : Int] /\ IsFiniteSet(fills)
        /\ position \in [qty : Nat, reserved : Nat]
    BY RowsInvParts, LegsOKReady DEF OrdersOK, PositionOK
  <1>2. /\ o \in Order /\ o.remaining \in Nat \ {0} /\ o.reservedCash \in Nat /\ n \in Nat
        /\ o.protection \in Nat /\ o.status = "ACCEPTED"
    BY <1>1 DEF Order, FillBuy
  <1>3. /\ filled \in Order /\ filled.reservedQty = o.reservedQty
        /\ filled.reservedCash = o.reservedCash /\ filled.protection = o.protection
    BY <1>1, <1>2, FilledOK
  <1>4. /\ account' = [cash |-> account.cash - Most(0, cost - share) + Most(0, share - cost),
                       reserved |-> account.reserved - share]
        /\ Reconcile(os, legs, pos)
    BY <1>3 DEF FillBuy
  <1>5. share \in Nat /\ share <= o.reservedCash
    BY <1>2, ReservedShareType, ReservedShareBound
  <1> HIDE DEF share, filled
  <1>6. hold = o.reservedCash - share /\ hold \in Nat /\ lot \in Nat
    BY <1>2, <1>5 DEF Most
  <1> HIDE DEF hold, lot
  <1>7. after \in Order /\ after.reservedCash = hold /\ after.reservedQty = o.reservedQty
    BY <1>3, <1>6 DEF Order
  <1> HIDE DEF after
  <1>8. os \in [ClientIds -> Order] /\ os[c] = after /\ \A d \in ClientIds \ {c} : os[d] = orders[d]
    BY <1>1, <1>7
  <1>9. pos \in [qty : Nat, reserved : Nat] /\ ManualReserved(legs, pos) = ManualReserved(legs, position)
    BY <1>1, <1>2 DEF ManualReserved
  <1> HIDE DEF os, pos
  <1>10. /\ CashHeld(os) = CashHeld(orders) - o.reservedCash + hold
         /\ SharesHeld(os) = SharesHeld(orders) - o.reservedQty + o.reservedQty
    BY <1>1, <1>7, <1>8, HeldChanged
  <1>11. CashHeld(orders) \in Nat /\ SharesHeld(orders) \in Nat /\ o.reservedQty \in Nat
    BY <1>1, <1>2, HeldType DEF Order
  <1>12. account'.reserved = account.reserved - share /\ account.reserved = CashHeld(orders)
    BY <1>4 DEF Backed
  <1>13. account'.reserved = CashHeld(os)
    BY <1>2, <1>5, <1>6, <1>10, <1>11, <1>12
  <1>14. ManualReserved(legs, pos) = SharesHeld(os)
    BY <1>9, <1>10, <1>11 DEF Backed
  <1> QED
    BY <1>1, <1>4, <1>8, <1>9, <1>13, <1>14, ReconcileBacked

LEMMA FillSellBacked ==
    ASSUME RowsInv, Backed, NEW c \in ClientIds, NEW n \in 1..orders[c].remaining,
           NEW id, NEW price \in Nat, NEW at \in Instants, FillSell(c, n, id, price, at), RowsInv'
    PROVE  Backed'
  <1> DEFINE o == orders[c]
             filled == Filled(o, n, at)
             hold == o.reservedQty - Least(n, o.reservedQty)
             after == [filled EXCEPT !.reservedQty = hold]
             os == [orders EXCEPT ![c] = after]
             spent == Consume(os, n, {})
             pos == Sold(position, n, o.reservedQty)
  <1>1. /\ orders \in [ClientIds -> Order] /\ OrderShape(o) /\ LegsReady(legs)
        /\ legs \in [ClientIds -> [Kinds -> Leg]]
        /\ account \in [cash : Int, reserved : Int] /\ IsFiniteSet(fills) /\ PositionOK(position)
    BY RowsInvParts, LegsOKReady DEF OrdersOK, LegsReady
  <1>2. /\ o \in Order /\ o.remaining \in Nat \ {0} /\ o.reservedQty \in Nat /\ n \in Nat
        /\ o.status = "ACCEPTED" /\ o.side = "SELL" /\ o.reservedQty = o.remaining
    BY <1>1 DEF Order, FillSell, OrderShape
  <1>3. filled \in Order /\ filled.reservedCash = o.reservedCash /\ filled.reservedQty = o.reservedQty
    BY <1>1, <1>2, FilledOK
  <1>4. /\ account' = [account EXCEPT !.cash = @ + Proceeds(price, n)]
        /\ Reconcile(spent, legs, pos)
        /\ CanSell(position, n, o.reservedQty)
    BY <1>3 DEF FillSell
  <1>5. Least(n, o.reservedQty) = n /\ hold = o.reservedQty - n /\ hold \in Nat
    BY <1>2 DEF Least
  <1> HIDE DEF filled, hold
  <1>6. after \in Order /\ after.reservedCash = o.reservedCash /\ after.reservedQty = hold
    BY <1>3, <1>5 DEF Order
  <1> HIDE DEF after
  <1>7. os \in [ClientIds -> Order] /\ os[c] = after /\ \A d \in ClientIds \ {c} : os[d] = orders[d]
    BY <1>1, <1>6
  <1>8. pos \in [qty : Nat, reserved : Nat] /\ pos.reserved = position.reserved - n
    <2>1. pos \in [qty : Nat, reserved : Nat]
      BY <1>1, <1>2, <1>4, SoldOK
    <2> QED
      BY <1>5, <2>1 DEF Sold
  <1> HIDE DEF os, pos
  <1>9. spent \in [ClientIds -> Order]
    BY <1>4 DEF Reconcile, RowsInv, TypeOK
  <1>10. /\ CashHeld(spent) = CashHeld(orders) - o.reservedCash + o.reservedCash
         /\ SharesHeld(spent) = SharesHeld(orders) - o.reservedQty + hold
    <2>1. CashHeld(spent) = CashHeld(os) /\ SharesHeld(spent) = SharesHeld(os)
      BY <1>7, HeldConsumed
    <2> QED
      BY <1>1, <1>6, <1>7, <2>1, HeldChanged
  <1>11. /\ CashHeld(orders) \in Nat /\ SharesHeld(orders) \in Nat /\ o.reservedCash \in Nat
         /\ LegsReserved(legs) \in Nat /\ position.reserved \in Nat
    BY <1>1, <1>2, HeldType, LegsReservedType DEF Order, PositionOK
  <1>12. account'.reserved = CashHeld(spent)
    BY <1>1, <1>4, <1>10, <1>11 DEF Backed
  <1>13. ManualReserved(legs, pos) = SharesHeld(spent)
    BY <1>2, <1>5, <1>8, <1>10, <1>11 DEF Backed, ManualReserved
  <1> HIDE DEF spent
  <1> QED
    BY <1>1, <1>4, <1>8, <1>9, <1>12, <1>13, ReconcileBacked

\* A complete fill of a leg releases the reservation of its group.
LEMMA FillLegWholeBacked ==
    ASSUME RowsInv, RowsInv', Backed, NEW c \in ClientIds, NEW k \in Kinds,
           NEW n \in 1..legs[c][k].remaining, NEW id, NEW price \in Nat,
           FillLeg(c, k, n, id, price), n = legs[c][k].remaining
    PROVE  Backed'
  <1> DEFINE leg == legs[c][k]
             held == GroupReserved(c)
             spent == Consume(orders, n, {c})
  <1>1. /\ OrdersOK(orders) /\ LegsOK(legs) /\ PositionOK(position) /\ LegsOK(legs')
        /\ account \in [cash : Int, reserved : Int]
    BY RowsInvParts, RowsInvPartsNext
  <1>2. leg \in Leg /\ n \in Nat /\ held = n
    BY <1>1 DEF LegsOK, FillLeg, ClaimSucceeds, Leg
  <1>3. /\ orders' = [spent EXCEPT ![c].filledLegs = @ + 1]
        /\ legs' = [legs EXCEPT ![c] = [j \in Kinds |->
                        IF j = k THEN FilledLeg(leg, n, held - Least(n, held)) ELSE CancelledLeg(legs[c][j])]]
        /\ position' = Sold(position, n, held)
        /\ account' = [account EXCEPT !.cash = @ + Proceeds(price, n)]
    BY DEF FillLeg
  <1>4. OrdersOK(spent)
    BY <1>1, ConsumeOK
  <1>5. CashHeld(spent) = CashHeld(orders) /\ SharesHeld(spent) = SharesHeld(orders)
    BY <1>1, HeldConsumed DEF OrdersOK
  <1>6. CashHeld(orders') = CashHeld(spent) /\ SharesHeld(orders') = SharesHeld(spent)
    <2> HIDE DEF spent
    <2>1. \A d \in ClientIds : /\ orders'[d].reservedCash = spent[d].reservedCash
                               /\ orders'[d].reservedQty = spent[d].reservedQty
      BY <1>3, <1>4 DEF OrdersOK, Order
    <2> QED
      BY <2>1, HeldSame
  <1>7. LegsReserved(legs') = LegsReserved(legs) - n + 0
    <2>1. legs \in [ClientIds -> [Kinds -> Leg]] /\ legs' \in [ClientIds -> [Kinds -> Leg]]
      BY <1>1 DEF LegsOK
    <2>2. \A d \in ClientIds \ {c} : legs'[d] = legs[d]
      BY <1>3, <2>1
    <2>3. \A j \in Kinds : legs'[c][j].reserved = 0
      <3>1. \A j \in Kinds : legs'[c][j].status # "ACCEPTED"
        <4>1. legs'[c] = [j \in Kinds |-> IF j = k THEN FilledLeg(leg, n, held - Least(n, held))
                                          ELSE CancelledLeg(legs[c][j])]
          BY <1>3, <2>1
        <4>2. FilledLeg(leg, n, held - Least(n, held)).status = "SIMULATED_FILLED"
          <5> HIDE DEF held
          <5> QED
            BY <1>2 DEF FilledLeg, Leg
        <4>3. \A j \in Kinds : CancelledLeg(legs[c][j]).status # "ACCEPTED"
          BY <1>1, CancelledLegOK DEF LegsOK
        <4> QED
          BY <4>1, <4>2, <4>3
      <3> QED
        BY <1>1, <3>1 DEF LegsOK, LegShape
    <2>4. legs[c]["stop"].reserved + legs[c]["take-profit"].reserved = n
      BY <1>2 DEF GroupReserved
    <2>5. legs'[c]["stop"].reserved + legs'[c]["take-profit"].reserved = 0
      BY <2>3 DEF Kinds
    <2> QED
      BY <2>1, <2>2, <2>4, <2>5, LegsReservedChanged
  <1>8. position'.reserved = position.reserved - n
    BY <1>2, <1>3 DEF Sold, Least
  <1>9. LegsReserved(legs) \in Nat /\ position.reserved \in Nat /\ SharesHeld(orders) \in Nat
    BY <1>1, LegsReservedType, HeldType DEF LegsOK, PositionOK, OrdersOK
  <1>10. account'.reserved = account.reserved
    BY <1>1, <1>3
  <1> QED
    BY <1>2, <1>5, <1>6, <1>7, <1>8, <1>9, <1>10 DEF Backed, ManualReserved

\* A partial fill of a leg claims the group's reservation and refits the legs.
LEMMA FillLegPartBacked ==
    ASSUME RowsInv, RowsInv', Backed, NEW c \in ClientIds, NEW k \in Kinds,
           NEW n \in 1..legs[c][k].remaining, NEW id, NEW price \in Nat,
           FillLeg(c, k, n, id, price), n # legs[c][k].remaining
    PROVE  Backed'
  <1> DEFINE leg == legs[c][k]
             held == GroupReserved(c)
             hold == held - Least(n, held)
             after == FilledLeg(leg, n, hold)
             Stale(j) == [legs[c][j] EXCEPT !.reserved = 0]
             group == [j \in Kinds |-> IF j = k THEN after ELSE Stale(j)]
             ls == [legs EXCEPT ![c] = group]
             spent == Consume(orders, n, {c})
             sold == Sold(position, n, held)
  <1>1. /\ OrdersOK(orders) /\ LegsOK(legs) /\ PositionOK(position)
        /\ account \in [cash : Int, reserved : Int]
    BY RowsInvParts
  <1>2. leg \in Leg /\ LegShape(leg) /\ leg.status = "ACCEPTED" /\ n \in Nat
        /\ held = leg.remaining /\ held \in Nat /\ CanSell(position, n, held)
    BY <1>1 DEF LegsOK, FillLeg, ClaimSucceeds, Leg
  <1>0. n < held
    BY <1>2
  <1>3. /\ Reconcile(spent, ls, sold)
        /\ account' = [account EXCEPT !.cash = @ + Proceeds(price, n)]
    BY DEF FillLeg
  <1>4. hold \in Nat /\ hold = held - n /\ Least(n, held) = n
    BY <1>0, <1>2 DEF Least
  <1>5. legs[c]["stop"].reserved + legs[c]["take-profit"].reserved = held
    BY DEF GroupReserved
  <1>6. sold \in [qty : Nat, reserved : Nat] /\ sold.reserved = position.reserved - n
    <2>1. sold \in [qty : Nat, reserved : Nat]
      BY <1>1, <1>2, SoldOK
    <2> HIDE DEF held
    <2> QED
      BY <1>4, <2>1 DEF Sold
  <1> HIDE DEF held, hold
  <1>7. after \in Leg /\ after.status = "ACCEPTED" /\ after.fillQty + after.remaining = after.qty
        /\ after.reserved = hold
    BY <1>2, <1>4, FilledLegOK
  <1> HIDE DEF after
  <1>8. ASSUME NEW j \in Kinds
        PROVE  Stale(j) \in Leg /\ Stale(j).fillQty + Stale(j).remaining = Stale(j).qty
               /\ Stale(j).status = "ACCEPTED" /\ Stale(j).reserved = 0
    <2>1. legs[c][j] \in Leg /\ LegShape(legs[c][j]) /\ legs[c][j].status = "ACCEPTED"
      BY <1>1, <1>2 DEF LegsOK, Kinds
    <2> QED
      BY <2>1 DEF Leg, LegShape
  <1> HIDE DEF Stale
  <1>9. group \in [Kinds -> Leg]
        /\ \A j \in Kinds : /\ group[j].status = "ACCEPTED"
                            /\ group[j].fillQty + group[j].remaining = group[j].qty
    BY <1>7, <1>8
  <1>10. group["stop"].reserved + group["take-profit"].reserved = hold
    BY <1>4, <1>7, <1>8 DEF Kinds
  <1> HIDE DEF group
  <1>11. ls \in [ClientIds -> [Kinds -> Leg]] /\ ls[c] = group
         /\ \A d \in ClientIds \ {c} : ls[d] = legs[d]
    BY <1>1, <1>9 DEF LegsOK
  <1> HIDE DEF ls
  <1>12. LegsReady(ls)
    <2>1. ASSUME NEW d \in ClientIds
          PROVE  /\ ls[d]["stop"].status = "ACCEPTED" <=> ls[d]["take-profit"].status = "ACCEPTED"
                 /\ \A j \in Kinds :
                       /\ ls[d][j].fillQty + ls[d][j].remaining = ls[d][j].qty
                       /\ ls[d][j].status # "ACCEPTED" => ls[d][j].reserved = 0
      <3>1. CASE d = c
        BY <1>9, <1>11, <3>1 DEF Kinds
      <3>2. CASE d # c
        BY <1>1, <1>11, <3>2 DEF LegsOK, LegShape
      <3> QED
        BY <3>1, <3>2
    <2> QED
      BY <1>11, <2>1 DEF LegsReady
  <1>13. LegsReserved(ls) = LegsReserved(legs) - held + hold
    BY <1>1, <1>5, <1>10, <1>11, LegsReservedChanged DEF LegsOK
  <1>14. LegsReserved(legs) \in Nat /\ position.reserved \in Nat /\ SharesHeld(orders) \in Nat
    BY <1>1, LegsReservedType, HeldType DEF LegsOK, PositionOK, OrdersOK
  <1>15. ManualReserved(ls, sold) = SharesHeld(spent)
    <2>1. SharesHeld(spent) = SharesHeld(orders)
      BY <1>1, HeldConsumed DEF OrdersOK
    <2> QED
      BY <1>2, <1>4, <1>6, <1>13, <1>14, <2>1 DEF Backed, ManualReserved
  <1>16. account'.reserved = CashHeld(spent)
    <2>1. CashHeld(spent) = CashHeld(orders)
      BY <1>1, HeldConsumed DEF OrdersOK
    <2> QED
      BY <1>1, <1>3, <2>1 DEF Backed
  <1>17. spent \in [ClientIds -> Order]
    BY <1>1, ConsumeOK DEF OrdersOK
  <1> HIDE DEF spent, sold
  <1> QED
    BY <1>3, <1>6, <1>12, <1>15, <1>16, <1>17, ReconcileBacked

LEMMA CancelBacked ==
    ASSUME RowsInv, Backed, NEW c \in ClientIds, Cancel(c)
    PROVE  Backed'
  <1> DEFINE o == orders[c]
             after == [o EXCEPT !.status = "CANCELLED", !.reservedCash = 0, !.reservedQty = 0]
             os == [orders EXCEPT ![c] = after]
             left == position.reserved - o.reservedQty
             pos == [position EXCEPT !.reserved = left]
  <1>1. /\ orders \in [ClientIds -> Order] /\ LegsReady(legs) /\ PositionOK(position)
        /\ account \in [cash : Int, reserved : Int]
    BY RowsInvParts, LegsOKReady DEF OrdersOK
  <1>2. o \in Order /\ o.reservedCash \in Nat /\ o.reservedQty \in Nat
    BY <1>1 DEF Order
  <1>3. /\ account' = [cash |-> account.cash + o.reservedCash,
                       reserved |-> account.reserved - o.reservedCash]
        /\ position.reserved >= o.reservedQty
        /\ Reconcile(os, legs, pos)
    BY DEF Cancel
  <1>4. after \in Order /\ after.reservedCash = 0 /\ after.reservedQty = 0
    BY <1>2 DEF Order, Terminal
  <1> HIDE DEF after
  <1>5. os \in [ClientIds -> Order] /\ os[c] = after /\ \A d \in ClientIds \ {c} : os[d] = orders[d]
    BY <1>1, <1>4
  <1>6. left \in Nat
    BY <1>1, <1>2, <1>3 DEF PositionOK
  <1>7. pos \in [qty : Nat, reserved : Nat] /\ pos.reserved = left
    <2> HIDE DEF left
    <2> QED
      BY <1>1, <1>6 DEF PositionOK
  <1> HIDE DEF os, pos
  <1>8. /\ CashHeld(os) = CashHeld(orders) - o.reservedCash + 0
        /\ SharesHeld(os) = SharesHeld(orders) - o.reservedQty + 0
    BY <1>1, <1>4, <1>5, HeldChanged
  <1>9. /\ CashHeld(orders) \in Nat /\ SharesHeld(orders) \in Nat
        /\ LegsReserved(legs) \in Nat /\ position.reserved \in Nat
    BY <1>1, HeldType, LegsReservedType DEF PositionOK, LegsReady
  <1>10. account'.reserved = CashHeld(os)
    BY <1>2, <1>3, <1>8, <1>9 DEF Backed
  <1>11. ManualReserved(legs, pos) = SharesHeld(os)
    BY <1>2, <1>7, <1>8, <1>9 DEF Backed, ManualReserved
  <1> QED
    BY <1>1, <1>3, <1>5, <1>7, <1>10, <1>11, ReconcileBacked

LEMMA CancelLegBacked ==
    ASSUME RowsInv, RowsInv', Backed, NEW c \in ClientIds, NEW k \in Kinds, CancelLeg(c, k)
    PROVE  Backed'
  <1> DEFINE held == GroupReserved(c)
             group == [j \in Kinds |-> CancelledLeg(legs[c][j])]
             left == position.reserved - held
  <1>1. OrdersOK(orders) /\ LegsOK(legs) /\ PositionOK(position) /\ LegsOK(legs')
    BY RowsInvParts, RowsInvPartsNext
  <1>2. /\ held = legs[c][k].remaining
        /\ position' = [position EXCEPT !.reserved = left]
        /\ legs' = [legs EXCEPT ![c] = group]
        /\ orders' = Consume(orders, legs[c][k].qty, {c})
        /\ account' = account
    BY DEF CancelLeg, ClaimSucceeds
  <1>3. CashHeld(orders') = CashHeld(orders) /\ SharesHeld(orders') = SharesHeld(orders)
    BY <1>1, <1>2, HeldConsumed DEF OrdersOK
  <1>4. held \in Nat
    BY <1>1, <1>2 DEF LegsOK, Leg
  <1>5. position'.reserved = left
    <2> HIDE DEF left
    <2> QED
      BY <1>1, <1>2 DEF PositionOK
  <1>6. LegsReserved(legs') = LegsReserved(legs) - held + 0
    <2>1. legs \in [ClientIds -> [Kinds -> Leg]] /\ legs' \in [ClientIds -> [Kinds -> Leg]]
      BY <1>1 DEF LegsOK
    <2>2. legs'[c] = group /\ \A d \in ClientIds \ {c} : legs'[d] = legs[d]
      BY <1>2, <2>1
    <2>3. \A j \in Kinds : legs'[c][j].reserved = 0
      <3>1. \A j \in Kinds : CancelledLeg(legs[c][j]).status # "ACCEPTED"
        BY <1>1, CancelledLegOK DEF LegsOK
      <3>2. \A j \in Kinds : legs'[c][j].status # "ACCEPTED"
        BY <2>2, <3>1
      <3> QED
        BY <1>1, <3>2 DEF LegsOK, LegShape
    <2>4. legs[c]["stop"].reserved + legs[c]["take-profit"].reserved = held
      BY DEF GroupReserved
    <2>5. legs'[c]["stop"].reserved + legs'[c]["take-profit"].reserved = 0
      BY <2>3 DEF Kinds
    <2> HIDE DEF held
    <2> QED
      BY <2>1, <2>2, <2>4, <2>5, LegsReservedChanged
  <1>7. LegsReserved(legs) \in Nat /\ position.reserved \in Nat /\ SharesHeld(orders) \in Nat
    BY <1>1, LegsReservedType, HeldType DEF LegsOK, PositionOK, OrdersOK
  <1> HIDE DEF held
  <1> QED
    BY <1>2, <1>3, <1>4, <1>5, <1>6, <1>7 DEF Backed, ManualReserved

LEMMA RecoverBacked ==
    ASSUME RowsInv, Backed, Recover
    PROVE  Backed'
  <1>1. /\ orders \in [ClientIds -> Order] /\ LegsReady(legs)
        /\ position \in [qty : Nat, reserved : Nat]
    BY RowsInvParts, LegsOKReady DEF OrdersOK, PositionOK
  <1>2. Reconcile(orders, legs, position) /\ account' = account
    BY DEF Recover
  <1> QED
    BY <1>1, <1>2, ReconcileBacked DEF Backed

\* Every transaction keeps the books backed.
LEMMA NextBacked ==
    ASSUME RowsInv, RowsInv', Backed, [Next]_vars
    PROVE  Backed'
  <1>1. CASE Submit
    BY <1>1, SubmitBuyBacked, SubmitSellBacked DEF Submit
  <1>2. CASE FillOrder
    BY <1>2, OrderPriceType, FillBuyBacked, FillSellBacked DEF FillOrder
  <1>3. CASE FillAutomatic
    BY <1>3, LegPriceType, FillLegWholeBacked, FillLegPartBacked DEF FillAutomatic
  <1>4. CASE CancelAny
    BY <1>4, CancelBacked, CancelLegBacked DEF CancelAny
  <1>5. CASE Recover
    BY <1>5, RecoverBacked
  <1>6. CASE UNCHANGED vars
    BY <1>6 DEF vars, Backed, CashHeld, SharesHeld, ManualReserved, LegsReserved
  <1> QED
    BY <1>1, <1>2, <1>3, <1>4, <1>5, <1>6 DEF Next

\* Spec => []Backed, on which every theorem below stands.
LEMMA BackedHolds == Spec => []Backed
  <1>1. Init => Backed
    BY InitBacked
  <1>2. RowsInv /\ RowsInv' /\ Backed /\ [Next]_vars => Backed'
    BY NextBacked
  <1> QED
    BY <1>1, <1>2, RowsInvHolds, PTL DEF Spec

\* What the account and the position hold back is exactly what the open orders
\* and legs reserve, whatever order fills, cancels, refits and restarts take: no
\* path releases a reservation twice or forgets one.
THEOREM ReservationsAreBacked == Spec => []ReservationsBacked
  <1>1. RowsInv /\ Backed => ReservationsBacked
    BY BackedMeans
  <1> QED
    BY <1>1, RowsInvHolds, BackedHolds, PTL
-----------------------------------------------------------------------------
(* Replaying the fill log *)

\* What a fill moves are integers, and the book counts them the same way.
LEMMA FlowType ==
    ASSUME NEW f \in Fill
    PROVE  /\ CashFlow(f) \in Int /\ ShareFlow(f) \in Int
           /\ Book!CashFlow(f) = CashFlow(f) /\ Book!ShareFlow(f) = ShareFlow(f)
  <1>1. f.qty \in Nat /\ f.price \in Nat /\ f.fee \in Nat
    BY DEF Fill
  <1>2. f.price * f.qty \in Nat
    BY <1>1
  <1> QED
    BY <1>1, <1>2 DEF CashFlow, ShareFlow, Book!CashFlow, Book!ShareFlow

\* One more fill adds its flow to the sum over the log.
LEMMA LogSumGrows ==
    ASSUME NEW log \in SUBSET Fill, IsFiniteSet(log), NEW t \in Fill, t \notin log
    PROVE  /\ SumFunction([f \in log \cup {t} |-> CashFlow(f)])
                  = SumFunction([f \in log |-> CashFlow(f)]) + CashFlow(t)
           /\ SumFunction([f \in log \cup {t} |-> ShareFlow(f)])
                  = SumFunction([f \in log |-> ShareFlow(f)]) + ShareFlow(t)
           /\ SumFunction([f \in log |-> CashFlow(f)]) \in Int
           /\ SumFunction([f \in log |-> ShareFlow(f)]) \in Int
  <1>1. SumFunction([f \in log \cup {t} |-> CashFlow(f)])
            = SumFunction([f \in log |-> CashFlow(f)]) + CashFlow(t)
        /\ SumFunction([f \in log |-> CashFlow(f)]) \in Int
    <2> DEFINE g == [f \in log |-> CashFlow(f)]
               h == [f \in log \cup {t} |-> CashFlow(f)]
    <2>1. /\ DOMAIN g = log /\ DOMAIN h = log \cup {t}
          /\ \A f \in log : g[f] \in Int /\ h[f] = g[f]
          /\ h[t] \in Int /\ h[t] = CashFlow(t)
      BY FlowType
    <2> HIDE DEF g, h
    <2>2. SumFunctionOnSet(h, log \cup {t}) = SumFunctionOnSet(g, log) + h[t]
      BY <2>1, SumOfOneMore
    <2>3. SumFunctionOnSet(g, log) \in Int
      BY <2>1, SumIsInteger
    <2>4. SumFunction(g) = SumFunctionOnSet(g, log) /\ SumFunction(h) = SumFunctionOnSet(h, log \cup {t})
      BY <2>1 DEF SumFunction
    <2> QED
      BY <2>1, <2>2, <2>3, <2>4 DEF g, h
  <1>2. SumFunction([f \in log \cup {t} |-> ShareFlow(f)])
            = SumFunction([f \in log |-> ShareFlow(f)]) + ShareFlow(t)
        /\ SumFunction([f \in log |-> ShareFlow(f)]) \in Int
    <2> DEFINE g == [f \in log |-> ShareFlow(f)]
               h == [f \in log \cup {t} |-> ShareFlow(f)]
    <2>1. /\ DOMAIN g = log /\ DOMAIN h = log \cup {t}
          /\ \A f \in log : g[f] \in Int /\ h[f] = g[f]
          /\ h[t] \in Int /\ h[t] = ShareFlow(t)
      BY FlowType
    <2> HIDE DEF g, h
    <2>2. SumFunctionOnSet(h, log \cup {t}) = SumFunctionOnSet(g, log) + h[t]
      BY <2>1, SumOfOneMore
    <2>3. SumFunctionOnSet(g, log) \in Int
      BY <2>1, SumIsInteger
    <2>4. SumFunction(g) = SumFunctionOnSet(g, log) /\ SumFunction(h) = SumFunctionOnSet(h, log \cup {t})
      BY <2>1 DEF SumFunction
    <2> QED
      BY <2>1, <2>2, <2>3, <2>4 DEF g, h
  <1> QED
    BY <1>1, <1>2

\* The empty log replays to the seed.
LEMMA InitReplays ==
    ASSUME Init PROVE LedgerReplaysFills
  <1>1. account.cash + account.reserved = InitialCash /\ position.qty = 0 /\ fills = {}
    BY PaperConstants DEF Init
  <1>2. /\ SumFunction([f \in {} |-> CashFlow(f)]) = 0
        /\ SumFunction([f \in {} |-> ShareFlow(f)]) = 0
    <2>1. ASSUME NEW g, DOMAIN g = {} PROVE SumFunction(g) = 0
      BY <2>1, SumOfNothing DEF SumFunction
    <2> QED
      BY <2>1
  <1>3. InitialCash \in Nat
    BY PaperConstants
  <1> QED
    BY <1>1, <1>2, <1>3 DEF LedgerReplaysFills

\* Every step of the book moves what its trade says.
LEMMA BookReplays ==
    ASSUME RowsInv, RowsInv', LedgerReplaysFills, [Book!BookNext]_(Book!bookVars)
    PROVE  LedgerReplaysFills'
  <1>1. /\ fills \in SUBSET Fill /\ fills' \in SUBSET Fill /\ IsFiniteSet(fills)
        /\ account \in [cash : Int, reserved : Int] /\ position \in [qty : Nat, reserved : Nat]
    BY RowsInvParts, RowsInvPartsNext DEF PositionOK
  <1>2. ASSUME fills' = fills, position'.qty = position.qty,
               account'.cash + account'.reserved = account.cash + account.reserved
        PROVE  LedgerReplaysFills'
    BY <1>2 DEF LedgerReplaysFills
  <1>3. CASE UNCHANGED Book!bookVars \/ Book!Close
    BY <1>2, <1>3 DEF Book!bookVars, Book!Close
  <1>4. ASSUME NEW t \in fills', Book!Trade(t) PROVE LedgerReplaysFills'
    <2>1. /\ \A u \in fills : u.id # t.id /\ fills' = fills \cup {t}
          /\ account'.cash + account'.reserved = account.cash + account.reserved + Book!CashFlow(t)
          /\ position'.qty = position.qty + Book!ShareFlow(t)
      BY <1>4 DEF Book!Trade
    <2>2. t \in Fill /\ t \notin fills
      BY <1>1, <2>1
    <2> DEFINE money == SumFunction([f \in fills |-> CashFlow(f)])
               stock == SumFunction([f \in fills |-> ShareFlow(f)])
    <2>3. /\ SumFunction([f \in fills \cup {t} |-> CashFlow(f)]) = money + CashFlow(t)
          /\ SumFunction([f \in fills \cup {t} |-> ShareFlow(f)]) = stock + ShareFlow(t)
          /\ money \in Int /\ stock \in Int
      BY <1>1, <2>2, LogSumGrows
    <2>4. account.cash + account.reserved = InitialCash + money /\ position.qty = stock
      BY DEF LedgerReplaysFills
    <2> HIDE DEF money, stock
    <2>5. CashFlow(t) \in Int /\ ShareFlow(t) \in Int
          /\ Book!CashFlow(t) = CashFlow(t) /\ Book!ShareFlow(t) = ShareFlow(t)
      BY <2>2, FlowType
    <2>6. InitialCash \in Nat
      BY PaperConstants
    <2>7. fills' = fills \cup {t}
      BY <1>4 DEF Book!Trade
    <2>8. /\ account'.cash + account'.reserved
               = InitialCash + SumFunction([f \in fills \cup {t} |-> CashFlow(f)])
          /\ position'.qty = SumFunction([f \in fills \cup {t} |-> ShareFlow(f)])
      BY <2>1, <2>3, <2>4, <2>5, <2>6
    <2> QED
      BY <2>7, <2>8 DEF LedgerReplaysFills
  <1> QED
    BY <1>3, <1>4 DEF Book!BookNext

\* Replaying the fill log from the seed gives the cash, free and reserved, and
\* the shares: reservations, refunds, partial fills and cancels neither make
\* nor lose money.
THEOREM FillsReplay == Spec => []LedgerReplaysFills
  <1>1. Init => LedgerReplaysFills
    BY InitReplays
  <1>2. RowsInv /\ RowsInv' /\ LedgerReplaysFills /\ [Next]_vars => LedgerReplaysFills'
    BY BookStep, BookReplays
  <1> QED
    BY <1>1, <1>2, RowsInvHolds, PTL DEF Spec
-----------------------------------------------------------------------------
(* Rows and the fill log agree *)

\* The shares filled of one owner according to a log, and what RowsAgreeWithFills
\* asks of an order and of a leg with so many shares filled.
FilledIn(log, owner) == SumFunction([f \in {g \in log : g.owner = owner} |-> f.qty])

OrderAgrees(o, filled) ==
    /\ o.fillQty = filled
    /\ o.fillQty + o.remaining = o.qty
    /\ (o.status = "SIMULATED_FILLED") <=> (o.remaining = 0 /\ o.status # "NONE")
    /\ o.status = "REJECTED" => o.fillQty = 0

LegAgrees(leg, filled) ==
    /\ leg.fillQty = filled
    /\ leg.fillQty + leg.remaining = leg.qty
    /\ (leg.status = "SIMULATED_FILLED") <=> (leg.remaining = 0 /\ leg.status # "NONE")

OrdersAgree(os, log) == \A c \in ClientIds : OrderAgrees(os[c], FilledIn(log, <<c, "order", 0>>))
LegsAgree(ls, log) == \A c \in ClientIds, k \in Kinds :
    LegAgrees(ls[c][k], FilledIn(log, <<c, k, ls[c][k].revision>>))

\* The fills of a leg in a log are of its rows so far.
LogFits(ls, log) == \A f \in log, c \in ClientIds, k \in Kinds :
    f.owner[1] = c /\ f.owner[2] = k => f.owner[3] <= ls[c][k].revision

\* What the agreement and the log say of rows, in these words.
Agreed == OrdersAgree(orders, fills) /\ LegsAgree(legs, fills) /\ LogFits(legs, fills)

LEMMA AgreedMeans == Agreed => RowsAgreeWithFills
  BY DEF Agreed, OrdersAgree, LegsAgree, OrderAgrees, LegAgrees, FilledIn, RowsAgreeWithFills, FilledFor

\* No fill of an owner, no shares filled.
LEMMA FilledInNothing ==
    ASSUME NEW log, NEW owner, \A f \in log : f.owner # owner
    PROVE  FilledIn(log, owner) = 0
  <1> DEFINE g == [f \in {h \in log : h.owner = owner} |-> f.qty]
  <1>1. DOMAIN g = {}
    OBVIOUS
  <1>2. FilledIn(log, owner) = SumFunction(g)
    BY DEF FilledIn
  <1> HIDE DEF g
  <1> QED
    BY <1>1, <1>2, SumOfNothing DEF SumFunction

\* One more fill counts for its owner and for nobody else.
LEMMA FilledInGrows ==
    ASSUME NEW log \in SUBSET Fill, IsFiniteSet(log), NEW t \in Fill, t \notin log
    PROVE  /\ FilledIn(log \cup {t}, t.owner) = FilledIn(log, t.owner) + t.qty
           /\ \A owner : owner # t.owner => FilledIn(log \cup {t}, owner) = FilledIn(log, owner)
  <1>1. FilledIn(log \cup {t}, t.owner) = FilledIn(log, t.owner) + t.qty
    <2> DEFINE S == {h \in log : h.owner = t.owner}
               g == [f \in S |-> f.qty]
               U == {h \in log \cup {t} : h.owner = t.owner}
               k == [f \in U |-> f.qty]
    <2>1. U = S \cup {t} /\ t \notin S /\ IsFiniteSet(S)
      BY FS_Subset
    <2>2. /\ DOMAIN g = S /\ DOMAIN k = U /\ k[t] = t.qty /\ k[t] \in Int
          /\ \A x \in S : g[x] \in Int /\ k[x] = g[x]
      BY DEF Fill
    <2>3. FilledIn(log, t.owner) = SumFunction(g) /\ FilledIn(log \cup {t}, t.owner) = SumFunction(k)
      BY DEF FilledIn
    <2> HIDE DEF g, k, S, U
    <2>4. SumFunctionOnSet(k, S \cup {t}) = SumFunctionOnSet(g, S) + k[t]
      BY <2>1, <2>2, SumOfOneMore
    <2>5. SumFunction(g) = SumFunctionOnSet(g, S) /\ SumFunction(k) = SumFunctionOnSet(k, S \cup {t})
      BY <2>1, <2>2 DEF SumFunction
    <2> QED
      BY <2>2, <2>3, <2>4, <2>5
  <1>2. ASSUME NEW owner, owner # t.owner
        PROVE  FilledIn(log \cup {t}, owner) = FilledIn(log, owner)
    <2>1. {h \in log \cup {t} : h.owner = owner} = {h \in log : h.owner = owner}
      BY <1>2
    <2> QED
      BY <2>1 DEF FilledIn
  <1> QED
    BY <1>1, <1>2

\* What a transaction that records a fill does to the counts.
LEMMA RecordCounts ==
    ASSUME RowsInv, RowsInv', NEW id, NEW owner, NEW side, NEW n \in Nat, NEW price,
           Record(id, owner, side, n, price), ~FillIdUsed(id)
    PROVE  /\ FilledIn(fills', owner) = FilledIn(fills, owner) + n
           /\ \A other : other # owner => FilledIn(fills', other) = FilledIn(fills, other)
           /\ \A f \in fills' : f \in fills \/ (f.owner = owner /\ f.id = id)
  <1> DEFINE t == [id |-> id, owner |-> owner, side |-> side, qty |-> n,
                   price |-> price, fee |-> Fee(price * n)]
  <1>1. fills' = fills \cup {t} /\ t.id = id /\ t.owner = owner /\ t.qty = n
    BY DEF Record
  <1> HIDE DEF t
  <1>2. fills \in SUBSET Fill /\ IsFiniteSet(fills) /\ t \in Fill
    BY <1>1, RowsInvParts, RowsInvPartsNext
  <1>3. t \notin fills
    BY <1>1 DEF FillIdUsed
  <1> QED
    BY <1>1, <1>2, <1>3, FilledInGrows

\* Legs agree with a log in which their own counts did not change.
LEMMA LegsStillAgree ==
    ASSUME NEW ls \in [ClientIds -> [Kinds -> Leg]], NEW log, NEW more, LegsAgree(ls, log), LogFits(ls, log),
           NEW c \in ClientIds,
           \A other : other # <<c, "order", 0>> => FilledIn(more, other) = FilledIn(log, other),
           \A f \in more : f \in log \/ f.owner = <<c, "order", 0>>
    PROVE  LegsAgree(ls, more) /\ LogFits(ls, more)
  <1>1. \A d \in ClientIds, k \in Kinds : \A v : <<d, k, v>> # <<c, "order", 0>>
    BY DEF Kinds
  <1>2. LegsAgree(ls, more)
    BY <1>1 DEF LegsAgree
  <1>3. LogFits(ls, more)
    BY <1>1 DEF LogFits, Kinds
  <1> QED
    BY <1>2, <1>3

\* A leg after reconciliation agrees with the log: cancelled and resized rows keep
\* what they filled, and a row opened anew has filled nothing.
LEMMA FittedLegAgrees ==
    ASSUME NEW leg \in Leg, NEW k \in Kinds, NEW want \in Nat, NEW filled, LegAgrees(leg, filled)
    PROVE  LET new == FittedLeg(leg, k, want)
           IN  \/ new.revision = leg.revision /\ LegAgrees(new, filled)
               \/ new.revision = leg.revision + 1 /\ LegAgrees(new, 0)
  <1> DEFINE new == FittedLeg(leg, k, want)
             held == IF k = "stop" THEN want ELSE 0
             size == leg.fillQty + want
  <1>1. leg.fillQty \in Nat /\ leg.remaining \in Nat
    BY DEF Leg
  <1>2. CASE want = 0
    <2>1. new = CancelledLeg(leg)
      BY <1>2 DEF FittedLeg
    <2> HIDE DEF new
    <2>2. CASE leg.status = "ACCEPTED"
      <3>1. new = [leg EXCEPT !.status = "CANCELLED", !.reserved = 0]
        BY <2>1, <2>2 DEF CancelledLeg
      <3>2. /\ new.status = "CANCELLED" /\ new.fillQty = leg.fillQty /\ new.remaining = leg.remaining
            /\ new.qty = leg.qty /\ new.revision = leg.revision
        BY <3>1 DEF Leg
      <3> QED
        BY <2>2, <3>2 DEF LegAgrees, new
    <2>3. CASE leg.status # "ACCEPTED"
      BY <2>1, <2>3 DEF CancelledLeg, new
    <2> QED
      BY <2>2, <2>3
  <1>3. CASE want # 0 /\ leg.status = "ACCEPTED"
    <2>1. new = [leg EXCEPT !.qty = size, !.remaining = want, !.reserved = held]
      BY <1>3 DEF FittedLeg
    <2> HIDE DEF held, new
    <2>2. /\ new.status = leg.status /\ new.fillQty = leg.fillQty /\ new.remaining = want
          /\ new.qty = size /\ new.revision = leg.revision
      BY <2>1 DEF Leg
    <2> QED
      BY <1>3, <2>2 DEF LegAgrees, new
  <1>4. CASE want # 0 /\ leg.status # "ACCEPTED"
    <2>1. new = [status |-> "ACCEPTED", qty |-> want, fillQty |-> 0, remaining |-> want,
                 reserved |-> held, revision |-> leg.revision + 1]
      BY <1>4 DEF FittedLeg
    <2> QED
      BY <1>4, <2>1 DEF LegAgrees
  <1> QED
    BY <1>2, <1>3, <1>4

LEMMA FittedAgree ==
    ASSUME NEW os \in [ClientIds -> Order], NEW ls \in [ClientIds -> [Kinds -> Leg]],
           NEW pos, NEW extra, NEW log \in SUBSET Fill, LegsAgree(ls, log), LogFits(ls, log)
    PROVE  /\ LegsAgree(FittedLegs(os, ls, pos, extra), log)
           /\ LogFits(FittedLegs(os, ls, pos, extra), log)
  <1> DEFINE want == Fitted(os, ls, pos, extra)
             new == FittedLegs(os, ls, pos, extra)
  <1>1. want \in [ClientIds -> Nat]
    BY AllocateType DEF Fitted
  <1>2. new = [c \in ClientIds |-> [k \in Kinds |-> FittedLeg(ls[c][k], k, want[c])]]
    BY DEF FittedLegs
  <1> HIDE DEF want, new
  <1>3. ASSUME NEW c \in ClientIds, NEW k \in Kinds
        PROVE  /\ LegAgrees(new[c][k], FilledIn(log, <<c, k, new[c][k].revision>>))
               /\ ls[c][k].revision \in Nat /\ new[c][k].revision \in Nat
               /\ ls[c][k].revision <= new[c][k].revision
    <2> DEFINE v == ls[c][k].revision
               filled == FilledIn(log, <<c, k, v>>)
    <2>1. ls[c][k] \in Leg /\ v \in Nat /\ want[c] \in Nat
      BY <1>1 DEF Leg
    <2>2. new[c][k] = FittedLeg(ls[c][k], k, want[c])
      BY <1>2
    <2>3. LegAgrees(ls[c][k], filled)
      BY DEF LegsAgree
    <2>4. \/ new[c][k].revision = v /\ LegAgrees(new[c][k], filled)
          \/ new[c][k].revision = v + 1 /\ LegAgrees(new[c][k], 0)
      BY <2>1, <2>2, <2>3, FittedLegAgrees
    <2>5. FilledIn(log, <<c, k, v + 1>>) = 0
      <3>1. ASSUME NEW f \in log, f.owner = <<c, k, v + 1>> PROVE FALSE
        <4>1. f.owner[3] <= v
          BY <3>1 DEF LogFits
        <4> QED
          BY <2>1, <3>1, <4>1
      <3> QED
        BY <3>1, FilledInNothing
    <2> HIDE DEF v
    <2> QED
      BY <2>1, <2>4, <2>5 DEF v
  <1>4. LegsAgree(new, log)
    BY <1>3 DEF LegsAgree
  <1>5. LogFits(new, log)
    <2>1. ASSUME NEW f \in log, NEW c \in ClientIds, NEW k \in Kinds, f.owner[1] = c, f.owner[2] = k
          PROVE  f.owner[3] <= new[c][k].revision
      <3>1. f.owner[3] \in Nat
        BY DEF Fill, Owner
      <3>2. f.owner[3] <= ls[c][k].revision
        BY <2>1 DEF LogFits
      <3>3. /\ ls[c][k].revision \in Nat /\ new[c][k].revision \in Nat
            /\ ls[c][k].revision <= new[c][k].revision
        BY <1>3
      <3> QED
        BY <3>1, <3>2, <3>3
    <2> QED
      BY <2>1 DEF LogFits
  <1> QED
    BY <1>4, <1>5 DEF new

\* A transaction that ends in reconciliation leaves rows that agree, if those it
\* reconciles do.
LEMMA ReconcileAgrees ==
    ASSUME RowsInv', NEW os, NEW ls \in [ClientIds -> [Kinds -> Leg]], NEW pos, Reconcile(os, ls, pos),
           OrdersAgree(os, fills'), LegsAgree(ls, fills'), LogFits(ls, fills')
    PROVE  Agreed'
  <1>1. orders' = os /\ legs' = FittedLegs(os, ls, pos, 0)
    BY DEF Reconcile
  <1>2. os \in [ClientIds -> Order] /\ fills' \in SUBSET Fill
    BY <1>1, RowsInvPartsNext DEF OrdersOK
  <1>3. LegsAgree(legs', fills') /\ LogFits(legs', fills')
    BY <1>1, <1>2, FittedAgree
  <1> QED
    BY <1>1, <1>3 DEF Agreed, OrdersAgree, LegsAgree, LogFits, FilledIn

\* Orders agree with a log after the row and the count of one of them changed.
LEMMA OrdersStillAgree ==
    ASSUME NEW os, NEW log, OrdersAgree(os, log), NEW ns, NEW more, NEW c \in ClientIds,
           \A d \in ClientIds \ {c} : ns[d] = os[d],
           \A other : other # <<c, "order", 0>> => FilledIn(more, other) = FilledIn(log, other),
           OrderAgrees(ns[c], FilledIn(more, <<c, "order", 0>>))
    PROVE  OrdersAgree(ns, more)
  BY DEF OrdersAgree

\* Using up protection leaves what rows filled alone.
LEMMA ConsumeAgrees ==
    ASSUME NEW os \in [ClientIds -> Order], NEW log, OrdersAgree(os, log), NEW n, NEW preferred
    PROVE  OrdersAgree(Consume(os, n, preferred), log)
  <1> DEFINE used == Allocate(os, n, preferred)
             after == Consume(os, n, preferred)
  <1>1. after = [c \in ClientIds |-> [os[c] EXCEPT !.protection = @ - used[c]]]
    BY DEF Consume
  <1> HIDE DEF used, after
  <1>2. \A c \in ClientIds : /\ after[c].fillQty = os[c].fillQty /\ after[c].remaining = os[c].remaining
                             /\ after[c].qty = os[c].qty /\ after[c].status = os[c].status
    BY <1>1 DEF Order
  <1> QED
    BY <1>2 DEF OrdersAgree, OrderAgrees, after

\* The filled row of an order agrees with one more fill.
LEMMA FilledAgrees ==
    ASSUME NEW o \in Order, OrderShape(o), o.status = "ACCEPTED", NEW filled, OrderAgrees(o, filled),
           NEW n \in 1..o.remaining, NEW at \in Instants,
           NEW new, new.fillQty = Filled(o, n, at).fillQty, new.remaining = Filled(o, n, at).remaining,
           new.qty = Filled(o, n, at).qty, new.status = Filled(o, n, at).status
    PROVE  OrderAgrees(new, filled + n)
  <1>1. o.remaining \in Nat /\ o.fillQty \in Nat /\ o.qty \in Nat /\ n \in Nat
    BY DEF Order
  <1>2. /\ new.fillQty = o.fillQty + n /\ new.remaining = o.remaining - n /\ new.qty = o.qty
        /\ new.status = IF n = o.remaining THEN "SIMULATED_FILLED" ELSE "ACCEPTED"
    BY FilledOK
  <1> QED
    BY <1>1, <1>2 DEF OrderAgrees

LEMMA SubmitAgreed ==
    ASSUME RowsInv, RowsInv', Agreed, NEW c \in ClientIds, NEW r \in Requests, NEW acceptable \in BOOLEAN,
           SubmitBuy(c, r, acceptable) \/ SubmitSell(c, r, acceptable)
    PROVE  Agreed'
  <1>1. /\ orders \in [ClientIds -> Order] /\ OrderShape(orders[c])
        /\ legs \in [ClientIds -> [Kinds -> Leg]] /\ fills \in SUBSET Fill
    BY RowsInvParts DEF OrdersOK, LegsOK
  <1>2. PICK accepted, cash, shares :
            orders[c].status = "NONE" /\ orders' = [orders EXCEPT ![c] = NewOrder(r, accepted, cash, shares)]
    <2>1. CASE SubmitBuy(c, r, acceptable)
      BY <2>1 DEF SubmitBuy, LedgerAccepts
    <2>2. CASE SubmitSell(c, r, acceptable)
      BY <2>2 DEF SubmitSell, LedgerAccepts
    <2> QED
      BY <2>1, <2>2
  <1>3. OrderAgrees(orders'[c], FilledIn(fills, <<c, "order", 0>>))
    <2>1. FilledIn(fills, <<c, "order", 0>>) = 0
      BY <1>1, <1>2 DEF Agreed, OrdersAgree, OrderAgrees, OrderShape
    <2>2. orders'[c] = NewOrder(r, accepted, cash, shares) /\ r.qty \in Nat \ {0}
      BY <1>1, <1>2, RequestType
    <2>3. OrderAgrees(NewOrder(r, accepted, cash, shares), 0)
      BY <2>2 DEF NewOrder, OrderAgrees
    <2> QED
      BY <2>1, <2>2, <2>3
  <1>4. fills' = fills
        /\ (legs' = legs \/ legs' = FittedLegs(orders, legs, position, r.qty))
    BY DEF SubmitBuy, SubmitSell
  <1>5. OrdersAgree(orders', fills)
    <2>1. \A d \in ClientIds \ {c} : orders'[d] = orders[d]
      BY <1>1, <1>2
    <2> QED
      BY <1>3, <2>1, OrdersStillAgree DEF Agreed
  <1>6. LegsAgree(legs', fills) /\ LogFits(legs', fills)
    BY <1>1, <1>4, FittedAgree DEF Agreed
  <1> QED
    BY <1>4, <1>5, <1>6 DEF Agreed, OrdersAgree, LegsAgree, LogFits, FilledIn

LEMMA FillBuyAgreed ==
    ASSUME RowsInv, RowsInv', Agreed, NEW c \in ClientIds, NEW n \in 1..orders[c].remaining,
           NEW id, NEW price \in Nat, NEW at \in Instants, FillBuy(c, n, id, price, at)
    PROVE  Agreed'
  <1> DEFINE o == orders[c]
             filled == Filled(o, n, at)
             hold == Most(0, filled.reservedCash - ReservedShare(o.reservedCash, n, o.remaining))
             lot == filled.protection + n
             after == [filled EXCEPT !.reservedCash = hold, !.protection = lot]
             os == [orders EXCEPT ![c] = after]
             pos == [position EXCEPT !.qty = position.qty + n]
             owner == <<c, "order", 0>>
  <1>1. /\ orders \in [ClientIds -> Order] /\ OrderShape(o) /\ legs \in [ClientIds -> [Kinds -> Leg]]
        /\ IsFiniteSet(fills)
    BY RowsInvParts DEF OrdersOK, LegsOK
  <1>2. o \in Order /\ o.status = "ACCEPTED" /\ n \in Nat /\ o.remaining \in Nat
    BY <1>1 DEF FillBuy, Order
  <1>3. /\ Record(id, owner, "BUY", n, price) /\ ~FillIdUsed(id)
        /\ Reconcile(os, legs, pos)
    BY DEF FillBuy
  <1>4. /\ FilledIn(fills', owner) = FilledIn(fills, owner) + n
        /\ \A other : other # owner => FilledIn(fills', other) = FilledIn(fills, other)
        /\ \A f \in fills' : f \in fills \/ f.owner = owner
    BY <1>2, <1>3, RecordCounts
  <1>5. filled \in Order
    BY <1>1, <1>2, FilledOK
  <1> HIDE DEF hold, lot
  <1>6. OrderAgrees(after, FilledIn(fills', owner))
    <2>1. /\ after.fillQty = filled.fillQty /\ after.remaining = filled.remaining
          /\ after.qty = filled.qty /\ after.status = filled.status
      <3> HIDE DEF filled
      <3> QED
        BY <1>5 DEF Order
    <2>2. OrderAgrees(o, FilledIn(fills, owner))
      BY DEF Agreed, OrdersAgree
    <2> HIDE DEF after, owner
    <2> QED
      BY <1>1, <1>2, <1>4, <2>1, <2>2, FilledAgrees
  <1> HIDE DEF after
  <1>7. OrdersAgree(os, fills')
    <2>1. os[c] = after /\ \A d \in ClientIds \ {c} : os[d] = orders[d]
      BY <1>1
    <2> HIDE DEF os
    <2> QED
      BY <1>4, <1>6, <2>1, OrdersStillAgree DEF Agreed
  <1>8. LegsAgree(legs, fills') /\ LogFits(legs, fills')
    BY <1>1, <1>4, LegsStillAgree DEF Agreed
  <1> HIDE DEF os, pos
  <1> QED
    BY <1>1, <1>3, <1>7, <1>8, ReconcileAgrees

LEMMA FillSellAgreed ==
    ASSUME RowsInv, RowsInv', Agreed, NEW c \in ClientIds, NEW n \in 1..orders[c].remaining,
           NEW id, NEW price \in Nat, NEW at \in Instants, FillSell(c, n, id, price, at)
    PROVE  Agreed'
  <1> DEFINE o == orders[c]
             filled == Filled(o, n, at)
             hold == filled.reservedQty - Least(n, filled.reservedQty)
             after == [filled EXCEPT !.reservedQty = hold]
             os == [orders EXCEPT ![c] = after]
             pos == Sold(position, n, o.reservedQty)
             owner == <<c, "order", 0>>
  <1>1. /\ OrdersOK(orders) /\ legs \in [ClientIds -> [Kinds -> Leg]] /\ IsFiniteSet(fills)
    BY RowsInvParts DEF LegsOK
  <1>2. /\ o \in Order /\ OrderShape(o) /\ o.status = "ACCEPTED" /\ n \in Nat /\ o.remaining \in Nat
        /\ o.reservedQty = o.remaining
    BY <1>1 DEF FillSell, Order, OrdersOK, OrderShape
  <1>3. /\ Record(id, owner, "SELL", n, price) /\ ~FillIdUsed(id)
        /\ Reconcile(Consume(os, n, {}), legs, pos)
    BY DEF FillSell
  <1>4. /\ FilledIn(fills', owner) = FilledIn(fills, owner) + n
        /\ \A other : other # owner => FilledIn(fills', other) = FilledIn(fills, other)
        /\ \A f \in fills' : f \in fills \/ f.owner = owner
    BY <1>2, <1>3, RecordCounts
  <1>5. filled \in Order /\ filled.reservedQty = o.reservedQty
    BY <1>1, <1>2, FilledOK
  <1>6. hold \in Nat
    BY <1>2, <1>5 DEF Least
  <1> HIDE DEF hold
  <1>7. after \in Order
    <2> HIDE DEF filled
    <2> QED
      BY <1>5, <1>6 DEF Order
  <1>8. OrderAgrees(after, FilledIn(fills', owner))
    <2>1. /\ after.fillQty = filled.fillQty /\ after.remaining = filled.remaining
          /\ after.qty = filled.qty /\ after.status = filled.status
      <3> HIDE DEF filled
      <3> QED
        BY <1>5 DEF Order
    <2>2. OrderAgrees(o, FilledIn(fills, owner))
      BY DEF Agreed, OrdersAgree
    <2> HIDE DEF after, owner
    <2> QED
      BY <1>1, <1>2, <1>4, <2>1, <2>2, FilledAgrees
  <1> HIDE DEF after
  <1>9. os \in [ClientIds -> Order] /\ os[c] = after /\ \A d \in ClientIds \ {c} : os[d] = orders[d]
    BY <1>1, <1>7 DEF OrdersOK
  <1> HIDE DEF os
  <1>10. OrdersAgree(os, fills')
    BY <1>4, <1>8, <1>9, OrdersStillAgree DEF Agreed
  <1>11. OrdersAgree(Consume(os, n, {}), fills')
    BY <1>9, <1>10, ConsumeAgrees
  <1>12. LegsAgree(legs, fills') /\ LogFits(legs, fills')
    BY <1>1, <1>4, LegsStillAgree DEF Agreed
  <1> HIDE DEF pos
  <1> QED
    BY <1>1, <1>3, <1>11, <1>12, ReconcileAgrees

\* The group of a leg that fills: the other legs' counts stay as they were.
LEMMA GroupStillAgrees ==
    ASSUME RowsInv, Agreed, NEW more, NEW c \in ClientIds, NEW k \in Kinds, NEW n \in Nat,
           NEW group \in [Kinds -> Leg],
           \A other : other # <<c, k, legs[c][k].revision>> => FilledIn(more, other) = FilledIn(fills, other),
           FilledIn(more, <<c, k, legs[c][k].revision>>) = FilledIn(fills, <<c, k, legs[c][k].revision>>) + n,
           \A f \in more : f \in fills \/ f.owner = <<c, k, legs[c][k].revision>>,
           \A j \in Kinds : group[j].revision = legs[c][j].revision,
           LegAgrees(group[k], FilledIn(fills, <<c, k, legs[c][k].revision>>) + n),
           \A j \in Kinds \ {k} : LegAgrees(group[j], FilledIn(fills, <<c, j, legs[c][j].revision>>)),
           NEW ms, ms = [legs EXCEPT ![c] = group]
    PROVE  LegsAgree(ms, more) /\ LogFits(ms, more) /\ OrdersAgree(orders, more)
  <1>1. /\ ms[c] = group /\ \A d \in ClientIds \ {c} : ms[d] = legs[d]
        /\ legs \in [ClientIds -> [Kinds -> Leg]]
    BY RowsInvParts DEF LegsOK
  <1>2. ASSUME NEW d \in ClientIds, NEW j \in Kinds
        PROVE  /\ ms[d][j].revision = legs[d][j].revision /\ legs[d][j].revision \in Nat
               /\ LegAgrees(ms[d][j], FilledIn(more, <<d, j, ms[d][j].revision>>))
    <2>1. LegAgrees(legs[d][j], FilledIn(fills, <<d, j, legs[d][j].revision>>))
      BY DEF Agreed, LegsAgree
    <2>2. legs[d][j].revision \in Nat
      BY <1>1 DEF Leg
    <2>3. CASE d # c
      BY <1>1, <2>1, <2>2, <2>3
    <2>4. CASE d = c /\ j # k
      BY <1>1, <2>1, <2>2, <2>4
    <2>5. CASE d = c /\ j = k
      BY <1>1, <2>1, <2>2, <2>5
    <2> QED
      BY <2>3, <2>4, <2>5
  <1>3. LegsAgree(ms, more)
    BY <1>2 DEF LegsAgree
  <1>4. LogFits(ms, more)
    <2>1. ASSUME NEW f \in more, NEW d \in ClientIds, NEW j \in Kinds, f.owner[1] = d, f.owner[2] = j
          PROVE  f.owner[3] <= ms[d][j].revision
      <3>1. ms[d][j].revision = legs[d][j].revision /\ legs[d][j].revision \in Nat
        BY <1>2
      <3>2. CASE f \in fills
        BY <2>1, <3>1, <3>2 DEF Agreed, LogFits
      <3>3. CASE f.owner = <<c, k, legs[c][k].revision>>
        BY <2>1, <3>1, <3>3
      <3> QED
        BY <3>2, <3>3
    <2> QED
      BY <2>1 DEF LogFits
  <1>5. OrdersAgree(orders, more)
    <2>1. \A d \in ClientIds : <<d, "order", 0>> # <<c, k, legs[c][k].revision>>
      BY DEF Kinds
    <2> QED
      BY <2>1 DEF Agreed, OrdersAgree
  <1> QED
    BY <1>3, <1>4, <1>5

\* The filled row of a leg agrees with one more fill.
LEMMA FilledLegAgrees ==
    ASSUME NEW leg \in Leg, LegShape(leg), leg.status = "ACCEPTED", NEW filled, LegAgrees(leg, filled),
           NEW n \in 1..leg.remaining, NEW hold \in Nat
    PROVE  /\ LegAgrees(FilledLeg(leg, n, hold), filled + n)
           /\ FilledLeg(leg, n, hold).revision = leg.revision
  <1> DEFINE more == leg.fillQty + n
             left == leg.remaining - n
             status == IF n = leg.remaining THEN "SIMULATED_FILLED" ELSE "ACCEPTED"
             new == FilledLeg(leg, n, hold)
  <1>1. leg.remaining \in Nat /\ leg.fillQty \in Nat /\ leg.qty \in Nat /\ n \in Nat
    BY DEF Leg
  <1>2. new = [leg EXCEPT !.fillQty = more, !.remaining = left, !.reserved = hold, !.status = status]
    BY DEF FilledLeg
  <1> HIDE DEF more, left, status, new
  <1>3. /\ new.fillQty = more /\ new.remaining = left /\ new.qty = leg.qty /\ new.status = status
        /\ new.revision = leg.revision
    BY <1>2 DEF Leg
  <1>4. LegAgrees(new, filled + n)
    BY <1>1, <1>3 DEF LegAgrees, more, left, status
  <1> QED
    BY <1>3, <1>4 DEF new

\* A cancelled leg agrees as it did when open.
LEMMA CancelledLegAgrees ==
    ASSUME NEW leg \in Leg, LegShape(leg), NEW filled, LegAgrees(leg, filled)
    PROVE  LegAgrees(CancelledLeg(leg), filled) /\ CancelledLeg(leg).revision = leg.revision
  <1>1. CASE leg.status = "ACCEPTED"
    <2> DEFINE new == CancelledLeg(leg)
    <2>1. new = [leg EXCEPT !.status = "CANCELLED", !.reserved = 0]
      BY <1>1 DEF CancelledLeg
    <2> HIDE DEF new
    <2>2. /\ new.status = "CANCELLED" /\ new.fillQty = leg.fillQty /\ new.remaining = leg.remaining
          /\ new.qty = leg.qty /\ new.revision = leg.revision
      BY <2>1 DEF Leg
    <2> QED
      BY <1>1, <2>2 DEF LegAgrees, new
  <1>2. CASE leg.status # "ACCEPTED"
    BY <1>2 DEF CancelledLeg
  <1> QED
    BY <1>1, <1>2

LEMMA FillLegAgreed ==
    ASSUME RowsInv, RowsInv', Agreed, NEW c \in ClientIds, NEW k \in Kinds,
           NEW n \in 1..legs[c][k].remaining, NEW id, NEW price \in Nat, FillLeg(c, k, n, id, price)
    PROVE  Agreed'
  <1> DEFINE leg == legs[c][k]
             held == GroupReserved(c)
             hold == held - Least(n, held)
             after == FilledLeg(leg, n, hold)
             owner == <<c, k, leg.revision>>
             Stale(j) == [legs[c][j] EXCEPT !.reserved = 0]
             ended == [j \in Kinds |-> IF j = k THEN after ELSE CancelledLeg(legs[c][j])]
             left == [j \in Kinds |-> IF j = k THEN after ELSE Stale(j)]
             gone == [legs EXCEPT ![c] = ended]
             open == [legs EXCEPT ![c] = left]
             spent == Consume(orders, n, {c})
             sold == Sold(position, n, held)
  <1>1. OrdersOK(orders) /\ LegsOK(legs)
    BY RowsInvParts
  <1>2. /\ leg \in Leg /\ LegShape(leg) /\ leg.status = "ACCEPTED" /\ n \in Nat
        /\ held = leg.remaining /\ held \in Nat
    BY <1>1 DEF LegsOK, FillLeg, ClaimSucceeds, Leg
  <1>3. /\ Record(id, owner, "SELL", n, price) /\ ~FillIdUsed(id)
        /\ \/ /\ orders' = [spent EXCEPT ![c].filledLegs = @ + 1] /\ legs' = gone
           \/ Reconcile(spent, open, sold)
    BY DEF FillLeg
  <1>4. /\ FilledIn(fills', owner) = FilledIn(fills, owner) + n
        /\ \A other : other # owner => FilledIn(fills', other) = FilledIn(fills, other)
        /\ \A f \in fills' : f \in fills \/ f.owner = owner
    BY <1>2, <1>3, RecordCounts
  <1>5. hold \in Nat
    BY <1>2 DEF Least
  <1>6. \A j \in Kinds : LegAgrees(legs[c][j], FilledIn(fills, <<c, j, legs[c][j].revision>>))
    BY DEF Agreed, LegsAgree
  <1> HIDE DEF held, hold
  <1>7. after \in Leg /\ LegAgrees(after, FilledIn(fills, owner) + n) /\ after.revision = leg.revision
    BY <1>2, <1>5, <1>6, FilledLegOK, FilledLegAgrees
  <1>8. ASSUME NEW j \in Kinds
        PROVE  /\ CancelledLeg(legs[c][j]) \in Leg /\ CancelledLeg(legs[c][j]).revision = legs[c][j].revision
               /\ LegAgrees(CancelledLeg(legs[c][j]), FilledIn(fills, <<c, j, legs[c][j].revision>>))
               /\ Stale(j) \in Leg /\ Stale(j).revision = legs[c][j].revision
               /\ LegAgrees(Stale(j), FilledIn(fills, <<c, j, legs[c][j].revision>>))
    <2>1. legs[c][j] \in Leg /\ LegShape(legs[c][j])
      BY <1>1 DEF LegsOK
    <2>2. /\ Stale(j) \in Leg /\ Stale(j).revision = legs[c][j].revision
          /\ Stale(j).fillQty = legs[c][j].fillQty /\ Stale(j).remaining = legs[c][j].remaining
          /\ Stale(j).qty = legs[c][j].qty /\ Stale(j).status = legs[c][j].status
      BY <2>1 DEF Leg
    <2> HIDE DEF Stale
    <2>3. LegAgrees(Stale(j), FilledIn(fills, <<c, j, legs[c][j].revision>>))
      BY <1>6, <2>2 DEF LegAgrees
    <2> QED
      BY <1>6, <2>1, <2>2, <2>3, CancelledLegOK, CancelledLegAgrees
  <1> HIDE DEF after, Stale
  <1>9. /\ LegsAgree(gone, fills') /\ LogFits(gone, fills') /\ OrdersAgree(orders, fills')
        /\ LegsAgree(open, fills') /\ LogFits(open, fills') /\ open \in [ClientIds -> [Kinds -> Leg]]
    <2>1. /\ ended \in [Kinds -> Leg] /\ ended[k] = after
          /\ \A j \in Kinds \ {k} : ended[j] = CancelledLeg(legs[c][j])
      BY <1>7, <1>8
    <2>2. /\ left \in [Kinds -> Leg] /\ left[k] = after
          /\ \A j \in Kinds \ {k} : left[j] = Stale(j)
      BY <1>7, <1>8
    <2> HIDE DEF ended, left
    <2>3. LegsAgree(gone, fills') /\ LogFits(gone, fills') /\ OrdersAgree(orders, fills')
      <3>1. \A j \in Kinds : ended[j].revision = legs[c][j].revision
        BY <1>7, <1>8, <2>1
      <3>2. \A j \in Kinds \ {k} : LegAgrees(ended[j], FilledIn(fills, <<c, j, legs[c][j].revision>>))
        BY <1>8, <2>1
      <3> QED
        BY <1>2, <1>4, <1>7, <2>1, <3>1, <3>2, GroupStillAgrees
    <2>4. LegsAgree(open, fills') /\ LogFits(open, fills')
      <3>1. \A j \in Kinds : left[j].revision = legs[c][j].revision
        BY <1>7, <1>8, <2>2
      <3>2. \A j \in Kinds \ {k} : LegAgrees(left[j], FilledIn(fills, <<c, j, legs[c][j].revision>>))
        BY <1>8, <2>2
      <3> QED
        BY <1>2, <1>4, <1>7, <2>2, <3>1, <3>2, GroupStillAgrees
    <2>5. open \in [ClientIds -> [Kinds -> Leg]]
      BY <1>1, <2>2 DEF LegsOK
    <2> QED
      BY <2>3, <2>4, <2>5
  <1>10. OrdersAgree(spent, fills') /\ spent \in [ClientIds -> Order]
    BY <1>1, <1>9, ConsumeAgrees, ConsumeOK DEF OrdersOK
  <1> HIDE DEF gone, open, spent, sold
  <1>11. CASE orders' = [spent EXCEPT ![c].filledLegs = @ + 1] /\ legs' = gone
    <2>1. \A d \in ClientIds : /\ orders'[d].fillQty = spent[d].fillQty /\ orders'[d].remaining = spent[d].remaining
                               /\ orders'[d].qty = spent[d].qty /\ orders'[d].status = spent[d].status
      BY <1>10, <1>11 DEF Order
    <2>2. OrdersAgree(orders', fills')
      BY <1>10, <2>1 DEF OrdersAgree, OrderAgrees
    <2> QED
      BY <1>9, <1>11, <2>2 DEF Agreed, OrdersAgree, LegsAgree, LogFits, FilledIn
  <1>12. CASE Reconcile(spent, open, sold)
    BY <1>9, <1>10, <1>12, ReconcileAgrees
  <1> QED
    BY <1>3, <1>11, <1>12

LEMMA CancelAgreed ==
    ASSUME RowsInv, RowsInv', Agreed, NEW c \in ClientIds, Cancel(c)
    PROVE  Agreed'
  <1> DEFINE o == orders[c]
             after == [o EXCEPT !.status = "CANCELLED", !.reservedCash = 0, !.reservedQty = 0]
             os == [orders EXCEPT ![c] = after]
             pos == [position EXCEPT !.reserved = @ - o.reservedQty]
  <1>1. OrdersOK(orders) /\ legs \in [ClientIds -> [Kinds -> Leg]]
    BY RowsInvParts DEF LegsOK
  <1>2. o \in Order /\ OrderShape(o) /\ o.status = "ACCEPTED"
    BY <1>1 DEF Cancel, OrdersOK
  <1>3. Reconcile(os, legs, pos) /\ fills' = fills
    BY DEF Cancel
  <1>4. OrderAgrees(after, FilledIn(fills, <<c, "order", 0>>))
    <2>1. OrderAgrees(o, FilledIn(fills, <<c, "order", 0>>))
      BY DEF Agreed, OrdersAgree
    <2>2. /\ after.fillQty = o.fillQty /\ after.remaining = o.remaining /\ after.qty = o.qty
          /\ after.status = "CANCELLED"
      BY <1>2 DEF Order
    <2> HIDE DEF after
    <2> QED
      BY <1>2, <2>1, <2>2 DEF OrderAgrees
  <1> HIDE DEF after
  <1>5. os[c] = after /\ \A d \in ClientIds \ {c} : os[d] = orders[d]
    BY <1>1 DEF OrdersOK
  <1> HIDE DEF os, pos
  <1>6. OrdersAgree(os, fills)
    BY <1>4, <1>5, OrdersStillAgree DEF Agreed
  <1> QED
    BY <1>1, <1>3, <1>6, ReconcileAgrees DEF Agreed

LEMMA CancelLegAgreed ==
    ASSUME RowsInv, RowsInv', Agreed, NEW c \in ClientIds, NEW k \in Kinds, CancelLeg(c, k)
    PROVE  Agreed'
  <1> DEFINE group == [j \in Kinds |-> CancelledLeg(legs[c][j])]
  <1>1. OrdersOK(orders) /\ LegsOK(legs)
    BY RowsInvParts
  <1>2. /\ legs' = [legs EXCEPT ![c] = group] /\ fills' = fills
        /\ orders' = Consume(orders, legs[c][k].qty, {c})
    BY DEF CancelLeg
  <1>3. OrdersAgree(orders', fills)
    BY <1>1, <1>2, ConsumeAgrees DEF Agreed, OrdersOK
  <1>4. ASSUME NEW d \in ClientIds, NEW j \in Kinds
        PROVE  /\ legs'[d][j].revision = legs[d][j].revision
               /\ LegAgrees(legs'[d][j], FilledIn(fills, <<d, j, legs[d][j].revision>>))
    <2>1. legs[d][j] \in Leg /\ LegShape(legs[d][j])
          /\ LegAgrees(legs[d][j], FilledIn(fills, <<d, j, legs[d][j].revision>>))
      BY <1>1 DEF LegsOK, Agreed, LegsAgree
    <2>2. legs'[d][j] = legs[d][j] \/ legs'[d][j] = CancelledLeg(legs[d][j])
      BY <1>1, <1>2 DEF LegsOK
    <2> QED
      BY <2>1, <2>2, CancelledLegAgrees
  <1>5. LegsAgree(legs', fills) /\ LogFits(legs', fills)
    BY <1>4 DEF LegsAgree, LogFits, Agreed
  <1> QED
    BY <1>2, <1>3, <1>5 DEF Agreed, OrdersAgree, LegsAgree, LogFits, FilledIn

\* Every transaction keeps rows and log in agreement.
LEMMA NextAgreed ==
    ASSUME RowsInv, RowsInv', Agreed, [Next]_vars
    PROVE  Agreed'
  <1>1. CASE Submit
    BY <1>1, SubmitAgreed DEF Submit
  <1>2. CASE FillOrder
    BY <1>2, OrderPriceType, FillBuyAgreed, FillSellAgreed DEF FillOrder
  <1>3. CASE FillAutomatic
    BY <1>3, LegPriceType, FillLegAgreed DEF FillAutomatic
  <1>4. CASE CancelAny
    BY <1>4, CancelAgreed, CancelLegAgreed DEF CancelAny
  <1>5. CASE Recover
    <2>1. Reconcile(orders, legs, position) /\ fills' = fills /\ legs \in [ClientIds -> [Kinds -> Leg]]
      BY <1>5, RowsInvParts DEF Recover, LegsOK
    <2> QED
      BY <2>1, ReconcileAgrees DEF Agreed
  <1>6. CASE UNCHANGED vars
    BY <1>6 DEF vars, Agreed, OrdersAgree, LegsAgree, LogFits, FilledIn
  <1> QED
    BY <1>1, <1>2, <1>3, <1>4, <1>5, <1>6 DEF Next

LEMMA InitAgreed ==
    ASSUME Init PROVE Agreed
  <1>1. /\ fills = {} /\ \A c \in ClientIds : orders[c] = NoOrder
        /\ \A c \in ClientIds, k \in Kinds : legs[c][k] = NoLeg
    BY DEF Init
  <1>2. \A owner : FilledIn(fills, owner) = 0
    BY <1>1, FilledInNothing
  <1> QED
    BY <1>1, <1>2 DEF Agreed, OrdersAgree, LegsAgree, LogFits, OrderAgrees, LegAgrees, NoOrder, NoLeg

\* The rows and the log always agree.
LEMMA AgreedHolds == Spec => []Agreed
  <1>1. Init => Agreed
    BY InitAgreed
  <1>2. RowsInv /\ RowsInv' /\ Agreed /\ [Next]_vars => Agreed'
    BY NextAgreed
  <1> QED
    BY <1>1, <1>2, RowsInvHolds, PTL DEF Spec

\* What every order and leg says it filled is the sum of its fills in the log,
\* also when its legs were refitted, replaced or cancelled between two partial
\* fills, and a row is marked filled exactly when nothing is left of it.
THEOREM RowsAgree == Spec => []RowsAgreeWithFills
  BY AgreedMeans, AgreedHolds, PTL
-----------------------------------------------------------------------------
(* Ids and the placing of fills: the rest of the inductive invariant *)

\* The rows that exist and their ids are the same.
SameRows(os, ns) == \A c \in ClientIds :
    ns[c].id = os[c].id /\ (ns[c].status = "NONE" <=> os[c].status = "NONE")

LEMMA ConsumeSameRows ==
    ASSUME NEW os \in [ClientIds -> Order], NEW n, NEW preferred
    PROVE  SameRows(os, Consume(os, n, preferred))
  <1> DEFINE used == Allocate(os, n, preferred)
  <1>1. Consume(os, n, preferred) = [c \in ClientIds |-> [os[c] EXCEPT !.protection = @ - used[c]]]
    BY DEF Consume
  <1> HIDE DEF used
  <1> QED
    BY <1>1 DEF SameRows, Order

\* A row that is filled stays the row it is.
LEMMA FilledSameRow ==
    ASSUME NEW o \in Order, NEW n, NEW at
    PROVE  Filled(o, n, at).id = o.id /\ Filled(o, n, at).status # "NONE"
  <1> DEFINE a == o.fillQty + n
             b == o.remaining - n
             d == IF n = o.remaining THEN "SIMULATED_FILLED" ELSE "ACCEPTED"
             e == IF n = o.remaining THEN at ELSE o.filledAt
             new == Filled(o, n, at)
  <1>1. new = [o EXCEPT !.fillQty = a, !.remaining = b, !.status = d, !.filledAt = e]
    BY DEF Filled
  <1>2. d # "NONE"
    OBVIOUS
  <1> HIDE DEF a, b, d, e, new
  <1>3. new.id = o.id /\ new.status = d
    BY <1>1 DEF Order
  <1> QED
    BY <1>2, <1>3 DEF new

\* Fills, cancels and restarts create no rows.
LEMMA StepSameRows ==
    ASSUME RowsInv, RowsInv', FillOrder \/ FillAutomatic \/ CancelAny \/ Recover \/ UNCHANGED vars
    PROVE  SameRows(orders, orders') /\ nextId' = nextId
  <1>1. orders \in [ClientIds -> Order] /\ IsFiniteSet(fills) /\ OrdersOK(orders)
    BY RowsInvParts DEF OrdersOK
  <1>2. ASSUME NEW c \in ClientIds, NEW new, new.id = orders[c].id, new.status # "NONE",
               orders[c].status # "NONE"
        PROVE  SameRows(orders, [orders EXCEPT ![c] = new])
    BY <1>1, <1>2 DEF SameRows
  <1>3. ASSUME NEW c \in ClientIds, NEW n \in 1..orders[c].remaining, NEW id, NEW price, NEW at \in Instants, FillBuy(c, n, id, price, at)
        PROVE  SameRows(orders, orders') /\ nextId' = nextId
    <2> DEFINE filled == Filled(orders[c], n, at)
               new == [filled EXCEPT !.reservedCash =
                           Most(0, @ - ReservedShare(orders[c].reservedCash, n, orders[c].remaining)),
                                     !.protection = @ + n]
    <2>1. orders' = [orders EXCEPT ![c] = new] /\ nextId' = nextId /\ orders[c].status = "ACCEPTED"
      BY <1>3 DEF FillBuy, Reconcile
    <2>2. filled \in Order /\ filled.id = orders[c].id /\ filled.status # "NONE"
      BY <1>1, <2>1, FilledOK, FilledSameRow DEF OrdersOK
    <2> HIDE DEF filled
    <2>3. new.id = orders[c].id /\ new.status # "NONE"
      BY <2>2 DEF Order
    <2> HIDE DEF new
    <2> QED
      BY <1>2, <2>1, <2>3
  <1>4. ASSUME NEW c \in ClientIds, NEW n \in 1..orders[c].remaining, NEW id, NEW price, NEW at \in Instants, FillSell(c, n, id, price, at)
        PROVE  SameRows(orders, orders') /\ nextId' = nextId
    <2> DEFINE filled == Filled(orders[c], n, at)
               hold == filled.reservedQty - Least(n, filled.reservedQty)
               new == [filled EXCEPT !.reservedQty = hold]
               os == [orders EXCEPT ![c] = new]
    <2>1. orders' = Consume(os, n, {}) /\ nextId' = nextId /\ orders[c].status = "ACCEPTED"
      BY <1>4 DEF FillSell, Reconcile
    <2>2. filled \in Order /\ filled.id = orders[c].id /\ filled.status # "NONE"
          /\ filled.reservedQty = orders[c].reservedQty
      BY <1>1, <2>1, FilledOK, FilledSameRow DEF OrdersOK
    <2>3. hold \in Nat
      BY <2>2 DEF Least, Order
    <2> HIDE DEF filled, hold
    <2>4. new \in Order /\ new.id = orders[c].id /\ new.status # "NONE"
      BY <2>2, <2>3 DEF Order
    <2> HIDE DEF new
    <2>5. SameRows(orders, os) /\ os \in [ClientIds -> Order]
      BY <1>1, <1>2, <2>1, <2>4
    <2> HIDE DEF os
    <2>6. SameRows(os, orders')
      BY <2>1, <2>5, ConsumeSameRows
    <2> QED
      BY <2>1, <2>5, <2>6 DEF SameRows
  <1>5. ASSUME NEW c \in ClientIds, NEW k \in Kinds, NEW n, NEW id, NEW price, FillLeg(c, k, n, id, price)
        PROVE  SameRows(orders, orders') /\ nextId' = nextId
    <2> DEFINE spent == Consume(orders, n, {c})
    <2>1. nextId' = nextId /\ (orders' = spent \/ orders' = [spent EXCEPT ![c].filledLegs = @ + 1])
      BY <1>5 DEF FillLeg, Reconcile
    <2>2. SameRows(orders, spent) /\ spent \in [ClientIds -> Order]
      BY <1>1, ConsumeSameRows, ConsumeOK DEF OrdersOK
    <2> HIDE DEF spent
    <2>3. SameRows(spent, orders')
      BY <2>1, <2>2 DEF SameRows, Order
    <2> QED
      BY <2>1, <2>2, <2>3 DEF SameRows
  <1>6. ASSUME NEW c \in ClientIds, Cancel(c)
        PROVE  SameRows(orders, orders') /\ nextId' = nextId
    <2> DEFINE new == [orders[c] EXCEPT !.status = "CANCELLED", !.reservedCash = 0, !.reservedQty = 0]
    <2>1. orders' = [orders EXCEPT ![c] = new] /\ nextId' = nextId /\ orders[c].status = "ACCEPTED"
      BY <1>6 DEF Cancel, Reconcile
    <2>2. new.id = orders[c].id /\ new.status # "NONE"
      BY <1>1 DEF Order
    <2> HIDE DEF new
    <2> QED
      BY <1>2, <2>1, <2>2
  <1>7. ASSUME NEW c \in ClientIds, NEW k \in Kinds, CancelLeg(c, k)
        PROVE  SameRows(orders, orders') /\ nextId' = nextId
    BY <1>1, <1>7, ConsumeSameRows DEF CancelLeg
  <1>8. CASE FillOrder
    BY <1>3, <1>4, <1>8 DEF FillOrder
  <1>9. CASE FillAutomatic
    BY <1>5, <1>9 DEF FillAutomatic
  <1>10. CASE CancelAny
    BY <1>6, <1>7, <1>10 DEF CancelAny
  <1>11. CASE Recover \/ UNCHANGED vars
    BY <1>11 DEF Recover, Reconcile, SameRows, vars
  <1> QED
    BY <1>8, <1>9, <1>10, <1>11

LEMMA NextIds ==
    ASSUME RowsInv, RowsInv', IdsGiven, [Next]_vars
    PROVE  IdsGiven'
  <1>1. orders \in [ClientIds -> Order] /\ nextId \in Nat
    BY RowsInvParts DEF OrdersOK
  <1>2. CASE Submit
    <2>1. PICK c \in ClientIds, r \in Requests, acceptable \in BOOLEAN :
              SubmitBuy(c, r, acceptable) \/ SubmitSell(c, r, acceptable)
      BY <1>2 DEF Submit
    <2>2. /\ orders[c].status = "NONE" /\ nextId' = nextId + 1
          /\ \E accepted \in BOOLEAN : \E cash, shares :
                orders' = [orders EXCEPT ![c] = NewOrder(r, accepted, cash, shares)]
      <3>1. CASE SubmitBuy(c, r, acceptable)
        BY <3>1 DEF SubmitBuy, LedgerAccepts
      <3>2. CASE SubmitSell(c, r, acceptable)
        BY <3>2 DEF SubmitSell, LedgerAccepts
      <3> QED
        BY <2>1, <3>1, <3>2
    <2>3. /\ orders'[c].id = nextId
          /\ \A d \in ClientIds \ {c} : orders'[d] = orders[d]
      BY <1>1, <2>2 DEF NewOrder
    <2>4. \A d \in ClientIds : orders[d].id \in Nat
      BY <1>1 DEF Order
    <2> QED
      BY <1>1, <2>2, <2>3, <2>4 DEF IdsGiven
  <1>3. CASE FillOrder \/ FillAutomatic \/ CancelAny \/ Recover \/ UNCHANGED vars
    <2>1. SameRows(orders, orders') /\ nextId' = nextId
      BY <1>3, StepSameRows
    <2> QED
      BY <2>1 DEF SameRows, IdsGiven
  <1> QED
    BY <1>2, <1>3 DEF Next

\* Owners that closed stay closed in every step.
LEMMA StepClosedGrows ==
    ASSUME RowsInv, RowsInv', [Next]_vars
    PROVE  ClosedOwners \subseteq ClosedOwners'
  <1>1. Book!BookNext \/ UNCHANGED Book!bookVars
    BY BookStep
  <1> QED
    BY <1>1 DEF Book!BookNext, Book!bookVars, Book!Close, Book!Trade

\* A fill whose id no client chose is of an order or leg that is closed.
ServerIdsClosed == \A f \in fills : f.id \in FillIds \/ f.id \in ClosedOwners

\* The id of a new fill, when it is not one a client chose, is of an owner that
\* this fill closes.
LEMMA NewIdCloses ==
    ASSUME RowsInv, RowsInv', [Next]_vars, NEW f \in fills', f \notin fills
    PROVE  f.id \in FillIds \/ f.id \in ClosedOwners'
  <1>1. orders \in [ClientIds -> Order] /\ legs \in [ClientIds -> [Kinds -> Leg]] /\ IsFiniteSet(fills)
        /\ OrdersOK(orders) /\ LegsOK(legs)
    BY RowsInvParts DEF OrdersOK, LegsOK
  <1>2. CASE FillOrder
    <2>1. PICK c \in ClientIds : \E n \in 1..orders[c].remaining :
              \E id \in FillIdChoices(<<c, "order", 0>>, n, orders[c].remaining), q \in Quotes :
                  \E price \in FillPrice(orders[c].side, orders[c].type, orders[c].price, q), at \in Instants :
                      FillBuy(c, n, id, price, at) \/ FillSell(c, n, id, price, at)
      BY <1>2 DEF FillOrder
    <2>2. PICK n \in 1..orders[c].remaining :
              \E id \in FillIdChoices(<<c, "order", 0>>, n, orders[c].remaining), q \in Quotes :
                  \E price \in FillPrice(orders[c].side, orders[c].type, orders[c].price, q), at \in Instants :
                      FillBuy(c, n, id, price, at) \/ FillSell(c, n, id, price, at)
      BY <2>1
    <2>11. PICK id \in FillIdChoices(<<c, "order", 0>>, n, orders[c].remaining), q \in Quotes :
              \E price \in FillPrice(orders[c].side, orders[c].type, orders[c].price, q), at \in Instants :
                  FillBuy(c, n, id, price, at) \/ FillSell(c, n, id, price, at)
      BY <2>2
    <2>3. PICK price \in FillPrice(orders[c].side, orders[c].type, orders[c].price, q), at \in Instants :
              FillBuy(c, n, id, price, at) \/ FillSell(c, n, id, price, at)
      BY <2>11
    <2>4. f.id = id /\ orders[c].status = "ACCEPTED"
      <3>1. \E side : Record(id, <<c, "order", 0>>, side, n, price)
        BY <2>3 DEF FillBuy, FillSell
      <3> QED
        BY <2>3, <3>1 DEF Record, FillBuy, FillSell
    <2>5. CASE n = orders[c].remaining
      <3>1. orders'[c].status = "SIMULATED_FILLED"
        <4> DEFINE filled == Filled(orders[c], n, at)
        <4>1. filled \in Order /\ filled.status = "SIMULATED_FILLED" /\ filled.reservedQty = orders[c].reservedQty
          BY <1>1, <2>4, <2>5, FilledOK DEF OrdersOK
        <4> HIDE DEF filled
        <4>2. CASE FillBuy(c, n, id, price, at)
          <5>1. \E x, y : orders' = [orders EXCEPT ![c] = [filled EXCEPT !.reservedCash = x, !.protection = y]]
            BY <4>2 DEF FillBuy, Reconcile, filled
          <5> QED
            BY <1>1, <4>1, <5>1 DEF Order
        <4>3. CASE FillSell(c, n, id, price, at)
          <5> DEFINE new == [filled EXCEPT !.reservedQty = filled.reservedQty - Least(n, filled.reservedQty)]
                     os == [orders EXCEPT ![c] = new]
                     used == Allocate(os, n, {})
          <5>1. orders' = Consume(os, n, {})
            BY <4>3 DEF FillSell, Reconcile, filled
          <5>2. orders' = [d \in ClientIds |-> [os[d] EXCEPT !.protection = @ - used[d]]]
            BY <5>1 DEF Consume
          <5>3. os[c] = new /\ new.status = "SIMULATED_FILLED"
            BY <1>1, <4>1 DEF Order
          <5> HIDE DEF os, used
          <5>4. \E x : orders'[c] = [new EXCEPT !.protection = x]
            BY <5>2, <5>3
          <5> QED
            BY <4>1, <5>3, <5>4 DEF Order
        <4> QED
          BY <2>3, <4>2, <4>3
      <3>2. <<c, "order", 0>> \in ClosedOwners'
        BY <3>1, ClosedOrderMemberNext, ClosedMemberNext DEF Terminal
      <3> QED
        BY <2>3, <2>4, <3>2 DEF FillIdChoices
    <2>6. CASE n # orders[c].remaining
      BY <2>3, <2>4, <2>6 DEF FillIdChoices
    <2> QED
      BY <2>5, <2>6
  <1>3. CASE FillAutomatic
    <2>1. PICK c \in ClientIds, k \in Kinds : \E n \in 1..legs[c][k].remaining :
              \E id \in FillIdChoices(<<c, k, legs[c][k].revision>>, n, legs[c][k].remaining) : \E price :
                  FillLeg(c, k, n, id, price)
      BY <1>3 DEF FillAutomatic
    <2>2. PICK n \in 1..legs[c][k].remaining :
              \E id \in FillIdChoices(<<c, k, legs[c][k].revision>>, n, legs[c][k].remaining) : \E price :
                  FillLeg(c, k, n, id, price)
      BY <2>1
    <2>3. PICK id, price :
              /\ id \in FillIdChoices(<<c, k, legs[c][k].revision>>, n, legs[c][k].remaining)
              /\ FillLeg(c, k, n, id, price)
      BY <2>2
    <2>4. f.id = id /\ legs[c][k].status = "ACCEPTED"
      BY <2>3 DEF Record, FillLeg
    <2>5. CASE n = legs[c][k].remaining
      <3> DEFINE leg == legs[c][k]
                 held == GroupReserved(c)
                 hold == held - Least(n, held)
                 after == FilledLeg(leg, n, hold)
      <3>1. legs'[c][k] = after
        BY <1>1, <2>3, <2>5 DEF FillLeg
      <3>2. leg \in Leg /\ LegShape(leg) /\ held = leg.remaining
        BY <1>1, <2>3 DEF LegsOK, FillLeg, ClaimSucceeds
      <3>3. hold \in Nat
        BY <2>5, <3>2 DEF Least, Leg
      <3> HIDE DEF held, hold
      <3>4. after.status = "SIMULATED_FILLED"
        BY <2>5, <3>2, <3>3, FilledLegOK
      <3>5. after.revision = leg.revision /\ leg.revision \in Nat
        BY <2>5, <3>2 DEF FilledLeg, Leg
      <3>6. LegClosed(legs', c, k, leg.revision)
        BY <3>1, <3>4, <3>5 DEF LegClosed, Terminal
      <3>7. <<c, k, leg.revision>> \in ClosedOwners'
        BY <3>6, ClosedLegMemberNext, ClosedMemberNext
      <3> QED
        BY <2>3, <2>4, <3>7 DEF FillIdChoices
    <2>6. CASE n # legs[c][k].remaining
      BY <2>3, <2>4, <2>6 DEF FillIdChoices
    <2> QED
      BY <2>5, <2>6
  <1>4. CASE Submit \/ CancelAny \/ Recover \/ UNCHANGED vars
    BY <1>4 DEF Submit, SubmitBuy, SubmitSell, CancelAny, Cancel, CancelLeg, Recover, vars
  <1> QED
    BY <1>2, <1>3, <1>4 DEF Next

LEMMA NextServerIds ==
    ASSUME RowsInv, RowsInv', ServerIdsClosed, [Next]_vars
    PROVE  ServerIdsClosed'
  <1>1. ClosedOwners \subseteq ClosedOwners'
    BY StepClosedGrows
  <1>2. ASSUME NEW f \in fills' PROVE f.id \in FillIds \/ f.id \in ClosedOwners'
    <2>1. CASE f \in fills
      BY <1>1, <2>1 DEF ServerIdsClosed
    <2>2. CASE f \notin fills
      BY <2>2, NewIdCloses
    <2> QED
      BY <2>1, <2>2
  <1> QED
    BY <1>2 DEF ServerIdsClosed

\* The inductive invariant of the ledger: rows in shape, ids given once, fills
\* placed.  With it no server-made fill id can meet an open order or leg.
THEOREM LedgerInvHolds == Spec => []LedgerInv
  <1>1. Init => IdsGiven /\ ServerIdsClosed
    BY DEF Init, IdsGiven, ServerIdsClosed, NoOrder
  <1>2. RowsInv /\ RowsInv' /\ IdsGiven /\ ServerIdsClosed /\ [Next]_vars
            => IdsGiven' /\ ServerIdsClosed'
    BY NextIds, NextServerIds
  <1>3. RowsInv /\ Agreed /\ IdsGiven /\ ServerIdsClosed => LedgerInv
    BY DEF LedgerInv, Agreed, LogFits, ServerIdsClosed, LogPlaced
  <1> QED
    BY <1>1, <1>2, <1>3, RowsInvHolds, AgreedHolds, PTL DEF Spec

-----------------------------------------------------------------------------
(* The waterfall *)

\* The lots dealt to before lot c, and the protection of a set of lots.
Ahead(os, preferred, c) == {d \in ProtectedLots(os) \ {c} :
    \/ d \in preferred /\ c \notin preferred
    \/ (d \in preferred <=> c \in preferred) /\ FilledBefore(os, d, c)}

Protection(os) == [d \in ClientIds |-> os[d].protection]
Dealt(os, amount, preferred) == SumFunction(Allocate(os, amount, preferred))
Promised(os) == SumFunction(Protection(os))

LEMMA ProtectionType ==
    ASSUME NEW os \in [ClientIds -> Order]
    PROVE  /\ Protection(os) \in [ClientIds -> Nat] /\ Promised(os) \in Nat
           /\ \A S \in SUBSET ClientIds : SumFunctionOnSet(Protection(os), S) \in Nat
           /\ \A c \in ClientIds : Protection(os)[c] = os[c].protection
  <1> DEFINE p == Protection(os)
  <1>1. p \in [ClientIds -> Nat] /\ \A c \in ClientIds : p[c] = os[c].protection
    BY DEF Protection, Order
  <1> HIDE DEF p
  <1>2. SumFunction(p) \in Nat
    BY <1>1, PaperConstants, SumFunctionIsNatural
  <1>3. ASSUME NEW S \in SUBSET ClientIds PROVE SumFunctionOnSet(p, S) \in Nat
    BY <1>1, PaperConstants, FS_Subset, SumIsNatural
  <1> QED
    BY <1>1, <1>2, <1>3 DEF p, Promised

\* What one lot is dealt, in these words.
LEMMA AllocateOne ==
    ASSUME NEW os, NEW amount, NEW preferred, NEW c \in ClientIds
    PROVE  Allocate(os, amount, preferred)[c] =
               LET left == amount - SumFunctionOnSet(Protection(os), Ahead(os, preferred, c))
               IN  IF left \in Nat THEN Least(left, os[c].protection) ELSE 0
  BY DEF Allocate, Ahead, Protection

\* The lots ahead of a lot that is itself ahead are fewer, and leave room for it.
LEMMA AheadNested ==
    ASSUME NEW os \in [ClientIds -> Order], NEW preferred, NEW c \in ClientIds,
           NEW d \in Ahead(os, preferred, c)
    PROVE  /\ d \in ClientIds /\ d # c /\ os[d].protection > 0
           /\ Ahead(os, preferred, d) \subseteq Ahead(os, preferred, c)
           /\ d \notin Ahead(os, preferred, d)
           /\ SumFunctionOnSet(Protection(os), Ahead(os, preferred, d)) + os[d].protection
                 <= SumFunctionOnSet(Protection(os), Ahead(os, preferred, c))
  <1> DEFINE A == Ahead(os, preferred, c)
             B == Ahead(os, preferred, d)
             p == Protection(os)
  <1>1. d \in ClientIds /\ d # c /\ os[d].protection > 0 /\ d \notin B
    BY DEF Ahead, ProtectedLots
  <1>2. \A e \in ClientIds : os[e].filledAt \in Nat /\ os[e].id \in Nat
    BY DEF Order
  <1>3. \A e \in B : e # c
    BY <1>1, <1>2 DEF Ahead, ProtectedLots, FilledBefore
  <1>4. B \subseteq A
    BY <1>1, <1>2, <1>3 DEF Ahead, ProtectedLots, FilledBefore
  <1>5. A \in SUBSET ClientIds /\ IsFiniteSet(A)
    BY PaperConstants, FS_Subset DEF Ahead, ProtectedLots
  <1>6. p \in [ClientIds -> Nat] /\ p[d] = os[d].protection
    BY <1>1, ProtectionType
  <1> HIDE DEF A, B, p
  <1>7. d \in A
    BY DEF A
  <1> DEFINE R == A \ {d}
  <1>8. SumFunctionOnSet(p, A) = p[d] + SumFunctionOnSet(p, R)
    BY <1>5, <1>6, <1>7, SumSplits
  <1>9. B \in SUBSET R /\ IsFiniteSet(R) /\ R \in SUBSET ClientIds
    BY <1>1, <1>4, <1>5, FS_Subset
  <1> HIDE DEF R
  <1>10. SumFunctionOnSet(p, B) <= SumFunctionOnSet(p, R)
    BY <1>6, <1>9, SumOfPart
  <1>11. SumFunctionOnSet(p, B) \in Nat /\ SumFunctionOnSet(p, R) \in Nat /\ p[d] \in Nat
    BY <1>1, <1>5, <1>6, <1>9, FS_Subset, SumIsNatural
  <1> QED
    BY <1>1, <1>4, <1>6, <1>8, <1>10, <1>11 DEF A, B, p

\* The waterfall deals all of the amount, as far as there is protection: a lot
\* that is not full comes after full ones, and what was left for it is used up.
LEMMA DealsEnough ==
    ASSUME NEW os \in [ClientIds -> Order], NEW n \in Nat, NEW preferred
    PROVE  Least(n, Promised(os)) <= Dealt(os, n, preferred)
  <1> DEFINE used == Allocate(os, n, preferred)
             p == Protection(os)
             Short == {c \in ClientIds : used[c] < p[c]}
  <1>1. used \in [ClientIds -> Nat] /\ p \in [ClientIds -> Nat] /\ SumFunction(p) \in Nat
        /\ \A c \in ClientIds : p[c] = os[c].protection
    BY AllocateType, ProtectionType DEF Promised
  <1>2. ASSUME NEW c \in ClientIds
        PROVE  /\ used[c] <= p[c]
               /\ used[c] = IF n - SumFunctionOnSet(p, Ahead(os, preferred, c)) \in Nat
                            THEN Least(n - SumFunctionOnSet(p, Ahead(os, preferred, c)), p[c])
                            ELSE 0
    <2>1. used[c] \in 0..os[c].protection /\ os[c].protection \in Nat
      BY AllocateBounds DEF Order
    <2> QED
      BY <1>1, <2>1, AllocateOne
  <1>3. Dealt(os, n, preferred) = SumFunctionOnSet(used, ClientIds)
        /\ Promised(os) = SumFunctionOnSet(p, ClientIds)
    BY <1>1 DEF Dealt, Promised, SumFunction
  <1>4. SumFunctionOnSet(used, ClientIds) \in Nat /\ SumFunctionOnSet(p, ClientIds) \in Nat
    BY <1>1, PaperConstants, SumIsNatural
  <1> HIDE DEF used, p
  <1>5. CASE Short = {}
    <2>1. \A c \in ClientIds : used[c] = p[c]
      BY <1>1, <1>2, <1>5
    <2>2. SumFunctionOnSet(used, ClientIds) = SumFunctionOnSet(p, ClientIds)
      BY <2>1, PaperConstants, SumOfSame
    <2> QED
      BY <1>3, <1>4, <2>2 DEF Least
  <1>6. CASE Short # {}
    <2> DEFINE B == {Ahead(os, preferred, c) : c \in Short}
    <2>1. B \in SUBSET (SUBSET ClientIds) /\ B # {}
      BY <1>6 DEF Ahead, ProtectedLots
    <2>2. PICK s \in B : \A t \in SUBSET s : t # s => t \notin B
      <3> HIDE DEF B
      <3> QED
        BY <2>1, PaperConstants, SmallestSubset
    <2>3. PICK c \in Short : s = Ahead(os, preferred, c)
      BY <2>2
    <2>4. c \in ClientIds /\ used[c] < p[c] /\ s \in SUBSET ClientIds /\ c \notin s
      BY <2>3 DEF Ahead, ProtectedLots
    <2>5. ASSUME NEW d \in s PROVE used[d] = p[d]
      <3>1. /\ d \in ClientIds /\ Ahead(os, preferred, d) \subseteq s
            /\ d \notin Ahead(os, preferred, d)
        BY <2>3, <2>4, AheadNested
      <3>2. Ahead(os, preferred, d) \notin B
        BY <2>2, <3>1
      <3>3. d \notin Short
        BY <3>2
      <3> QED
        BY <1>1, <1>2, <3>1, <3>3
    <2> HIDE DEF B, Short
    <2>6. IsFiniteSet(s) /\ IsFiniteSet(s \cup {c}) /\ s \cup {c} \in SUBSET ClientIds
      BY <2>4, PaperConstants, FS_Subset
    <2>7. SumFunctionOnSet(used, s) = SumFunctionOnSet(p, s)
      BY <2>5, <2>6, SumOfSame
    <2> DEFINE w == s \cup {c}
    <2>8. SumFunctionOnSet(used, w) = SumFunctionOnSet(used, s) + used[c]
      <3>1. \A x \in s : used[x] \in Int
        BY <1>1, <2>4
      <3>2. used[c] \in Int
        BY <1>1, <2>4
      <3> QED
        BY <2>4, <2>6, <3>1, <3>2, SumOfOneMore
    <2>9. w \in SUBSET ClientIds
      BY <2>6
    <2> HIDE DEF w
    <2>10. SumFunctionOnSet(used, w) <= SumFunctionOnSet(used, ClientIds)
      BY <1>1, <2>9, PaperConstants, SumOfPart
    <2>11. SumFunctionOnSet(p, s) \in Nat /\ used[c] \in Nat /\ p[c] \in Nat
      BY <1>1, <2>4, <2>6, SumIsNatural
    <2>12. n <= SumFunctionOnSet(p, s) + used[c]
      BY <1>2, <2>3, <2>4, <2>11 DEF Least
    <2>13. n <= SumFunctionOnSet(used, ClientIds)
      BY <1>4, <2>7, <2>8, <2>10, <2>11, <2>12
    <2> QED
      BY <1>3, <1>4, <2>13 DEF Least
  <1> QED
    BY <1>5, <1>6

\* Lots that are told apart by their ids stand in a line.
LotsApart(os) == \A c, d \in ProtectedLots(os) : os[c].id = os[d].id => c = d

LEMMA AheadTotal ==
    ASSUME NEW os \in [ClientIds -> Order], LotsApart(os), NEW preferred,
           NEW c \in ProtectedLots(os), NEW d \in ProtectedLots(os), c # d
    PROVE  c \in Ahead(os, preferred, d) \/ d \in Ahead(os, preferred, c)
  <1>1. /\ os[c].filledAt \in Nat /\ os[d].filledAt \in Nat /\ os[c].id \in Nat /\ os[d].id \in Nat
        /\ os[c].id # os[d].id
    BY DEF Order, ProtectedLots, LotsApart
  <1> QED
    BY <1>1 DEF Ahead, FilledBefore

\* The waterfall never deals more than the amount: the last lot that gets
\* something gets what the lots before it left.
LEMMA DealsAtMost ==
    ASSUME NEW os \in [ClientIds -> Order], LotsApart(os), NEW n \in Nat, NEW preferred
    PROVE  Dealt(os, n, preferred) <= n
  <1> DEFINE used == Allocate(os, n, preferred)
             p == Protection(os)
             Paid == {c \in ClientIds : used[c] > 0}
  <1>1. used \in [ClientIds -> Nat] /\ p \in [ClientIds -> Nat]
        /\ \A c \in ClientIds : p[c] = os[c].protection
    BY AllocateType, ProtectionType
  <1>2. ASSUME NEW c \in ClientIds
        PROVE  /\ used[c] <= p[c]
               /\ used[c] = IF n - SumFunctionOnSet(p, Ahead(os, preferred, c)) \in Nat
                            THEN Least(n - SumFunctionOnSet(p, Ahead(os, preferred, c)), p[c])
                            ELSE 0
    <2>1. used[c] \in 0..os[c].protection /\ os[c].protection \in Nat
      BY AllocateBounds DEF Order
    <2> QED
      BY <1>1, <2>1, AllocateOne
  <1>3. Dealt(os, n, preferred) = SumFunctionOnSet(used, ClientIds)
    BY <1>1 DEF Dealt, SumFunction
  <1>4. Paid \in SUBSET ClientIds /\ \A c \in ClientIds \ Paid : used[c] = 0
    BY <1>1
  <1>5. Paid \subseteq ProtectedLots(os)
    BY <1>1, <1>2 DEF ProtectedLots
  <1> HIDE DEF used, p
  <1>6. SumFunctionOnSet(used, ClientIds) = SumFunctionOnSet(used, Paid)
    <2> HIDE DEF Paid
    <2> QED
      BY <1>1, <1>4, PaperConstants, SumOfSupport
  <1>7. CASE Paid = {}
    BY <1>3, <1>6, <1>7, SumOfNothing
  <1>8. CASE Paid # {}
    <2> DEFINE Behind(c) == ClientIds \ Ahead(os, preferred, c)
               B == {Behind(c) : c \in Paid}
    <2>1. B \in SUBSET (SUBSET ClientIds) /\ B # {}
      BY <1>8
    <2>2. PICK s \in B : \A t \in SUBSET s : t # s => t \notin B
      <3> HIDE DEF B
      <3> QED
        BY <2>1, PaperConstants, SmallestSubset
    <2>3. PICK c \in Paid : s = Behind(c)
      BY <2>2
    <2> DEFINE A == Ahead(os, preferred, c)
    <2>4. c \in ClientIds /\ used[c] > 0 /\ A \in SUBSET ClientIds /\ c \notin A
      BY <2>3 DEF Ahead, ProtectedLots
    <2>5. ASSUME NEW d \in Paid, d # c PROVE d \in A
      <3>1. CASE c \in Ahead(os, preferred, d)
        <4>1. Ahead(os, preferred, c) \subseteq Ahead(os, preferred, d) /\ c \notin Ahead(os, preferred, c)
          BY <2>5, <3>1, AheadNested
        <4>2. Behind(d) \in SUBSET s /\ Behind(d) # s
          BY <2>3, <2>4, <3>1, <4>1
        <4> QED
          BY <2>2, <4>2
      <3>2. CASE d \in Ahead(os, preferred, c)
        BY <3>2
      <3> QED
        BY <1>5, <2>3, <2>5, <3>1, <3>2, AheadTotal
    <2> DEFINE w == A \cup {c}
    <2>6. Paid \in SUBSET w
      BY <2>5
    <2> HIDE DEF B, Behind, Paid, A
    <2>7. IsFiniteSet(A) /\ IsFiniteSet(w) /\ w \in SUBSET ClientIds
      BY <2>4, PaperConstants, FS_Subset
    <2>8. SumFunctionOnSet(used, w) = SumFunctionOnSet(used, A) + used[c]
      <3>1. \A x \in A : used[x] \in Int
        BY <1>1, <2>4
      <3>2. used[c] \in Int
        BY <1>1, <2>4
      <3> QED
        BY <2>4, <2>7, <3>1, <3>2, SumOfOneMore
    <2> HIDE DEF w
    <2>9. SumFunctionOnSet(used, Paid) <= SumFunctionOnSet(used, w)
      BY <1>1, <2>6, <2>7, SumOfPart
    <2>10. SumFunctionOnSet(used, A) <= SumFunctionOnSet(p, A)
      <3>1. \A x \in A : used[x] \in Int /\ p[x] \in Int /\ used[x] <= p[x]
        BY <1>1, <1>2, <2>4
      <3> QED
        BY <2>7, <3>1, SumIsMonotone
    <2>11. SumFunctionOnSet(p, A) \in Nat /\ SumFunctionOnSet(used, A) \in Nat
           /\ used[c] \in Nat /\ p[c] \in Nat
      BY <1>1, <2>4, <2>7, SumIsNatural
    <2>12. used[c] <= n - SumFunctionOnSet(p, A)
      BY <1>2, <2>4, <2>11 DEF Least, A
    <2>13. SumFunctionOnSet(used, Paid) \in Nat /\ SumFunctionOnSet(used, w) \in Nat
      BY <1>1, <1>4, <2>6, <2>7, FS_Subset, SumIsNatural
    <2> QED
      BY <1>3, <1>6, <2>8, <2>9, <2>10, <2>11, <2>12, <2>13
  <1> QED
    BY <1>7, <1>8

\* What is dealt is a natural number and never more than the protection there is.
LEMMA DealtType ==
    ASSUME NEW os \in [ClientIds -> Order], NEW n, NEW preferred
    PROVE  Dealt(os, n, preferred) \in Nat /\ Dealt(os, n, preferred) <= Promised(os)
  <1> DEFINE used == Allocate(os, n, preferred)
             p == Protection(os)
  <1>1. used \in [ClientIds -> Nat] /\ p \in [ClientIds -> Nat]
        /\ \A c \in ClientIds : used[c] <= p[c]
    <2>1. \A c \in ClientIds : used[c] \in 0..os[c].protection /\ p[c] = os[c].protection
      BY AllocateBounds, ProtectionType
    <2> QED
      BY <2>1, AllocateType, ProtectionType
  <1>2. Dealt(os, n, preferred) = SumFunction(used) /\ Promised(os) = SumFunction(p)
    BY DEF Dealt, Promised
  <1> HIDE DEF used, p
  <1>3. SumFunction(used) \in Nat
    BY <1>1, PaperConstants, SumFunctionIsNatural
  <1>4. SumFunction(used) <= SumFunction(p)
    <2>1. \A c \in ClientIds : used[c] \in Int /\ p[c] \in Int /\ used[c] <= p[c]
      BY <1>1
    <2> QED
      BY <1>1, <2>1, PaperConstants, SumIsMonotone DEF SumFunction
  <1> QED
    BY <1>2, <1>3, <1>4

\* Using up n shares of protection takes n away, or all there is.
LEMMA ConsumedPromise ==
    ASSUME NEW os, OrdersOK(os), NEW n \in Nat, NEW preferred
    PROVE  Promised(Consume(os, n, preferred)) <= Promised(os) - Least(n, Promised(os))
  <1> DEFINE used == Allocate(os, n, preferred)
             after == Consume(os, n, preferred)
             p == Protection(os)
             q == Protection(after)
  <1>1. os \in [ClientIds -> Order] /\ after \in [ClientIds -> Order]
    BY ConsumeOK DEF OrdersOK
  <1>2. after = [c \in ClientIds |-> [os[c] EXCEPT !.protection = @ - used[c]]]
    BY DEF Consume
  <1>3. used \in [ClientIds -> Nat] /\ p \in [ClientIds -> Nat] /\ q \in [ClientIds -> Nat]
        /\ \A c \in ClientIds : p[c] = os[c].protection /\ q[c] = after[c].protection
    BY <1>1, AllocateType, ProtectionType
  <1>4. SumFunction(used) = Dealt(os, n, preferred) /\ SumFunction(p) = Promised(os)
        /\ SumFunction(q) = Promised(after)
    BY DEF Dealt, Promised
  <1> HIDE DEF used, after, p, q
  <1>5. \A c \in ClientIds : p[c] = q[c] + used[c]
    <2>1. \A c \in ClientIds : after[c].protection = os[c].protection - used[c]
      BY <1>1, <1>2 DEF Order
    <2> QED
      BY <1>3, <2>1
  <1>6. SumFunction(p) = SumFunction(q) + SumFunction(used)
    <2>1. \A c \in ClientIds : q[c] \in Int /\ used[c] \in Int /\ p[c] = q[c] + used[c]
      BY <1>3, <1>5
    <2> QED
      BY <1>3, <2>1, PaperConstants, SumsAdd DEF SumFunction
  <1>7. Least(n, Promised(os)) <= Dealt(os, n, preferred)
    BY <1>1, DealsEnough
  <1>8. Promised(os) \in Nat /\ Dealt(os, n, preferred) \in Nat /\ Promised(after) \in Nat
    BY <1>1, ProtectionType, DealtType
  <1> HIDE DEF after
  <1>9. Least(n, Promised(os)) \in Nat
    BY <1>8 DEF Least
  <1>10. Promised(after) <= Promised(os) - Least(n, Promised(os))
    BY <1>4, <1>6, <1>7, <1>8, <1>9
  <1> QED
    BY <1>10 DEF after
-----------------------------------------------------------------------------
(* Protection stays within the shares *)

\* Rows with the same protection promise the same.
LEMMA PromisedSame ==
    ASSUME NEW os, NEW ns, \A d \in ClientIds : ns[d].protection = os[d].protection
    PROVE  Promised(ns) = Promised(os)
  <1>1. Protection(ns) = Protection(os)
    BY DEF Protection
  <1> QED
    BY <1>1 DEF Promised

\* One lot changes: so does the promise.
LEMMA PromisedChanged ==
    ASSUME NEW os \in [ClientIds -> Order], NEW ns \in [ClientIds -> Order], NEW c \in ClientIds,
           \A d \in ClientIds \ {c} : ns[d].protection = os[d].protection
    PROVE  Promised(ns) = Promised(os) - os[c].protection + ns[c].protection
  <1> DEFINE p == Protection(os)
             q == Protection(ns)
  <1>1. p \in [ClientIds -> Int] /\ q \in [ClientIds -> Int]
        /\ \A d \in ClientIds : p[d] = os[d].protection /\ q[d] = ns[d].protection
    BY ProtectionType
  <1>2. Promised(os) = SumFunction(p) /\ Promised(ns) = SumFunction(q)
    BY DEF Promised
  <1> HIDE DEF p, q
  <1>3. \A d \in ClientIds \ {c} : q[d] = p[d]
    BY <1>1
  <1> QED
    BY <1>1, <1>2, <1>3, PaperConstants, SumFunctionChanged

\* All protection together is within the position.
PromiseKept == Promised(orders) <= position.qty

LEMMA PromiseKeptMeans ==
    ASSUME RowsInv, PromiseKept
    PROVE  ProtectionBacked
  <1>1. \A c \in ClientIds : orders[c].protection <= orders[c].fillQty
    BY RowsInvParts DEF OrdersOK, OrderShape
  <1>2. SumFunction([c \in ClientIds |-> orders[c].protection]) = Promised(orders)
    BY DEF Promised, Protection
  <1> QED
    BY <1>1, <1>2 DEF ProtectionBacked, PromiseKept

\* A sale of n shares keeps the promise when n shares of protection are used up.
LEMMA SaleKeepsPromise ==
    ASSUME NEW os, OrdersOK(os), NEW n \in Nat, NEW preferred, NEW qty \in Nat,
           Promised(os) <= qty, n <= qty
    PROVE  Promised(Consume(os, n, preferred)) <= qty - n
  <1>1. Promised(Consume(os, n, preferred)) <= Promised(os) - Least(n, Promised(os))
    BY ConsumedPromise
  <1>2. Promised(os) \in Nat /\ Promised(Consume(os, n, preferred)) \in Nat
    BY ConsumeOK, ProtectionType DEF OrdersOK
  <1> QED
    BY <1>1, <1>2 DEF Least

LEMMA SubmitPromise ==
    ASSUME RowsInv, RowsInv', PromiseKept, NEW c \in ClientIds, NEW r \in Requests,
           NEW acceptable \in BOOLEAN, SubmitBuy(c, r, acceptable) \/ SubmitSell(c, r, acceptable)
    PROVE  PromiseKept'
  <1>1. OrdersOK(orders) /\ PositionOK(position)
    BY RowsInvParts
  <1>2. /\ orders[c].status = "NONE"
        /\ \E accepted \in BOOLEAN : \E cash, shares :
              orders' = [orders EXCEPT ![c] = NewOrder(r, accepted, cash, shares)]
        /\ position' = position \/ \E x : position' = [position EXCEPT !.reserved = x]
    <2>1. CASE SubmitBuy(c, r, acceptable)
      BY <2>1 DEF SubmitBuy, LedgerAccepts
    <2>2. CASE SubmitSell(c, r, acceptable)
      BY <2>2 DEF SubmitSell, LedgerAccepts
    <2> QED
      BY <2>1, <2>2
  <1>3. orders[c].protection = 0
    BY <1>1, <1>2 DEF OrdersOK, OrderShape, Order
  <1>4. \A d \in ClientIds : orders'[d].protection = orders[d].protection
    BY <1>1, <1>2, <1>3 DEF OrdersOK, NewOrder
  <1>5. Promised(orders') = Promised(orders)
    BY <1>4, PromisedSame
  <1>6. position'.qty = position.qty
    BY <1>1, <1>2 DEF PositionOK
  <1> QED
    BY <1>5, <1>6 DEF PromiseKept, Promised, Protection

\* The promise after a transaction, from the rows it ends with.
LEMMA PromiseEnds ==
    ASSUME Promised(orders') <= position'.qty PROVE PromiseKept'
  BY DEF PromiseKept, Promised, Protection

LEMMA FillBuyPromise ==
    ASSUME RowsInv, RowsInv', PromiseKept, NEW c \in ClientIds, NEW n \in 1..orders[c].remaining,
           NEW id, NEW price \in Nat, NEW at \in Instants, FillBuy(c, n, id, price, at)
    PROVE  PromiseKept'
  <1> DEFINE o == orders[c]
             filled == Filled(o, n, at)
             lot == filled.protection + n
             hold == Most(0, filled.reservedCash - ReservedShare(o.reservedCash, n, o.remaining))
             after == [filled EXCEPT !.reservedCash = hold, !.protection = lot]
             pos == [position EXCEPT !.qty = position.qty + n]
  <1>1. /\ OrdersOK(orders) /\ LegsReady(legs) /\ PositionOK(position) /\ IsFiniteSet(fills)
        /\ orders' \in [ClientIds -> Order]
    BY RowsInvParts, RowsInvPartsNext, LegsOKReady DEF OrdersOK
  <1>2. o \in Order /\ OrderShape(o) /\ o.status = "ACCEPTED" /\ n \in Nat /\ o.protection \in Nat
    BY <1>1 DEF OrdersOK, FillBuy, Order
  <1>3. filled \in Order /\ filled.protection = o.protection
    BY <1>1, <1>2, FilledOK
  <1>4. orders' = [orders EXCEPT ![c] = after] /\ Reconcile([orders EXCEPT ![c] = after], legs, pos)
    BY DEF FillBuy, Reconcile
  <1> HIDE DEF filled, hold
  <1>5. after.protection = lot
    <2> HIDE DEF lot
    <2> QED
      BY <1>3 DEF Order
  <1> HIDE DEF after
  <1>6. orders'[c] = after /\ \A d \in ClientIds \ {c} : orders'[d] = orders[d]
    BY <1>1, <1>4 DEF OrdersOK
  <1>7. Promised(orders') = Promised(orders) - o.protection + (o.protection + n)
    BY <1>1, <1>3, <1>5, <1>6, PromisedChanged DEF OrdersOK
  <1>8. position'.qty = position.qty + n
    <2>1. position' = [pos EXCEPT !.reserved = FittedReserved([orders EXCEPT ![c] = after], legs, pos, 0)]
      BY <1>4 DEF Reconcile
    <2>2. pos \in [qty : Nat, reserved : Nat] /\ pos.qty = position.qty + n
      BY <1>1, <1>2 DEF PositionOK
    <2> HIDE DEF pos
    <2> QED
      BY <2>1, <2>2
  <1>9. Promised(orders) \in Nat /\ position.qty \in Nat
    BY <1>1, ProtectionType DEF OrdersOK, PositionOK
  <1>10. Promised(orders') <= position'.qty
    BY <1>2, <1>7, <1>8, <1>9 DEF PromiseKept
  <1> QED
    BY <1>10, PromiseEnds

LEMMA FillSellPromise ==
    ASSUME RowsInv, RowsInv', PromiseKept, NEW c \in ClientIds, NEW n \in 1..orders[c].remaining,
           NEW id, NEW price \in Nat, NEW at \in Instants, FillSell(c, n, id, price, at)
    PROVE  PromiseKept'
  <1> DEFINE o == orders[c]
             filled == Filled(o, n, at)
             hold == filled.reservedQty - Least(n, filled.reservedQty)
             after == [filled EXCEPT !.reservedQty = hold]
             os == [orders EXCEPT ![c] = after]
             pos == Sold(position, n, o.reservedQty)
  <1>1. /\ OrdersOK(orders) /\ PositionOK(position) /\ IsFiniteSet(fills)
    BY RowsInvParts
  <1>2. /\ o \in Order /\ OrderShape(o) /\ o.status = "ACCEPTED" /\ o.side = "SELL" /\ n \in Nat
        /\ o.remaining \in Nat /\ o.reservedQty = o.remaining
    BY <1>1 DEF OrdersOK, FillSell, Order, OrderShape
  <1>3. /\ filled \in Order /\ filled.protection = o.protection /\ filled.reservedQty = o.reservedQty
        /\ filled.fillQty = o.fillQty + n /\ filled.remaining = o.remaining - n /\ filled.qty = o.qty
        /\ filled.side = o.side /\ filled.reservedCash = o.reservedCash
        /\ filled.status = IF n = o.remaining THEN "SIMULATED_FILLED" ELSE "ACCEPTED"
    BY <1>1, <1>2, FilledOK
  <1>4. Reconcile(Consume(os, n, {}), legs, pos) /\ CanSell(position, n, o.reservedQty)
    BY DEF FillSell
  <1>5. hold \in Nat /\ hold = o.remaining - n
    BY <1>2, <1>3 DEF Least
  <1> HIDE DEF filled, hold
  <1>6. /\ after \in Order /\ after.protection = o.protection /\ after.fillQty = filled.fillQty
        /\ after.remaining = filled.remaining /\ after.qty = filled.qty /\ after.side = filled.side
        /\ after.status = filled.status /\ after.reservedQty = hold /\ after.reservedCash = filled.reservedCash
    BY <1>3, <1>5 DEF Order
  <1> HIDE DEF after
  <1>7. OrderShape(after)
    <2>1. o.fillQty \in Nat /\ o.qty \in Nat /\ o.protection \in Nat
      BY <1>2 DEF Order
    <2> QED
      BY <1>2, <1>3, <1>5, <1>6, <2>1 DEF OrderShape
  <1>8. OrdersOK(os) /\ \A d \in ClientIds : os[d].protection = orders[d].protection
    BY <1>1, <1>6, <1>7 DEF OrdersOK
  <1>9. Promised(os) = Promised(orders)
    BY <1>8, PromisedSame
  <1> HIDE DEF os
  <1>10. orders' = Consume(os, n, {}) /\ position'.qty = position.qty - n /\ n <= position.qty
    <2>1. position' = [pos EXCEPT !.reserved = FittedReserved(Consume(os, n, {}), legs, pos, 0)]
      BY <1>4 DEF Reconcile
    <2>2. DOMAIN pos = {"qty", "reserved"} /\ pos.qty = position.qty - n
      BY DEF Sold
    <2> HIDE DEF pos
    <2>3. position'.qty = position.qty - n
      BY <2>1, <2>2
    <2> QED
      BY <1>4, <2>3 DEF Reconcile, CanSell
  <1>11. Promised(orders') <= position'.qty
    BY <1>1, <1>2, <1>8, <1>9, <1>10, SaleKeepsPromise DEF PromiseKept, PositionOK
  <1> QED
    BY <1>11, PromiseEnds

LEMMA FillLegPromise ==
    ASSUME RowsInv, RowsInv', PromiseKept, NEW c \in ClientIds, NEW k \in Kinds,
           NEW n \in 1..legs[c][k].remaining, NEW id, NEW price \in Nat, FillLeg(c, k, n, id, price)
    PROVE  PromiseKept'
  <1> DEFINE spent == Consume(orders, n, {c})
  <1>1. OrdersOK(orders) /\ PositionOK(position) /\ LegsOK(legs)
    BY RowsInvParts
  <1>2. n \in Nat
    BY <1>1 DEF LegsOK, Leg
  <1>3. position'.qty = position.qty + (-n) /\ n <= position.qty
    BY FillLegMoves
  <1>4. orders' = spent \/ orders' = [spent EXCEPT ![c].filledLegs = @ + 1]
    BY DEF FillLeg, Reconcile
  <1>5. OrdersOK(spent)
    BY <1>1, ConsumeOK
  <1>6. Promised(spent) <= position.qty - n
    BY <1>1, <1>2, <1>3, SaleKeepsPromise DEF PromiseKept, PositionOK
  <1> HIDE DEF spent
  <1>7. \A d \in ClientIds : orders'[d].protection = spent[d].protection
    BY <1>4, <1>5 DEF OrdersOK, Order
  <1>8. Promised(orders') = Promised(spent)
    BY <1>7, PromisedSame
  <1>9. position.qty \in Nat
    BY <1>1 DEF PositionOK
  <1>10. Promised(orders') <= position'.qty
    BY <1>2, <1>3, <1>6, <1>8, <1>9
  <1> QED
    BY <1>10, PromiseEnds

LEMMA CancelPromise ==
    ASSUME RowsInv, PromiseKept, NEW c \in ClientIds, Cancel(c)
    PROVE  PromiseKept'
  <1> DEFINE new == [orders[c] EXCEPT !.status = "CANCELLED", !.reservedCash = 0, !.reservedQty = 0]
  <1>1. OrdersOK(orders) /\ PositionOK(position)
    BY RowsInvParts
  <1>2. /\ orders' = [orders EXCEPT ![c] = new]
        /\ \E x, y : position' = [[position EXCEPT !.reserved = x] EXCEPT !.reserved = y]
    BY DEF Cancel, Reconcile
  <1>3. new.protection = orders[c].protection
    BY <1>1 DEF OrdersOK, Order
  <1> HIDE DEF new
  <1>4. \A d \in ClientIds : orders'[d].protection = orders[d].protection
    BY <1>1, <1>2, <1>3 DEF OrdersOK
  <1>5. Promised(orders') = Promised(orders)
    BY <1>4, PromisedSame
  <1>6. position'.qty = position.qty
    BY <1>1, <1>2 DEF PositionOK
  <1> QED
    BY <1>5, <1>6, PromiseEnds DEF PromiseKept

LEMMA CancelLegPromise ==
    ASSUME RowsInv, PromiseKept, NEW c \in ClientIds, NEW k \in Kinds, CancelLeg(c, k)
    PROVE  PromiseKept'
  <1>1. OrdersOK(orders) /\ PositionOK(position) /\ LegsOK(legs)
    BY RowsInvParts
  <1>2. /\ orders' = Consume(orders, legs[c][k].qty, {c})
        /\ \E x : position' = [position EXCEPT !.reserved = x]
        /\ legs[c][k].qty \in Nat
    BY <1>1 DEF CancelLeg, LegsOK, Leg
  <1>3. Promised(orders') <= Promised(orders) - Least(legs[c][k].qty, Promised(orders))
    BY <1>1, <1>2, ConsumedPromise
  <1>4. Promised(orders) \in Nat /\ Promised(orders') \in Nat /\ position.qty \in Nat
    BY <1>1, <1>2, ConsumeOK, ProtectionType DEF OrdersOK, PositionOK
  <1>5. position'.qty = position.qty
    BY <1>1, <1>2 DEF PositionOK
  <1>6. Promised(orders') <= position'.qty
    BY <1>2, <1>3, <1>4, <1>5 DEF Least, PromiseKept
  <1> QED
    BY <1>6, PromiseEnds

LEMMA NextPromise ==
    ASSUME RowsInv, RowsInv', PromiseKept, [Next]_vars
    PROVE  PromiseKept'
  <1>1. CASE Submit
    BY <1>1, SubmitPromise DEF Submit
  <1>2. CASE FillOrder
    BY <1>2, OrderPriceType, FillBuyPromise, FillSellPromise DEF FillOrder
  <1>3. CASE FillAutomatic
    BY <1>3, LegPriceType, FillLegPromise DEF FillAutomatic
  <1>4. CASE CancelAny
    BY <1>4, CancelPromise, CancelLegPromise DEF CancelAny
  <1>5. CASE Recover
    <2>1. orders' = orders /\ \E x : position' = [position EXCEPT !.reserved = x]
      BY <1>5 DEF Recover, Reconcile
    <2>2. position'.qty = position.qty
      BY <2>1, RowsInvParts DEF PositionOK
    <2> QED
      BY <2>1, <2>2 DEF PromiseKept, Promised, Protection
  <1>6. CASE UNCHANGED vars
    BY <1>6 DEF vars, PromiseKept, Promised, Protection
  <1> QED
    BY <1>1, <1>2, <1>3, <1>4, <1>5, <1>6 DEF Next

LEMMA InitPromise ==
    ASSUME Init PROVE PromiseKept
  <1>1. position.qty = 0 /\ \A c \in ClientIds : Protection(orders)[c] = 0
    BY DEF Init, NoOrder, Protection
  <1>2. DOMAIN Protection(orders) = ClientIds
    BY DEF Protection
  <1>3. Promised(orders) = 0
    BY <1>1, <1>2, PaperConstants, SumOfZeros DEF Promised, SumFunction
  <1> QED
    BY <1>1, <1>3 DEF PromiseKept

\* Protection is never promised for shares that are gone: whatever is sold, by an
\* explicit order or by a leg, uses up as much protection, so that all lots
\* together never protect more than the position holds.
THEOREM ProtectionIsBacked == Spec => []ProtectionBacked
  <1>1. Init => PromiseKept
    BY InitPromise
  <1>2. RowsInv /\ RowsInv' /\ PromiseKept /\ [Next]_vars => PromiseKept'
    BY NextPromise
  <1>3. RowsInv /\ PromiseKept => ProtectionBacked
    BY PromiseKeptMeans
  <1> QED
    BY <1>1, <1>2, <1>3, RowsInvHolds, PTL DEF Spec
-----------------------------------------------------------------------------
(* Nothing gets stuck *)

\* Reconciliation succeeds while explicit SELLs hold no more than the position:
\* the legs get at most what is left.
LEMMA ReconcileWill ==
    ASSUME NEW os \in [ClientIds -> Order], LotsApart(os), NEW ls, NEW pos, pos.qty \in Nat,
           ManualReserved(ls, pos) \in 0..pos.qty
    PROVE  ReconcileSucceeds(os, ls, pos, 0)
  <1> DEFINE manual == ManualReserved(ls, pos)
             free == pos.qty - manual - 0
             dealt == Dealt(os, free, {})
  <1>1. manual \in Nat /\ free \in Nat /\ manual + 0 >= 0 /\ free >= 0 /\ free = pos.qty - manual
    OBVIOUS
  <1>2. FittedReserved(os, ls, pos, 0) = manual + dealt
    BY DEF FittedReserved, Fitted, Dealt
  <1> HIDE DEF free
  <1>3. dealt \in Nat /\ dealt <= free
    BY <1>1, DealtType, DealsAtMost
  <1> HIDE DEF manual, dealt
  <1>4. FittedReserved(os, ls, pos, 0) \in 0..pos.qty
    BY <1>1, <1>2, <1>3
  <1> QED
    BY <1>1, <1>4 DEF ReconcileSucceeds, manual, free

\* Lots have orders of their own, so their ids differ.
LEMMA LotsHaveIds ==
    ASSUME OrdersOK(orders), IdsGiven
    PROVE  LotsApart(orders)
  <1>1. \A c \in ProtectedLots(orders) : c \in ClientIds /\ orders[c].status # "NONE"
    BY DEF OrdersOK, OrderShape, Order, ProtectedLots
  <1> QED
    BY <1>1 DEF IdsGiven, LotsApart

\* ... also after a row that keeps its id and its protection changed, and after
\* protection was used up.
LEMMA LotsStayApart ==
    ASSUME NEW os, LotsApart(os), NEW ns,
           \A d \in ClientIds : /\ ns[d].id = os[d].id
                                /\ ns[d].protection > 0 => os[d].protection > 0
    PROVE  LotsApart(ns)
  BY DEF LotsApart, ProtectedLots

LEMMA ConsumedApart ==
    ASSUME NEW os, OrdersOK(os), LotsApart(os), NEW n, NEW preferred
    PROVE  LotsApart(Consume(os, n, preferred))
  <1> DEFINE used == Allocate(os, n, preferred)
             after == Consume(os, n, preferred)
  <1>1. used \in [ClientIds -> Nat] /\ os \in [ClientIds -> Order]
    BY AllocateType DEF OrdersOK
  <1>2. after = [c \in ClientIds |-> [os[c] EXCEPT !.protection = @ - used[c]]]
    BY DEF Consume
  <1> HIDE DEF used, after
  <1>3. \A d \in ClientIds : /\ after[d].id = os[d].id
                             /\ after[d].protection = os[d].protection - used[d]
                             /\ used[d] \in Nat /\ os[d].protection \in Nat
    BY <1>1, <1>2 DEF Order
  <1>4. \A d \in ClientIds : after[d].protection > 0 => os[d].protection > 0
    BY <1>3
  <1>5. LotsApart(after)
    BY <1>3, <1>4, LotsStayApart
  <1> QED
    BY <1>5 DEF after

\* The books hold at least what one row of them holds.
LEMMA HeldCovers ==
    ASSUME NEW os \in [ClientIds -> Order], NEW c \in ClientIds
    PROVE  os[c].reservedCash <= CashHeld(os) /\ os[c].reservedQty <= SharesHeld(os)
  <1>1. os[c].reservedCash <= CashHeld(os)
    <2> DEFINE f == [d \in ClientIds |-> os[d].reservedCash]
    <2>1. f \in [ClientIds -> Nat] /\ f[c] = os[c].reservedCash /\ CashHeld(os) = SumFunction(f)
      BY DEF CashHeld, Order
    <2> HIDE DEF f
    <2> QED
      BY <2>1, PaperConstants, SumCoversSummand DEF SumFunction
  <1>2. os[c].reservedQty <= SharesHeld(os)
    <2> DEFINE f == [d \in ClientIds |-> os[d].reservedQty]
    <2>1. f \in [ClientIds -> Nat] /\ f[c] = os[c].reservedQty /\ SharesHeld(os) = SumFunction(f)
      BY DEF SharesHeld, Order
    <2> HIDE DEF f
    <2> QED
      BY <2>1, PaperConstants, SumCoversSummand DEF SumFunction
  <1> QED
    BY <1>1, <1>2

LEMMA LegsCover ==
    ASSUME NEW ls \in [ClientIds -> [Kinds -> Leg]], NEW c \in ClientIds
    PROVE  ls[c]["stop"].reserved + ls[c]["take-profit"].reserved <= LegsReserved(ls)
  <1> DEFINE f == [d \in ClientIds |-> ls[d]["stop"].reserved + ls[d]["take-profit"].reserved]
  <1>1. f \in [ClientIds -> Nat] /\ f[c] = ls[c]["stop"].reserved + ls[c]["take-profit"].reserved
        /\ LegsReserved(ls) = SumFunction(f)
    BY DEF LegsReserved, Leg, Kinds
  <1> HIDE DEF f
  <1> QED
    BY <1>1, PaperConstants, SumCoversSummand DEF SumFunction

\* The position holds what the legs and what the explicit SELLs hold.
LEMMA PositionSplit ==
    ASSUME RowsInv, Backed
    PROVE  /\ position.reserved = LegsReserved(legs) + SharesHeld(orders)
           /\ LegsReserved(legs) \in Nat /\ SharesHeld(orders) \in Nat
           /\ position.reserved \in Nat /\ position.qty \in Nat /\ position.reserved <= position.qty
  <1>1. orders \in [ClientIds -> Order] /\ legs \in [ClientIds -> [Kinds -> Leg]] /\ PositionOK(position)
    BY RowsInvParts DEF OrdersOK, LegsOK
  <1>2. LegsReserved(legs) \in Nat /\ SharesHeld(orders) \in Nat
    BY <1>1, LegsReservedType, HeldType
  <1> QED
    BY <1>1, <1>2 DEF Backed, ManualReserved, PositionOK

\* Every accepted order can be cancelled.
LEMMA CancelWill ==
    ASSUME RowsInv, Backed, IdsGiven, NEW c \in ClientIds, orders[c].status = "ACCEPTED"
    PROVE  CancelGoesThrough(c)
  <1> DEFINE o == orders[c]
             after == [o EXCEPT !.status = "CANCELLED", !.reservedCash = 0, !.reservedQty = 0]
             os == [orders EXCEPT ![c] = after]
             left == position.reserved - o.reservedQty
             pos == [position EXCEPT !.reserved = left]
  <1>1. OrdersOK(orders) /\ PositionOK(position) /\ o \in Order
    BY RowsInvParts DEF OrdersOK
  <1>2. o.reservedCash <= CashHeld(orders) /\ o.reservedQty <= SharesHeld(orders)
        /\ o.reservedCash \in Nat /\ o.reservedQty \in Nat /\ CashHeld(orders) \in Nat
    BY <1>1, HeldCovers, HeldType DEF OrdersOK, Order
  <1>3. account.reserved + Tolerance >= o.reservedCash
    BY <1>2, PaperConstants DEF Backed
  <1>4. position.reserved >= o.reservedQty /\ left \in Nat
    BY <1>2, PositionSplit
  <1>5. pos.qty = position.qty /\ pos.reserved = left
    <2> HIDE DEF left
    <2> QED
      BY <1>1 DEF PositionOK
  <1>6. after \in Order /\ after.id = o.id /\ after.protection = o.protection
    BY <1>1 DEF Order, Terminal
  <1> HIDE DEF after
  <1>7. os \in [ClientIds -> Order] /\ LotsApart(os)
    <2>1. \A d \in ClientIds : os[d].id = orders[d].id /\ os[d].protection = orders[d].protection
      BY <1>1, <1>6 DEF OrdersOK
    <2>2. os \in [ClientIds -> Order]
      BY <1>1, <1>6 DEF OrdersOK
    <2> HIDE DEF os
    <2> QED
      BY <1>1, <2>1, <2>2, LotsHaveIds, LotsStayApart
  <1>8. ManualReserved(legs, pos) \in 0..pos.qty
    BY <1>2, <1>5, PositionSplit DEF ManualReserved
  <1> HIDE DEF os, pos, left
  <1>9. ReconcileSucceeds(os, legs, pos, 0)
    BY <1>5, <1>7, <1>8, ReconcileWill, PositionSplit
  <1> QED
    BY <1>3, <1>4, <1>9 DEF CancelGoesThrough, os, pos, left, after

\* The id the server derives for an open owner is free, unless a client chose it.
LEMMA ServerIdFree ==
    ASSUME ServerIdsClosed, NEW owner \in Owner, owner \notin ClosedOwners
    PROVE  ServerIdLeft(owner)
  BY DEF ServerIdsClosed, ServerIdLeft, FillIdUsed

\* Every explicit SELL can be filled by any part of what is left.
LEMMA SellWill ==
    ASSUME RowsInv, Backed, IdsGiven, ServerIdsClosed,
           NEW c \in ClientIds, orders[c].status = "ACCEPTED", orders[c].side = "SELL",
           NEW n \in 1..orders[c].remaining, NEW at \in Instants
    PROVE  SellGoesThrough(c, n, at)
  <1> DEFINE o == orders[c]
             filled == Filled(o, n, at)
             hold == filled.reservedQty - Least(n, filled.reservedQty)
             after == [filled EXCEPT !.reservedQty = hold]
             os == [orders EXCEPT ![c] = after]
             pos == Sold(position, n, o.reservedQty)
  <1>1. /\ OrdersOK(orders) /\ PositionOK(position) /\ IsFiniteSet(fills)
    BY RowsInvParts
  <1>2. /\ o \in Order /\ OrderShape(o) /\ n \in Nat /\ n > 0
        /\ o.remaining \in Nat /\ o.reservedQty = o.remaining
    BY <1>1 DEF OrdersOK, Order, OrderShape
  <1>3. /\ filled \in Order /\ filled.protection = o.protection /\ filled.reservedQty = o.reservedQty
        /\ filled.fillQty = o.fillQty + n /\ filled.remaining = o.remaining - n /\ filled.qty = o.qty
        /\ filled.side = o.side /\ filled.reservedCash = o.reservedCash
        /\ filled.status = IF n = o.remaining THEN "SIMULATED_FILLED" ELSE "ACCEPTED"
    BY <1>1, <1>2, FilledOK
  <1>4. filled.id = o.id
    BY <1>2, FilledSameRow
  <1>5. hold \in Nat /\ hold = o.remaining - n
    BY <1>2, <1>3 DEF Least
  <1>6. o.reservedQty <= SharesHeld(orders)
    BY <1>1, HeldCovers DEF OrdersOK
  <1>7. CanSell(position, n, o.reservedQty)
    BY <1>2, <1>6, PositionSplit DEF CanSell, Least
  <1>8. pos.qty = position.qty - n /\ pos.reserved = position.reserved - n /\ pos.qty \in Nat
    BY <1>2, <1>6, PositionSplit DEF Sold, Least
  <1> HIDE DEF filled, hold, pos
  <1>9. /\ after \in Order /\ after.protection = o.protection /\ after.fillQty = filled.fillQty
        /\ after.remaining = filled.remaining /\ after.qty = filled.qty /\ after.side = filled.side
        /\ after.status = filled.status /\ after.reservedQty = hold
        /\ after.reservedCash = filled.reservedCash /\ after.id = o.id
    BY <1>3, <1>4, <1>5 DEF Order
  <1> HIDE DEF after
  <1>10. OrderShape(after)
    <2>1. o.fillQty \in Nat /\ o.qty \in Nat /\ o.protection \in Nat
      BY <1>2 DEF Order
    <2> QED
      BY <1>2, <1>3, <1>5, <1>9, <2>1 DEF OrderShape
  <1>11. OrdersOK(os) /\ \A d \in ClientIds : os[d].id = orders[d].id /\ os[d].protection = orders[d].protection
    BY <1>1, <1>9, <1>10 DEF OrdersOK
  <1> HIDE DEF os
  <1>12. LotsApart(os)
    BY <1>1, <1>11, LotsHaveIds, LotsStayApart
  <1>13. LotsApart(Consume(os, n, {})) /\ Consume(os, n, {}) \in [ClientIds -> Order]
    BY <1>11, <1>12, ConsumedApart, ConsumeOK DEF OrdersOK
  <1>14. ManualReserved(legs, pos) \in 0..pos.qty
    BY <1>2, <1>6, <1>8, PositionSplit DEF ManualReserved
  <1>15. ReconcileSucceeds(Consume(os, n, {}), legs, pos, 0)
    BY <1>8, <1>13, <1>14, ReconcileWill
  <1>16. ServerIdLeft(<<c, "order", 0>>)
    BY OwnerType, OpenOrder, ServerIdFree
  <1> QED
    BY <1>7, <1>15, <1>16 DEF SellGoesThrough, os, pos, after, hold, filled

\* Every open leg can be filled by any part of what is left.
LEMMA LegWill ==
    ASSUME RowsInv, Backed, IdsGiven, ServerIdsClosed,
           NEW c \in ClientIds, NEW k \in Kinds, legs[c][k].status = "ACCEPTED",
           NEW n \in 1..legs[c][k].remaining
    PROVE  LegGoesThrough(c, k, n)
  <1> DEFINE leg == legs[c][k]
             held == GroupReserved(c)
             hold == held - Least(n, held)
             after == FilledLeg(leg, n, hold)
             Stale(j) == [legs[c][j] EXCEPT !.reserved = 0]
             group == [j \in Kinds |-> IF j = k THEN after ELSE Stale(j)]
             ls == [legs EXCEPT ![c] = group]
             spent == Consume(orders, n, {c})
             sold == Sold(position, n, held)
  <1>1. OrdersOK(orders) /\ LegsOK(legs) /\ PositionOK(position)
    BY RowsInvParts
  <1>2. /\ leg \in Leg /\ LegShape(leg) /\ n \in Nat /\ n > 0 /\ leg.revision \in Nat
        /\ ClaimSucceeds(c, k) /\ held = leg.remaining /\ held \in Nat /\ n <= held
    BY <1>1 DEF LegsOK, ClaimSucceeds, GroupReserved, Leg
  <1>3. held <= LegsReserved(legs)
    BY <1>1, LegsCover DEF LegsOK, GroupReserved
  <1>4. CanSell(position, n, held)
    <2> HIDE DEF held
    <2> QED
      BY <1>2, <1>3, PositionSplit DEF CanSell, Least
  <1>5. hold \in Nat /\ hold = held - n
    BY <1>2 DEF Least
  <1>6. legs[c]["stop"].reserved + legs[c]["take-profit"].reserved = held
    BY DEF GroupReserved
  <1>7. sold.qty = position.qty - n /\ sold.reserved = position.reserved - n /\ sold.qty \in Nat
    <2> HIDE DEF held
    <2> QED
      BY <1>2, <1>3, PositionSplit DEF Sold, Least
  <1>8. ServerIdLeft(<<c, k, leg.revision>>)
    BY <1>2, OwnerType, OpenLeg, ServerIdFree
  <1> HIDE DEF held, hold, sold
  <1>9. after \in Leg /\ after.reserved = hold
    BY <1>2, <1>5, FilledLegOK
  <1> HIDE DEF after
  <1>10. \A j \in Kinds : Stale(j) \in Leg /\ Stale(j).reserved = 0
    BY <1>1 DEF LegsOK, Leg
  <1> HIDE DEF Stale
  <1>11. group \in [Kinds -> Leg] /\ group["stop"].reserved + group["take-profit"].reserved = hold
    BY <1>5, <1>9, <1>10 DEF Kinds
  <1> HIDE DEF group
  <1>12. ls \in [ClientIds -> [Kinds -> Leg]] /\ ls[c] = group /\ \A d \in ClientIds \ {c} : ls[d] = legs[d]
    BY <1>1, <1>11 DEF LegsOK
  <1> HIDE DEF ls
  <1>13. LegsReserved(ls) = LegsReserved(legs) - held + hold
    BY <1>1, <1>6, <1>11, <1>12, LegsReservedChanged DEF LegsOK
  <1>14. ManualReserved(ls, sold) \in 0..sold.qty
    BY <1>2, <1>3, <1>5, <1>7, <1>13, PositionSplit DEF ManualReserved
  <1>15. spent \in [ClientIds -> Order] /\ LotsApart(spent)
    BY <1>1, ConsumeOK, LotsHaveIds, ConsumedApart DEF OrdersOK
  <1> HIDE DEF spent
  <1>16. ReconcileSucceeds(spent, ls, sold, 0)
    BY <1>7, <1>14, <1>15, ReconcileWill
  <1> QED
    BY <1>2, <1>4, <1>8, <1>16 DEF LegGoesThrough, spent, ls, group, Stale, after, hold, held, sold

\* The invariants leave no transaction an error of its own.
LEMMA NothingStuckFollows ==
    ASSUME RowsInv, Backed, IdsGiven, ServerIdsClosed
    PROVE  NothingStuck
  <1>1. ReconcileSucceeds(orders, legs, position, 0)
    <2>1. OrdersOK(orders)
      BY RowsInvParts
    <2>2. ManualReserved(legs, position) \in 0..position.qty
      BY PositionSplit DEF ManualReserved
    <2> QED
      BY <2>1, <2>2, LotsHaveIds, ReconcileWill, PositionSplit DEF OrdersOK
  <1>2. \A c \in Accepted(ClientIds) :
           /\ CancelGoesThrough(c)
           /\ orders[c].side = "SELL" =>
                  \A n \in 1..orders[c].remaining, at \in Instants : SellGoesThrough(c, n, at)
    BY CancelWill, SellWill DEF Accepted
  <1>3. ASSUME NEW c \in ClientIds, NEW k \in Kinds, legs[c][k].status = "ACCEPTED"
        PROVE  /\ ClaimSucceeds(c, k) /\ position.reserved >= GroupReserved(c)
               /\ \A n \in 1..legs[c][k].remaining : LegGoesThrough(c, k, n)
    <2>1. legs \in [ClientIds -> [Kinds -> Leg]] /\ ClaimSucceeds(c, k)
      BY <1>3 DEF RowsInv, TypeOK, OneReservationPerGroup
    <2>2. GroupReserved(c) <= LegsReserved(legs) /\ GroupReserved(c) \in Nat
      BY <2>1, LegsCover DEF GroupReserved, Leg, Kinds
    <2>3. position.reserved >= GroupReserved(c)
      BY <2>2, PositionSplit
    <2> QED
      BY <1>3, <2>1, <2>3, LegWill
  <1> QED
    BY <1>1, <1>2, <1>3 DEF NothingStuck

\* Every open order and leg can be cancelled, sold or filled by any part of what
\* is left, and recovery succeeds: the invariant errors of
\* paper_orders_handlers.go are never returned, and the id the server derives from
\* an open order or leg is taken by another fill only if a client named it so.
THEOREM NothingGetsStuck == Spec => []NothingStuck
  <1>1. LedgerInv /\ Backed => NothingStuck
    BY NothingStuckFollows DEF LedgerInv, LogPlaced, ServerIdsClosed
  <1> QED
    BY <1>1, LedgerInvHolds, BackedHolds, PTL
-----------------------------------------------------------------------------
(* Fitted legs stay fitted *)

\* The legs ls are what reconciliation of the rows would make of them.
Fits(os, ls, pos) ==
    /\ ls = FittedLegs(os, ls, pos, 0)
    /\ pos.reserved = FittedReserved(os, ls, pos, 0)

LEMMA FitsMeans == LegsFitted <=> Fits(orders, legs, position)
  BY DEF LegsFitted, Fits

\* The same one step later.
LEMMA FitsMeansNext == LegsFitted' <=> Fits(orders', legs', position')
  BY DEF LegsFitted, Fits

\* Writing what a leg has into it changes nothing.
LEMMA LegRewritten ==
    ASSUME NEW leg \in Leg, NEW size, NEW left, NEW held,
           size = leg.qty, left = leg.remaining, held = leg.reserved
    PROVE  [leg EXCEPT !.qty = size, !.remaining = left, !.reserved = held] = leg
  BY DEF Leg

\* Fitting a leg a second time changes nothing.
LEMMA FittedTwice ==
    ASSUME NEW leg \in Leg, NEW k \in Kinds, NEW want \in Nat,
           leg.fillQty + leg.remaining = leg.qty,
           leg.status # "ACCEPTED" => leg.reserved = 0
    PROVE  FittedLeg(FittedLeg(leg, k, want), k, want) = FittedLeg(leg, k, want)
  <1> DEFINE new == FittedLeg(leg, k, want)
             held == IF k = "stop" THEN want ELSE 0
             size == new.fillQty + want
  <1>1. /\ new \in Leg /\ LegShape(new) /\ (new.status = "ACCEPTED" <=> want # 0)
        /\ want # 0 => new.remaining = want /\ new.reserved = held
    BY FittedLegOK
  <1>2. CASE want = 0
    BY <1>1, <1>2 DEF FittedLeg, CancelledLeg
  <1>3. CASE want # 0
    <2>1. FittedLeg(new, k, want) = [new EXCEPT !.qty = size, !.remaining = want, !.reserved = held]
      BY <1>1, <1>3 DEF FittedLeg
    <2>2. new.qty = size /\ new.remaining = want /\ new.reserved = held
      BY <1>1, <1>3 DEF LegShape
    <2> HIDE DEF size, new, held
    <2>3. [new EXCEPT !.qty = size, !.remaining = want, !.reserved = held] = new
      BY <1>1, <2>2, LegRewritten
    <2> QED
      BY <2>1, <2>3 DEF new
  <1> QED
    BY <1>2, <1>3

\* Legs fit when each is what its lot is dealt and together they hold all of it.
LEMMA FitsBy ==
    ASSUME NEW os, NEW ls \in [ClientIds -> [Kinds -> Leg]], NEW pos \in [qty : Nat, reserved : Nat],
           NEW want \in [ClientIds -> Nat], Fitted(os, ls, pos, 0) = want,
           \A c \in ClientIds, k \in Kinds : FittedLeg(ls[c][k], k, want[c]) = ls[c][k],
           LegsReserved(ls) = SumFunction(want)
    PROVE  Fits(os, ls, pos)
  <1>1. FittedLegs(os, ls, pos, 0) = [c \in ClientIds |-> [k \in Kinds |-> FittedLeg(ls[c][k], k, want[c])]]
    BY DEF FittedLegs
  <1>2. [c \in ClientIds |-> [k \in Kinds |-> FittedLeg(ls[c][k], k, want[c])]] = ls
    OBVIOUS
  <1>3. FittedReserved(os, ls, pos, 0) = (pos.reserved - SumFunction(want)) + SumFunction(want)
    BY DEF FittedReserved, ManualReserved
  <1>4. SumFunction(want) \in Nat
    BY PaperConstants, SumFunctionIsNatural
  <1> QED
    BY <1>1, <1>2, <1>3, <1>4 DEF Fits

\* ... which is what fitted legs say.
LEMMA FitsGives ==
    ASSUME NEW os \in [ClientIds -> Order], NEW ls \in [ClientIds -> [Kinds -> Leg]],
           NEW pos \in [qty : Nat, reserved : Nat], Fits(os, ls, pos)
    PROVE  /\ \A c \in ClientIds, k \in Kinds :
                  FittedLeg(ls[c][k], k, Fitted(os, ls, pos, 0)[c]) = ls[c][k]
           /\ LegsReserved(ls) = SumFunction(Fitted(os, ls, pos, 0))
           /\ Fitted(os, ls, pos, 0) \in [ClientIds -> Nat]
  <1> DEFINE want == Fitted(os, ls, pos, 0)
  <1>1. want \in [ClientIds -> Nat]
    BY AllocateType DEF Fitted
  <1>2. ls = [c \in ClientIds |-> [k \in Kinds |-> FittedLeg(ls[c][k], k, want[c])]]
    BY DEF Fits, FittedLegs
  <1>3. pos.reserved = (pos.reserved - LegsReserved(ls)) + SumFunction(want)
    BY DEF Fits, FittedReserved, ManualReserved
  <1> HIDE DEF want
  <1>4. SumFunction(want) \in Nat /\ LegsReserved(ls) \in Nat
    BY <1>1, PaperConstants, SumFunctionIsNatural, LegsReservedType
  <1>5. \A c \in ClientIds, k \in Kinds : FittedLeg(ls[c][k], k, want[c]) = ls[c][k]
    <2>1. ASSUME NEW ms, ms = [c \in ClientIds |-> [k \in Kinds |-> FittedLeg(ls[c][k], k, want[c])]]
          PROVE  \A c \in ClientIds, k \in Kinds : FittedLeg(ls[c][k], k, want[c]) = ms[c][k]
      BY <2>1
    <2> QED
      BY <1>2, <2>1
  <1>6. LegsReserved(ls) = SumFunction(want)
    <2> DEFINE held == LegsReserved(ls)
               dealt == SumFunction(want)
               all == pos.reserved
    <2>1. all \in Nat /\ held \in Nat /\ dealt \in Nat /\ all = (all - held) + dealt
      BY <1>3, <1>4
    <2> HIDE DEF held, dealt, all
    <2>2. held = dealt
      BY <2>1
    <2> QED
      BY <2>2 DEF held, dealt
  <1> QED
    BY <1>1, <1>5, <1>6 DEF want

\* Freshly fitted legs fit whatever deals out the same.
LEMMA RefitFits ==
    ASSUME NEW os \in [ClientIds -> Order], NEW ls, LegsReady(ls), NEW pos, NEW extra,
           NEW ns, NEW np \in [qty : Nat, reserved : Nat],
           Fitted(ns, FittedLegs(os, ls, pos, extra), np, 0) = Fitted(os, ls, pos, extra)
    PROVE  Fits(ns, FittedLegs(os, ls, pos, extra), np)
  <1> DEFINE want == Fitted(os, ls, pos, extra)
             ms == FittedLegs(os, ls, pos, extra)
  <1>1. want \in [ClientIds -> Nat]
    BY AllocateType DEF Fitted
  <1>2. ms \in [ClientIds -> [Kinds -> Leg]] /\ LegsReserved(ms) = SumFunction(want)
    BY FittedLegsOK, FittedLegsReserved DEF LegsOK
  <1>3. ms = [c \in ClientIds |-> [k \in Kinds |-> FittedLeg(ls[c][k], k, want[c])]]
    BY DEF FittedLegs
  <1>4. Fitted(ns, ms, np, 0) = want
    OBVIOUS
  <1> HIDE DEF want, ms
  <1>5. ASSUME NEW c \in ClientIds, NEW k \in Kinds
        PROVE  FittedLeg(ms[c][k], k, want[c]) = ms[c][k]
    <2>1. /\ ms[c][k] = FittedLeg(ls[c][k], k, want[c]) /\ ls[c][k] \in Leg /\ want[c] \in Nat
          /\ ls[c][k].fillQty + ls[c][k].remaining = ls[c][k].qty
          /\ ls[c][k].status # "ACCEPTED" => ls[c][k].reserved = 0
      BY <1>1, <1>3 DEF LegsReady
    <2> QED
      BY <2>1, FittedTwice
  <1>6. Fits(ns, ms, np)
    BY <1>1, <1>2, <1>4, <1>5, FitsBy
  <1> QED
    BY <1>6 DEF ms

\* A transaction that ends in reconciliation leaves the legs fitted.
LEMMA ReconcileFits ==
    ASSUME NEW os \in [ClientIds -> Order], NEW ls, LegsReady(ls),
           NEW pos \in [qty : Nat, reserved : Nat], Reconcile(os, ls, pos)
    PROVE  LegsFitted'
  <1>1. ManualReserved(legs', position') = ManualReserved(ls, pos)
    BY ReconcileKeepsManual
  <1>2. /\ orders' = os /\ legs' = FittedLegs(os, ls, pos, 0)
        /\ position' \in [qty : Nat, reserved : Nat] /\ position'.qty = pos.qty
    BY ReconcileOK DEF Reconcile, PositionOK
  <1>3. Fitted(os, FittedLegs(os, ls, pos, 0), position', 0) = Fitted(os, ls, pos, 0)
    BY <1>1, <1>2 DEF Fitted
  <1>4. Fits(os, FittedLegs(os, ls, pos, 0), position')
    BY <1>2, <1>3, RefitFits
  <1> QED
    BY <1>2, <1>4, FitsMeansNext

\* The same for a transaction whose rows are sound afterwards and that kept the
\* legs it found.
LEMMA ReconcileLegsFits ==
    ASSUME RowsInv, RowsInv', NEW os, NEW pos \in [qty : Nat, reserved : Nat],
           Reconcile(os, legs, pos)
    PROVE  LegsFitted'
  <1>1. os \in [ClientIds -> Order]
    BY RowsInvPartsNext DEF OrdersOK, Reconcile
  <1>2. LegsReady(legs)
    BY RowsInvParts, LegsOKReady
  <1> QED
    BY <1>1, <1>2, ReconcileFits

LEMMA FillBuyFits ==
    ASSUME RowsInv, RowsInv', NEW c \in ClientIds, NEW n \in 1..orders[c].remaining,
           NEW id, NEW price, NEW at \in Instants, FillBuy(c, n, id, price, at)
    PROVE  LegsFitted'
  <1> DEFINE shares == position.qty + n
             pos == [position EXCEPT !.qty = shares]
  <1>1. PositionOK(position) /\ orders[c].remaining \in Nat
    BY RowsInvParts DEF OrdersOK, Order
  <1>2. shares \in Nat
    BY <1>1 DEF PositionOK
  <1>3. \E os : Reconcile(os, legs, pos)
    BY DEF FillBuy
  <1> HIDE DEF shares
  <1>4. pos \in [qty : Nat, reserved : Nat]
    BY <1>1, <1>2 DEF PositionOK
  <1> HIDE DEF pos
  <1> QED
    BY <1>3, <1>4, ReconcileLegsFits

LEMMA FillSellFits ==
    ASSUME RowsInv, RowsInv', NEW c \in ClientIds, NEW n \in 1..orders[c].remaining,
           NEW id, NEW price, NEW at \in Instants, FillSell(c, n, id, price, at)
    PROVE  LegsFitted'
  <1> DEFINE pos == Sold(position, n, orders[c].reservedQty)
  <1>1. PositionOK(position) /\ orders[c].remaining \in Nat /\ orders[c].reservedQty \in Nat
    BY RowsInvParts DEF OrdersOK, Order
  <1>2. CanSell(position, n, orders[c].reservedQty) /\ \E os : Reconcile(os, legs, pos)
    BY DEF FillSell
  <1>3. pos \in [qty : Nat, reserved : Nat]
    BY <1>1, <1>2, SoldOK
  <1> HIDE DEF pos
  <1> QED
    BY <1>2, <1>3, ReconcileLegsFits

LEMMA CancelFits ==
    ASSUME RowsInv, RowsInv', NEW c \in ClientIds, Cancel(c)
    PROVE  LegsFitted'
  <1> DEFINE left == position.reserved - orders[c].reservedQty
             pos == [position EXCEPT !.reserved = left]
  <1>1. PositionOK(position) /\ orders[c].reservedQty \in Nat
    BY RowsInvParts DEF OrdersOK, Order
  <1>2. position.reserved >= orders[c].reservedQty /\ \E os : Reconcile(os, legs, pos)
    BY DEF Cancel
  <1>3. left \in Nat
    BY <1>1, <1>2 DEF PositionOK
  <1> HIDE DEF left
  <1>4. pos \in [qty : Nat, reserved : Nat]
    BY <1>1, <1>3 DEF PositionOK
  <1> HIDE DEF pos
  <1> QED
    BY <1>2, <1>4, ReconcileLegsFits

\* A partial fill of a leg refits the whole symbol.
LEMMA FillLegPartFits ==
    ASSUME RowsInv, NEW c \in ClientIds, NEW k \in Kinds, NEW n \in 1..legs[c][k].remaining,
           NEW id, NEW price \in Nat, FillLeg(c, k, n, id, price), n # legs[c][k].remaining
    PROVE  LegsFitted'
  <1>1. \E os, ls, pos : /\ OrdersOK(os) /\ LegsReady(ls) /\ pos \in [qty : Nat, reserved : Nat]
                         /\ Reconcile(os, ls, pos)
    BY FillLegPartRefits
  <1> QED
    BY <1>1, ReconcileFits DEF OrdersOK

\* The waterfall looks at the protection of the lots and at their order only.
LEMMA AllocateSame ==
    ASSUME NEW os \in [ClientIds -> Order], NEW ns \in [ClientIds -> Order],
           \A d \in ClientIds : /\ ns[d].protection = os[d].protection
                                /\ os[d].protection > 0 => /\ ns[d].filledAt = os[d].filledAt
                                                           /\ ns[d].id = os[d].id,
           NEW amount
    PROVE  Allocate(ns, amount, {}) = Allocate(os, amount, {})
  <1>1. Protection(ns) = Protection(os) /\ ProtectedLots(ns) = ProtectedLots(os)
    BY DEF Protection, ProtectedLots
  <1>2. ASSUME NEW d \in ClientIds
        PROVE  Allocate(ns, amount, {})[d] = Allocate(os, amount, {})[d]
    <2>1. CASE os[d].protection = 0
      <3>1. ASSUME NEW a \in Nat PROVE Least(a, 0) = 0
        BY DEF Least
      <3> QED
        BY <2>1, <3>1, AllocateOne
    <2>2. CASE os[d].protection # 0
      <3>1. d \in ProtectedLots(os) /\ ns[d].filledAt = os[d].filledAt /\ ns[d].id = os[d].id
        BY <2>2 DEF ProtectedLots, Order
      <3>2. \A e \in ProtectedLots(os) : ns[e].filledAt = os[e].filledAt /\ ns[e].id = os[e].id
        BY DEF ProtectedLots
      <3>3. Ahead(ns, {}, d) = Ahead(os, {}, d)
        BY <1>1, <3>1, <3>2 DEF Ahead, FilledBefore
      <3> QED
        BY <1>1, <3>3, AllocateOne
    <2> QED
      BY <2>1, <2>2
  <1>3. Allocate(ns, amount, {}) \in [ClientIds -> Nat] /\ Allocate(os, amount, {}) \in [ClientIds -> Nat]
    BY AllocateType
  <1> QED
    BY <1>2, <1>3

\* A submitted order is no lot yet.
LEMMA NewOrderNoLot ==
    ASSUME RowsInv, RowsInv', NEW c \in ClientIds, orders[c].status = "NONE",
           NEW new, new.protection = 0, orders' = [orders EXCEPT ![c] = new], NEW amount
    PROVE  Allocate(orders', amount, {}) = Allocate(orders, amount, {})
  <1>1. /\ orders \in [ClientIds -> Order] /\ orders' \in [ClientIds -> Order] /\ OrderShape(orders[c])
    BY RowsInvParts, RowsInvPartsNext DEF OrdersOK
  <1>2. orders[c].protection = 0
    BY <1>1 DEF OrderShape, Order
  <1>3. orders'[c].protection = 0
    BY <1>1
  <1>4. \A d \in ClientIds \ {c} : orders'[d] = orders[d]
    BY <1>1
  <1>5. \A d \in ClientIds :
           /\ orders'[d].protection = orders[d].protection
           /\ orders[d].protection > 0 => orders'[d].filledAt = orders[d].filledAt
                                          /\ orders'[d].id = orders[d].id
    BY <1>2, <1>3, <1>4
  <1> QED
    BY <1>1, <1>5, AllocateSame

\* A BUY or a rejected order that is submitted leaves the legs as they fit.
LEMMA SubmitFits ==
    ASSUME RowsInv, RowsInv', NEW c \in ClientIds, orders[c].status = "NONE",
           NEW new, new.protection = 0, orders' = [orders EXCEPT ![c] = new],
           legs' = legs, position' = position, LegsFitted
    PROVE  LegsFitted'
  <1>1. Fitted(orders', legs, position, 0) = Fitted(orders, legs, position, 0)
    <2>1. PICK free : free = position.qty - ManualReserved(legs, position) - 0
      OBVIOUS
    <2>2. Allocate(orders', free, {}) = Allocate(orders, free, {})
      BY NewOrderNoLot
    <2> QED
      BY <2>1, <2>2 DEF Fitted
  <1>2. Fits(orders', legs, position)
    BY <1>1, FitsMeans DEF Fits, FittedLegs, FittedReserved
  <1> QED
    BY <1>2, FitsMeansNext

\* An accepted SELL shrinks the legs to what it leaves them.
LEMMA SubmitSellFits ==
    ASSUME RowsInv, RowsInv', Backed, Backed', NEW c \in ClientIds, NEW r \in Requests,
           NEW acceptable \in BOOLEAN, SubmitSell(c, r, acceptable), acceptable, LedgerAccepts(r)
    PROVE  LegsFitted'
  <1> DEFINE new == NewOrder(r, TRUE, 0, r.qty)
             total == FittedReserved(orders, legs, position, r.qty) + r.qty
  <1>1. /\ orders' = [orders EXCEPT ![c] = new] /\ orders[c].status = "NONE"
        /\ legs' = FittedLegs(orders, legs, position, r.qty)
        /\ position' = [position EXCEPT !.reserved = total]
    BY DEF SubmitSell
  <1>2. new.reservedQty = r.qty /\ r.qty \in Nat
    BY RequestType DEF NewOrder
  <1>3. /\ orders \in [ClientIds -> Order] /\ orders' \in [ClientIds -> Order]
        /\ OrderShape(orders[c]) /\ LegsReady(legs) /\ PositionOK(position) /\ PositionOK(position')
    BY RowsInvParts, RowsInvPartsNext, LegsOKReady DEF OrdersOK
  <1>4. ASSUME NEW amount PROVE Allocate(orders', amount, {}) = Allocate(orders, amount, {})
    <2>1. PICK row : row = new
      OBVIOUS
    <2>2. row.protection = 0
      BY <2>1 DEF NewOrder
    <2>3. orders' = [orders EXCEPT ![c] = row]
      BY <1>1, <2>1
    <2> QED
      BY <1>1, <2>2, <2>3, NewOrderNoLot
  <1> HIDE DEF new, total
  <1>5. position'.qty = position.qty
    BY <1>1, <1>3 DEF PositionOK
  <1>6. orders'[c].reservedQty = r.qty /\ orders[c].reservedQty = 0
        /\ \A d \in ClientIds \ {c} : orders'[d] = orders[d]
    BY <1>1, <1>2, <1>3 DEF OrderShape
  <1>7. SharesHeld(orders') = SharesHeld(orders) - 0 + r.qty
    BY <1>3, <1>6, HeldChanged
  <1>8. ManualReserved(legs', position') = ManualReserved(legs, position) + r.qty
        /\ ManualReserved(legs, position) \in Nat
    BY <1>2, <1>3, <1>7, HeldType DEF Backed
  <1> DEFINE manual == ManualReserved(legs, position)
             more == ManualReserved(legs', position')
  <1>9. Fitted(orders', legs', position', 0) = Fitted(orders, legs, position, r.qty)
    <2>1. /\ Fitted(orders', legs', position', 0) = Allocate(orders', position'.qty - more - 0, {})
          /\ Fitted(orders, legs, position, r.qty) = Allocate(orders, position.qty - manual - r.qty, {})
      BY DEF Fitted
    <2> HIDE DEF manual, more
    <2>2. position'.qty - more - 0 = position.qty - manual - r.qty
      BY <1>2, <1>3, <1>5, <1>8 DEF PositionOK, manual, more
    <2> QED
      BY <1>4, <2>1, <2>2
  <1>10. Fits(orders', legs', position')
    <2>1. PICK ns, np : ns = orders' /\ np = position'
      OBVIOUS
    <2>2. Fits(ns, FittedLegs(orders, legs, position, r.qty), np)
      BY <1>1, <1>3, <1>9, <2>1, RefitFits DEF PositionOK
    <2> QED
      BY <1>1, <2>1, <2>2
  <1> QED
    BY <1>10, FitsMeansNext

\* What a lot gives up no longer stands before the lots behind it.
LEMMA AheadShrinks ==
    ASSUME NEW os \in [ClientIds -> Order], NEW ns \in [ClientIds -> Order],
           NEW c \in ClientIds, NEW n \in Nat, n <= os[c].protection,
           \A d \in ClientIds : /\ ns[d].filledAt = os[d].filledAt /\ ns[d].id = os[d].id
                                /\ ns[d].protection = IF d = c THEN os[d].protection - n
                                                      ELSE os[d].protection,
           NEW d \in ClientIds
    PROVE  SumFunctionOnSet(Protection(ns), Ahead(ns, {}, d))
               = SumFunctionOnSet(Protection(os), Ahead(os, {}, d))
                 - (IF c \in Ahead(os, {}, d) THEN n ELSE 0)
  <1> DEFINE p == Protection(os)
             q == Protection(ns)
             A == Ahead(os, {}, d)
             B == Ahead(ns, {}, d)
  <1>1. p \in [ClientIds -> Nat] /\ q \in [ClientIds -> Nat]
        /\ \A e \in ClientIds : p[e] = os[e].protection /\ q[e] = ns[e].protection
    BY ProtectionType
  <1>2. A \in SUBSET ClientIds /\ B \in SUBSET A /\ IsFiniteSet(A)
    <2>1. A \in SUBSET ClientIds
      BY DEF Ahead, ProtectedLots
    <2>2. ASSUME NEW e \in B PROVE e \in A
      <3>1. e \in ClientIds /\ e # d /\ ns[e].protection > 0 /\ FilledBefore(ns, e, d)
        BY DEF Ahead, ProtectedLots
      <3>2. os[e].protection > 0
        <4>1. os[e].protection \in Nat /\ os[c].protection \in Nat
          BY <3>1 DEF Order
        <4> QED
          BY <3>1, <4>1
      <3>3. FilledBefore(os, e, d)
        BY <3>1 DEF FilledBefore
      <3> QED
        BY <3>1, <3>2, <3>3 DEF Ahead, ProtectedLots
    <2> QED
      BY <2>1, <2>2, PaperConstants, FS_Subset
  <1>3. \A e \in A \ B : q[e] = 0
    <2>1. ASSUME NEW e \in A \ B PROVE q[e] = 0
      <3>1. e \in ClientIds /\ e # d /\ FilledBefore(os, e, d)
        BY DEF Ahead, ProtectedLots
      <3>2. FilledBefore(ns, e, d)
        BY <3>1 DEF FilledBefore
      <3>3. ~(ns[e].protection > 0)
        BY <3>1, <3>2 DEF Ahead, ProtectedLots
      <3>4. ns[e].protection \in Nat
        BY <3>1 DEF Order
      <3> QED
        BY <1>1, <3>1, <3>3, <3>4
    <2> QED
      BY <2>1
  <1>4. /\ p[c] = os[c].protection /\ q[c] = os[c].protection - n /\ os[c].protection \in Nat
        /\ \A e \in ClientIds \ {c} : q[e] = p[e]
    BY <1>1 DEF Order
  <1> HIDE DEF p, q, A, B
  <1>5. SumFunctionOnSet(q, A) = SumFunctionOnSet(q, B)
    <2>1. \A x \in A : q[x] \in Int
      BY <1>1, <1>2
    <2> QED
      BY <1>2, <1>3, <2>1, SumOfSupport
  <1>6. CASE c \in A
    <2>1. (\A x \in A : p[x] \in Int) /\ q[c] \in Int /\ \A x \in A \ {c} : q[x] = p[x]
      BY <1>1, <1>2, <1>4
    <2>2. SumFunctionOnSet(q, A) = SumFunctionOnSet(p, A) - p[c] + q[c]
      BY <1>2, <1>6, <2>1, SumOfChanged
    <2>3. SumFunctionOnSet(p, A) \in Int
      BY <1>2, <2>1, SumIsInteger
    <2>4. SumFunctionOnSet(q, B) = SumFunctionOnSet(p, A) - n
      BY <1>4, <1>5, <2>2, <2>3
    <2> QED
      BY <1>6, <2>4 DEF p, q, A, B
  <1>7. CASE c \notin A
    <2>1. \A x \in A : q[x] = p[x]
      BY <1>2, <1>4, <1>7
    <2>2. SumFunctionOnSet(q, A) = SumFunctionOnSet(p, A)
      BY <1>2, <2>1, SumOfSame
    <2>3. SumFunctionOnSet(p, A) \in Int
      BY <1>1, <1>2, SumIsInteger
    <2>4. SumFunctionOnSet(q, B) = SumFunctionOnSet(p, A) - 0
      BY <1>5, <2>2, <2>3
    <2> QED
      BY <1>7, <2>4 DEF p, q, A, B
  <1> QED
    BY <1>6, <1>7

\* When a lot and the amount lose all that the lot was dealt, nobody else is
\* dealt more or less: those ahead were full, those behind had that much before
\* them.
LEMMA DealtWithout ==
    ASSUME NEW os \in [ClientIds -> Order], LotsApart(os), NEW ns \in [ClientIds -> Order],
           NEW c \in ClientIds, NEW amount \in Nat, NEW n \in Nat \ {0},
           Allocate(os, amount, {})[c] = n,
           \A d \in ClientIds : /\ ns[d].filledAt = os[d].filledAt /\ ns[d].id = os[d].id
                                /\ ns[d].protection = IF d = c THEN os[d].protection - n
                                                      ELSE os[d].protection,
           NEW d \in ClientIds
    PROVE  Allocate(ns, amount - n, {})[d] = IF d = c THEN 0 ELSE Allocate(os, amount, {})[d]
  <1> DEFINE before(e) == SumFunctionOnSet(Protection(os), Ahead(os, {}, e))
             now == SumFunctionOnSet(Protection(ns), Ahead(ns, {}, d))
  <1>1. n <= os[c].protection /\ os[c].protection \in Nat /\ os[d].protection \in Nat
    BY AllocateBounds DEF Order
  <1>2. \A e \in ClientIds : Ahead(os, {}, e) \in SUBSET ClientIds
    BY DEF Ahead, ProtectedLots
  <1>3. before(c) \in Nat /\ before(d) \in Nat
    BY <1>2, ProtectionType
  <1>4. now = before(d) - (IF c \in Ahead(os, {}, d) THEN n ELSE 0)
    BY <1>1, AheadShrinks
  <1>5. Allocate(ns, amount - n, {})[d]
            = IF amount - n - now \in Nat THEN Least(amount - n - now, ns[d].protection) ELSE 0
    BY AllocateOne
  <1>6. /\ Allocate(os, amount, {})[c]
              = IF amount - before(c) \in Nat THEN Least(amount - before(c), os[c].protection) ELSE 0
        /\ Allocate(os, amount, {})[d]
              = IF amount - before(d) \in Nat THEN Least(amount - before(d), os[d].protection) ELSE 0
    BY AllocateOne
  <1>7. d # c => before(d) + os[d].protection <= before(c) \/ c \in Ahead(os, {}, d) \/ os[d].protection = 0
    <2>1. CASE os[d].protection = 0 \/ d = c
      BY <2>1
    <2>2. CASE os[d].protection # 0 /\ d # c
      <3>1. d \in ProtectedLots(os) /\ c \in ProtectedLots(os)
        BY <1>1, <2>2 DEF ProtectedLots
      <3>2. d \in Ahead(os, {}, c) \/ c \in Ahead(os, {}, d)
        BY <2>2, <3>1, AheadTotal
      <3> QED
        BY <3>2, AheadNested
    <2> QED
      BY <2>1, <2>2
  <1>8. c \notin Ahead(os, {}, c)
    BY DEF Ahead
  <1>9. PICK b, e : b = before(c) /\ e = before(d)
    OBVIOUS
  <1> HIDE DEF before, now
  <1>10. n <= amount - b /\ (n = os[c].protection \/ n = amount - b)
    BY <1>1, <1>3, <1>6, <1>9 DEF Least
  <1>11. CASE d = c
    <2>1. now = b /\ ns[d].protection = os[c].protection - n
      BY <1>3, <1>4, <1>8, <1>9, <1>11
    <2> QED
      BY <1>1, <1>3, <1>5, <1>9, <1>10, <1>11, <2>1 DEF Least
  <1>12. CASE d # c /\ c \in Ahead(os, {}, d)
    <2>1. now = e - n /\ ns[d].protection = os[d].protection
      BY <1>4, <1>9, <1>12
    <2>2. amount - n - now = amount - e
      BY <1>3, <1>9, <2>1
    <2> QED
      BY <1>5, <1>6, <1>9, <1>12, <2>1, <2>2
  <1>13. CASE d # c /\ c \notin Ahead(os, {}, d)
    <2>1. now = e /\ ns[d].protection = os[d].protection
      BY <1>3, <1>4, <1>9, <1>13
    <2>2. CASE os[d].protection = 0
      <3>1. \A a \in Nat : Least(a, 0) = 0
        BY DEF Least
      <3> QED
        BY <1>5, <1>6, <1>13, <2>1, <2>2, <3>1
    <2>3. CASE e + os[d].protection <= b
      <3>1. amount - n - e \in Nat /\ amount - e \in Nat
            /\ os[d].protection <= amount - n - e /\ os[d].protection <= amount - e
        BY <1>1, <1>3, <1>9, <1>10, <2>3
      <3>2. \A a \in Nat, x \in Nat : x <= a => Least(a, x) = x
        BY DEF Least
      <3>3. Least(amount - n - e, os[d].protection) = os[d].protection
            /\ Least(amount - e, os[d].protection) = os[d].protection
        BY <1>1, <3>1, <3>2
      <3> QED
        BY <1>5, <1>6, <1>9, <1>13, <2>1, <3>1, <3>3
    <2> QED
      BY <1>7, <1>9, <1>13, <2>2, <2>3
  <1> QED
    BY <1>11, <1>12, <1>13

\* A leg's fill takes its protection from the leg's own lot.
LEMMA LotPaysFirst ==
    ASSUME NEW os \in [ClientIds -> Order], NEW c \in ClientIds,
           NEW n \in Nat \ {0}, n <= os[c].protection, NEW d \in ClientIds
    PROVE  Allocate(os, n, {c})[d] = IF d = c THEN n ELSE 0
  <1> DEFINE before == SumFunctionOnSet(Protection(os), Ahead(os, {c}, d))
  <1>1. os[c].protection \in Nat /\ os[d].protection \in Nat
    BY DEF Order
  <1>2. Allocate(os, n, {c})[d] = IF n - before \in Nat THEN Least(n - before, os[d].protection) ELSE 0
    BY AllocateOne
  <1>3. Ahead(os, {c}, d) \in SUBSET ClientIds
    BY DEF Ahead, ProtectedLots
  <1>4. CASE d = c
    <2>1. Ahead(os, {c}, d) = {}
      BY <1>4 DEF Ahead, ProtectedLots
    <2>2. before = 0
      BY <2>1, SumOfNothing
    <2> HIDE DEF before
    <2> QED
      BY <1>1, <1>2, <1>4, <2>2 DEF Least
  <1>5. CASE d # c
    <2>1. c \in Ahead(os, {c}, d)
      BY <1>1, <1>5 DEF Ahead, ProtectedLots
    <2> DEFINE p == Protection(os)
               A == Ahead(os, {c}, d)
    <2>2. p \in [ClientIds -> Nat] /\ p[c] = os[c].protection /\ A \in SUBSET ClientIds /\ c \in A
          /\ before = SumFunctionOnSet(p, A)
      BY <1>3, <2>1, ProtectionType
    <2> HIDE DEF p, A, before
    <2>3. IsFiniteSet(A) /\ \A x \in A : p[x] \in Nat
      BY <2>2, PaperConstants, FS_Subset
    <2>4. p[c] <= before /\ before \in Nat
      BY <2>2, <2>3, SumCoversSummand, SumIsNatural
    <2>5. n - before \in Nat => n - before = 0
      BY <1>1, <2>2, <2>4
    <2>6. Least(0, os[d].protection) = 0
      BY <1>1 DEF Least
    <2> QED
      BY <1>2, <1>5, <2>5, <2>6
  <1> QED
    BY <1>4, <1>5

\* A complete fill of a leg takes the lot's part out of fitted legs and leaves
\* the others as they fit, although nothing is refitted.
LEMMA FillLegWholeFits ==
    ASSUME RowsInv, RowsInv', Backed, Backed', IdsGiven, LegsFitted,
           NEW c \in ClientIds, NEW k \in Kinds, NEW n \in 1..legs[c][k].remaining,
           NEW id, NEW price \in Nat, FillLeg(c, k, n, id, price), n = legs[c][k].remaining
    PROVE  LegsFitted'
  <1> DEFINE leg == legs[c][k]
             held == GroupReserved(c)
             after == FilledLeg(leg, n, held - Least(n, held))
             group == [j \in Kinds |-> IF j = k THEN after ELSE CancelledLeg(legs[c][j])]
             spent == Consume(orders, n, {c})
             manual == ManualReserved(legs, position)
             free == position.qty - manual - 0
             want == Fitted(orders, legs, position, 0)
             left == [want EXCEPT ![c] = 0]
  <1>1. /\ OrdersOK(orders) /\ LegsOK(legs) /\ PositionOK(position)
        /\ OrdersOK(orders') /\ LegsOK(legs') /\ PositionOK(position')
    BY RowsInvParts, RowsInvPartsNext
  <1>2. /\ orders \in [ClientIds -> Order] /\ orders' \in [ClientIds -> Order]
        /\ legs \in [ClientIds -> [Kinds -> Leg]] /\ legs' \in [ClientIds -> [Kinds -> Leg]]
        /\ position \in [qty : Nat, reserved : Nat] /\ position' \in [qty : Nat, reserved : Nat]
    BY <1>1 DEF OrdersOK, LegsOK, PositionOK
  <1>3. /\ leg.status = "ACCEPTED" /\ orders' = [spent EXCEPT ![c].filledLegs = @ + 1]
        /\ legs' = [legs EXCEPT ![c] = group] /\ position' = Sold(position, n, held)
    BY DEF FillLeg
  <1>4. leg \in Leg /\ LegShape(leg) /\ n \in Nat \ {0} /\ held = n
    <2>1. leg \in Leg /\ LegShape(leg) /\ held = leg.remaining
      BY <1>1, <1>3 DEF LegsOK, FillLeg, ClaimSucceeds
    <2>2. leg.remaining \in Nat
      BY <2>1 DEF Leg
    <2> QED
      BY <2>1, <2>2
  <1>5. want = Allocate(orders, free, {}) /\ want \in [ClientIds -> Nat]
        /\ (\A d \in ClientIds, j \in Kinds : FittedLeg(legs[d][j], j, want[d]) = legs[d][j])
        /\ LegsReserved(legs) = SumFunction(want)
    BY <1>2, FitsMeans, FitsGives DEF Fitted
  <1>6. free \in Nat /\ position.qty = manual + free /\ manual \in Nat /\ manual = SharesHeld(orders)
    BY <1>2, PositionSplit DEF Backed, ManualReserved
  <1>7. position'.qty = position.qty - n
    BY <1>3 DEF Sold
  <1> HIDE DEF want, manual, free
  <1>8. want[c] = n
    <2>1. leg = FittedLeg(leg, k, want[c]) /\ want[c] \in Nat
      BY <1>5
    <2>2. /\ leg.fillQty + leg.remaining = leg.qty
          /\ leg.status # "ACCEPTED" => leg.reserved = 0
      BY <1>4 DEF LegShape
    <2>3. (leg.status = "ACCEPTED" <=> want[c] # 0) /\ (want[c] # 0 => leg.remaining = want[c])
      BY <1>4, <2>1, <2>2, FittedLegOK
    <2> QED
      BY <1>3, <2>3
  <1>9. n <= orders[c].protection /\ LotsApart(orders)
    BY <1>1, <1>2, <1>5, <1>8, AllocateBounds, LotsHaveIds DEF Order
  <1>10. ASSUME NEW d \in ClientIds
         PROVE  /\ orders'[d].filledAt = orders[d].filledAt /\ orders'[d].id = orders[d].id
                /\ orders'[d].protection = IF d = c THEN orders[d].protection - n
                                           ELSE orders[d].protection
                /\ orders'[d].reservedCash = orders[d].reservedCash
                /\ orders'[d].reservedQty = orders[d].reservedQty
    <2> DEFINE used == Allocate(orders, n, {c})
    <2>1. used[d] = IF d = c THEN n ELSE 0
      <3>1. PICK os \in [ClientIds -> Order] : os = orders
        BY <1>2
      <3>2. Allocate(os, n, {c})[d] = IF d = c THEN n ELSE 0
        BY <1>4, <1>9, <3>1, LotPaysFirst
      <3> QED
        BY <3>1, <3>2
    <2>2. spent = [e \in ClientIds |-> [orders[e] EXCEPT !.protection = @ - used[e]]]
      BY DEF Consume
    <2> HIDE DEF used, spent
    <2>3. orders[d] \in Order /\ orders[d].protection \in Nat
      BY <1>2 DEF Order
    <2>4. spent[d].filledAt = orders[d].filledAt /\ spent[d].id = orders[d].id
          /\ spent[d].protection = orders[d].protection - used[d]
          /\ spent[d].reservedCash = orders[d].reservedCash
          /\ spent[d].reservedQty = orders[d].reservedQty
      BY <2>2, <2>3 DEF Order
    <2>5. /\ orders'[d].filledAt = spent[d].filledAt /\ orders'[d].id = spent[d].id
          /\ orders'[d].protection = spent[d].protection
          /\ orders'[d].reservedCash = spent[d].reservedCash
          /\ orders'[d].reservedQty = spent[d].reservedQty
      BY <1>3, <2>2, <2>3 DEF Order
    <2> QED
      BY <2>1, <2>3, <2>4, <2>5
  <1>11. Allocate(orders', free - n, {}) = left
    <2>1. ASSUME NEW d \in ClientIds
          PROVE  Allocate(orders', free - n, {})[d] = left[d]
      <3>1. Allocate(orders', free - n, {})[d] = IF d = c THEN 0 ELSE Allocate(orders, free, {})[d]
        <4>1. PICK os \in [ClientIds -> Order], ns \in [ClientIds -> Order], amount \in Nat :
                  os = orders /\ ns = orders' /\ amount = free
          BY <1>2, <1>6
        <4>2. LotsApart(os) /\ Allocate(os, amount, {})[c] = n /\ n \in Nat \ {0}
          BY <1>4, <1>5, <1>8, <1>9, <4>1
        <4>3. \A e \in ClientIds : /\ ns[e].filledAt = os[e].filledAt /\ ns[e].id = os[e].id
                                   /\ ns[e].protection = IF e = c THEN os[e].protection - n
                                                         ELSE os[e].protection
          BY <1>10, <4>1
        <4>4. Allocate(ns, amount - n, {})[d] = IF d = c THEN 0 ELSE Allocate(os, amount, {})[d]
          BY <4>2, <4>3, DealtWithout
        <4> QED
          BY <4>1, <4>4
      <3> QED
        BY <1>5, <3>1
    <2>2. Allocate(orders', free - n, {}) \in [ClientIds -> Nat]
      BY <1>2, AllocateType
    <2> QED
      BY <1>5, <2>1, <2>2
  <1>12. Fitted(orders', legs', position', 0) = left
    <2>1. SharesHeld(orders') = SharesHeld(orders)
      BY <1>2, <1>10, HeldSame
    <2>2. ManualReserved(legs', position') = manual
      BY <1>6, <2>1 DEF Backed
    <2>3. position'.qty - manual - 0 = free - n
      BY <1>4, <1>6, <1>7
    <2> QED
      BY <1>11, <2>2, <2>3 DEF Fitted
  <1>13. /\ \A d \in ClientIds \ {c} : legs'[d] = legs[d]
         /\ \A j \in Kinds : legs'[c][j] = group[j]
    BY <1>2, <1>3
  <1>14. \A j \in Kinds : legs'[c][j].status # "ACCEPTED" /\ legs'[c][j].reserved = 0
    <2>1. after.status = "SIMULATED_FILLED"
      <3> HIDE DEF held
      <3> QED
        BY <1>4 DEF FilledLeg, Leg
    <2>2. \A j \in Kinds : CancelledLeg(legs[c][j]).status # "ACCEPTED"
      BY <1>1, CancelledLegOK DEF LegsOK
    <2>3. \A j \in Kinds : legs'[c][j].status # "ACCEPTED"
      BY <1>13, <2>1, <2>2
    <2> QED
      BY <1>1, <2>3 DEF LegsOK, LegShape
  <1>15. ASSUME NEW d \in ClientIds, NEW j \in Kinds
         PROVE  FittedLeg(legs'[d][j], j, left[d]) = legs'[d][j]
    <2>1. CASE d = c
      BY <1>5, <1>14, <2>1 DEF FittedLeg, CancelledLeg
    <2>2. CASE d # c
      BY <1>5, <1>13, <2>2
    <2> QED
      BY <2>1, <2>2
  <1>16. left \in [ClientIds -> Nat] /\ SumFunction(left) = SumFunction(want) - n + 0
    <2>1. left \in [ClientIds -> Nat] /\ left[c] = 0 /\ \A d \in ClientIds \ {c} : left[d] = want[d]
      BY <1>5
    <2> HIDE DEF left
    <2>2. left \in [ClientIds -> Int] /\ want \in [ClientIds -> Int]
      BY <1>5, <2>1
    <2>3. SumFunction(left) = SumFunction(want) - want[c] + left[c]
      BY <2>1, <2>2, PaperConstants, SumFunctionChanged
    <2> QED
      BY <1>8, <2>1, <2>3
  <1>17. LegsReserved(legs') = SumFunction(left)
    <2>1. legs'[c]["stop"].reserved + legs'[c]["take-profit"].reserved = 0
      BY <1>14 DEF Kinds
    <2>2. legs[c]["stop"].reserved + legs[c]["take-profit"].reserved = n
      BY <1>4 DEF GroupReserved
    <2>3. LegsReserved(legs') = LegsReserved(legs) - n + 0
      BY <1>2, <1>13, <2>1, <2>2, LegsReservedChanged
    <2> QED
      BY <1>5, <1>16, <2>3
  <1> HIDE DEF left
  <1>18. Fits(orders', legs', position')
    BY <1>2, <1>12, <1>15, <1>16, <1>17, FitsBy
  <1> QED
    BY <1>18, FitsMeansNext

\* Every step but the manual cancel of a leg.
LEMMA NextFits ==
    ASSUME RowsInv, RowsInv', Backed, Backed', IdsGiven, LegsFitted, [Next]_vars
    PROVE  LegsFitted' \/ \E c \in ClientIds, k \in Kinds : CancelLeg(c, k)
  <1>1. CASE Submit
    <2>1. PICK c \in ClientIds, r \in Requests, acceptable \in BOOLEAN :
              SubmitBuy(c, r, acceptable) \/ SubmitSell(c, r, acceptable)
      BY <1>1 DEF Submit
    <2>2. CASE SubmitSell(c, r, acceptable) /\ acceptable /\ LedgerAccepts(r)
      BY <2>2, SubmitSellFits
    <2>3. CASE SubmitBuy(c, r, acceptable)
               \/ (SubmitSell(c, r, acceptable) /\ ~(acceptable /\ LedgerAccepts(r)))
      <3>1. \E new : /\ new.protection = 0 /\ orders' = [orders EXCEPT ![c] = new]
                     /\ orders[c].status = "NONE" /\ legs' = legs /\ position' = position
        <4>1. CASE SubmitBuy(c, r, acceptable)
          <5>1. PICK new : new = NewOrder(r, acceptable /\ LedgerAccepts(r), Cost(r), 0)
            OBVIOUS
          <5>2. new.protection = 0
            BY <5>1 DEF NewOrder
          <5> QED
            BY <4>1, <5>1, <5>2 DEF SubmitBuy
        <4>2. CASE SubmitSell(c, r, acceptable) /\ ~(acceptable /\ LedgerAccepts(r))
          <5>1. PICK new : new = NewOrder(r, acceptable /\ LedgerAccepts(r), 0, r.qty)
            OBVIOUS
          <5>2. new.protection = 0
            BY <5>1 DEF NewOrder
          <5> QED
            BY <4>2, <5>1, <5>2 DEF SubmitSell
        <4> QED
          BY <2>3, <4>1, <4>2
      <3> QED
        BY <3>1, SubmitFits
    <2> QED
      BY <2>1, <2>2, <2>3
  <1>2. CASE FillOrder
    BY <1>2, FillBuyFits, FillSellFits DEF FillOrder
  <1>3. CASE FillAutomatic
    BY <1>3, LegPriceType, FillLegWholeFits, FillLegPartFits DEF FillAutomatic
  <1>4. CASE CancelAny
    BY <1>4, CancelFits DEF CancelAny
  <1>5. CASE Recover
    BY <1>5, RowsInvParts, ReconcileLegsFits DEF Recover, PositionOK
  <1>6. CASE UNCHANGED vars
    BY <1>6 DEF vars, LegsFitted
  <1> QED
    BY <1>1, <1>2, <1>3, <1>4, <1>5, <1>6 DEF Next

\* Once the legs are what reconciliation would make of them, every transaction
\* keeps them so, also the complete fill of a leg, which refits nothing; only the
\* manual cancel of a leg leaves the next reconciliation something to do.
THEOREM FittedLegsStayFitted == Spec => StaysFitted
  <1>1. RowsInv /\ RowsInv' /\ Backed /\ Backed' /\ IdsGiven /\ [Next]_vars
            => [LegsFitted => LegsFitted' \/ \E c \in ClientIds, k \in Kinds : CancelLeg(c, k)]_vars
    BY NextFits
  <1>2. LedgerInv => RowsInv /\ IdsGiven
    BY DEF LedgerInv
  <1> QED
    BY <1>1, <1>2, LedgerInvHolds, BackedHolds, PTL DEF Spec, StaysFitted
=============================================================================
