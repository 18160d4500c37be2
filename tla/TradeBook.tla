------------------------------ MODULE TradeBook ------------------------------
(***************************************************************************)
(* What the Paper ledger promises its owner, without orders, reservations  *)
(* or protection: a book of cash and shares that only trades change.       *)
(* PaperLedger implements it.                                              *)
(***************************************************************************)
EXTENDS Integers

CONSTANT InitialCash

VARIABLES
    cash,      \* free and reserved cash together
    shares,    \* shares owned
    trades,    \* trades done: [id, owner, side, qty, price, fee]
    closed     \* owners that can never trade again

bookVars == <<cash, shares, trades, closed>>

BookInit == cash = InitialCash /\ shares = 0 /\ trades = {} /\ closed = {}

CashFlow(t) == IF t.side = "BUY" THEN -(t.price * t.qty) - t.fee ELSE t.price * t.qty - t.fee
ShareFlow(t) == IF t.side = "BUY" THEN t.qty ELSE -t.qty

\* A trade happens once, for an owner that is still open, sells only shares
\* that are owned, and moves exactly its own cash and shares.
Trade(t) ==
    /\ \A u \in trades : u.id # t.id
    /\ t.owner \notin closed
    /\ t.side = "SELL" => t.qty <= shares
    /\ trades' = trades \cup {t}
    /\ cash' = cash + CashFlow(t)
    /\ shares' = shares + ShareFlow(t)
    /\ closed \subseteq closed'

\* Owners close and never open again.
Close ==
    /\ closed \subseteq closed'
    /\ UNCHANGED <<cash, shares, trades>>

BookNext == Close \/ \E t \in trades' : Trade(t)

BookSpec == BookInit /\ [][BookNext]_bookVars
==============================================================================
