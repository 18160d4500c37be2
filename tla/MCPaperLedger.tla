---------------------------- MODULE MCPaperLedger ----------------------------
(* Instances of PaperLedger for TLC. *)
EXTENDS PaperLedger, TLC

CONSTANTS c1, c2, c3, f1

\* Prices in hundredths: BUYs at 10.00 protected at 8.00 and 12.00.
BuyLimit(n) == [side |-> "BUY", type |-> "LIMIT", price |-> 1000, qty |-> n]
BuyStop(n) == [side |-> "BUY", type |-> "STOP_MARKET", price |-> 1000, qty |-> n]
SellStop(n) == [side |-> "SELL", type |-> "STOP_MARKET", price |-> 900, qty |-> n]

TwoClients == {c1, c2}
ThreeClients == {c1, c2, c3}
OneInstant == {1}
TwoInstants == {1, 2}

\* A client's own fill id, and those that the server derives for the first stop leg
\* of each lot.
OneName == {f1}
NamedIds == {f1} \cup {<<c, "stop", 1>> : c \in ClientIds}
LotAndSell == {BuyLimit(3), BuyStop(3), SellStop(2)}
LotsAndSell == {BuyLimit(2), SellStop(1)}
LotOrLotsAndSell == LotAndSell \cup LotsAndSell
StopAndTarget == {800, 1200}

ClientSymmetry == Permutations(ClientIds)

Submitted == {c \in ClientIds : orders[c].status # "NONE"}
Payloads == {[field \in {"side", "type", "price", "qty"} |-> orders[c][field]] : c \in Submitted}

Buys == {c \in Submitted : orders[c].side = "BUY"}
NamedFills == {f \in fills : f.id # f.owner}

\* The first of two lots to be complete may have the later instant.
InstantsBound ==
    /\ \A c \in Submitted \ Buys : orders[c].filledAt <= 1
    /\ \A c, d \in Buys : c # d => orders[c].filledAt = 0 \/ orders[c].filledAt # orders[d].filledAt
    /\ Cardinality(Buys) <= 1 => \A c \in Buys : orders[c].filledAt <= 1

\* A lot of three shares and a SELL, with two fills that clients name, or two such
\* lots with one; one of the names may be a lot's leg.  Or three smaller orders
\* with one fill named f1.
OneLot ==
    /\ Payloads \subseteq LotAndSell
    /\ Cardinality(Submitted) <= 2
    /\ Cardinality(NamedFills) <= IF Cardinality(Buys) <= 1 THEN 2 ELSE 1
    /\ \A f \in NamedFills : f.id = f1 \/ f.id[1] \in Buys
    /\ Cardinality({f \in NamedFills : f.id # f1}) <= 1
SmallLots == Payloads \subseteq LotsAndSell /\ \A f \in NamedFills : f.id = f1

BoundedNext == Next /\ (OneLot \/ SmallLots)' /\ InstantsBound'
BoundedSpec == Init /\ [][BoundedNext]_vars
==============================================================================
