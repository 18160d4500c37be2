-------------------------- MODULE PaperCalls_proofs --------------------------
(***************************************************************************)
(* What callers of the Paper ledger may rely on, for any number of orders, *)
(* callers, requests and restarts.  The rows keep the invariant RowsTrue;  *)
(* a caller that is about to answer knows something of the rows that no    *)
(* later transaction takes back (Lasts), so answers given stay true.       *)
(***************************************************************************)
EXTENDS PaperCalls, Aggregates

Fills == [id : AllIds, order : Orders, qty : 1..Size, at : 0..MaxTime, seq : Nat]
Rows == [status : {"ACCEPTED", "CANCELLED", "SIMULATED_FILLED"}, left : 0..Size]
Quantities == [i \in DOMAIN log |-> log[i].qty]

\* What an answer says of the rows.
Holds(r, answer) ==
    /\ answer = "filled" => SameFill(r.order, r.id, r.qty)
    /\ r.kind = "fill" /\ answer = "replay" =>
        SameFill(r.order, r.id, r.qty) \/ orders[r.order].status = "SIMULATED_FILLED"
    /\ r.kind = "cancel" /\ answer # "conflict" => orders[r.order].status = "CANCELLED"

RowsTyped == orders \in [Orders -> Rows] /\ log \in Seq(Fills)
UniqueIds == \A i, j \in DOMAIN log : log[i].id = log[j].id => i = j
RowsTrue == RowsTyped /\ NeverOverfilled /\ UniqueIds

\* The answers that clients were told are true of the rows, and a cancelled
\* order has the fills it had then.
AnswersTrue == \A a \in answers :
    /\ Holds(a.request, a.answer)
    /\ a.request.kind = "cancel" /\ a.answer # "conflict" =>
        a.fills = Cardinality(FillsOf(a.request.order))

\* What a caller is about to answer is true of the rows.
AboutToAnswer == \A p \in Callers : calls[p].step = "answering" =>
    calls[p].answer # "none" /\ Holds(calls[p].request, calls[p].answer)

\* A scan that fills has an order to fill.
ScanHasWork == scan.step = "filling" => scan.todo # {}

\* The inductive invariant.
CallsInv ==
    TypeOK /\ NeverOverfilled /\ UniqueIds /\ AnswersTrue /\ AboutToAnswer /\ ScanHasWork

\* A transaction keeps every fill and every order that has ended.
Lasts ==
    /\ DOMAIN log \subseteq DOMAIN log'
    /\ \A i \in DOMAIN log : log'[i] = log[i]
    /\ \A o \in Orders : orders[o].status # "ACCEPTED" =>
        orders'[o] = orders[o] /\ FillsOf(o)' = FillsOf(o)
-----------------------------------------------------------------------------
(* Sets of ids and requests *)

\* An idle call carries a request.
LEMMA AnyRequestIsOne == AnyRequest \in Requests
BY MinIsMember, CallConstants DEF AnyRequest, Requests

\* The fields of a request.
LEMMA RequestFields ==
    ASSUME NEW r \in Requests
    PROVE  r.kind \in {"fill", "cancel"} /\ r.order \in Orders /\ r.id \in AllIds /\ r.qty \in 0..Size
BY CallConstants DEF Requests, AllIds

\* The rows of an order's fills are finitely many, each with a quantity.
LEMMA FillsOfFinite ==
    ASSUME RowsTyped, NEW o
    PROVE  /\ IsFiniteSet(FillsOf(o))
           /\ FillsOf(o) \subseteq DOMAIN log
           /\ \A i \in FillsOf(o) : Quantities[i] = log[i].qty /\ log[i].qty \in Int
           /\ Cardinality(FillsOf(o)) \in Nat
<1>1. DOMAIN log = 1..Len(log) /\ Len(log) \in Nat
  BY DEF RowsTyped
<1>2. IsFiniteSet(1..Len(log))
  BY <1>1, FS_Interval
<1>3. FillsOf(o) \subseteq 1..Len(log)
  BY <1>1 DEF FillsOf
<1>4. IsFiniteSet(FillsOf(o))
  BY <1>2, <1>3, FS_Subset
<1>5. Cardinality(FillsOf(o)) \in Nat
  BY <1>4, FS_CardinalityType
<1>6. ASSUME NEW i \in FillsOf(o) PROVE Quantities[i] = log[i].qty /\ log[i].qty \in Int
  <2>1. i \in DOMAIN log /\ log[i] \in Fills
    BY <1>1, <1>3 DEF RowsTyped
  <2> QED BY <2>1, CallConstants DEF Fills, Quantities
<1> QED BY <1>1, <1>3, <1>4, <1>5, <1>6
-----------------------------------------------------------------------------
(* The transactions keep the rows true *)

\* A fill that is recorded finds the order open, its id unused, and shares left.
LEMMA FilledFits ==
    ASSUME RowsTrue, NEW o \in Orders, NEW id, NEW qty \in 0..Size, NEW quoted,
           FillAnswer(o, id, qty, quoted) = "filled"
    PROVE  /\ ~FillIdUsed(id)
           /\ orders[o].status = "ACCEPTED"
           /\ orders[o].left \in 1..Size
           /\ qty <= orders[o].left
<1>1. orders[o] \in Rows
  BY DEF RowsTrue, RowsTyped
<1>2. orders[o].status = "SIMULATED_FILLED" <=> orders[o].left = 0
  BY DEF RowsTrue, NeverOverfilled
<1> QED BY <1>1, <1>2, CallConstants DEF FillAnswer, Rows

\* What a fill that is recorded does to the rows.
LEMMA FillRecords ==
    ASSUME RowsTrue, NEW o \in Orders, NEW id \in AllIds, NEW qty \in 0..Size,
           NEW quoted, NEW now \in 0..MaxTime,
           FillAnswer(o, id, qty, quoted) = "filled", FillTx(o, id, qty, quoted, now)
    PROVE  \E n \in 1..Size : \E s \in Nat :
           /\ n <= orders[o].left
           /\ qty \in {0, n}
           /\ orders' = [orders EXCEPT ![o] =
                 [status |-> IF orders[o].left = n THEN "SIMULATED_FILLED" ELSE "ACCEPTED",
                  left |-> orders[o].left - n]]
           /\ log' = Append(log, [id |-> id, order |-> o, qty |-> n, at |-> now, seq |-> s])
<1> DEFINE n == IF qty = 0 THEN orders[o].left ELSE qty
           s == Cardinality(FillsOf(o)) + 1
<1>1. orders[o].left \in 1..Size /\ qty <= orders[o].left
  BY FilledFits
<1>2. n \in 1..Size /\ n <= orders[o].left /\ qty \in {0, n}
  BY <1>1, CallConstants
<1>3. s \in Nat
  BY FillsOfFinite DEF RowsTrue
<1>4. orders[o].left - n = 0 <=> orders[o].left = n
  BY <1>1, <1>2
<1>5. log' = Append(log, [id |-> id, order |-> o, qty |-> n, at |-> now, seq |-> s])
  BY DEF FillTx
<1>6. orders' = [orders EXCEPT ![o] =
          [status |-> IF orders[o].left - n = 0 THEN "SIMULATED_FILLED" ELSE "ACCEPTED",
           left |-> orders[o].left - n]]
  BY DEF FillTx
<1> HIDE DEF n, s
<1> QED BY <1>2, <1>3, <1>4, <1>5, <1>6

\* What rows become when one is appended.
LEMMA OneMoreRow ==
    ASSUME RowsTyped, NEW row \in Fills, log' = Append(log, row)
    PROVE  /\ log' \in Seq(Fills)
           /\ DOMAIN log' = DOMAIN log \cup {Len(log) + 1}
           /\ Len(log) + 1 \notin DOMAIN log
           /\ \A i \in DOMAIN log : log'[i] = log[i]
           /\ log'[Len(log) + 1] = row
           /\ \A o : FillsOf(o)' =
                 IF row.order = o THEN FillsOf(o) \cup {Len(log) + 1} ELSE FillsOf(o)
<1>1. log' \in Seq(Fills)
  BY DEF RowsTyped
<1>2. Len(log) \in Nat /\ DOMAIN log = 1..Len(log) /\ DOMAIN log' = 1..(Len(log) + 1)
  BY DEF RowsTyped
<1>3. \A i \in DOMAIN log : log'[i] = log[i]
  BY <1>2 DEF RowsTyped
<1>4. log'[Len(log) + 1] = row
  BY DEF RowsTyped
<1>5. DOMAIN log' = DOMAIN log \cup {Len(log) + 1} /\ Len(log) + 1 \notin DOMAIN log
  BY <1>2
<1>6. ASSUME NEW o
      PROVE  FillsOf(o)' = IF row.order = o THEN FillsOf(o) \cup {Len(log) + 1} ELSE FillsOf(o)
  <2>1. FillsOf(o)' = {i \in DOMAIN log' : log'[i].order = o}
    BY DEF FillsOf
  <2>2. FillsOf(o) = {i \in DOMAIN log : log[i].order = o}
    BY DEF FillsOf
  <2> HIDE DEF FillsOf
  <2> QED BY <2>1, <2>2, <1>3, <1>4, <1>5
<1> QED BY <1>1, <1>3, <1>4, <1>5, <1>6

\* What is true of an order that a fill leaves alone stays true.
LEMMA FillMoves ==
    ASSUME RowsTrue, NEW o \in Orders, NEW id \in AllIds, NEW qty \in 0..Size,
           NEW quoted, NEW now \in 0..MaxTime,
           FillAnswer(o, id, qty, quoted) = "filled", FillTx(o, id, qty, quoted, now)
    PROVE  RowsTrue' /\ Lasts /\ SameFill(o, id, qty)'
<1>1. PICK n \in 1..Size, s \in Nat :
        /\ n <= orders[o].left
        /\ qty \in {0, n}
        /\ orders' = [orders EXCEPT ![o] =
              [status |-> IF orders[o].left = n THEN "SIMULATED_FILLED" ELSE "ACCEPTED",
               left |-> orders[o].left - n]]
        /\ log' = Append(log, [id |-> id, order |-> o, qty |-> n, at |-> now, seq |-> s])
  BY FillRecords
<1> DEFINE row == [id |-> id, order |-> o, qty |-> n, at |-> now, seq |-> s]
           last == Len(log) + 1
<1>2. row \in Fills
  BY DEF Fills
<1>3. orders[o].left \in 1..Size /\ ~FillIdUsed(id) /\ orders[o].status = "ACCEPTED"
  BY FilledFits
<1>r. row.id = id /\ row.order = o /\ row.qty = n
  OBVIOUS
<1>4. log' = Append(log, row)
  BY <1>1
<1> HIDE DEF row
<1>5. /\ log' \in Seq(Fills)
      /\ DOMAIN log' = DOMAIN log \cup {last}
      /\ last \notin DOMAIN log
      /\ \A i \in DOMAIN log : log'[i] = log[i]
      /\ log'[last] = row
      /\ \A q : FillsOf(q)' = IF row.order = q THEN FillsOf(q) \cup {last} ELSE FillsOf(q)
  BY <1>2, <1>4, OneMoreRow DEF RowsTrue
<1> HIDE DEF last
<1>6. /\ orders' \in [Orders -> Rows]
      /\ orders'[o] = [status |-> IF orders[o].left = n THEN "SIMULATED_FILLED" ELSE "ACCEPTED",
                       left |-> orders[o].left - n]
      /\ \A q \in Orders \ {o} : orders'[q] = orders[q]
  <2>1. [status |-> IF orders[o].left = n THEN "SIMULATED_FILLED" ELSE "ACCEPTED",
         left |-> orders[o].left - n] \in Rows
    BY <1>1, <1>3, CallConstants DEF Rows
  <2> QED BY <1>1, <2>1 DEF RowsTrue, RowsTyped
<1>7. RowsTyped'
  BY <1>5, <1>6 DEF RowsTyped
<1>8. UniqueIds'
  <2>1. \A i \in DOMAIN log : log[i].id # id
    BY <1>3 DEF FillIdUsed, Range
  <2> QED BY <1>5, <1>r, <2>1 DEF RowsTrue, UniqueIds
<1>9. NeverOverfilled'
  <2> SUFFICES ASSUME NEW q \in Orders
               PROVE  /\ SumFunctionOnSet(Quantities', FillsOf(q)') = Size - orders'[q].left
                      /\ (orders'[q].status = "SIMULATED_FILLED" <=> orders'[q].left = 0)
    BY DEF NeverOverfilled, Quantities
  <2>1. /\ SumFunctionOnSet(Quantities, FillsOf(q)) = Size - orders[q].left
        /\ (orders[q].status = "SIMULATED_FILLED" <=> orders[q].left = 0)
    BY DEF RowsTrue, NeverOverfilled, Quantities
  <2>2. /\ IsFiniteSet(FillsOf(q)) /\ FillsOf(q) \subseteq DOMAIN log
        /\ \A i \in FillsOf(q) : Quantities[i] = log[i].qty /\ log[i].qty \in Int
    BY FillsOfFinite DEF RowsTrue
  <2>3. \A i \in FillsOf(q) : Quantities'[i] = Quantities[i]
    BY <1>5, <2>2 DEF Quantities
  <2>4. Quantities'[last] = n
    BY <1>5, <1>r DEF Quantities
  <2>5. CASE q = o
    <3>1. FillsOf(q)' = FillsOf(q) \cup {last} /\ last \notin FillsOf(q)
      BY <1>5, <1>r, <2>2, <2>5
    <3>2. SumFunctionOnSet(Quantities', FillsOf(q) \cup {last})
            = SumFunctionOnSet(Quantities, FillsOf(q)) + Quantities'[last]
      <4> DEFINE S == FillsOf(q)
                 f == Quantities
                 g == Quantities'
      <4>1. /\ IsFiniteSet(S) /\ last \notin S /\ \A i \in S : f[i] \in Int
            /\ g[last] \in Int /\ \A i \in S : g[i] = f[i]
        BY <2>2, <2>3, <2>4, <3>1
      <4> HIDE DEF S, f, g
      <4>2. SumFunctionOnSet(g, S \cup {last}) = SumFunctionOnSet(f, S) + g[last]
        BY <4>1, SumOfOneMore
      <4> QED BY <4>2 DEF S, f, g
    <3> QED BY <1>1, <1>3, <1>6, <2>1, <2>4, <2>5, <3>1, <3>2, CallConstants
  <2>6. CASE q # o
    <3>1. FillsOf(q)' = FillsOf(q)
      BY <1>5, <1>r, <2>6
    <3>2. SumFunctionOnSet(Quantities', FillsOf(q)) = SumFunctionOnSet(Quantities, FillsOf(q))
      BY <2>2, <2>3, SumOfSame
    <3> QED BY <1>6, <2>1, <2>6, <3>1, <3>2
  <2> QED BY <2>5, <2>6
<1>10. Lasts
  BY <1>3, <1>5, <1>6, <1>r DEF Lasts
<1>11. SameFill(o, id, qty)'
  BY <1>1, <1>5, <1>r DEF SameFill, Range
<1> QED BY <1>7, <1>8, <1>9, <1>10, <1>11 DEF RowsTrue

\* Rows that are left alone last.
LEMMA SameLast == ASSUME UNCHANGED <<orders, log>> PROVE Lasts
BY DEF Lasts, FillsOf

\* Rows that are left alone stay true.
LEMMA SameStayTrue == ASSUME RowsTrue, UNCHANGED <<orders, log>> PROVE RowsTrue'
BY DEF RowsTrue, RowsTyped, NeverOverfilled, UniqueIds, FillsOf

\* The fill transaction keeps the rows true, and its answer holds of them.
LEMMA FillTxKeeps ==
    ASSUME RowsTrue, NEW r \in Requests, r.kind = "fill",
           NEW quoted, NEW now \in 0..MaxTime, FillTx(r.order, r.id, r.qty, quoted, now),
           NEW answer, answer = FillAnswer(r.order, r.id, r.qty, quoted)
    PROVE  /\ RowsTrue' /\ Lasts
           /\ Holds(r, answer)'
           /\ answer \in {"filled", "replay", "conflict"}
<1>0. r.order \in Orders /\ r.id \in AllIds /\ r.qty \in 0..Size
  BY RequestFields
<1>1. answer \in {"filled", "replay", "conflict"}
  BY DEF FillAnswer
<1>2. CASE answer = "filled"
  <2>1. RowsTrue' /\ Lasts /\ SameFill(r.order, r.id, r.qty)'
    BY <1>0, <1>2, FillMoves
  <2>2. Holds(r, answer)'
    BY <1>2, <2>1 DEF Holds
  <2> QED BY <1>1, <1>2, <2>1, <2>2
<1>3. CASE answer # "filled"
  <2>1. UNCHANGED <<orders, log>>
    BY <1>3 DEF FillTx
  <2>2. answer = "replay" =>
          SameFill(r.order, r.id, r.qty) \/ orders[r.order].status = "SIMULATED_FILLED"
    BY DEF FillAnswer
  <2>3. SameFill(r.order, r.id, r.qty)' <=> SameFill(r.order, r.id, r.qty)
    BY <2>1 DEF SameFill
  <2>4. Holds(r, answer)'
    BY <1>3, <2>1, <2>2, <2>3 DEF Holds
  <2> QED BY <1>1, <2>1, <2>4, SameLast, SameStayTrue
<1> QED BY <1>2, <1>3

\* The cancel transaction keeps the rows true, and its answer holds of them.
LEMMA CancelTxKeeps ==
    ASSUME RowsTrue, NEW r \in Requests, r.kind = "cancel", CancelTx(r.order),
           NEW answer, answer = CancelAnswer(r.order)
    PROVE  /\ RowsTrue' /\ Lasts /\ Holds(r, answer)'
           /\ answer \in {"cancelled", "replay", "conflict"}
<1> DEFINE o == r.order
<1>0. o \in Orders /\ orders[o] \in Rows
  BY RequestFields DEF RowsTrue, RowsTyped
<1>1. answer \in {"cancelled", "replay", "conflict"}
  BY DEF CancelAnswer
<1>2. answer = "cancelled" => orders[o].status = "ACCEPTED"
  BY <1>0 DEF CancelAnswer, Rows
<1>3. answer = "replay" => orders[o].status = "CANCELLED"
  BY <1>0 DEF CancelAnswer, Rows
<1>4. CASE answer = "cancelled"
  <2>1. orders' = [orders EXCEPT ![o].status = "CANCELLED"] /\ log' = log
    BY <1>4 DEF CancelTx
  <2> HIDE DEF o
  <2>2. /\ orders' \in [Orders -> Rows]
        /\ orders'[o].status = "CANCELLED" /\ orders'[o].left = orders[o].left
        /\ \A q \in Orders \ {o} : orders'[q] = orders[q]
    BY <1>0, <2>1 DEF RowsTrue, RowsTyped, Rows
  <2>3. \A q : FillsOf(q)' = FillsOf(q)
    BY <2>1 DEF FillsOf
  <2>4. RowsTyped' /\ UniqueIds'
    BY <2>1, <2>2 DEF RowsTrue, RowsTyped, UniqueIds
  <2>5. NeverOverfilled'
    <3>1. \A q \in Orders : orders'[q].left = orders[q].left
      BY <2>2
    <3>2. orders[o].left # 0 /\ orders'[o].status # "SIMULATED_FILLED"
      BY <1>0, <1>2, <1>4, <2>2 DEF RowsTrue, NeverOverfilled
    <3>3. Quantities' = Quantities
      BY <2>1 DEF Quantities
    <3> QED BY <1>0, <2>2, <2>3, <3>1, <3>2, <3>3 DEF RowsTrue, NeverOverfilled, Quantities
  <2>6. Lasts
    BY <1>2, <1>4, <2>1, <2>2, <2>3 DEF Lasts
  <2>7. Holds(r, answer)'
    BY <1>4, <2>2 DEF Holds, o
  <2> QED BY <1>1, <1>4, <2>4, <2>5, <2>6, <2>7 DEF RowsTrue
<1>5. CASE answer # "cancelled"
  <2>1. UNCHANGED <<orders, log>>
    BY <1>5 DEF CancelTx
  <2>2. Holds(r, answer)'
    BY <1>1, <1>3, <1>5, <2>1 DEF Holds
  <2> QED BY <1>1, <2>1, <2>2, SameLast, SameStayTrue
<1> QED BY <1>4, <1>5
-----------------------------------------------------------------------------
(* The invariant *)

\* What an answer says of the rows lasts.
LEMMA HoldsLasts ==
    ASSUME RowsTyped, Lasts, NEW r \in Requests, NEW answer, Holds(r, answer)
    PROVE  Holds(r, answer)'
<1>1. r.order \in Orders
  BY RequestFields
<1>2. SameFill(r.order, r.id, r.qty) => SameFill(r.order, r.id, r.qty)'
  BY DEF SameFill, Range, Lasts
<1>3. orders[r.order].status # "ACCEPTED" => orders'[r.order] = orders[r.order]
  BY <1>1 DEF Lasts
<1> QED BY <1>2, <1>3 DEF Holds

\* Answers given stay true.
LEMMA AnswersLast ==
    ASSUME TypeOK, AnswersTrue, Lasts, UNCHANGED answers
    PROVE  AnswersTrue'
<1> SUFFICES ASSUME NEW a \in answers
             PROVE  /\ Holds(a.request, a.answer)'
                    /\ a.request.kind = "cancel" /\ a.answer # "conflict" =>
                        a.fills = Cardinality(FillsOf(a.request.order)')
  BY DEF AnswersTrue
<1>1. a.request \in Requests
  BY DEF TypeOK
<1>2. RowsTyped
  BY DEF TypeOK, RowsTyped, Rows, Fills
<1>3. Holds(a.request, a.answer)
  BY DEF AnswersTrue
<1>4. Holds(a.request, a.answer)'
  BY <1>1, <1>2, <1>3, HoldsLasts
<1>5. a.request.kind = "cancel" /\ a.answer # "conflict" =>
        FillsOf(a.request.order)' = FillsOf(a.request.order)
  BY <1>1, <1>3, RequestFields DEF Holds, Lasts
<1> QED BY <1>4, <1>5 DEF AnswersTrue

\* The invariant says what the runs check.
LEMMA CallsInvSays ==
    CallsInv => /\ RowsTrue /\ TypeOK /\ NeverOverfilled /\ FillsOnce
                /\ CancelledStaysCancelled /\ ReplaysAreReal
<1> SUFFICES ASSUME CallsInv
             PROVE  RowsTrue /\ FillsOnce /\ CancelledStaysCancelled /\ ReplaysAreReal
  BY DEF CallsInv
<1>1. RowsTrue
  BY DEF CallsInv, RowsTrue, TypeOK, RowsTyped, Rows, Fills
<1>2. FillsOnce
  BY DEF CallsInv, FillsOnce, UniqueIds, AnswersTrue, Holds
<1>3. CancelledStaysCancelled
  BY DEF CallsInv, CancelledStaysCancelled, AnswersTrue, Holds
<1>4. ReplaysAreReal
  BY DEF CallsInv, ReplaysAreReal, AnswersTrue, Holds
<1> QED BY <1>1, <1>2, <1>3, <1>4

\* At the start nothing is filled, asked or answered.
LEMMA CallsStart == Init => CallsInv
<1> SUFFICES ASSUME Init PROVE CallsInv
  OBVIOUS
<1>1. NoCall \in [step : {"idle", "pricing", "committing", "answering"},
                  request : Requests, now : 0..MaxTime, quoted : BOOLEAN,
                  answer : {"none", "filled", "cancelled", "replay", "conflict"}]
  BY AnyRequestIsOne, CallConstants DEF NoCall
<1>2. NoScan \in [step : {"idle", "pricing", "filling"}, now : 0..MaxTime, todo : SUBSET Orders]
  BY CallConstants DEF NoScan
<1>3. TypeOK
  BY <1>1, <1>2, CallConstants DEF Init, TypeOK
<1>4. NeverOverfilled
  <2> SUFFICES ASSUME NEW o \in Orders
               PROVE  /\ SumFunctionOnSet(Quantities, FillsOf(o)) = Size - orders[o].left
                      /\ (orders[o].status = "SIMULATED_FILLED" <=> orders[o].left = 0)
    BY DEF NeverOverfilled, Quantities
  <2>1. FillsOf(o) = {}
    BY DEF Init, FillsOf
  <2>2. orders[o].status = "ACCEPTED" /\ orders[o].left = Size
    BY DEF Init
  <2> QED BY <2>1, <2>2, SumOfNothing, CallConstants
<1>5. UniqueIds /\ AnswersTrue
  BY DEF Init, UniqueIds, AnswersTrue
<1>6. AboutToAnswer
  BY DEF Init, AboutToAnswer, NoCall
<1> QED BY <1>3, <1>4, <1>5, <1>6 DEF CallsInv, ScanHasWork, Init, NoScan

\* A step that leaves rows, requests and answers alone keeps the invariant.
LEMMA OthersKeep ==
    ASSUME CallsInv, TypeOK', ScanHasWork', UNCHANGED <<orders, log, answers>>,
           \A p \in Callers : calls'[p] = calls[p] \/ calls'[p].step # "answering"
               \/ calls'[p].answer = "conflict"
    PROVE  CallsInv'
<1>1. RowsTrue' /\ Lasts
  BY CallsInvSays, SameLast, SameStayTrue
<1>2. AnswersTrue'
  BY <1>1, AnswersLast DEF CallsInv
<1>3. AboutToAnswer'
  <2> SUFFICES ASSUME NEW p \in Callers, calls'[p].step = "answering"
               PROVE  /\ calls'[p].answer # "none"
                      /\ Holds(calls[p].request, calls[p].answer)'
    BY DEF AboutToAnswer
  <2>1. CASE calls'[p] = calls[p]
    <3> DEFINE r == calls[p].request
               answer == calls[p].answer
    <3>1. r \in Requests /\ RowsTyped /\ answer # "none" /\ Holds(r, answer)
      BY <2>1, CallsInvSays DEF CallsInv, AboutToAnswer, TypeOK, RowsTrue
    <3>2. \A f \in Range(log) : f \in Range(log')
      OBVIOUS
    <3> QED BY <3>1, <2>1 DEF Holds, SameFill
  <2>2. CASE calls'[p].answer = "conflict"
    BY <2>2 DEF Holds
  <2> QED BY <2>1, <2>2
<1> QED BY <1>1, <1>2, <1>3 DEF CallsInv, RowsTrue

\* A transaction and the answer it leaves with its caller keep the invariant.
LEMMA CommitKeeps ==
    ASSUME CallsInv, NEW p \in Callers, Commit(p)
    PROVE  CallsInv'
<1>1. PICK r \in Requests, now \in 0..MaxTime, quoted \in BOOLEAN :
        r = calls[p].request /\ now = calls[p].now /\ quoted = calls[p].quoted
  BY DEF CallsInv, TypeOK
<1>2. r.kind \in {"fill", "cancel"}
  BY RequestFields
<1>3. PICK answer :
        answer = IF r.kind = "fill" THEN FillAnswer(r.order, r.id, r.qty, quoted)
                 ELSE CancelAnswer(r.order)
  OBVIOUS
<1>4. /\ RowsTrue' /\ Lasts /\ Holds(r, answer)'
      /\ answer \in {"filled", "cancelled", "replay", "conflict"}
  <2>1. CASE r.kind = "fill"
    <3>1. FillTx(r.order, r.id, r.qty, quoted, now)
      BY <1>1, <2>1 DEF Commit
    <3> QED BY <1>3, <2>1, <3>1, CallsInvSays, FillTxKeeps
  <2>2. CASE r.kind = "cancel"
    <3>1. CancelTx(r.order)
      BY <1>1, <2>2 DEF Commit
    <3> QED BY <1>3, <2>2, <3>1, CallsInvSays, CancelTxKeeps
  <2> QED BY <1>2, <2>1, <2>2
<1>5. /\ calls' = [calls EXCEPT ![p].step = "answering", ![p].answer = answer]
      /\ UNCHANGED <<time, answers, scan, made, restarts>>
  BY <1>1, <1>2, <1>3 DEF Commit
<1>6. TypeOK'
  <2> DEFINE C == [step : {"idle", "pricing", "committing", "answering"},
                   request : Requests, now : 0..MaxTime, quoted : BOOLEAN,
                   answer : {"none", "filled", "cancelled", "replay", "conflict"}]
  <2>1. calls \in [Callers -> C]
    BY DEF CallsInv, TypeOK
  <2>2. \A c \in C : [c EXCEPT !.step = "answering", !.answer = answer] \in C
    BY <1>4
  <2>3. calls' = [calls EXCEPT ![p] = [calls[p] EXCEPT !.step = "answering", !.answer = answer]]
    BY <1>5, <2>1
  <2> HIDE DEF C
  <2>4. calls' \in [Callers -> C]
    BY <2>1, <2>2, <2>3
  <2>5. orders' \in [Orders -> Rows] /\ log' \in Seq(Fills)
    BY <1>4 DEF RowsTrue, RowsTyped
  <2> QED BY <1>5, <2>4, <2>5 DEF CallsInv, TypeOK, Rows, Fills, C
<1>7. AnswersTrue'
  BY <1>4, <1>5, AnswersLast DEF CallsInv
<1>8. AboutToAnswer'
  <2> SUFFICES ASSUME NEW q \in Callers, calls'[q].step = "answering"
               PROVE  /\ calls'[q].answer # "none"
                      /\ Holds(calls[q].request, calls[q].answer)'
    BY DEF AboutToAnswer
  <2>1. CASE q = p
    <3>1. calls'[q].request = r /\ calls'[q].answer = answer
      BY <1>1, <1>5, <2>1 DEF CallsInv, TypeOK
    <3> QED BY <1>4, <3>1 DEF Holds
  <2>2. CASE q # p
    <3>1. calls'[q] = calls[q]
      BY <1>5, <2>2 DEF CallsInv, TypeOK
    <3>2. PICK r2, answer2 : r2 \in Requests /\ r2 = calls[q].request /\ answer2 = calls[q].answer
      BY DEF CallsInv, TypeOK
    <3>3. answer2 # "none" /\ Holds(r2, answer2) /\ RowsTyped
      BY <3>1, <3>2, CallsInvSays DEF CallsInv, AboutToAnswer, RowsTrue
    <3>4. Holds(r2, answer2)'
      BY <1>4, <3>2, <3>3, HoldsLasts
    <3> QED BY <3>1, <3>2, <3>3, <3>4 DEF Holds
  <2> QED BY <2>1, <2>2
<1> QED BY <1>4, <1>5, <1>6, <1>7, <1>8 DEF CallsInv, RowsTrue, ScanHasWork


\* The scanner's fill keeps the invariant: what callers are about to answer lasts.
LEMMA ScanFillKeeps ==
    ASSUME CallsInv, ScanFill
    PROVE  CallsInv'
<1>1. PICK r \in Requests, now \in 0..MaxTime :
        r.kind = "fill" /\ r.order = Min(scan.todo) /\ r.qty = 0 /\ now = scan.now
  <2>1. scan.todo \in SUBSET Nat /\ scan.todo \subseteq Orders /\ scan.now \in 0..MaxTime
        /\ scan.todo # {}
    BY CallConstants DEF CallsInv, TypeOK, ScanHasWork, ScanFill
  <2>2. Min(scan.todo) \in Orders
    BY <2>1, MinIsMember
  <2>3. [kind |-> "fill", order |-> Min(scan.todo), id |-> ManualId(Min(scan.todo)), qty |-> 0]
          \in Requests
    BY <2>2 DEF Requests
  <2> QED BY <2>1, <2>3
<1> DEFINE o == r.order
<1>2. FillTx(o, ScannerId(o), 0, TRUE, now)
  BY <1>1 DEF ScanFill
<1>3. o \in Orders /\ ScannerId(o) \in AllIds /\ 0 \in 0..Size
  BY RequestFields, CallConstants DEF AllIds
<1>4. RowsTrue' /\ Lasts
  <2>1. CASE FillAnswer(o, ScannerId(o), 0, TRUE) = "filled"
    BY <1>2, <1>3, <2>1, CallsInvSays, FillMoves
  <2>2. CASE FillAnswer(o, ScannerId(o), 0, TRUE) # "filled"
    <3>1. UNCHANGED <<orders, log>>
      BY <1>2, <2>2 DEF FillTx
    <3> QED BY <3>1, CallsInvSays, SameLast, SameStayTrue
  <2> QED BY <2>1, <2>2
<1>5. PICK rest : rest = scan.todo \ {Min(scan.todo)}
  OBVIOUS
<1>6. PICK step \in {"idle", "filling"} : step = IF rest = {} THEN "idle" ELSE "filling"
  OBVIOUS
<1>7. /\ scan' = [scan EXCEPT !.step = step, !.todo = rest]
      /\ UNCHANGED <<time, calls, answers, made, restarts>>
  BY <1>5, <1>6 DEF ScanFill
<1>8. /\ scan' \in [step : {"idle", "pricing", "filling"}, now : 0..MaxTime, todo : SUBSET Orders]
      /\ ScanHasWork'
  BY <1>5, <1>6, <1>7 DEF CallsInv, TypeOK, ScanHasWork
<1>9. TypeOK'
  <2>1. orders' \in [Orders -> Rows] /\ log' \in Seq(Fills)
    BY <1>4 DEF RowsTrue, RowsTyped
  <2> QED BY <1>7, <1>8, <2>1 DEF CallsInv, TypeOK, Rows, Fills
<1>10. AnswersTrue'
  BY <1>4, <1>7, AnswersLast DEF CallsInv
<1>11. AboutToAnswer'
  <2> SUFFICES ASSUME NEW q \in Callers, calls'[q].step = "answering"
               PROVE  /\ calls'[q].answer # "none"
                      /\ Holds(calls[q].request, calls[q].answer)'
    BY DEF AboutToAnswer
  <2>1. PICK r2, answer2 : r2 \in Requests /\ r2 = calls[q].request /\ answer2 = calls[q].answer
    BY DEF CallsInv, TypeOK
  <2>2. answer2 # "none" /\ Holds(r2, answer2) /\ RowsTyped
    BY <1>7, <2>1, CallsInvSays DEF CallsInv, AboutToAnswer, RowsTrue
  <2>3. Holds(r2, answer2)'
    BY <1>4, <2>1, <2>2, HoldsLasts
  <2> QED BY <1>7, <2>1, <2>2, <2>3 DEF Holds
<1> QED BY <1>4, <1>8, <1>9, <1>10, <1>11 DEF CallsInv, RowsTrue

\* An answer that reaches its client is true, and remains so.
LEMMA ReplyKeeps ==
    ASSUME CallsInv, NEW p \in Callers, Reply(p)
    PROVE  CallsInv'
<1> DEFINE told == [request |-> calls[p].request, answer |-> calls[p].answer,
                    fills |-> Cardinality(FillsOf(calls[p].request.order))]
           C == [step : {"idle", "pricing", "committing", "answering"},
                 request : Requests, now : 0..MaxTime, quoted : BOOLEAN,
                 answer : {"none", "filled", "cancelled", "replay", "conflict"}]
           A == [request : Requests, answer : {"filled", "cancelled", "replay", "conflict"},
                 fills : Nat]
<1>1. RowsTrue' /\ Lasts /\ RowsTyped /\ UNCHANGED <<time, orders, log, scan, made, restarts>>
  BY CallsInvSays, SameLast, SameStayTrue DEF Reply, RowsTrue
<1>2. answers' \in {answers, answers \cup {told}}
  BY DEF Reply
<1>3. calls \in [Callers -> C] /\ answers \subseteq A
  BY DEF CallsInv, TypeOK
<1>4. NoCall \in C /\ NoCall.step = "idle"
  BY AnyRequestIsOne, CallConstants DEF NoCall
<1>5. calls' = [calls EXCEPT ![p] = NoCall]
  BY DEF Reply
<1>6. calls' \in [Callers -> C] /\ calls'[p] = NoCall /\ \A q \in Callers \ {p} : calls'[q] = calls[q]
  <2> HIDE DEF C
  <2> QED BY <1>3, <1>4, <1>5
<1>7. calls[p] \in C /\ calls[p].answer # "none" /\ Holds(calls[p].request, calls[p].answer)
  BY <1>3 DEF CallsInv, AboutToAnswer, Reply
<1>8. Cardinality(FillsOf(calls[p].request.order)) \in Nat
  BY <1>1, FillsOfFinite
<1>9. told \in A
  BY <1>7, <1>8
<1>10. TypeOK'
  <2>1. answers' \subseteq A
    <3> HIDE DEF A, told
    <3> QED BY <1>2, <1>3, <1>9
  <2> QED BY <1>1, <1>6, <2>1 DEF CallsInv, TypeOK
<1>11. AnswersTrue'
  <2> SUFFICES ASSUME NEW a \in answers'
               PROVE  /\ Holds(a.request, a.answer)
                      /\ a.request.kind = "cancel" /\ a.answer # "conflict" =>
                          a.fills = Cardinality(FillsOf(a.request.order))
    BY <1>1 DEF AnswersTrue, Holds, SameFill, FillsOf
  <2>1. CASE a \in answers
    BY <2>1 DEF CallsInv, AnswersTrue
  <2>2. CASE a = told
    BY <1>7, <2>2
  <2> HIDE DEF told
  <2> QED BY <1>2, <2>1, <2>2
<1>12. AboutToAnswer'
  <2> SUFFICES ASSUME NEW q \in Callers, calls'[q].step = "answering"
               PROVE  /\ calls'[q].answer # "none"
                      /\ Holds(calls[q].request, calls[q].answer)'
    BY DEF AboutToAnswer
  <2>1. calls'[q] = calls[q]
    BY <1>4, <1>6
  <2>2. PICK r2, answer2 : r2 \in Requests /\ r2 = calls[q].request /\ answer2 = calls[q].answer
    BY DEF CallsInv, TypeOK
  <2>3. answer2 # "none" /\ Holds(r2, answer2)
    BY <2>1, <2>2 DEF CallsInv, AboutToAnswer
  <2>4. Holds(r2, answer2)'
    BY <1>1, <2>2, <2>3, HoldsLasts
  <2> QED BY <2>1, <2>2, <2>3, <2>4 DEF Holds
<1> QED BY <1>1, <1>10, <1>11, <1>12 DEF CallsInv, RowsTrue, ScanHasWork

\* The requests in flight, as TypeOK has them.
CallRecords == [step : {"idle", "pricing", "committing", "answering"},
                request : Requests, now : 0..MaxTime, quoted : BOOLEAN,
                answer : {"none", "filled", "cancelled", "replay", "conflict"}]

\* Every step keeps the invariant.
LEMMA CallsKeep == CallsInv /\ [Next]_vars => CallsInv'
<1> SUFFICES ASSUME CallsInv, [Next]_vars PROVE CallsInv'
  OBVIOUS
<1>0. calls \in [Callers -> CallRecords]
  BY DEF CallsInv, TypeOK, CallRecords
<1>t. TypeOK /\ ScanHasWork
  BY DEF CallsInv
<1>1. ASSUME NEW p \in Callers, NEW r \in Requests, Call(p, r) PROVE CallsInv'
  <2>1. PICK c : /\ calls' = [calls EXCEPT ![p] = c]
                 /\ c \in CallRecords /\ c.step # "answering"
    <3> DEFINE c == [step |-> IF r.kind = "fill" /\ orders[r.order].status = "ACCEPTED"
                              THEN "pricing" ELSE "committing",
                     request |-> r, now |-> time, quoted |-> FALSE, answer |-> "none"]
    <3>1. calls' = [calls EXCEPT ![p] = c]
      BY <1>1 DEF Call
    <3>2. c \in CallRecords /\ c.step # "answering"
      BY <1>t DEF CallRecords, TypeOK
    <3> HIDE DEF c
    <3> QED BY <3>1, <3>2
  <2>2. calls' \in [Callers -> CallRecords] /\ \A q \in Callers : calls'[q] = calls[q] \/ calls'[q].step # "answering"
    BY <1>0, <2>1
  <2>3. made' \in 0..MaxCalls /\ UNCHANGED <<time, orders, log, answers, scan, restarts>>
    BY <1>1, <1>t, CallConstants DEF Call, TypeOK
  <2>4. TypeOK' /\ ScanHasWork'
    BY <1>t, <2>2, <2>3 DEF TypeOK, CallRecords, ScanHasWork
  <2> QED BY <2>2, <2>3, <2>4, OthersKeep
<1>2. ASSUME NEW p \in Callers, Price(p) PROVE CallsInv'
  <2>1. PICK c : /\ calls' = [calls EXCEPT ![p] = c]
                 /\ c \in CallRecords /\ (c.step # "answering" \/ c.answer = "conflict")
    <3> DEFINE c1 == [calls[p] EXCEPT !.step = "committing", !.quoted = TRUE]
               c2 == [calls[p] EXCEPT !.step = "committing"]
               c3 == [calls[p] EXCEPT !.step = "answering", !.answer = "conflict"]
    <3>1. \/ calls' = [calls EXCEPT ![p] = c1]
          \/ calls' = [calls EXCEPT ![p] = c2]
          \/ calls' = [calls EXCEPT ![p] = c3]
      BY <1>0, <1>2 DEF Price
    <3>2. calls[p] \in CallRecords
      BY <1>0
    <3>3. c1 \in CallRecords /\ c2 \in CallRecords /\ c3 \in CallRecords
      BY <3>2 DEF CallRecords
    <3>4. c1.step # "answering" /\ c2.step # "answering" /\ c3.answer = "conflict"
      BY <3>2 DEF CallRecords
    <3> HIDE DEF c1, c2, c3
    <3> QED BY <3>1, <3>3, <3>4
  <2>2. /\ calls' \in [Callers -> CallRecords]
        /\ \A q \in Callers : calls'[q] = calls[q] \/ calls'[q].step # "answering"
               \/ calls'[q].answer = "conflict"
    BY <1>0, <2>1
  <2>3. UNCHANGED <<time, orders, log, answers, scan, made, restarts>>
    BY <1>2 DEF Price
  <2>4. TypeOK' /\ ScanHasWork'
    BY <1>t, <2>2, <2>3 DEF TypeOK, CallRecords, ScanHasWork
  <2> QED BY <2>2, <2>3, <2>4, OthersKeep
<1>3. ASSUME NEW p \in Callers, Commit(p) PROVE CallsInv'
  BY <1>3, CommitKeeps
<1>4. ASSUME NEW p \in Callers, Reply(p) PROVE CallsInv'
  BY <1>4, ReplyKeeps
<1>5. CASE ScanStart
  <2>1. UNCHANGED <<time, orders, log, calls, answers, made, restarts>>
    BY <1>5 DEF ScanStart
  <2>2. TypeOK' /\ ScanHasWork'
    BY <1>5, <1>t DEF ScanStart, TypeOK, ScanHasWork
  <2> QED BY <2>1, <2>2, OthersKeep
<1>6. ASSUME NEW triggered \in SUBSET Orders, ScanPrice(triggered) PROVE CallsInv'
  <2>1. UNCHANGED <<time, orders, log, calls, answers, made, restarts>>
    BY <1>6 DEF ScanPrice
  <2>2. TypeOK' /\ ScanHasWork'
    BY <1>6, <1>t DEF ScanPrice, TypeOK, ScanHasWork
  <2> QED BY <2>1, <2>2, OthersKeep
<1>7. CASE ScanFill
  BY <1>7, ScanFillKeeps
<1>8. CASE Tick
  <2>1. UNCHANGED <<orders, log, calls, answers, scan, made, restarts>> /\ time' \in 0..MaxTime
    BY <1>8, <1>t, CallConstants DEF Tick, TypeOK
  <2>2. TypeOK' /\ ScanHasWork'
    BY <2>1, <1>t DEF TypeOK, ScanHasWork
  <2> QED BY <2>1, <2>2, OthersKeep
<1>9. CASE Restart
  <2>1. /\ UNCHANGED <<time, orders, log, answers, made>>
        /\ restarts' \in 0..MaxRestarts /\ scan' = NoScan
    BY <1>9, <1>t, CallConstants DEF Restart, TypeOK
  <2>2. \A q \in Callers : calls'[q] = NoCall
    BY <1>9 DEF Restart
  <2>3. NoCall \in CallRecords /\ NoCall.step # "answering"
    BY AnyRequestIsOne, CallConstants DEF NoCall, CallRecords
  <2>4. calls' \in [Callers -> CallRecords]
    BY <1>9, <2>3 DEF Restart
  <2>5. NoScan \in [step : {"idle", "pricing", "filling"}, now : 0..MaxTime, todo : SUBSET Orders]
        /\ NoScan.step # "filling"
    BY CallConstants DEF NoScan
  <2>6. TypeOK' /\ ScanHasWork'
    BY <1>t, <2>1, <2>4, <2>5 DEF TypeOK, ScanHasWork, CallRecords
  <2> QED BY <2>1, <2>2, <2>3, <2>6, OthersKeep
<1>10. CASE UNCHANGED vars
  <2>1. UNCHANGED <<time, orders, log, calls, answers, scan, made, restarts>>
    BY <1>10 DEF vars
  <2>2. TypeOK' /\ ScanHasWork'
    BY <1>t, <2>1 DEF TypeOK, ScanHasWork
  <2> QED BY <2>1, <2>2, OthersKeep
<1> QED BY <1>1, <1>2, <1>3, <1>4, <1>5, <1>6, <1>7, <1>8, <1>9, <1>10 DEF Next
-----------------------------------------------------------------------------
(* What callers may rely on *)

\* The rows, the calls in flight and the answers given agree at every point of
\* every call, scan and restart.
THEOREM CallsInvHolds == Spec => []CallsInv
BY CallsStart, CallsKeep, PTL DEF Spec

\* Rows, requests, answers and the scan keep their domains: no fill of nothing,
\* or of more than the order's size, is recorded.
THEOREM CallsTypeCorrect == Spec => []TypeOK
<1>1. CallsInv => TypeOK
  BY DEF CallsInv
<1> QED BY <1>1, CallsInvHolds, PTL

\* Callers that read an order before others changed it never fill it beyond its
\* size, and its status says whether shares are left.
THEOREM NothingOverfilled == Spec => []NeverOverfilled
<1>1. CallsInv => NeverOverfilled
  BY DEF CallsInv
<1> QED BY <1>1, CallsInvHolds, PTL

\* Retries and races with one fill id record one fill, and every "filled" that a
\* client was told stays a recorded fill of what it asked for.
THEOREM EachFillOnce == Spec => []FillsOnce
<1>1. CallsInv => FillsOnce
  BY CallsInvSays
<1> QED BY <1>1, CallsInvHolds, PTL

\* An order that a client was told is cancelled is never filled again, whoever
\* loaded it before.
THEOREM CancelledForGood == Spec => []CancelledStaysCancelled
<1>1. CallsInv => CancelledStaysCancelled
  BY CallsInvSays
<1> QED BY <1>1, CallsInvHolds, PTL

\* A replay is only ever told of a recorded fill, or of an order that is filled.
THEOREM ReplaysReal == Spec => []ReplaysAreReal
<1>1. CallsInv => ReplaysAreReal
  BY CallsInvSays
<1> QED BY <1>1, CallsInvHolds, PTL
=============================================================================
