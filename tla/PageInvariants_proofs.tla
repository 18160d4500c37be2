------------------------- MODULE PageInvariants_proofs -------------------------
(***************************************************************************)
(* Lemmas about the requests in flight of a page, and the invariants of    *)
(* the first pages: what their requests and their state have to do with    *)
(* each other, from the start and after every step of the page.            *)
(***************************************************************************)
EXTENDS MCPages, TLAPS
-----------------------------------------------------------------------------
(* The requests in flight *)

LEMMA AnsweredIs ==
    ASSUME NEW S, NEW f \in Seq(S), NEW i \in DOMAIN f
    PROVE  /\ Answered(f, i) \in Seq(S) /\ Len(Answered(f, i)) = Len(f) - 1
           /\ \A j \in DOMAIN Answered(f, i) :
                 /\ j \in DOMAIN f /\ (j >= i => j + 1 \in DOMAIN f)
                 /\ Answered(f, i)[j] = IF j < i THEN f[j] ELSE f[j + 1]
           /\ \A k \in DOMAIN f \ {i} : \E j \in DOMAIN Answered(f, i) : Answered(f, i)[j] = f[k]
<1> DEFINE a == SubSeq(f, 1, i - 1) 
           b == SubSeq(f, i + 1, Len(f))
           g == a \o b
<1>1. i \in 1 .. Len(f) /\ Len(f) \in Nat
  OBVIOUS
<1>2. a \in Seq(S) /\ Len(a) = i - 1 /\ \A j \in 1 .. i - 1 : a[j] = f[j]
  BY <1>1
<1>3. b \in Seq(S) /\ Len(b) = Len(f) - i /\ \A j \in 1 .. Len(f) - i : b[j] = f[i + j]
  BY <1>1
<1> HIDE DEF a, b
<1>4. g \in Seq(S) /\ Len(g) = Len(f) - 1
  BY <1>1, <1>2, <1>3
<1>5. \A j \in 1 .. Len(f) - 1 : g[j] = IF j < i THEN f[j] ELSE f[j + 1]
  <2> TAKE j \in 1 .. Len(f) - 1
  <2>1. CASE j < i
    BY <2>1, <1>1, <1>2, <1>3
  <2>2. CASE ~(j < i)
    <3>1. g[j] = b[j - (i - 1)]
      BY <2>2, <1>1, <1>2, <1>3
    <3>2. j - (i - 1) \in 1 .. Len(f) - i /\ i + (j - (i - 1)) = j + 1
      BY <2>2, <1>1
    <3> QED
      BY <3>1, <3>2, <2>2, <1>3
  <2> QED
    BY <2>1, <2>2
<1>7. Answered(f, i) = g
  BY DEF Answered, RemoveAt, a, b
<1> HIDE DEF g
<1>6. \A k \in DOMAIN f \ {i} : \E j \in 1 .. Len(f) - 1 : g[j] = f[k]
  <2> TAKE k \in DOMAIN f \ {i}
  <2>0. k \in 1 .. Len(f) /\ k # i
    BY <1>1
  <2>1. CASE k < i
    <3>1. k \in 1 .. Len(f) - 1 /\ g[k] = f[k]
      BY <2>0, <2>1, <1>1, <1>5
    <3> QED
      BY <3>1
  <2>2. CASE k > i
    <3>1. k - 1 \in 1 .. Len(f) - 1 /\ g[k - 1] = f[k]
      BY <2>0, <2>2, <1>1, <1>5
    <3> QED
      BY <3>1
  <2> QED
    BY <2>0, <2>1, <2>2, <1>1
<1> QED
  BY <1>1, <1>4, <1>5, <1>6, <1>7

LEMMA AnsweredIn ==
    ASSUME NEW S, NEW f \in Seq(S), NEW i \in DOMAIN f
    PROVE  Answered(f, i) \in Seq(S) /\ Len(Answered(f, i)) = Len(f) - 1
  BY AnsweredIs

\* What becomes of a request when its code asks anew.
Outdated(r, what) == IF r.what = what THEN [r EXCEPT !.current = FALSE] ELSE r

LEMMA SupersededIs ==
    ASSUME NEW S, NEW f \in Seq(S), NEW what
    PROVE  /\ Len(Superseded(f, what)) = Len(f) /\ DOMAIN Superseded(f, what) = 1 .. Len(f)
           /\ \A i \in DOMAIN f : Superseded(f, what)[i] = Outdated(f[i], what)
           /\ \A T : (\A r \in S : Outdated(r, what) \in T) => Superseded(f, what) \in Seq(T)
<1> DEFINE g == Superseded(f, what)
<1>1. Len(f) \in Nat /\ DOMAIN f = 1 .. Len(f)
  OBVIOUS
<1>2. g = [i \in 1 .. Len(f) |-> Outdated(f[i], what)]
  BY <1>1, Zenon DEF Superseded, Outdated
<1> HIDE DEF g
<1>3. ASSUME NEW T, \A r \in S : Outdated(r, what) \in T
      PROVE  g \in Seq(T)
  <2>1. \A i \in 1 .. Len(f) : Outdated(f[i], what) \in T
    BY <1>1, <1>3
  <2> QED
    BY <2>1, <1>1, <1>2
<1>4. Len(g) = Len(f)
  BY <1>1, <1>2
<1>5. DOMAIN g = 1 .. Len(f) /\ \A i \in DOMAIN f : g[i] = Outdated(f[i], what)
  BY <1>1, <1>2
<1> QED
  BY <1>3, <1>4, <1>5 DEF g

LEMMA SupersededIn ==
    ASSUME NEW S, NEW T, NEW f \in Seq(S), NEW what, \A r \in S : Outdated(r, what) \in T
    PROVE  Superseded(f, what) \in Seq(T) /\ Len(Superseded(f, what)) = Len(f)
  BY SupersededIs

LEMMA AskIs ==
    ASSUME NEW S, NEW f \in Seq(S), NEW what, NEW of
    PROVE  /\ Len(Ask(f, what, of)) = Len(f) + 1 /\ DOMAIN Ask(f, what, of) = 1 .. Len(f) + 1
           /\ Ask(f, what, of)[Len(f) + 1] = [what |-> what, of |-> of, current |-> TRUE]
           /\ \A i \in DOMAIN f : Ask(f, what, of)[i] = Outdated(f[i], what)
<1> DEFINE T == {Outdated(r, what) : r \in S}
           s == Superseded(f, what)
           new == [what |-> what, of |-> of, current |-> TRUE]
<1>0. Len(f) \in Nat /\ DOMAIN f = 1 .. Len(f)
  OBVIOUS
<1>1. s \in Seq(T) /\ Len(s) = Len(f) /\ \A i \in DOMAIN f : s[i] = Outdated(f[i], what)
  <2>1. \A r \in S : Outdated(r, what) \in T
    OBVIOUS
  <2> HIDE DEF T
  <2> QED
    BY <2>1, SupersededIs
<1>3. Ask(f, what, of) = Append(s, new)
  BY DEF Ask
<1> HIDE DEF s, T, new
<1>4. /\ Len(Append(s, new)) = Len(f) + 1 /\ DOMAIN Append(s, new) = 1 .. Len(f) + 1
      /\ Append(s, new)[Len(f) + 1] = new
      /\ \A i \in 1 .. Len(f) : Append(s, new)[i] = s[i]
  BY <1>0, <1>1
<1> QED
  BY <1>0, <1>1, <1>3, <1>4 DEF new

LEMMA AskIn ==
    ASSUME NEW S, NEW T, NEW f \in Seq(S), NEW what, NEW of, \A r \in S : Outdated(r, what) \in T,
           [what |-> what, of |-> of, current |-> TRUE] \in T
    PROVE  Ask(f, what, of) \in Seq(T) /\ Len(Ask(f, what, of)) = Len(f) + 1
<1>1. Superseded(f, what) \in Seq(T) /\ Len(Superseded(f, what)) = Len(f)
  BY SupersededIn
<1> QED
  BY <1>1 DEF Ask

LEMMA WaitingAnswered ==
    ASSUME NEW S, NEW f \in Seq(S), NEW i \in DOMAIN f, NEW what
    PROVE  /\ Waiting(f, what) /\ (~f[i].current \/ f[i].what # what) => Waiting(Answered(f, i), what)
           /\ Flying(f, what) # {} /\ f[i].what # what => Flying(Answered(f, i), what) # {}
<1>1. \A k \in DOMAIN f \ {i} : \E j \in DOMAIN Answered(f, i) : Answered(f, i)[j] = f[k]
  BY AnsweredIs
<1>2. ASSUME NEW k \in DOMAIN f, f[k].what = what, f[k].current, ~f[i].current \/ f[i].what # what
      PROVE  Waiting(Answered(f, i), what)
  BY <1>1, <1>2 DEF Waiting, Flying
<1>3. ASSUME NEW k \in DOMAIN f, f[k].what = what, f[i].what # what
      PROVE  Flying(Answered(f, i), what) # {}
  BY <1>1, <1>3 DEF Flying
<1> QED
  BY <1>2, <1>3 DEF Waiting, Flying

LEMMA WaitingSuperseded ==
    ASSUME NEW S, NEW f \in Seq(S), NEW what, NEW other, other # what, Waiting(f, other)
    PROVE  Waiting(Superseded(f, what), other)
<1>0. Len(f) \in Nat /\ DOMAIN f = 1 .. Len(f)
  OBVIOUS
<1>1. PICK k \in DOMAIN f : f[k].what = other /\ f[k].current
  BY DEF Waiting, Flying
<1>2. DOMAIN Superseded(f, what) = 1 .. Len(f) /\ Superseded(f, what)[k] = Outdated(f[k], what)
  BY SupersededIs
<1>3. k \in DOMAIN Superseded(f, what) /\ Superseded(f, what)[k] = f[k]
  BY <1>0, <1>1, <1>2 DEF Outdated
<1> QED
  BY <1>1, <1>3 DEF Waiting, Flying

LEMMA WaitingAsk ==
    ASSUME NEW S, NEW f \in Seq(S), NEW what, NEW of
    PROVE  /\ Waiting(Ask(f, what, of), what)
           /\ \A other : other # what /\ Waiting(f, other) => Waiting(Ask(f, what, of), other)
<1> DEFINE g == Ask(f, what, of)
           n == Len(f) + 1
<1>0. Len(f) \in Nat /\ DOMAIN f = 1 .. Len(f)
  OBVIOUS
<1>1. DOMAIN g = 1 .. n /\ n \in DOMAIN g /\ g[n] = [what |-> what, of |-> of, current |-> TRUE]
  BY <1>0, AskIs
<1>2. \A k \in DOMAIN f : k \in DOMAIN g /\ g[k] = Outdated(f[k], what)
  <2>1. \A k \in DOMAIN f : g[k] = Outdated(f[k], what)
    BY AskIs
  <2>2. \A k \in DOMAIN f : k \in DOMAIN g
    <3> HIDE DEF g
    <3> QED
      BY <1>0, <1>1
  <2> QED
    BY <2>1, <2>2
<1> HIDE DEF g, n
<1>3. Waiting(g, what)
  BY <1>1 DEF Waiting, Flying
<1>4. ASSUME NEW other, other # what, Waiting(f, other)
      PROVE  Waiting(g, other)
  <2>1. PICK k \in DOMAIN f : f[k].what = other /\ f[k].current
    BY <1>4 DEF Waiting, Flying
  <2>2. k \in DOMAIN g /\ g[k] = f[k]
    BY <1>2, <1>4, <2>1 DEF Outdated
  <2> QED
    BY <2>1, <2>2 DEF Waiting, Flying
<1> QED
  BY <1>3, <1>4 DEF g

\* Requests are never taken back, only outdated.
LEMMA FlyingLasts ==
    ASSUME NEW W, NEW O, NEW f \in Seq(Requests(W, O)), NEW what, NEW of, NEW other, Flying(f, other) # {}
    PROVE  Flying(Superseded(f, what), other) # {} /\ Flying(Ask(f, what, of), other) # {}
<1>0. Len(f) \in Nat /\ DOMAIN f = 1 .. Len(f)
  OBVIOUS
<1>1. PICK k \in DOMAIN f : f[k].what = other
  BY DEF Flying
<1>2. Outdated(f[k], what).what = other
  <2>1. f[k] \in Requests(W, O)
    OBVIOUS
  <2> QED
    BY <2>1, <1>1 DEF Outdated, Requests
<1>3. DOMAIN Superseded(f, what) = 1 .. Len(f) /\ Superseded(f, what)[k] = Outdated(f[k], what)
  BY SupersededIs
<1>4. DOMAIN Ask(f, what, of) = 1 .. Len(f) + 1 /\ Ask(f, what, of)[k] = Outdated(f[k], what)
  BY AskIs
<1>5. k \in 1 .. Len(f) /\ k \in 1 .. Len(f) + 1
  BY <1>0
<1> QED
  BY <1>2, <1>3, <1>4, <1>5 DEF Flying

\* An answer is taken from the list, the others stay.
LEMMA OthersStay ==
    ASSUME NEW S, NEW f \in Seq(S), NEW i \in DOMAIN f
    PROVE  /\ \A j \in DOMAIN Answered(f, i) : \E k \in DOMAIN f \ {i} : Answered(f, i)[j] = f[k]
           /\ \A k \in DOMAIN f \ {i} : \E j \in DOMAIN Answered(f, i) : Answered(f, i)[j] = f[k]
           /\ \A j, k \in DOMAIN Answered(f, i) : j # k =>
                 \E l, m \in DOMAIN f \ {i} : l # m /\ Answered(f, i)[j] = f[l] /\ Answered(f, i)[k] = f[m]
<1> DEFINE g == Answered(f, i)
           p(j) == IF j < i THEN j ELSE j + 1
<1>1. DOMAIN f = 1 .. Len(f) /\ Len(f) \in Nat
  OBVIOUS
<1>2. \A j \in DOMAIN g : /\ j \in DOMAIN f /\ (j >= i => j + 1 \in DOMAIN f)
                          /\ g[j] = IF j < i THEN f[j] ELSE f[j + 1]
  BY AnsweredIs
<1>3. \A k \in DOMAIN f \ {i} : \E j \in DOMAIN g : g[j] = f[k]
  BY AnsweredIs
<1> HIDE DEF g
<1>4. \A j \in DOMAIN g : j \in Nat /\ p(j) \in DOMAIN f \ {i} /\ g[j] = f[p(j)]
  BY <1>1, <1>2
<1>5. \A j, k \in DOMAIN g : j # k => p(j) # p(k)
  BY <1>1, <1>4
<1> HIDE DEF p
<1>6. \A j \in DOMAIN g : \E k \in DOMAIN f \ {i} : g[j] = f[k]
  BY <1>4
<1>7. \A j, k \in DOMAIN g : j # k => \E l, m \in DOMAIN f \ {i} : l # m /\ g[j] = f[l] /\ g[k] = f[m]
  BY <1>4, <1>5
<1> QED
  BY <1>3, <1>6, <1>7 DEF g

LEMMA OneMore ==
    ASSUME NEW S, NEW f \in Seq(S), NEW r
    PROVE  /\ DOMAIN Append(f, r) = 1 .. Len(f) + 1 /\ Append(f, r)[Len(f) + 1] = r
           /\ \A i \in DOMAIN f : i \in DOMAIN Append(f, r) /\ Append(f, r)[i] = f[i]
           /\ \A i \in DOMAIN Append(f, r) : i = Len(f) + 1 \/ (i \in DOMAIN f /\ Append(f, r)[i] = f[i])
           /\ Len(f) + 1 \in DOMAIN Append(f, r) /\ Len(f) + 1 \notin DOMAIN f
           /\ r \in S => Append(f, r) \in Seq(S)
<1> DEFINE T == S \cup {r}
<1>1. f \in Seq(T) /\ r \in T /\ Len(f) \in Nat /\ DOMAIN f = 1 .. Len(f)
  OBVIOUS
<1> HIDE DEF T
<1> DEFINE g == Append(f, r)
<1>2. DOMAIN g = 1 .. Len(f) + 1 /\ g[Len(f) + 1] = r /\ \A i \in 1 .. Len(f) : g[i] = f[i]
  BY <1>1
<1>3. r \in S => g \in Seq(S)
  OBVIOUS
<1> HIDE DEF g
<1>4. /\ \A i \in DOMAIN f : i \in DOMAIN g /\ g[i] = f[i]
      /\ \A i \in DOMAIN g : i = Len(f) + 1 \/ (i \in DOMAIN f /\ g[i] = f[i])
      /\ Len(f) + 1 \in DOMAIN g /\ Len(f) + 1 \notin DOMAIN f
  BY <1>1, <1>2
<1> QED
  BY <1>2, <1>3, <1>4 DEF g

LEMMA AskFirst ==
    ASSUME NEW what, NEW of
    PROVE  /\ Ask(<<>>, what, of) = <<[what |-> what, of |-> of, current |-> TRUE]>>
           /\ DOMAIN Ask(<<>>, what, of) = 1 .. 1
           /\ Ask(<<>>, what, of)[1] = [what |-> what, of |-> of, current |-> TRUE]
           /\ Waiting(Ask(<<>>, what, of), what)
           /\ \A T : [what |-> what, of |-> of, current |-> TRUE] \in T => Ask(<<>>, what, of) \in Seq(T)
<1> DEFINE new == [what |-> what, of |-> of, current |-> TRUE]
<1>0. DOMAIN <<>> = {}
  OBVIOUS
<1>1. Superseded(<<>>, what) = <<>>
  <2>1. Superseded(<<>>, what) = [i \in {} |-> IF <<>>[i].what = what THEN [<<>>[i] EXCEPT !.current = FALSE] ELSE <<>>[i]]
    BY <1>0, Zenon DEF Superseded
  <2> QED
    BY <1>0, <2>1
<1>2. Ask(<<>>, what, of) = Append(<<>>, new)
  BY <1>1 DEF Ask
<1>3. new.what = what /\ new.current
  OBVIOUS
<1> HIDE DEF new
<1>4. Append(<<>>, new) = <<new>> /\ DOMAIN <<new>> = 1 .. 1 /\ <<new>>[1] = new
  OBVIOUS
<1>5. \A T : new \in T => <<new>> \in Seq(T)
  OBVIOUS
<1>6. Waiting(<<new>>, what)
  BY <1>3, <1>4 DEF Waiting, Flying
<1>7. Ask(<<>>, what, of) = <<new>>
  BY <1>2, <1>4
<1> QED
  BY <1>4, <1>5, <1>6, <1>7 DEF new

LEMMA SeqWider ==
    ASSUME NEW S, NEW T, NEW s \in Seq(S), \A x \in S : x \in T
    PROVE  s \in Seq(T)
  OBVIOUS

\* A request of which one is enough is there in the end, and the others stay.
LEMMA AskOnceIs ==
    ASSUME NEW S, NEW f \in Seq(S), NEW what, [what |-> what, of |-> None, current |-> TRUE] \in S
    PROVE  /\ AskOnce(f, what) \in Seq(S)
           /\ \E i \in DOMAIN AskOnce(f, what) : AskOnce(f, what)[i].what = what
           /\ \A k \in DOMAIN f : k \in DOMAIN AskOnce(f, what) /\ AskOnce(f, what)[k] = f[k]
           /\ \A j \in DOMAIN AskOnce(f, what) :
                 \/ j \in DOMAIN f /\ AskOnce(f, what)[j] = f[j]
                 \/ AskOnce(f, what)[j] = [what |-> what, of |-> None, current |-> TRUE]
           /\ Flying(AskOnce(f, what), what) # {}
<1> DEFINE new == [what |-> what, of |-> None, current |-> TRUE]
           g == AskOnce(f, what)
<1>1. CASE \E i \in DOMAIN f : f[i].what = what
  <2>1. g = f
    BY <1>1 DEF AskOnce
  <2> HIDE DEF g
  <2>2. Flying(g, what) # {}
    BY <1>1, <2>1 DEF Flying
  <2> QED
    BY <1>1, <2>1, <2>2 DEF g
<1>2. CASE ~\E i \in DOMAIN f : f[i].what = what
  <2>1. g = Append(f, new)
    BY <1>2 DEF AskOnce
  <2>2. new.what = what
    OBVIOUS
  <2> HIDE DEF new, g
  <2>3. /\ Append(f, new)[Len(f) + 1] = new /\ Append(f, new) \in Seq(S) /\ Len(f) + 1 \in DOMAIN Append(f, new)
        /\ \A i \in DOMAIN f : i \in DOMAIN Append(f, new) /\ Append(f, new)[i] = f[i]
        /\ \A i \in DOMAIN Append(f, new) : i = Len(f) + 1 \/ (i \in DOMAIN f /\ Append(f, new)[i] = f[i])
    BY OneMore DEF new
  <2>4. /\ g \in Seq(S) /\ g[Len(f) + 1].what = what /\ Len(f) + 1 \in DOMAIN g
        /\ \A i \in DOMAIN f : i \in DOMAIN g /\ g[i] = f[i]
        /\ \A i \in DOMAIN g : g[i] = new \/ (i \in DOMAIN f /\ g[i] = f[i])
    BY <2>1, <2>2, <2>3
  <2>5. Flying(g, what) # {}
    BY <2>4 DEF Flying
  <2> QED
    BY <2>4, <2>5 DEF g, new
<1> QED
  BY <1>1, <1>2

\* Some request of these kinds is in flight, or one that is still waited for.
Some(f, whats) == \E i \in DOMAIN f : f[i].what \in whats
Awaited(f, whats) == \E i \in DOMAIN f : f[i].what \in whats /\ f[i].current

LEMMA SomeAnswered ==
    ASSUME NEW S, NEW f \in Seq(S), NEW i \in DOMAIN f, NEW whats
    PROVE  /\ Some(f, whats) /\ f[i].what \notin whats => Some(Answered(f, i), whats)
           /\ Awaited(f, whats) /\ (f[i].what \notin whats \/ ~f[i].current) => Awaited(Answered(f, i), whats)
<1>1. \A k \in DOMAIN f \ {i} : \E j \in DOMAIN Answered(f, i) : Answered(f, i)[j] = f[k]
  BY AnsweredIs
<1>2. ASSUME Some(f, whats), f[i].what \notin whats PROVE Some(Answered(f, i), whats)
  <2>1. PICK k \in DOMAIN f : f[k].what \in whats
    BY <1>2 DEF Some
  <2>2. k # i
    BY <1>2, <2>1
  <2> QED
    BY <1>1, <2>1, <2>2 DEF Some
<1>3. ASSUME Awaited(f, whats), f[i].what \notin whats \/ ~f[i].current PROVE Awaited(Answered(f, i), whats)
  <2>1. PICK k \in DOMAIN f : f[k].what \in whats /\ f[k].current
    BY <1>3 DEF Awaited
  <2>2. k # i
    BY <1>3, <2>1
  <2> QED
    BY <1>1, <2>1, <2>2 DEF Awaited
<1> QED
  BY <1>2, <1>3

LEMMA SomeMore ==
    ASSUME NEW S, NEW f \in Seq(S), NEW r, NEW whats
    PROVE  /\ Some(f, whats) \/ r.what \in whats => Some(Append(f, r), whats)
           /\ Awaited(f, whats) \/ (r.what \in whats /\ r.current) => Awaited(Append(f, r), whats)
<1> DEFINE g == Append(f, r)
<1>1. /\ g[Len(f) + 1] = r /\ Len(f) + 1 \in DOMAIN g
      /\ \A i \in DOMAIN f : i \in DOMAIN g /\ g[i] = f[i]
  BY OneMore
<1> HIDE DEF g
<1>2. /\ Some(f, whats) => Some(g, whats)
      /\ r.what \in whats => Some(g, whats)
  BY <1>1 DEF Some
<1>3. /\ Awaited(f, whats) => Awaited(g, whats)
      /\ r.what \in whats /\ r.current => Awaited(g, whats)
  BY <1>1 DEF Awaited
<1> QED
  BY <1>2, <1>3 DEF g

LEMMA SomeOnce ==
    ASSUME NEW S, NEW f \in Seq(S), NEW what, [what |-> what, of |-> None, current |-> TRUE] \in S, NEW whats
    PROVE  Some(f, whats) \/ what \in whats => Some(AskOnce(f, what), whats)
<1> DEFINE g == AskOnce(f, what)
<1> DEFINE new == [what |-> what, of |-> None, current |-> TRUE]
<1>1. /\ \E i \in DOMAIN g : g[i].what = what
      /\ \A k \in DOMAIN f : k \in DOMAIN g /\ g[k] = f[k]
  <2>1. CASE g = f /\ \E i \in DOMAIN f : f[i].what = what
    BY <2>1
  <2>2. CASE g = Append(f, new)
    <3>1. new.what = what
      OBVIOUS
    <3> HIDE DEF new
    <3>2. /\ Append(f, new)[Len(f) + 1] = new /\ Len(f) + 1 \in DOMAIN Append(f, new)
          /\ \A i \in DOMAIN f : i \in DOMAIN Append(f, new) /\ Append(f, new)[i] = f[i]
      BY OneMore
    <3> QED
      BY <2>2, <3>1, <3>2
  <2>3. (g = f /\ \E i \in DOMAIN f : f[i].what = what) \/ g = Append(f, new)
    BY DEF AskOnce, Ask
  <2> QED
    BY <2>1, <2>2, <2>3
<1> HIDE DEF g
<1>2. Some(f, whats) \/ what \in whats => Some(g, whats)
  BY <1>1 DEF Some
<1> QED
  BY <1>2 DEF g

\* An answer and a request that is sent do not care which of them comes first.
LEMMA AnsweredMore ==
    ASSUME NEW S, NEW f \in Seq(S), NEW r \in S, NEW i \in DOMAIN f
    PROVE  /\ i \in DOMAIN Append(f, r) /\ Append(f, r)[i] = f[i]
           /\ Answered(Append(f, r), i) = Append(Answered(f, i), r)
<1> DEFINE n == Len(f)
           g == Append(f, r)
           h == Answered(f, i)
           a == Answered(g, i)
           b == Append(h, r)
<1>1. n \in Nat /\ i \in 1 .. n
  OBVIOUS
<1>2. /\ g \in Seq(S) /\ Len(g) = n + 1 /\ g[n + 1] = r /\ i \in DOMAIN g
      /\ \A j \in 1 .. n : g[j] = f[j]
  BY <1>1
<1>3. h \in Seq(S) /\ Len(h) = n - 1 /\ \A j \in 1 .. n - 1 : h[j] = IF j < i THEN f[j] ELSE f[j + 1]
  <2>1. h \in Seq(S) /\ Len(h) = n - 1 /\ \A j \in DOMAIN h : h[j] = IF j < i THEN f[j] ELSE f[j + 1]
    BY AnsweredIs
  <2> QED
    BY <1>1, <2>1
<1> HIDE DEF g
<1>4. a \in Seq(S) /\ Len(a) = n /\ \A j \in 1 .. n : a[j] = IF j < i THEN g[j] ELSE g[j + 1]
  <2>1. a \in Seq(S) /\ Len(a) = Len(g) - 1 /\ \A j \in DOMAIN a : a[j] = IF j < i THEN g[j] ELSE g[j + 1]
    BY <1>2, AnsweredIs
  <2> HIDE DEF a, n
  <2>2. Len(a) = n
    BY <1>1, <1>2, <2>1
  <2>3. DOMAIN a = 1 .. n
    BY <2>1, <2>2
  <2> QED
    BY <2>1, <2>2, <2>3
<1> HIDE DEF h, a, n
<1>5. b \in Seq(S) /\ Len(b) = n /\ b[n] = r /\ \A j \in 1 .. n - 1 : b[j] = h[j]
  BY <1>1, <1>3
<1> HIDE DEF b
<1>6. \A j \in 1 .. n : a[j] = b[j]
  <2> TAKE j \in 1 .. n
  <2>1. CASE j = n
    BY <2>1, <1>1, <1>2, <1>4, <1>5
  <2>2. CASE j < n /\ j < i
    BY <2>2, <1>1, <1>2, <1>3, <1>4, <1>5
  <2>3. CASE j < n /\ ~(j < i)
    <3>1. j \in 1 .. n - 1 /\ j + 1 \in 1 .. n
      BY <2>3, <1>1
    <3> QED
      BY <2>3, <3>1, <1>1, <1>2, <1>3, <1>4, <1>5
  <2> QED
    BY <2>1, <2>2, <2>3, <1>1
<1>7. a = b
  BY <1>1, <1>4, <1>5, <1>6
<1> QED
  BY <1>1, <1>2, <1>7 DEF a, b, g, h

\* What a piece of code still waits for is of this.
Owned(f, what, of) == \A i \in DOMAIN f : f[i].what = what /\ f[i].current => f[i].of = of

LEMMA OutdatedIs ==
    ASSUME NEW W, NEW O, NEW r \in Requests(W, O), NEW what
    PROVE  /\ Outdated(r, what) \in Requests(W, O)
           /\ Outdated(r, what).what = r.what /\ Outdated(r, what).of = r.of
           /\ Outdated(r, what).current <=> r.current /\ r.what # what
  BY DEF Outdated, Requests

LEMMA Gate ==
    ASSUME NEW W, NEW O, NEW f \in Seq(Requests(W, O)), NEW what
    PROVE  /\ Superseded(f, what) \in Seq(Requests(W, O))
           /\ ~Waiting(Superseded(f, what), what)
           /\ \A other : other # what /\ Waiting(f, other) => Waiting(Superseded(f, what), other)
           /\ \A other : Waiting(Superseded(f, what), other) => Waiting(f, other)
           /\ \A other, of : Owned(f, other, of) => Owned(Superseded(f, what), other, of)
           /\ \A of : Owned(Superseded(f, what), what, of)
           /\ \A whats : Some(f, whats) => Some(Superseded(f, what), whats)
<1> DEFINE g == Superseded(f, what)
<1>1. \A r \in Requests(W, O) : Outdated(r, what) \in Requests(W, O)
  BY OutdatedIs
<1>2. g \in Seq(Requests(W, O))
  BY <1>1, SupersededIn
<1>3. DOMAIN g = DOMAIN f
  <2>1. DOMAIN g = 1 .. Len(f)
    BY SupersededIs
  <2> HIDE DEF g
  <2> QED
    BY <2>1
<1>4. \A i \in DOMAIN f : g[i] = Outdated(f[i], what)
  BY SupersededIs
<1> HIDE DEF g
<1>5. \A i \in DOMAIN f : f[i] \in Requests(W, O)
  OBVIOUS
<1>6. \A i \in DOMAIN f : g[i].what = f[i].what /\ g[i].of = f[i].of /\ (g[i].current <=> f[i].current /\ f[i].what # what)
  BY <1>4, <1>5, OutdatedIs
<1>7. ~Waiting(g, what) /\ \A of : Owned(g, what, of)
  BY <1>3, <1>6 DEF Waiting, Flying, Owned
<1>8. ASSUME NEW other
      PROVE  /\ other # what /\ Waiting(f, other) => Waiting(g, other)
             /\ Waiting(g, other) => Waiting(f, other)
  BY <1>3, <1>6 DEF Waiting, Flying
<1>9. ASSUME NEW other, NEW of, Owned(f, other, of)
      PROVE  Owned(g, other, of)
  BY <1>3, <1>6, <1>9 DEF Owned
<1>10. ASSUME NEW whats, Some(f, whats)
       PROVE  Some(g, whats)
  BY <1>3, <1>6, <1>10 DEF Some
<1> QED
  BY <1>2, <1>7, <1>8, <1>9, <1>10 DEF g

\* A request that makes those before it outdated.
LEMMA GateAsk ==
    ASSUME NEW W, NEW O, NEW f \in Seq(Requests(W, O)), NEW what \in W, NEW of \in O
    PROVE  /\ Ask(f, what, of) \in Seq(Requests(W, O))
           /\ Waiting(Ask(f, what, of), what) /\ Owned(Ask(f, what, of), what, of)
           /\ \A other : other # what => (Waiting(Ask(f, what, of), other) <=> Waiting(f, other))
           /\ \A other, o : other # what /\ Owned(f, other, o) => Owned(Ask(f, what, of), other, o)
           /\ \A whats : Some(f, whats) \/ what \in whats => Some(Ask(f, what, of), whats)
<1> DEFINE new == [what |-> what, of |-> of, current |-> TRUE]
           s == Superseded(f, what)
           g == Append(s, new)
<1>1. /\ s \in Seq(Requests(W, O)) /\ ~Waiting(s, what) /\ \A o : Owned(s, what, o)
      /\ \A other : other # what /\ Waiting(f, other) => Waiting(s, other)
      /\ \A other : Waiting(s, other) => Waiting(f, other)
      /\ \A other, o : Owned(f, other, o) => Owned(s, other, o)
      /\ \A whats : Some(f, whats) => Some(s, whats)
  BY Gate
<1>2. new \in Requests(W, O) /\ new.what = what /\ new.of = of /\ new.current
  BY DEF Requests
<1>3. g = Ask(f, what, of)
  BY DEF Ask
<1> HIDE DEF new, s
<1>4. /\ g \in Seq(Requests(W, O))
      /\ g[Len(s) + 1] = new /\ Len(s) + 1 \in DOMAIN g
      /\ \A i \in DOMAIN s : i \in DOMAIN g /\ g[i] = s[i]
      /\ \A i \in DOMAIN g : i = Len(s) + 1 \/ (i \in DOMAIN s /\ g[i] = s[i])
  BY <1>1, <1>2, OneMore
<1> HIDE DEF g
<1>5. Waiting(g, what)
  BY <1>2, <1>4 DEF Waiting, Flying
<1>6. Owned(g, what, of)
  <2> SUFFICES ASSUME NEW i \in DOMAIN g, g[i].what = what, g[i].current PROVE g[i].of = of
    BY DEF Owned
  <2> QED
    BY <1>1, <1>2, <1>4 DEF Waiting, Flying
<1>7. ASSUME NEW other, other # what
      PROVE  Waiting(g, other) <=> Waiting(f, other)
  <2>1. Waiting(g, other) <=> Waiting(s, other)
    BY <1>2, <1>4, <1>7 DEF Waiting, Flying
  <2> QED
    BY <1>1, <1>7, <2>1
<1>8. ASSUME NEW other, NEW o, other # what, Owned(f, other, o)
      PROVE  Owned(g, other, o)
  <2>1. Owned(s, other, o)
    BY <1>1, <1>8
  <2> QED
    BY <1>2, <1>4, <1>8, <2>1 DEF Owned
<1>9. ASSUME NEW whats, Some(f, whats) \/ what \in whats
      PROVE  Some(g, whats)
  <2>1. CASE what \in whats
    BY <1>2, <1>4, <2>1 DEF Some
  <2>2. CASE Some(f, whats)
    <3>1. Some(s, whats)
      BY <1>1, <2>2
    <3> QED
      BY <1>4, <3>1 DEF Some
  <2> QED
    BY <1>9, <2>1, <2>2
<1> QED
  BY <1>3, <1>4, <1>5, <1>6, <1>7, <1>8, <1>9

\* An answer leaves no request behind that was not there.
LEMMA GateAnswered ==
    ASSUME NEW S, NEW f \in Seq(S), NEW i \in DOMAIN f
    PROVE  /\ Answered(f, i) \in Seq(S)
           /\ \A other, of : Owned(f, other, of) => Owned(Answered(f, i), other, of)
           /\ \A other : Waiting(Answered(f, i), other) => Waiting(f, other)
           /\ \A other : Waiting(f, other) /\ (~f[i].current \/ f[i].what # other) => Waiting(Answered(f, i), other)
<1> DEFINE g == Answered(f, i)
<1>1. g \in Seq(S)
  BY AnsweredIn
<1>2. \A j \in DOMAIN g : \E k \in DOMAIN f \ {i} : g[j] = f[k]
  BY OthersStay
<1>3. \A other : Waiting(f, other) /\ (~f[i].current \/ f[i].what # other) => Waiting(g, other)
  BY WaitingAnswered
<1> HIDE DEF g
<1>4. ASSUME NEW other, NEW of, Owned(f, other, of)
      PROVE  Owned(g, other, of)
  BY <1>2, <1>4 DEF Owned
<1>5. ASSUME NEW other, Waiting(g, other)
      PROVE  Waiting(f, other)
  BY <1>2, <1>5 DEF Waiting, Flying
<1> QED
  BY <1>1, <1>3, <1>4, <1>5 DEF g

LEMMA GateMore ==
    ASSUME NEW S, NEW f \in Seq(S), NEW r \in S
    PROVE  /\ Append(f, r) \in Seq(S)
           /\ \A other, of : Owned(f, other, of) /\ (r.what = other /\ r.current => r.of = of) => Owned(Append(f, r), other, of)
           /\ \A other : Waiting(f, other) \/ (r.what = other /\ r.current) => Waiting(Append(f, r), other)
           /\ \A other : Waiting(Append(f, r), other) => Waiting(f, other) \/ (r.what = other /\ r.current)
<1> DEFINE g == Append(f, r)
<1>1. /\ g \in Seq(S) /\ g[Len(f) + 1] = r /\ Len(f) + 1 \in DOMAIN g
      /\ \A i \in DOMAIN f : i \in DOMAIN g /\ g[i] = f[i]
      /\ \A i \in DOMAIN g : i = Len(f) + 1 \/ (i \in DOMAIN f /\ g[i] = f[i])
  BY OneMore
<1> HIDE DEF g
<1>2. ASSUME NEW other, NEW of, Owned(f, other, of), r.what = other /\ r.current => r.of = of
      PROVE  Owned(g, other, of)
  BY <1>1, <1>2 DEF Owned
<1>3. ASSUME NEW other
      PROVE  /\ Waiting(f, other) \/ (r.what = other /\ r.current) => Waiting(g, other)
             /\ Waiting(g, other) => Waiting(f, other) \/ (r.what = other /\ r.current)
  BY <1>1 DEF Waiting, Flying
<1> QED
  BY <1>1, <1>2, <1>3 DEF g

\* No two requests of one kind are waited for at a time.
AtMostOne(f, what) ==
    \A i, j \in DOMAIN f :
        f[i].what = what /\ f[i].current /\ f[j].what = what /\ f[j].current => i = j

LEMMA OneOutdated ==
    ASSUME NEW W, NEW O, NEW f \in Seq(Requests(W, O)), NEW what, NEW other, AtMostOne(f, other)
    PROVE  AtMostOne(Superseded(f, what), other)
<1> DEFINE g == Superseded(f, what)
<1>1. DOMAIN f = 1 .. Len(f) /\ \A i \in DOMAIN f : f[i] \in Requests(W, O)
  OBVIOUS
<1>2. DOMAIN g = 1 .. Len(f) /\ \A i \in DOMAIN f : g[i] = Outdated(f[i], what)
  BY SupersededIs
<1>3. \A i \in DOMAIN f : g[i].what = f[i].what /\ (g[i].current => f[i].current)
  <2> TAKE i \in DOMAIN f
  <2>1. f[i] \in Requests(W, O) /\ g[i] = Outdated(f[i], what)
    BY <1>1, <1>2
  <2> HIDE DEF g
  <2> QED
    BY <2>1, OutdatedIs
<1> HIDE DEF g
<1>4. AtMostOne(g, other)
  BY <1>1, <1>2, <1>3 DEF AtMostOne
<1> QED
  BY <1>4 DEF g

LEMMA OneAsked ==
    ASSUME NEW W, NEW O, NEW f \in Seq(Requests(W, O)), NEW what \in W, NEW of \in O
    PROVE  /\ AtMostOne(Ask(f, what, of), what)
           /\ \A other : other # what /\ AtMostOne(f, other) => AtMostOne(Ask(f, what, of), other)
<1> DEFINE new == [what |-> what, of |-> of, current |-> TRUE]
           s == Superseded(f, what)
           g == Append(s, new)
<1>1. s \in Seq(Requests(W, O)) /\ ~Waiting(s, what)
  BY Gate
<1>2. \A other : AtMostOne(f, other) => AtMostOne(s, other)
  BY OneOutdated
<1>3. new.what = what
  OBVIOUS
<1>4. g = Ask(f, what, of)
  BY DEF Ask
<1> HIDE DEF new, s
<1>5. /\ g[Len(s) + 1] = new
      /\ \A i \in DOMAIN g : i = Len(s) + 1 \/ (i \in DOMAIN s /\ g[i] = s[i])
  BY <1>1, OneMore
<1> HIDE DEF g
<1>6. AtMostOne(g, what)
  BY <1>1, <1>5 DEF AtMostOne, Waiting, Flying
<1>7. ASSUME NEW other, other # what, AtMostOne(f, other) PROVE AtMostOne(g, other)
  <2>1. AtMostOne(s, other)
    BY <1>2, <1>7
  <2> QED
    BY <1>3, <1>5, <1>7, <2>1 DEF AtMostOne
<1> QED
  BY <1>4, <1>6, <1>7

\* The answer to the one request leaves none behind that is waited for.
LEMMA OneAnswered ==
    ASSUME NEW S, NEW f \in Seq(S), NEW i \in DOMAIN f
    PROVE  /\ \A other : AtMostOne(f, other) => AtMostOne(Answered(f, i), other)
           /\ AtMostOne(f, f[i].what) /\ f[i].current => ~Waiting(Answered(f, i), f[i].what)
<1> DEFINE g == Answered(f, i)
           what == f[i].what
<1>1. /\ \A j \in DOMAIN g : \E k \in DOMAIN f \ {i} : g[j] = f[k]
      /\ \A j, k \in DOMAIN g : j # k => \E l, m \in DOMAIN f \ {i} : l # m /\ g[j] = f[l] /\ g[k] = f[m]
  BY OthersStay
<1> HIDE DEF g
<1>2. ASSUME NEW other, AtMostOne(f, other) PROVE AtMostOne(g, other)
  <2> SUFFICES ASSUME NEW j \in DOMAIN g, NEW k \in DOMAIN g, g[j].what = other, g[j].current, g[k].what = other,
                      g[k].current, j # k
               PROVE  FALSE
    BY DEF AtMostOne
  <2>1. PICK l \in DOMAIN f, m \in DOMAIN f : l # m /\ g[j] = f[l] /\ g[k] = f[m]
    BY <1>1
  <2> QED
    BY <1>2, <2>1 DEF AtMostOne
<1>3. AtMostOne(f, what) /\ f[i].current => ~Waiting(g, what)
  BY <1>1 DEF AtMostOne, Waiting, Flying
<1> QED
  BY <1>2, <1>3 DEF g, what

\* No more than one request of a kind is in flight.
Single(f, what) == \A i, j \in Flying(f, what) : i = j

LEMMA SingleLasts ==
    ASSUME NEW S, NEW f \in Seq(S), NEW other, Single(f, other)
    PROVE  /\ \A i \in DOMAIN f : Single(Answered(f, i), other)
           /\ \A i \in DOMAIN f : f[i].what = other => Flying(Answered(f, i), other) = {}
           /\ \A r : r.what # other \/ Flying(f, other) = {} => Single(Append(f, r), other)
<1>1. ASSUME NEW i \in DOMAIN f
      PROVE  Single(Answered(f, i), other) /\ (f[i].what = other => Flying(Answered(f, i), other) = {})
  <2> DEFINE g == Answered(f, i)
  <2>1. /\ \A j \in DOMAIN g : \E k \in DOMAIN f \ {i} : g[j] = f[k]
        /\ \A j, k \in DOMAIN g : j # k => \E l, m \in DOMAIN f \ {i} : l # m /\ g[j] = f[l] /\ g[k] = f[m]
    BY <1>1, OthersStay
  <2> HIDE DEF g
  <2> QED
    BY <1>1, <2>1 DEF Single, Flying, g
<1>2. ASSUME NEW r, r.what # other \/ Flying(f, other) = {}
      PROVE  Single(Append(f, r), other)
  <2> DEFINE g == Append(f, r)
  <2>1. /\ g[Len(f) + 1] = r
        /\ \A i \in DOMAIN g : i = Len(f) + 1 \/ (i \in DOMAIN f /\ g[i] = f[i])
    BY OneMore
  <2> HIDE DEF g
  <2>2. ASSUME NEW i \in Flying(g, other), NEW j \in Flying(g, other)
        PROVE  i = j
    <3>1. i \in DOMAIN g /\ g[i].what = other /\ j \in DOMAIN g /\ g[j].what = other
      BY DEF Flying
    <3>2. CASE r.what # other
      <4>1. i \in DOMAIN f /\ f[i].what = other /\ j \in DOMAIN f /\ f[j].what = other
        BY <2>1, <3>1, <3>2
      <4> QED
        BY <4>1 DEF Single, Flying
    <3>3. CASE Flying(f, other) = {}
      <4>1. i = Len(f) + 1 /\ j = Len(f) + 1
        BY <2>1, <3>1, <3>3 DEF Flying
      <4> QED
        BY <4>1
    <3> QED
      BY <1>2, <3>2, <3>3
  <2> QED
    BY <2>2 DEF Single, g
<1> QED
  BY <1>1, <1>2

LEMMA DroppedIs ==
    ASSUME NEW S, NEW f \in Seq(S), NEW what
    PROVE  /\ Dropped(f, what) \in Seq(S)
           /\ Single(f, what) => Flying(Dropped(f, what), what) = {}
           /\ \A other : Single(f, other) => Single(Dropped(f, what), other)
           /\ \A other, of : Owned(f, other, of) => Owned(Dropped(f, what), other, of)
           /\ \A other : other # what /\ Flying(f, other) # {} => Flying(Dropped(f, what), other) # {}
           /\ \A j \in DOMAIN Dropped(f, what) : \E k \in DOMAIN f : Dropped(f, what)[j] = f[k]
<1>1. CASE Flying(f, what) = {}
  <2>1. Dropped(f, what) = f
    BY <1>1 DEF Dropped
  <2> QED
    BY <1>1, <2>1
<1>2. CASE Flying(f, what) # {}
  <2>1. PICK i \in Flying(f, what) : Dropped(f, what) = Answered(f, i)
    BY <1>2 DEF Dropped
  <2>2. i \in DOMAIN f /\ f[i].what = what
    BY DEF Flying
  <2>3. /\ Answered(f, i) \in Seq(S)
        /\ \A other, of : Owned(f, other, of) => Owned(Answered(f, i), other, of)
    BY <2>2, GateAnswered
  <2>4. /\ \A j \in DOMAIN Answered(f, i) : \E k \in DOMAIN f \ {i} : Answered(f, i)[j] = f[k]
        /\ \A k \in DOMAIN f \ {i} : \E j \in DOMAIN Answered(f, i) : Answered(f, i)[j] = f[k]
    BY <2>2, OthersStay
  <2>5. /\ \A other : Single(f, other) => Single(Answered(f, i), other)
        /\ Single(f, what) => Flying(Answered(f, i), what) = {}
    BY <2>2, SingleLasts
  <2>6. ASSUME NEW other, other # what, Flying(f, other) # {}
        PROVE  Flying(Answered(f, i), other) # {}
    <3>1. PICK k \in DOMAIN f : f[k].what = other
      BY <2>6 DEF Flying
    <3>2. k # i
      BY <2>2, <2>6, <3>1
    <3> QED
      BY <2>4, <3>1, <3>2 DEF Flying
  <2>7. \A j \in DOMAIN Answered(f, i) : \E k \in DOMAIN f : Answered(f, i)[j] = f[k]
    BY <2>4
  <2> QED
    BY <2>1, <2>3, <2>5, <2>6, <2>7
<1> QED
  BY <1>1, <1>2

LEMMA AskAnewIs ==
    ASSUME NEW S, NEW f \in Seq(S), NEW what, NEW of, [what |-> what, of |-> of, current |-> TRUE] \in S, Single(f, what)
    PROVE  /\ AskAnew(f, what, of) \in Seq(S) /\ Waiting(AskAnew(f, what, of), what)
           /\ Owned(AskAnew(f, what, of), what, of) /\ Single(AskAnew(f, what, of), what)
           /\ \A other : other # what /\ Single(f, other) => Single(AskAnew(f, what, of), other)
           /\ \A other, o : other # what /\ Owned(f, other, o) => Owned(AskAnew(f, what, of), other, o)
           /\ \A other : other # what /\ Flying(f, other) # {} => Flying(AskAnew(f, what, of), other) # {}
           /\ \A j \in DOMAIN AskAnew(f, what, of) :
                 \/ AskAnew(f, what, of)[j] = [what |-> what, of |-> of, current |-> TRUE]
                 \/ \E k \in DOMAIN f : AskAnew(f, what, of)[j] = f[k]
<1> DEFINE d == Dropped(f, what)
           new == [what |-> what, of |-> of, current |-> TRUE]
           g == Append(d, new)
<1>1. /\ d \in Seq(S) /\ Flying(d, what) = {}
      /\ \A other : Single(f, other) => Single(d, other)
      /\ \A other, o : Owned(f, other, o) => Owned(d, other, o)
      /\ \A other : other # what /\ Flying(f, other) # {} => Flying(d, other) # {}
      /\ \A j \in DOMAIN d : \E k \in DOMAIN f : d[j] = f[k]
  <2>1. d \in Seq(S) /\ Flying(d, what) = {}
    BY DroppedIs
  <2>2. \A other : Single(f, other) => Single(d, other)
    BY DroppedIs
  <2>3. \A other, o : Owned(f, other, o) => Owned(d, other, o)
    BY DroppedIs
  <2>4. \A other : other # what /\ Flying(f, other) # {} => Flying(d, other) # {}
    BY DroppedIs
  <2>5. \A j \in DOMAIN d : \E k \in DOMAIN f : d[j] = f[k]
    BY DroppedIs
  <2> HIDE DEF d
  <2> QED
    BY <2>1, <2>2, <2>3, <2>4, <2>5
<1>2. new.what = what /\ new.of = of /\ new.current /\ new \in S
  OBVIOUS
<1>g. AskAnew(f, what, of) = g
  BY DEF AskAnew
<1> HIDE DEF d, new
<1>3. /\ g \in Seq(S) /\ g[Len(d) + 1] = new /\ Len(d) + 1 \in DOMAIN g
      /\ \A i \in DOMAIN d : i \in DOMAIN g /\ g[i] = d[i]
      /\ \A i \in DOMAIN g : i = Len(d) + 1 \/ (i \in DOMAIN d /\ g[i] = d[i])
  BY <1>1, <1>2, OneMore
<1>4. Owned(d, what, of)
  BY <1>1 DEF Owned, Flying
<1>5. \A other : Single(d, other) /\ (new.what # other \/ Flying(d, other) = {}) => Single(g, other)
  BY <1>1, SingleLasts
<1>6. /\ \A other, o : Owned(d, other, o) /\ (new.what = other /\ new.current => new.of = o) => Owned(g, other, o)
      /\ Waiting(g, what)
  BY <1>1, <1>2, GateMore
<1> HIDE DEF g
<1>7. Single(d, what)
  BY <1>1 DEF Single
<1>8. /\ \A other : other # what /\ Single(f, other) => Single(g, other)
      /\ \A other, o : other # what /\ Owned(f, other, o) => Owned(g, other, o)
      /\ Single(g, what) /\ Owned(g, what, of)
  BY <1>1, <1>2, <1>4, <1>5, <1>6, <1>7
<1>9. \A other : other # what /\ Flying(f, other) # {} => Flying(g, other) # {}
  <2> TAKE other
  <2> HAVE other # what /\ Flying(f, other) # {}
  <2>1. PICK i \in DOMAIN d : d[i].what = other
    BY <1>1 DEF Flying
  <2> QED
    BY <1>3, <2>1 DEF Flying
<1>10. \A j \in DOMAIN g : g[j] = new \/ \E k \in DOMAIN f : g[j] = f[k]
  BY <1>1, <1>3
<1> QED
  BY <1>g, <1>3, <1>6, <1>8, <1>9, <1>10 DEF new

\* The requests of one kind outlive a change of the others.
KindKept(f, g, what) ==
    /\ \A of : Owned(f, what, of) => Owned(g, what, of)
    /\ Waiting(f, what) => Waiting(g, what)

-----------------------------------------------------------------------------
(* The session of the administrator *)

Tokens == {None, "good", "bad"}
Stages == {"idle", "preparing", "sent", "renewing", "again", "served", "refused"}

CallType == [stage : Stages, token : Tokens, entered : BOOLEAN, denied : BOOLEAN, lost : BOOLEAN]

AdminType ==
    [grants : BOOLEAN, token : Tokens, cookie : {None, "alive", "lost"}, established : BOOLEAN,
     hook : {"checking", "authorized", "unavailable"}, boot : BOOLEAN, recovery : BOOLEAN, ending : BOOLEAN,
     calls : [Calls -> CallType]]

\* What a call relies on that nobody changed the token or ended the session under.
CallOK(call, token, cookie) ==
    ~call.lost =>
        /\ call.stage \in {"preparing", "renewing"} => token = None
        /\ call.stage = "sent" /\ call.token = None => token = None
        /\ call.stage = "again" => call.token = None /\ cookie = "alive"
        /\ call.stage = "refused" => call.denied
        /\ ~call.entered

AdminOK(s) == s \in AdminType /\ \A c \in Calls : CallOK(s.calls[c], s.token, s.cookie)

\* Whoever waits has a session asked for.
AdminWaits(s) ==
    /\ s.hook = "checking" => s.boot
    /\ s.boot => s.recovery
    /\ \A c \in Calls : s.calls[c].stage \in {"preparing", "renewing"} => s.recovery

LEMMA BootstrapKeeps ==
    ASSUME NEW s, AdminOK(s)
    PROVE  AdminOK(Bootstrap(s)) /\ (AdminWaits(s) => AdminWaits(Bootstrap(s)))
  BY DEF AdminOK, AdminType, AdminWaits, Bootstrap, Establishing, CallOK

\* One call goes on, the session stays.
LEMMA CallMoves ==
    ASSUME NEW s, AdminOK(s), NEW c \in Calls, NEW call \in CallType, CallOK(call, s.token, s.cookie)
    PROVE  /\ AdminOK([s EXCEPT !.calls[c] = call])
           /\ AdminWaits(s) /\ (call.stage \in {"preparing", "renewing"} => s.recovery)
                => AdminWaits([s EXCEPT !.calls[c] = call])
           /\ [s EXCEPT !.calls[c] = call].calls[c] = call
           /\ [s EXCEPT !.calls[c] = call].token = s.token /\ [s EXCEPT !.calls[c] = call].cookie = s.cookie
<1> DEFINE t == [s EXCEPT !.calls[c] = call]
<1>1. s \in AdminType /\ s.calls \in [Calls -> CallType]
  BY DEF AdminOK, AdminType
<1>2. t = [s EXCEPT !.calls = [s.calls EXCEPT ![c] = call]]
  BY <1>1 DEF AdminType
<1>3. t \in AdminType /\ t.calls = [s.calls EXCEPT ![c] = call]
  BY <1>1, <1>2 DEF AdminType
<1>4. t.token = s.token /\ t.cookie = s.cookie /\ t.hook = s.hook /\ t.boot = s.boot /\ t.recovery = s.recovery
  BY <1>1, <1>2 DEF AdminType
<1> HIDE DEF t
<1>5. \A d \in Calls : t.calls[d] = IF d = c THEN call ELSE s.calls[d]
  BY <1>1, <1>3
<1>6. AdminOK(t)
  BY <1>3, <1>4, <1>5 DEF AdminOK
<1>7. AdminWaits(s) /\ (call.stage \in {"preparing", "renewing"} => s.recovery) => AdminWaits(t)
  BY <1>4, <1>5 DEF AdminWaits
<1> QED
  BY <1>4, <1>5, <1>6, <1>7 DEF t

\* All calls go on at once.
LEMMA CallsMove ==
    ASSUME NEW s, AdminOK(s), NEW calls \in [Calls -> CallType],
           \A c \in Calls : CallOK(calls[c], s.token, s.cookie)
    PROVE  /\ AdminOK([s EXCEPT !.calls = calls])
           /\ [s EXCEPT !.calls = calls].calls = calls
           /\ (s.hook = "checking" => s.boot) /\ (s.boot => s.recovery)
                /\ (\A c \in Calls : calls[c].stage \in {"preparing", "renewing"} => s.recovery)
                => AdminWaits([s EXCEPT !.calls = calls])
  BY DEF AdminOK, AdminType, AdminWaits

LEMMA EstablishedKeeps ==
    ASSUME NEW s, NEW outcome, AdminOK(s), outcome = "granted" => s.cookie = "alive", s.hook # "checking", ~s.boot
    PROVE  AdminOK(Established(s, outcome)) /\ AdminWaits(Established(s, outcome))
<1> DEFINE after(call) ==
      IF call.stage = "preparing" THEN [Sent(s, call, "sent") EXCEPT !.entered = s.token # None]
      ELSE IF call.stage = "renewing" /\ outcome = "granted" THEN Sent(s, call, "again")
      ELSE IF call.stage = "renewing" THEN [call EXCEPT !.stage = "refused", !.denied = TRUE]
      ELSE call
    calls == [c \in Calls |-> after(s.calls[c])]
<1>1. s.token \in Tokens /\ \A c \in Calls : s.calls[c] \in CallType /\ CallOK(s.calls[c], s.token, s.cookie)
  BY DEF AdminOK, AdminType
<1>2. ASSUME NEW call \in CallType, CallOK(call, s.token, s.cookie)
      PROVE  /\ after(call) \in CallType /\ CallOK(after(call), s.token, s.cookie)
             /\ after(call).stage \notin {"preparing", "renewing"}
  <2>1. CASE call.stage = "preparing"
    BY <1>1, <1>2, <2>1 DEF CallType, Stages, Tokens, Sent, CallOK
  <2>2. CASE call.stage = "renewing" /\ outcome = "granted"
    BY <1>1, <1>2, <2>2 DEF CallType, Stages, Tokens, Sent, CallOK
  <2>3. CASE call.stage = "renewing" /\ outcome # "granted"
    BY <1>1, <1>2, <2>3 DEF CallType, Stages, Tokens, CallOK
  <2>4. CASE call.stage \notin {"preparing", "renewing"}
    BY <1>1, <1>2, <2>4 DEF CallType, Stages, Tokens, CallOK
  <2> QED
    BY <2>1, <2>2, <2>3, <2>4
<1>3. Established(s, outcome) = [s EXCEPT !.calls = calls]
  BY DEF Established
<1> HIDE DEF after
<1>4. calls \in [Calls -> CallType] /\ \A c \in Calls : /\ CallOK(calls[c], s.token, s.cookie)
                                                      /\ calls[c].stage \notin {"preparing", "renewing"}
  BY <1>1, <1>2
<1> HIDE DEF calls
<1> QED
  BY <1>3, <1>4, CallsMove

LEMMA LostKeeps ==
    ASSUME NEW s, AdminOK(s), AdminWaits(s), NEW cookie \in {None, "lost"}
    PROVE  AdminOK(Lost(s, cookie)) /\ AdminWaits(Lost(s, cookie))
<1> DEFINE after(call) == [call EXCEPT !.lost = @ \/ call.stage = "again"]
           calls == [c \in Calls |-> after(s.calls[c])]
           t == [s EXCEPT !.cookie = cookie, !.calls = calls]
<1>0. s \in AdminType /\ \A c \in Calls : s.calls[c] \in CallType /\ CallOK(s.calls[c], s.token, s.cookie)
  BY DEF AdminOK, AdminType
<1>1. Lost(s, cookie) = t
  BY Zenon DEF Lost
<1>2. ASSUME NEW call \in CallType, CallOK(call, s.token, s.cookie)
      PROVE  after(call) \in CallType /\ CallOK(after(call), s.token, cookie) /\ after(call).stage = call.stage
  BY <1>2 DEF CallType, CallOK
<1> HIDE DEF after
<1>3. calls \in [Calls -> CallType]
      /\ \A c \in Calls : CallOK(calls[c], s.token, cookie) /\ calls[c].stage = s.calls[c].stage
  BY <1>0, <1>2
<1> HIDE DEF calls
<1>4. t \in AdminType /\ t.calls = calls /\ t.token = s.token /\ t.cookie = cookie
      /\ t.hook = s.hook /\ t.boot = s.boot /\ t.recovery = s.recovery
  BY <1>0, <1>3 DEF AdminType
<1> HIDE DEF t
<1> QED
  BY <1>1, <1>3, <1>4 DEF AdminOK, AdminWaits

LEMMA AdminStarts == AdminInit => AdminOK(ui) /\ AdminWaits(ui)
<1> SUFFICES ASSUME AdminInit PROVE AdminOK(ui) /\ AdminWaits(ui)
  OBVIOUS
<1> DEFINE none == [c \in Calls |-> NoCall]
           start(grants, token, cookie) ==
               [grants |-> grants, token |-> token, cookie |-> cookie, established |-> FALSE,
                hook |-> "checking", boot |-> FALSE, recovery |-> FALSE, ending |-> FALSE, calls |-> none]
<1>1. PICK grants \in BOOLEAN, token \in Tokens, cookie \in {None, "alive", "lost"} :
         ui = Bootstrap(start(grants, token, cookie))
  BY DEF AdminInit, Tokens
<1>2. AdminOK(start(grants, token, cookie))
  BY DEF AdminOK, AdminType, CallOK, CallType, Stages, Tokens, NoCall
<1>3. AdminOK(ui)
  BY <1>1, <1>2, BootstrapKeeps
<1>4. AdminWaits(ui)
  BY <1>1 DEF AdminWaits, Bootstrap, Establishing, NoCall
<1> QED
  BY <1>3, <1>4

LEMMA AdminSteps ==
    ASSUME AdminOK(ui), AdminWaits(ui), AdminNext
    PROVE  AdminOK(ui') /\ AdminWaits(ui')
<1> USE DEF Tokens, Stages
<1>1. ASSUME NEW outcome \in {"granted", "denied", "failed"}, EstablishAnswer(outcome)
      PROVE  AdminOK(ui') /\ AdminWaits(ui')
  <2> DEFINE known == [ui EXCEPT !.recovery = FALSE, !.boot = FALSE,
                                 !.cookie = IF outcome = "granted" THEN "alive" ELSE @]
             told == IF outcome = "failed" THEN known ELSE Published(known, outcome = "granted")
             booted == IF ~ui.boot THEN told
                       ELSE [told EXCEPT !.hook = IF outcome = "granted" \/ ui.token # None
                                                  THEN "authorized" ELSE "unavailable"]
  <2>1. AdminOK(known) /\ ~known.boot /\ known.hook = ui.hook
        /\ (outcome = "granted" => known.cookie = "alive")
    BY DEF AdminOK, AdminType, CallOK
  <2>2. AdminOK(told) /\ told.cookie = known.cookie /\ ~told.boot /\ (told.hook = "checking" => ui.hook = "checking")
    <3> HIDE DEF known
    <3> QED
      BY <2>1 DEF Published, AdminOK, AdminType
  <2>3. AdminOK(booted) /\ booted.cookie = known.cookie /\ ~booted.boot /\ booted.hook # "checking"
    <3> HIDE DEF told, known
    <3> QED
      BY <2>2 DEF AdminOK, AdminType, AdminWaits
  <2>4. ui' = Established(booted, outcome)
    BY <1>1 DEF EstablishAnswer
  <2> HIDE DEF booted
  <2> QED
    BY <2>1, <2>3, <2>4, EstablishedKeeps
<1>2. ASSUME NEW c \in Calls, StartCall(c)
      PROVE  AdminOK(ui') /\ AdminWaits(ui')
  <2>1. CASE ui.token = None /\ ~ui.established
    <3> DEFINE s == [ui EXCEPT !.recovery = TRUE]
               call == [NoCall EXCEPT !.stage = "preparing"]
    <3>1. AdminOK(s) /\ AdminWaits(s) /\ s.recovery /\ s.token = None
      BY <2>1 DEF AdminOK, AdminType, AdminWaits
    <3>2. ui' = [s EXCEPT !.calls[c] = call]
      BY <1>2, <2>1 DEF StartCall, Establishing, AdminOK, AdminType
    <3>3. call \in CallType /\ CallOK(call, s.token, s.cookie)
      BY <3>1 DEF CallType, CallOK, NoCall
    <3> HIDE DEF s, call
    <3> QED
      BY <3>1, <3>2, <3>3, CallMoves
  <2>2. CASE ~(ui.token = None /\ ~ui.established)
    <3> DEFINE call == Sent(ui, ui.calls[c], "sent")
    <3>1. ui' = [ui EXCEPT !.calls[c] = call]
      BY <1>2, <2>2 DEF StartCall, AdminOK, AdminType
    <3>2. call \in CallType /\ CallOK(call, ui.token, ui.cookie) /\ call.stage = "sent"
      BY <1>2 DEF StartCall, AdminOK, AdminType, CallType, CallOK, NoCall, Sent
    <3> HIDE DEF call
    <3> QED
      BY <3>1, <3>2, CallMoves
  <2> QED
    BY <2>1, <2>2
<1>3. ASSUME NEW c \in Calls, CallAnswer(c)
      PROVE  AdminOK(ui') /\ AdminWaits(ui')
  <2> DEFINE to(stage) == [ui.calls[c] EXCEPT !.stage = stage]
  <2>0. \A stage \in Stages : /\ to(stage) \in CallType /\ to(stage).stage = stage
                              /\ [ui EXCEPT !.calls[c].stage = stage] = [ui EXCEPT !.calls[c] = to(stage)]
    BY DEF AdminOK, AdminType, CallType
  <2>1. CASE Accepted(ui, ui.calls[c])
    <3>1. CallOK(to("served"), ui.token, ui.cookie)
      BY <1>3 DEF CallAnswer, AdminOK, AdminType, CallType, CallOK
    <3>2. ui' = [ui EXCEPT !.calls[c] = to("served")]
      BY <1>3, <2>0, <2>1 DEF CallAnswer
    <3> HIDE DEF to
    <3> QED
      BY <2>0, <3>1, <3>2, CallMoves
  <2>2. CASE ~Accepted(ui, ui.calls[c]) /\ (ui.calls[c].token = None \/ ~ui.calls[c].entered)
    <3> DEFINE s == [ui EXCEPT !.recovery = TRUE, !.established = FALSE, !.hook = "unavailable",
                               !.token = IF ui.calls[c].token = None THEN @ ELSE None]
    <3>1. AdminOK(s) /\ AdminWaits(s) /\ s.recovery
      BY DEF AdminOK, AdminType, AdminWaits, CallOK
    <3>2. ui' = [s EXCEPT !.calls[c] = to("renewing")]
      <4>1. CASE ui.calls[c].token = None
        BY <1>3, <2>0, <2>2, <4>1 DEF CallAnswer, Establishing, Published, AdminOK, AdminType
      <4>2. CASE ui.calls[c].token # None
        BY <1>3, <2>0, <2>2, <4>2 DEF CallAnswer, Establishing, Published, AdminOK, AdminType
      <4> QED
        BY <4>1, <4>2
    <3>3. CallOK(to("renewing"), s.token, s.cookie)
      BY <1>3 DEF CallAnswer, AdminOK, AdminType, CallType, CallOK
    <3> HIDE DEF s, to
    <3> QED
      BY <2>0, <3>1, <3>2, <3>3, CallMoves
  <2>3. CASE ~Accepted(ui, ui.calls[c]) /\ ui.calls[c].token # None /\ ui.calls[c].entered
    <3>1. CallOK(to("refused"), ui.token, ui.cookie)
      BY <2>3 DEF AdminOK, AdminType, CallType, CallOK
    <3>2. ui' = [ui EXCEPT !.calls[c] = to("refused")]
      BY <1>3, <2>0, <2>3 DEF CallAnswer
    <3> HIDE DEF to
    <3> QED
      BY <2>0, <3>1, <3>2, CallMoves
  <2> QED
    BY <2>1, <2>2, <2>3
<1>4. ASSUME NEW c \in Calls, SecondAnswer(c)
      PROVE  AdminOK(ui') /\ AdminWaits(ui')
  <2> DEFINE call == [ui.calls[c] EXCEPT !.stage = IF Accepted(ui, ui.calls[c]) THEN "served" ELSE "refused"]
  <2>1. ui' = [ui EXCEPT !.calls[c] = call]
    BY <1>4 DEF SecondAnswer, AdminOK, AdminType, CallType
  <2>2. call \in CallType /\ CallOK(call, ui.token, ui.cookie) /\ call.stage \notin {"preparing", "renewing"}
    BY <1>4 DEF SecondAnswer, AdminOK, AdminType, CallType, CallOK, Accepted
  <2> HIDE DEF call
  <2> QED
    BY <2>1, <2>2, CallMoves
<1>5. ASSUME NEW c \in Calls, CallFails(c) \/ CallDone(c)
      PROVE  AdminOK(ui') /\ AdminWaits(ui')
  <2>1. NoCall \in CallType /\ CallOK(NoCall, ui.token, ui.cookie) /\ NoCall.stage = "idle"
    BY DEF CallType, CallOK, NoCall
  <2>2. ui' = [ui EXCEPT !.calls[c] = NoCall]
    BY <1>5 DEF CallFails, CallDone
  <2> QED
    BY <2>1, <2>2, CallMoves
<1>6. ASSUME NEW token \in Tokens, EnterToken(token)
      PROVE  AdminOK(ui') /\ AdminWaits(ui')
  <2> DEFINE after(call) == [call EXCEPT !.lost = @ \/ call # NoCall]
             calls == [c \in Calls |-> after(ui.calls[c])]
             s == [ui EXCEPT !.token = token, !.calls = calls]
  <2>0. ui \in AdminType /\ \A c \in Calls : ui.calls[c] \in CallType
    BY DEF AdminOK, AdminType
  <2>1. ui' = s
    BY <1>6, Zenon DEF EnterToken
  <2>2. ASSUME NEW call \in CallType
        PROVE  after(call) \in CallType /\ CallOK(after(call), token, ui.cookie) /\ after(call).stage = call.stage
    <3>1. after(call) \in CallType /\ after(call).stage = call.stage
      BY DEF CallType
    <3>2. CASE call = NoCall
      BY <3>1, <3>2 DEF CallType, CallOK, NoCall
    <3>3. CASE call # NoCall
      <4>1. after(call).lost = TRUE
        BY <3>3 DEF CallType
      <4> QED
        BY <3>1, <4>1 DEF CallOK
    <3> QED
      BY <3>1, <3>2, <3>3
  <2> HIDE DEF after
  <2>3. calls \in [Calls -> CallType]
        /\ \A c \in Calls : CallOK(calls[c], token, ui.cookie) /\ calls[c].stage = ui.calls[c].stage
    BY <2>0, <2>2
  <2> HIDE DEF calls
  <2>4. s \in AdminType /\ s.calls = calls /\ s.token = token /\ s.cookie = ui.cookie
        /\ s.hook = ui.hook /\ s.boot = ui.boot /\ s.recovery = ui.recovery
    BY <2>0, <2>3 DEF AdminType
  <2> HIDE DEF s
  <2> QED
    BY <2>1, <2>3, <2>4 DEF AdminOK, AdminWaits
<1>7. CASE Retry
  BY <1>7, BootstrapKeeps DEF Retry
<1>8. CASE EndSession
  BY <1>8 DEF EndSession, AdminOK, AdminWaits, AdminType
<1>9. CASE SessionLost
  <2>1. ui' = Lost(ui, "lost")
    BY <1>9 DEF SessionLost
  <2> QED
    BY <2>1, LostKeeps
<1>10. ASSUME NEW ok \in BOOLEAN, EndAnswer(ok)
       PROVE  AdminOK(ui') /\ AdminWaits(ui')
  <2> DEFINE s == IF ok THEN Lost(ui, None) ELSE ui
  <2>1. AdminOK(s) /\ AdminWaits(s)
    BY LostKeeps
  <2>2. ui' = [s EXCEPT !.ending = FALSE, !.hook = "unavailable"]
    BY <1>10 DEF EndAnswer
  <2> HIDE DEF s
  <2> QED
    BY <2>1, <2>2 DEF AdminOK, AdminWaits, AdminType
<1> QED
  BY <1>1, <1>2, <1>3, <1>4, <1>5, <1>6, <1>7, <1>8, <1>9, <1>10 DEF AdminNext

LEMMA AdminTold ==
    /\ AdminOK(ui) => AdminCallsRenewed
    /\ AdminWaits(ui) => AdminNeverStuck
  BY DEF AdminOK, AdminWaits, CallOK, AdminCallsRenewed, AdminNeverStuck

-----------------------------------------------------------------------------
(* The orders of the desk *)

IdsOr0 == 0 .. MaxIds
RequestType == [call : {None, "validate", "submit", "cancel", "fill", "refresh"}, id : IdsOr0,
                plan : Plans \cup {None}, fill : IdsOr0]
OrderType == {o \in [plan : Plans \cup {None}, left : {0, 1, 2}, open : BOOLEAN] : o.open => o.left # 0}

DeskType ==
    [shown : [id : IdsOr0, left : {0, 1, 2}, open : BOOLEAN], confirm : BOOLEAN,
     pendingOrder : IdsOr0, pendingFill : IdsOr0, made : [order : IdsOr0, fill : IdsOr0],
     stage : RequestType, late : SUBSET RequestType,
     orders : [Ids -> OrderType], fills : [Ids -> IdsOr0], toldOrders : SUBSET Ids, settledFills : SUBSET Ids]

\* The ids the user was told of, or that will be sent again.
OrdersTold(s) == s.toldOrders \cup {s.pendingOrder}
FillsTold(s) == s.settledFills \cup {s.pendingFill}

\* A request that is under way, or late.
RequestOK(r, s) ==
    /\ r.call \in {"validate", "submit", "cancel", "fill"} => r.id \in Ids
    /\ r.call = "submit" => r.id \in OrdersTold(s)
    /\ r.call = "fill" => r.fill \in Ids /\ r.fill \in FillsTold(s)

DeskOK(s) ==
    /\ s \in DeskType
    /\ s.shown.open => s.shown.id \in Ids
    /\ RequestOK(s.stage, s) /\ \A r \in s.late : RequestOK(r, s)
    /\ s.stage.call \in {"validate", "submit"} => s.stage.id = s.pendingOrder
    /\ \A id \in Ids : s.orders[id] # NoOrder => id \in OrdersTold(s)
    /\ \A id \in Ids : s.fills[id] # 0 => id \in FillsTold(s)

LEMMA DeskStarts == DeskOrdersInit => DeskOK(ui)
<1> SUFFICES ASSUME DeskOrdersInit PROVE DeskOK(ui)
  OBVIOUS
<1>1. 0 \in IdsOr0 /\ NoRequest \in RequestType /\ NoOrder \in OrderType /\ Ids \subseteq IdsOr0
  BY DeskOrdersConstants DEF IdsOr0, Ids, RequestType, OrderType, NoRequest, NoOrder
<1>2. ui \in DeskType
  BY <1>1 DEF DeskOrdersInit, DeskType
<1> QED
  BY <1>1, <1>2 DEF DeskOrdersInit, DeskOK, RequestOK, NoRequest, OrdersTold, FillsTold, None

\* The server takes a request: an order or a fill it then has is the request's.
LEMMA ServerKeeps ==
    ASSUME NEW s, DeskOK(s), NEW r \in RequestType, RequestOK(r, s), NEW accept \in BOOLEAN
    PROVE  /\ DeskOK(Server(s, r, accept))
           /\ Server(s, r, accept).stage = s.stage
<1> DEFINE t == Server(s, r, accept)
           same(orders, fills) == [s EXCEPT !.orders = orders, !.fills = fills]
<1>0. s \in DeskType /\ s.orders \in [Ids -> OrderType] /\ s.fills \in [Ids -> IdsOr0]
  BY DEF DeskOK, DeskType
<1>1. ASSUME NEW orders \in [Ids -> OrderType], NEW fills \in [Ids -> IdsOr0],
             \A id \in Ids : orders[id] # NoOrder => id \in OrdersTold(s),
             \A id \in Ids : fills[id] # 0 => id \in FillsTold(s)
      PROVE  DeskOK(same(orders, fills)) /\ same(orders, fills).stage = s.stage
  BY <1>1 DEF DeskOK, DeskType, RequestOK, OrdersTold, FillsTold
<1> HIDE DEF t, same
<1> SUFFICES DeskOK(t) /\ t.stage = s.stage
  BY DEF t
<1>2. CASE r.call = "submit" /\ s.orders[r.id] = NoOrder
  <2> DEFINE orders == [s.orders EXCEPT ![r.id] = [plan |-> r.plan, left |-> 2, open |-> accept]]
  <2>1. t = same(orders, s.fills)
    BY <1>2, <1>0 DEF Server, DeskType, t, same
  <2>2. orders \in [Ids -> OrderType] /\ \A id \in Ids : orders[id] # NoOrder => id \in OrdersTold(s)
    BY <1>2, <1>0 DEF RequestOK, RequestType, OrderType, DeskOK
  <2>3. \A id \in Ids : s.fills[id] # 0 => id \in FillsTold(s)
    BY DEF DeskOK
  <2> HIDE DEF orders
  <2> QED
    BY <1>0, <1>1, <2>1, <2>2, <2>3
<1>3. CASE r.call = "cancel"
  <2> DEFINE orders == [s.orders EXCEPT ![r.id] = [@ EXCEPT !.open = FALSE]]
  <2>1. t = same(orders, s.fills)
    BY <1>3, <1>0 DEF Server, DeskType, t, same
  <2>2. r.id \in Ids /\ s.orders[r.id] \in OrderType
    BY <1>3, <1>0 DEF RequestOK
  <2>3. orders \in [Ids -> OrderType]
    BY <1>0, <2>2 DEF OrderType
  <2>4. \A id \in Ids : orders[id] # NoOrder => id \in OrdersTold(s)
    <3>1. s.orders[r.id] = NoOrder => orders[r.id] = NoOrder
      <4>1. s.orders[r.id] = NoOrder => [s.orders[r.id] EXCEPT !.open = FALSE] = NoOrder
        <5> DEFINE type == [plan : Plans \cup {None}, left : {0, 1, 2}, open : BOOLEAN]
        <5>1. NoOrder \in type /\ NoOrder.open = FALSE
          BY DEF NoOrder
        <5>2. \A o \in type : o.open = FALSE => [o EXCEPT !.open = FALSE] = o
          OBVIOUS
        <5> QED
          BY <5>1, <5>2
      <4> QED
        BY <1>0, <2>2, <4>1
    <3> QED
      BY <1>0, <2>2, <3>1 DEF DeskOK
  <2>5. \A id \in Ids : s.fills[id] # 0 => id \in FillsTold(s)
    BY DEF DeskOK
  <2> HIDE DEF orders
  <2> QED
    BY <1>0, <1>1, <2>1, <2>3, <2>4, <2>5
<1>4. CASE r.call = "fill" /\ s.fills[r.fill] = 0 /\ s.orders[r.id].open /\ accept
  <2> DEFINE after == [s.orders[r.id] EXCEPT !.left = @ - 1, !.open = s.orders[r.id].left > 1]
             orders == [s.orders EXCEPT ![r.id] = after]
             fills == [s.fills EXCEPT ![r.fill] = r.id]
  <2>0. r.id \in Ids /\ r.fill \in Ids /\ r.fill \in FillsTold(s)
    BY <1>4 DEF RequestOK
  <2>1. t = same(orders, fills)
    BY <1>4, <1>0, <2>0 DEF Server, DeskType, t, same, OrderType
  <2>2. after \in OrderType
    <3> DEFINE o == s.orders[r.id]
    <3>1. o \in OrderType /\ o.open /\ after = [o EXCEPT !.left = o.left - 1, !.open = o.left > 1]
      BY <1>4, <1>0, <2>0
    <3> HIDE DEF o, after
    <3>2. o.left \in {1, 2} /\ o.plan \in Plans \cup {None}
      BY <3>1 DEF OrderType
    <3>3. after = [plan |-> o.plan, left |-> o.left - 1, open |-> o.left > 1]
      BY <3>1 DEF OrderType
    <3> QED
      <4> DEFINE left == o.left - 1
                 open == o.left > 1
      <4>1. left \in {0, 1, 2} /\ open \in BOOLEAN /\ (open => left # 0)
        BY <3>2
      <4>2. after = [plan |-> o.plan, left |-> left, open |-> open]
        BY <3>3
      <4> HIDE DEF left, open
      <4> QED
        BY <3>2, <4>1, <4>2 DEF OrderType
  <2>3. orders \in [Ids -> OrderType] /\ fills \in [Ids -> IdsOr0]
    BY <1>0, <2>0, <2>2 DEF Ids, IdsOr0
  <2>4. s.orders[r.id] # NoOrder
    BY <1>4 DEF NoOrder
  <2>5. \A id \in Ids : orders[id] # NoOrder => id \in OrdersTold(s)
    BY <1>0, <2>0, <2>4 DEF DeskOK
  <2>6. \A id \in Ids : fills[id] # 0 => id \in FillsTold(s)
    BY <1>0, <2>0 DEF DeskOK
  <2> HIDE DEF orders, fills, after
  <2> QED
    BY <1>1, <2>1, <2>3, <2>5, <2>6
<1>5. CASE /\ ~(r.call = "submit" /\ s.orders[r.id] = NoOrder) /\ r.call # "cancel"
           /\ ~(r.call = "fill" /\ s.fills[r.fill] = 0 /\ s.orders[r.id].open /\ accept)
  <2>1. t = s
    BY <1>5 DEF Server, t
  <2>2. DeskOK(s)
    OBVIOUS
  <2> QED
    BY <2>1, <2>2
<1> QED
  BY <1>2, <1>3, <1>4, <1>5

\* A request is over, or begins.
LEMMA StageMoves ==
    ASSUME NEW s, DeskOK(s), NEW stage \in RequestType, RequestOK(stage, s),
           stage.call \in {"validate", "submit"} => stage.id = s.pendingOrder
    PROVE  DeskOK([s EXCEPT !.stage = stage])
<1>1. [s EXCEPT !.stage = stage] \in DeskType
  BY DEF DeskOK, DeskType
<1> QED
  BY <1>1 DEF DeskOK, DeskType, RequestOK, OrdersTold, FillsTold

LEMMA NoRequestOK == NoRequest \in RequestType /\ NoRequest.call = None /\ \A s : RequestOK(NoRequest, s)
  BY DeskOrdersConstants DEF NoRequest, RequestType, RequestOK, IdsOr0, None

\* The order that is shown: of an id, as the server has it.
LEMMA ShowKeeps ==
    ASSUME NEW s, DeskOK(s), NEW id \in Ids
    PROVE  DeskOK(Show(s, id))
<1> DEFINE shown == [id |-> id, left |-> s.orders[id].left, open |-> s.orders[id].open]
<1>1. shown \in [id : IdsOr0, left : {0, 1, 2}, open : BOOLEAN] /\ shown.id \in Ids
  BY DeskOrdersConstants DEF DeskOK, DeskType, OrderType, Ids, IdsOr0
<1>2. Show(s, id) = [s EXCEPT !.shown = shown]
  BY DEF Show
<1> HIDE DEF shown
<1>3. Show(s, id) \in DeskType
  BY <1>1, <1>2 DEF DeskOK, DeskType
<1> QED
  BY <1>1, <1>2, <1>3 DEF DeskOK, DeskType, RequestOK, OrdersTold, FillsTold

\* The order that waits is told, when nothing under way is a submission.
LEMMA OrderSettles ==
    ASSUME NEW s, DeskOK(s), s.stage.call \notin {"validate", "submit"},
           NEW told \in SUBSET Ids, OrdersTold(s) \ {0} \subseteq told
    PROVE  DeskOK([s EXCEPT !.pendingOrder = 0, !.confirm = FALSE, !.toldOrders = told])
<1> DEFINE t == [s EXCEPT !.pendingOrder = 0, !.confirm = FALSE, !.toldOrders = told]
<1>0. 0 \in IdsOr0
  BY DeskOrdersConstants DEF IdsOr0
<1>1. t \in DeskType
  BY <1>0 DEF DeskOK, DeskType
<1>2. \A id \in Ids : id \in OrdersTold(s) => id \in OrdersTold(t)
  BY DeskOrdersConstants DEF OrdersTold, Ids, DeskOK, DeskType
<1>3. /\ FillsTold(t) = FillsTold(s) /\ t.shown = s.shown /\ t.stage = s.stage /\ t.late = s.late
      /\ t.orders = s.orders /\ t.fills = s.fills
  BY DEF FillsTold, DeskOK, DeskType
<1> HIDE DEF t
<1>4. DeskOK(t)
  BY <1>1, <1>2, <1>3 DEF DeskOK, RequestOK
<1> QED
  BY <1>4 DEF t

\* The fill that waits is told, or given up by the user.
LEMMA FillSettles ==
    ASSUME NEW s, DeskOK(s), NEW settled \in SUBSET Ids, FillsTold(s) \ {0} \subseteq settled
    PROVE  DeskOK([s EXCEPT !.pendingFill = 0, !.confirm = FALSE, !.settledFills = settled])
<1> DEFINE t == [s EXCEPT !.pendingFill = 0, !.confirm = FALSE, !.settledFills = settled]
<1>0. 0 \in IdsOr0
  BY DeskOrdersConstants DEF IdsOr0
<1>1. t \in DeskType
  BY <1>0 DEF DeskOK, DeskType
<1>2. \A id \in Ids : id \in FillsTold(s) => id \in FillsTold(t)
  BY DeskOrdersConstants DEF FillsTold, Ids, DeskOK, DeskType
<1>3. /\ OrdersTold(t) = OrdersTold(s) /\ t.shown = s.shown /\ t.stage = s.stage /\ t.late = s.late
      /\ t.pendingOrder = s.pendingOrder /\ t.orders = s.orders /\ t.fills = s.fills
  BY DEF OrdersTold, DeskOK, DeskType
<1> HIDE DEF t
<1>4. DeskOK(t)
  BY <1>1, <1>2, <1>3 DEF DeskOK, RequestOK
<1> QED
  BY <1>4 DEF t

\* The answer of a request, if it carries the order.
LEMMA SettledKeeps ==
    ASSUME NEW s, DeskOK(s), NEW r, r = s.stage, r.call \in {"submit", "cancel", "fill"}
    PROVE  DeskOK(Settled(s, r))
<1> DEFINE refresh == [NoRequest EXCEPT !.call = "refresh"]
           shown == [Show(s, r.id) EXCEPT !.stage = refresh]
<1>0. s \in DeskType /\ r \in RequestType /\ r.id \in Ids /\ RequestOK(r, s)
  BY DEF DeskOK, DeskType, RequestOK
<1>1. refresh \in RequestType /\ refresh.call = "refresh" /\ \A t : RequestOK(refresh, t)
  BY DeskOrdersConstants DEF NoRequest, RequestType, RequestOK, IdsOr0, None
<1>2. DeskOK(Show(s, r.id)) /\ Show(s, r.id).stage = r /\ Show(s, r.id).pendingOrder = s.pendingOrder
      /\ Show(s, r.id).pendingFill = s.pendingFill /\ Show(s, r.id).toldOrders = s.toldOrders
      /\ Show(s, r.id).settledFills = s.settledFills
  BY <1>0, ShowKeeps DEF Show, DeskType
<1> HIDE DEF refresh
<1>3. DeskOK(shown) /\ shown.stage = refresh /\ shown.pendingOrder = s.pendingOrder
      /\ shown.pendingFill = s.pendingFill /\ shown.toldOrders = s.toldOrders
      /\ shown.settledFills = s.settledFills
  BY <1>1, <1>2, StageMoves DEF DeskOK, DeskType
<1>4. DeskOK([Show(s, r.id) EXCEPT !.stage = NoRequest])
  BY <1>2, StageMoves, NoRequestOK DEF None
<1> HIDE DEF shown
<1>5. CASE r.call = "submit"
  <2> DEFINE told == shown.toldOrders \cup {r.id}
  <2>1. r.id = s.pendingOrder
    BY <1>0, <1>5 DEF DeskOK
  <2>2. told \in SUBSET Ids /\ OrdersTold(shown) \ {0} \subseteq told
    BY <1>0, <1>3, <2>1 DEF OrdersTold, DeskType
  <2>3. Settled(s, r) = [shown EXCEPT !.pendingOrder = 0, !.confirm = FALSE, !.toldOrders = told]
    BY <1>5 DEF Settled, shown, refresh
  <2> HIDE DEF told
  <2> QED
    <3>1. shown.stage.call \notin {"validate", "submit"}
      BY <1>1, <1>3
    <3> QED
      <4>1. DeskOK([shown EXCEPT !.pendingOrder = 0, !.confirm = FALSE, !.toldOrders = told])
        BY <1>3, <2>2, <3>1, OrderSettles, Zenon
      <4> QED
        BY <2>3, <4>1
<1>6. CASE r.call = "fill" /\ s.fills[r.fill] = 0
  <2>1. Settled(s, r) = [Show(s, r.id) EXCEPT !.stage = NoRequest]
    BY <1>6 DEF Settled
  <2> QED
    BY <1>4, <2>1
<1>7. CASE r.call # "submit" /\ ~(r.call = "fill" /\ s.fills[r.fill] = 0)
  <2> DEFINE settled == shown.settledFills \cup ({r.fill, s.pendingFill} \ {0})
  <2>1. settled \in SUBSET Ids /\ FillsTold(shown) \ {0} \subseteq settled
    BY <1>0, <1>3, DeskOrdersConstants DEF FillsTold, DeskType, RequestType, IdsOr0, Ids
  <2>2. Settled(s, r) = [shown EXCEPT !.pendingFill = 0, !.confirm = FALSE, !.settledFills = settled]
    BY <1>7 DEF Settled, shown, refresh
  <2> HIDE DEF settled
  <2> QED
    <3>1. DeskOK([shown EXCEPT !.pendingFill = 0, !.confirm = FALSE, !.settledFills = settled])
      BY <1>3, <2>1, FillSettles, Zenon
    <3> QED
      BY <2>2, <3>1
<1> QED
  BY <1>5, <1>6, <1>7

LEMMA DeskSteps ==
    ASSUME DeskOK(ui), DeskOrdersNext
    PROVE  DeskOK(ui')
<1>0. ui \in DeskType /\ ui.stage \in RequestType /\ RequestOK(ui.stage, ui)
  BY DEF DeskOK, DeskType
<1>01. \A s : DeskOK(s) => DeskOK(Unsettled(s))
  BY StageMoves, NoRequestOK DEF Unsettled, None
<1>02. \A accept \in BOOLEAN : DeskOK(Server(ui, ui.stage, accept)) /\ Server(ui, ui.stage, accept).stage = ui.stage
  <2> TAKE accept \in BOOLEAN
  <2> QED
    BY <1>0, ServerKeeps, Zenon
<1>1. ASSUME NEW accept \in BOOLEAN, CallAnswered(accept)
      PROVE  DeskOK(ui')
  <2> DEFINE done == Server(ui, ui.stage, accept)
  <2>1. ui' = IF Carries(done, ui.stage) THEN Settled(done, ui.stage) ELSE Unsettled(done)
    BY <1>1 DEF CallAnswered
  <2>2. DeskOK(done) /\ done.stage = ui.stage /\ ui.stage.call \in {"submit", "cancel", "fill"}
    BY <1>1, <1>02 DEF CallAnswered
  <2> HIDE DEF done
  <2> QED
    BY <1>01, <2>1, <2>2, SettledKeeps
<1>2. ASSUME NEW accept \in BOOLEAN, AnswerLost(accept)
      PROVE  DeskOK(ui')
  BY <1>2, <1>01, <1>02 DEF AnswerLost
<1>3. ASSUME NEW accept \in BOOLEAN, LateCallTaken(accept)
      PROVE  DeskOK(ui')
  <2>1. PICK r \in ui.late : ui' = [Server(ui, r, accept) EXCEPT !.late = {}]
    BY <1>3 DEF LateCallTaken
  <2>2. DeskOK(Server(ui, r, accept))
    <3>1. r \in RequestType /\ RequestOK(r, ui)
      BY <1>0 DEF DeskOK, DeskType
    <3> QED
      BY <3>1, ServerKeeps, Zenon
  <2>3. ui' \in DeskType
    BY <2>1, <2>2 DEF DeskOK, DeskType
  <2> QED
    BY <2>1, <2>2, <2>3 DEF DeskOK, DeskType, RequestOK, OrdersTold, FillsTold
<1>4. ASSUME NEW ok \in BOOLEAN, Validated(ok)
      PROVE  DeskOK(ui')
  <2> DEFINE submit == [ui.stage EXCEPT !.call = "submit"]
  <2>1. submit \in RequestType /\ RequestOK(submit, ui) /\ submit.id = ui.pendingOrder
    BY <1>0, <1>4 DEF Validated, RequestType, RequestOK, DeskOK, OrdersTold
  <2>2. ui' = [ui EXCEPT !.stage = submit] \/ ui' = Unsettled(ui)
    BY <1>0, <1>4 DEF Validated, Unsettled, DeskType
  <2> HIDE DEF submit
  <2> QED
    BY <1>01, <2>1, <2>2, StageMoves
<1>5. ASSUME NEW ok \in BOOLEAN, Confirm(ok)
      PROVE  DeskOK(ui')
  BY <1>5 DEF Confirm, DeskOK, DeskType, RequestOK, OrdersTold, FillsTold
<1>6. ASSUME NEW plan \in Plans, Submit(plan)
      PROVE  DeskOK(ui')
  <2> DEFINE id == IF ui.pendingOrder = 0 THEN ui.made.order + 1 ELSE ui.pendingOrder
             made == [ui.made EXCEPT !.order = IF ui.pendingOrder = 0 THEN id ELSE @]
             s == [ui EXCEPT !.pendingOrder = id, !.made = made]
             stage == [NoRequest EXCEPT !.call = "validate", !.id = id, !.plan = plan]
  <2>1. id \in Ids /\ id \in IdsOr0 /\ made \in [order : IdsOr0, fill : IdsOr0]
    BY <1>0, <1>6, DeskOrdersConstants DEF Submit, DeskType, Ids, IdsOr0
  <2>2. ui' = [s EXCEPT !.stage = stage]
    BY <1>0, <1>6 DEF Submit, DeskType
  <2>3. stage \in RequestType /\ (\A t : RequestOK(stage, t)) /\ stage.id = id
    <3>1. stage \in RequestType
      BY <2>1, NoRequestOK DEF RequestType
    <3>2. stage.call = "validate" /\ stage.id = id
      BY DEF NoRequest
    <3> QED
      BY <2>1, <3>1, <3>2 DEF RequestOK
  <2>4. s \in DeskType /\ s.pendingOrder = id
    BY <1>0, <2>1 DEF DeskType
  <2>5. ui.stage = NoRequest /\ \A o \in Ids : o \in OrdersTold(ui) => o \in OrdersTold(s)
    BY <1>0, <1>6, <2>1, DeskOrdersConstants DEF Submit, Busy, OrdersTold, DeskType, Ids
  <2>6. /\ FillsTold(s) = FillsTold(ui) /\ s.shown = ui.shown /\ s.stage = ui.stage /\ s.late = ui.late
        /\ s.orders = ui.orders /\ s.fills = ui.fills
    BY <1>0 DEF FillsTold, DeskType
  <2> HIDE DEF s, stage, id, made
  <2>7. DeskOK(s)
    BY <2>4, <2>5, <2>6, NoRequestOK DEF DeskOK, RequestOK, None
  <2> QED
    BY <2>2, <2>3, <2>4, <2>7, StageMoves
<1>7. ASSUME NEW id \in Ids, SelectOrder(id)
      PROVE  DeskOK(ui')
  <2> DEFINE s == Show(ui, id)
             settled == s.settledFills \cup ({ui.pendingFill} \ {0})
  <2>1. ui' = [s EXCEPT !.pendingFill = 0, !.confirm = FALSE, !.settledFills = settled]
    BY <1>7 DEF SelectOrder
  <2>2. DeskOK(s) /\ s.settledFills = ui.settledFills /\ s.pendingFill = ui.pendingFill
    BY <1>0, ShowKeeps DEF Show, DeskType
  <2>3. settled \in SUBSET Ids /\ FillsTold(s) \ {0} \subseteq settled
    BY <1>0, <2>2, DeskOrdersConstants DEF FillsTold, DeskType, IdsOr0, Ids
  <2> HIDE DEF s, settled
  <2> QED
    BY <2>1, <2>2, <2>3, FillSettles
<1>8. CASE EditQuantity
  <2> DEFINE settled == ui.settledFills \cup ({ui.pendingFill} \ {0})
  <2>1. ui' = [ui EXCEPT !.pendingFill = 0, !.confirm = FALSE, !.settledFills = settled]
    BY <1>8 DEF EditQuantity
  <2>2. settled \in SUBSET Ids /\ FillsTold(ui) \ {0} \subseteq settled
    BY <1>0, DeskOrdersConstants DEF FillsTold, DeskType, IdsOr0, Ids
  <2> HIDE DEF settled
  <2> QED
    BY <2>1, <2>2, FillSettles
<1>9. CASE Fill
  <2> DEFINE fill == IF ui.pendingFill = 0 THEN ui.made.fill + 1 ELSE ui.pendingFill
             made == [ui.made EXCEPT !.fill = IF ui.pendingFill = 0 THEN fill ELSE @]
             s == [ui EXCEPT !.pendingFill = fill, !.made = made]
             stage == [NoRequest EXCEPT !.call = "fill", !.id = ui.shown.id, !.fill = fill]
  <2>1. fill \in Ids /\ fill \in IdsOr0 /\ made \in [order : IdsOr0, fill : IdsOr0] /\ ui.shown.id \in Ids
    BY <1>0, <1>9, DeskOrdersConstants DEF Fill, DeskType, Ids, IdsOr0, DeskOK
  <2>2. ui' = [s EXCEPT !.stage = stage]
    BY <1>0, <1>9 DEF Fill, DeskType
  <2>3. s \in DeskType /\ s.pendingFill = fill
    BY <1>0, <2>1 DEF DeskType
  <2>4. stage \in RequestType /\ RequestOK(stage, s) /\ stage.call = "fill"
    <3>1. stage \in RequestType
      <4>1. ui.shown.id \in IdsOr0
        BY <2>1, DeskOrdersConstants DEF Ids, IdsOr0
      <4> QED
        BY <2>1, <4>1, NoRequestOK DEF RequestType
    <3>2. stage.call = "fill" /\ stage.id = ui.shown.id /\ stage.fill = fill
      BY DEF NoRequest
    <3> HIDE DEF stage, s, fill
    <3> QED
      BY <2>1, <2>3, <3>1, <3>2 DEF RequestOK, FillsTold
  <2>5. ui.stage = NoRequest /\ \A f \in Ids : f \in FillsTold(ui) => f \in FillsTold(s)
    BY <1>0, <1>9, <2>1, DeskOrdersConstants DEF Fill, Busy, FillsTold, DeskType, Ids
  <2>6. /\ OrdersTold(s) = OrdersTold(ui) /\ s.shown = ui.shown /\ s.stage = ui.stage /\ s.late = ui.late
        /\ s.orders = ui.orders /\ s.fills = ui.fills
    BY <1>0 DEF OrdersTold, DeskType
  <2> HIDE DEF s, stage, fill, made
  <2>7. DeskOK(s)
    BY <2>3, <2>5, <2>6, NoRequestOK DEF DeskOK, RequestOK, None
  <2> QED
    BY <2>2, <2>4, <2>7, StageMoves
<1>10. CASE Cancel
  <2> DEFINE stage == [NoRequest EXCEPT !.call = "cancel", !.id = ui.shown.id]
  <2>1. stage.call = "cancel" /\ stage.id = ui.shown.id /\ stage.plan = None /\ stage.fill = 0
    BY DEF NoRequest
  <2>2. ui.shown.id \in Ids
    BY <1>10 DEF Cancel, DeskOK
  <2>3. stage \in RequestType /\ RequestOK(stage, ui) /\ stage.call = "cancel"
    <3>1. stage \in RequestType
      <4>1. ui.shown.id \in IdsOr0
        BY <2>2, DeskOrdersConstants DEF Ids, IdsOr0
      <4> QED
        BY <4>1, NoRequestOK DEF RequestType
    <3> QED
      BY <2>1, <2>2, <3>1 DEF RequestOK
  <2>4. ui' = [ui EXCEPT !.stage = stage]
    BY <1>10 DEF Cancel
  <2> HIDE DEF stage
  <2> QED
    BY <2>3, <2>4, StageMoves
<1>11. CASE CallLate
  <2>1. ui' = [Unsettled(ui) EXCEPT !.late = {ui.stage}]
    BY <1>11 DEF CallLate
  <2>2. DeskOK(Unsettled(ui)) /\ OrdersTold(Unsettled(ui)) = OrdersTold(ui) /\ FillsTold(Unsettled(ui)) = FillsTold(ui)
    BY <1>0, <1>01 DEF Unsettled, DeskType, OrdersTold, FillsTold
  <2>3. RequestOK(ui.stage, Unsettled(ui))
    BY <1>0, <2>2 DEF RequestOK
  <2>4. ui' \in DeskType
    BY <1>0, <2>1, <2>2 DEF DeskOK, DeskType
  <2> HIDE DEF Unsettled
  <2> QED
    BY <2>1, <2>2, <2>3, <2>4 DEF DeskOK, DeskType, RequestOK, OrdersTold, FillsTold
<1>12. CASE Refreshed
  BY <1>12, <1>01 DEF Refreshed, Unsettled
<1> QED
  BY <1>1, <1>2, <1>3, <1>4, <1>5, <1>6, <1>7, <1>8, <1>9, <1>10, <1>11, <1>12 DEF DeskOrdersNext

LEMMA DeskKnows == ASSUME DeskOK(ui) PROVE DeskOrdersKnown /\ DeskFillsKnown
  BY DEF DeskOK, DeskOrdersKnown, DeskFillsKnown, OrdersTold, FillsTold

-----------------------------------------------------------------------------
(* The cache of the US list *)

CallerType == [on : Nat, since : BOOLEAN]

\* What the cache holds was loaded since it was emptied and has not failed, and
\* so is what a caller that asked since then waits for.
CacheOK(s) ==
    /\ s \in [cached : Nat, young : BOOLEAN, loads : Seq({"pending", "failed", "done"}), fresh : SUBSET Nat,
              callers : [Callers -> CallerType]]
    /\ s.cached # 0 => s.cached \in s.fresh /\ s.cached \in 1 .. Len(s.loads) /\ s.loads[s.cached] # "failed"
    /\ \A c \in Callers : s.callers[c].since => s.callers[c].on \in s.fresh

LEMMA CacheStarts == CacheInit => CacheOK(ui)
  BY DEF CacheInit, CacheOK, CallerType, Idle

LEMMA CacheSteps ==
    ASSUME CacheOK(ui), CacheNext
    PROVE  CacheOK(ui')
<1>0. /\ ui.callers \in [Callers -> CallerType] /\ ui.loads \in Seq({"pending", "failed", "done"})
      /\ Idle \in CallerType /\ ~Idle.since
  BY DEF CacheOK, CallerType, Idle
<1>1. ASSUME NEW c \in Callers, LoadStocks(c)
      PROVE  CacheOK(ui')
  <2>1. CASE ui.cached # 0 /\ ui.young
    <3> DEFINE callers == [ui.callers EXCEPT ![c] = [on |-> ui.cached, since |-> TRUE]]
    <3>1. ui' = [ui EXCEPT !.callers = callers]
      BY <1>0, <1>1, <2>1 DEF LoadStocks, CacheOK
    <3>2. /\ callers \in [Callers -> CallerType]
          /\ \A d \in Callers : callers[d].since => callers[d].on \in ui.fresh
      BY <1>0, <2>1 DEF CacheOK, CallerType
    <3> HIDE DEF callers
    <3> QED
      BY <3>1, <3>2 DEF CacheOK
  <2>2. CASE ~(ui.cached # 0 /\ ui.young)
    <3> DEFINE new == Len(ui.loads) + 1
    <3>1. ui' = [ui EXCEPT !.loads = Append(@, "pending"), !.fresh = @ \cup {new},
                           !.cached = new, !.young = TRUE,
                           !.callers[c] = [on |-> new, since |-> TRUE]]
      BY <1>1, <2>2 DEF LoadStocks
    <3>2. new \in Nat /\ Append(ui.loads, "pending") \in Seq({"pending", "failed", "done"})
          /\ Len(Append(ui.loads, "pending")) = new /\ Append(ui.loads, "pending")[new] = "pending"
      BY <1>0
    <3> QED
      <4> DEFINE callers == [ui.callers EXCEPT ![c] = [on |-> new, since |-> TRUE]]
                 loads == Append(ui.loads, "pending")
      <4>1. ui' = [cached |-> new, young |-> TRUE, loads |-> loads, fresh |-> ui.fresh \cup {new},
                   callers |-> callers]
        BY <1>0, <3>1 DEF CacheOK
      <4>2. /\ callers \in [Callers -> CallerType]
            /\ \A d \in Callers : callers[d].since => callers[d].on \in ui.fresh \cup {new}
        BY <1>0, <3>2 DEF CacheOK, CallerType
      <4> HIDE DEF callers, new, loads
      <4> QED
        BY <3>2, <4>1, <4>2 DEF CacheOK, loads, new
  <2> QED
    BY <2>1, <2>2
<1>2. ASSUME NEW c \in Callers, Returned(c)
      PROVE  CacheOK(ui')
  BY <1>0, <1>2 DEF Returned, CacheOK
<1>3. ASSUME NEW n \in DOMAIN ui.loads, LoadFailed(n) \/ LoadDone(n)
      PROVE  CacheOK(ui')
  <2> DEFINE loads(outcome) == [ui.loads EXCEPT ![n] = outcome]
  <2>1. \A outcome \in {"failed", "done"} :
           /\ loads(outcome) \in Seq({"pending", "failed", "done"}) /\ Len(loads(outcome)) = Len(ui.loads)
           /\ \A m \in 1 .. Len(ui.loads) : loads(outcome)[m] = IF m = n THEN outcome ELSE ui.loads[m]
    BY <1>0
  <2>2. CASE LoadFailed(n)
    <3>1. ui' = [ui EXCEPT !.loads = loads("failed"), !.cached = 0, !.young = FALSE]
      BY <2>2 DEF LoadFailed, CacheOK
    <3> HIDE DEF loads
    <3> QED
      BY <2>1, <3>1 DEF CacheOK
  <2>3. CASE LoadDone(n)
    <3>1. ui' = [ui EXCEPT !.loads = loads("done")]
      BY <2>3 DEF LoadDone, CacheOK
    <3> HIDE DEF loads
    <3> QED
      BY <2>1, <3>1 DEF CacheOK
  <2> QED
    BY <1>3, <2>2, <2>3
<1>4. CASE Invalidate
  BY <1>0, <1>4 DEF Invalidate, Invalidated, CacheOK, CallerType
<1>5. CASE MinuteOver
  BY <1>5 DEF MinuteOver, CacheOK
<1> QED
  BY <1>1, <1>2, <1>3, <1>4, <1>5 DEF CacheNext

LEMMA CacheTold == ASSUME CacheOK(ui) PROVE CacheFresh /\ CacheHoldsNoFailure
  BY DEF CacheOK, CacheFresh, CacheHoldsNoFailure

-----------------------------------------------------------------------------
(* Price alerts *)

AlertType == [enabled : BOOLEAN, cooling : BOOLEAN]
AlertRequests == Requests({"alerts"}, {None})

AlertsType ==
    [list : [Alerts -> AlertType], stored : [Alerts -> AlertType], told : [Alerts -> {0, 1}],
     monitor : {"idle", "checking", "live", "stale", "error"}, visible : BOOLEAN, research : BOOLEAN,
     flying : Seq(AlertRequests)]

\* What was told is cooling, or gone, also in the storage.
AlertsOK(s) ==
    /\ s \in AlertsType /\ s.stored = s.list
    /\ \A a \in Alerts : s.told[a] = 1 => s.list[a].cooling \/ ~s.list[a].enabled
    /\ s.monitor = "checking" => Flying(s.flying, "alerts") # {}

LEMMA CheckAlertsKeeps ==
    ASSUME NEW s, AlertsOK(s)
    PROVE  AlertsOK(CheckAlerts(s))
<1>1. s.flying \in Seq(AlertRequests)
  BY DEF AlertsOK, AlertsType
<1> DEFINE flying == Ask(s.flying, "alerts", None)
<1>2. flying \in Seq(AlertRequests)
  <2>1. \A r \in AlertRequests : Outdated(r, "alerts") \in AlertRequests
    BY DEF AlertRequests, Requests, Outdated
  <2>2. [what |-> "alerts", of |-> None, current |-> TRUE] \in AlertRequests
    BY DEF AlertRequests, Requests
  <2> QED
    BY <1>1, <2>1, <2>2, AskIn
<1>3. Flying(flying, "alerts") # {}
  <2>1. Waiting(flying, "alerts")
    BY <1>1, WaitingAsk
  <2> QED
    BY <2>1 DEF Waiting
<1>4. CheckAlerts(s) = s \/ CheckAlerts(s) = [s EXCEPT !.monitor = "checking", !.flying = flying]
  BY DEF CheckAlerts
<1> HIDE DEF flying
<1>5. AlertsOK([s EXCEPT !.monitor = "checking", !.flying = flying])
  BY <1>2, <1>3 DEF AlertsOK, AlertsType
<1> QED
  BY <1>4, <1>5

LEMMA AlertsStart == AlertsInit => AlertsOK(ui)
<1> SUFFICES ASSUME AlertsInit PROVE AlertsOK(ui)
  OBVIOUS
<1> DEFINE start(list) == [list |-> list, stored |-> list, told |-> [a \in Alerts |-> 0],
                           monitor |-> "idle", visible |-> TRUE, research |-> FALSE, flying |-> <<>>]
<1>1. PICK list \in [Alerts -> {Fresh, NoAlert}] : ui = CheckAlerts(start(list))
  BY DEF AlertsInit
<1>2. list \in [Alerts -> AlertType]
  <2>1. Fresh \in AlertType /\ NoAlert \in AlertType
    BY DEF Fresh, NoAlert, AlertType
  <2> QED
    BY <2>1
<1>3. AlertsOK(start(list))
  BY <1>2 DEF AlertsOK, AlertsType
<1> QED
  BY <1>1, <1>3, CheckAlertsKeeps

LEMMA AlertsStep ==
    ASSUME AlertsOK(ui), AlertsNext
    PROVE  AlertsOK(ui')
<1>0. /\ ui \in AlertsType /\ ui.list \in [Alerts -> AlertType] /\ ui.told \in [Alerts -> {0, 1}]
      /\ ui.flying \in Seq(AlertRequests)
  BY DEF AlertsOK, AlertsType
<1>01. \A i \in DOMAIN ui.flying : Answered(ui.flying, i) \in Seq(AlertRequests)
  BY <1>0, AnsweredIn
<1>1. ASSUME NEW i \in DOMAIN ui.flying, NEW matched \in SUBSET Alerts, AlertQuotes(i, matched)
      PROVE  AlertsOK(ui')
  <2> DEFINE hits == Hits(ui, matched)
             list == [a \in Alerts |-> IF a \in hits THEN [ui.list[a] EXCEPT !.cooling = TRUE] ELSE ui.list[a]]
             told == [a \in Alerts |-> IF a \in hits THEN ui.told[a] + 1 ELSE ui.told[a]]
  <2>1. list \in [Alerts -> AlertType] /\ (hits = {} => list = ui.list)
    BY <1>0 DEF AlertType
  <2>2. told \in [Alerts -> {0, 1}]
    BY <1>0 DEF AlertsOK, Hits
  <2>3. \A a \in Alerts : told[a] = 1 => list[a].cooling \/ ~list[a].enabled
    BY <1>0 DEF AlertsOK, AlertType
  <2> HIDE DEF list, told
  <2>4. ui' = [ui EXCEPT !.list = list, !.stored = list, !.told = told, !.monitor = "live",
                         !.flying = Answered(ui.flying, i)]
    BY <1>0, <1>1, <2>1 DEF AlertQuotes, Taken, CheckQuotes, AlertsOK, AlertsType, list, told
  <2> QED
    BY <1>0, <1>01, <2>1, <2>2, <2>3, <2>4 DEF AlertsOK, AlertsType
<1>2. ASSUME NEW i \in DOMAIN ui.flying, NEW why \in {"stale", "error"}, AlertQuotesUnusable(i, why)
      PROVE  AlertsOK(ui')
  BY <1>2, <1>01 DEF AlertQuotesUnusable, Taken, AlertsOK, AlertsType
<1>3. ASSUME NEW a \in Alerts, AddAlert(a)
      PROVE  AlertsOK(ui')
  <2> DEFINE list == [ui.list EXCEPT ![a] = Fresh]
             told == [ui.told EXCEPT ![a] = 0]
  <2>1. list \in [Alerts -> AlertType] /\ told \in [Alerts -> {0, 1}]
    BY <1>0 DEF Fresh, AlertType
  <2>2. \A b \in Alerts : told[b] = 1 => list[b].cooling \/ ~list[b].enabled
    BY <1>0 DEF AlertsOK
  <2>3. ui' = [ui EXCEPT !.list = list, !.stored = list, !.told = told]
    BY <1>0, <1>3 DEF AddAlert, AlertsType
  <2> HIDE DEF list, told
  <2> QED
    BY <2>1, <2>2, <2>3 DEF AlertsOK, AlertsType
<1>4. ASSUME NEW a \in Alerts, RemoveAlert(a)
      PROVE  AlertsOK(ui')
  <2> DEFINE list == [ui.list EXCEPT ![a] = NoAlert]
  <2>1. list \in [Alerts -> AlertType]
    BY <1>0 DEF NoAlert, AlertType
  <2>2. \A b \in Alerts : ui.told[b] = 1 => list[b].cooling \/ ~list[b].enabled
    BY <1>0 DEF AlertsOK, NoAlert
  <2>3. ui' = [ui EXCEPT !.list = list, !.stored = list]
    BY <1>4 DEF RemoveAlert
  <2> HIDE DEF list
  <2> QED
    BY <2>1, <2>2, <2>3 DEF AlertsOK, AlertsType
<1>5. ASSUME NEW a \in Alerts, AlertCooled(a)
      PROVE  AlertsOK(ui')
  <2> DEFINE list == [ui.list EXCEPT ![a] = [@ EXCEPT !.cooling = FALSE]]
             told == [ui.told EXCEPT ![a] = 0]
  <2>1. list \in [Alerts -> AlertType] /\ told \in [Alerts -> {0, 1}]
    BY <1>0 DEF AlertType
  <2>2. \A b \in Alerts : told[b] = 1 => list[b].cooling \/ ~list[b].enabled
    BY <1>0 DEF AlertsOK
  <2>3. ui' = [ui EXCEPT !.list = list, !.stored = list, !.told = told]
    BY <1>0, <1>5 DEF AlertCooled, AlertsOK, AlertsType
  <2> HIDE DEF list, told
  <2> QED
    BY <2>1, <2>2, <2>3 DEF AlertsOK, AlertsType
<1>6. ASSUME NEW research \in BOOLEAN, GoTo(research)
      PROVE  AlertsOK(ui')
  <2> DEFINE flying == Superseded(ui.flying, "alerts")
  <2>1. flying \in Seq(AlertRequests)
    <3>1. \A r \in AlertRequests : Outdated(r, "alerts") \in AlertRequests
      BY DEF AlertRequests, Requests, Outdated
    <3> QED
      BY <1>0, <3>1, SupersededIn
  <2>2. ui.monitor = "checking" => Flying(flying, "alerts") # {}
    BY <1>0, FlyingLasts DEF AlertsOK, AlertRequests
  <2>3. ui' = CheckAlerts([ui EXCEPT !.research = research, !.flying = flying])
    BY <1>6 DEF GoTo
  <2> HIDE DEF flying
  <2>4. AlertsOK([ui EXCEPT !.research = research, !.flying = flying])
    BY <2>1, <2>2 DEF AlertsOK, AlertsType
  <2> QED
    BY <2>3, <2>4, CheckAlertsKeeps
<1>7. CASE AlertTimer
  BY <1>7, CheckAlertsKeeps DEF AlertTimer
<1>8. CASE ShowOrHideAlerts
  <2> DEFINE visible == ~ui.visible
  <2>1. ui' = CheckAlerts([ui EXCEPT !.visible = visible])
    BY <1>8 DEF ShowOrHideAlerts
  <2>2. visible \in BOOLEAN
    OBVIOUS
  <2> HIDE DEF visible
  <2>3. AlertsOK([ui EXCEPT !.visible = visible])
    BY <2>2 DEF AlertsOK, AlertsType
  <2> QED
    BY <2>1, <2>3, CheckAlertsKeeps
<1>9. CASE ReloadAlerts
  <2>0. <<>> \in Seq(AlertRequests)
    OBVIOUS
  <2>1. AlertsOK([ui EXCEPT !.list = ui.stored, !.monitor = "idle", !.flying = <<>>])
    BY <2>0 DEF AlertsOK, AlertsType
  <2> QED
    BY <1>9, <2>1, CheckAlertsKeeps DEF ReloadAlerts
<1> QED
  BY <1>1, <1>2, <1>3, <1>4, <1>5, <1>6, <1>7, <1>8, <1>9 DEF AlertsNext

LEMMA AlertsTold == ASSUME AlertsOK(ui) PROVE AlertsToldOnce /\ AlertsNeverStuck
  BY DEF AlertsOK, AlertsType, AlertsToldOnce, AlertsNeverStuck, AlertPanel
-----------------------------------------------------------------------------
(* QDII premiums *)

QDIIRequests == Requests({"premiums", "permission"}, {None, "high", "between"})

QDIIType ==
    [level : {None, "high", "between"}, loading : BOOLEAN, error : BOOLEAN, meta : BOOLEAN,
     trust : {"live", "stale", "unavailable"}, enabled : BOOLEAN, cooling : BOOLEAN, stored : BOOLEAN,
     flying : Seq(QDIIRequests)]

\* Levels are only known while the answer can be trusted; the spinner waits.
QDIIOK(s) ==
    /\ s \in QDIIType
    /\ s.level # None => s.trust = "live"
    /\ s.loading => Flying(s.flying, "premiums") # {}

LEMMA RefreshKeeps ==
    ASSUME NEW s \in QDIIType, s.level # None => s.trust = "live"
    PROVE  QDIIOK(Refresh(s))
<1> DEFINE new == [what |-> "premiums", of |-> None, current |-> TRUE]
           flying == Append(s.flying, new)
           n == Len(s.flying) + 1
<1>1. s.flying \in Seq(QDIIRequests) /\ new \in QDIIRequests
  BY DEF QDIIType, QDIIRequests, Requests
<1>2. new.what = "premiums"
  OBVIOUS
<1> HIDE DEF new
<1>3. flying \in Seq(QDIIRequests) /\ n \in DOMAIN flying /\ flying[n].what = "premiums"
  BY <1>1, <1>2
<1>4. Refresh(s) = [s EXCEPT !.loading = TRUE, !.error = FALSE, !.flying = flying]
  BY DEF Refresh, new
<1> HIDE DEF flying, n
<1> QED
  BY <1>3, <1>4 DEF QDIIOK, QDIIType, Flying

LEMMA CheckPremiumKeeps ==
    ASSUME NEW s, QDIIOK(s), NEW level
    PROVE  QDIIOK(CheckPremium(s, level)) /\ CheckPremium(s, level).flying = s.flying
  BY DEF QDIIOK, QDIIType, CheckPremium

LEMMA QDIIStarts == QDIIInit => QDIIOK(ui)
<1> SUFFICES ASSUME QDIIInit PROVE QDIIOK(ui)
  OBVIOUS
<1>1. PICK enabled \in BOOLEAN :
         ui = Refresh([level |-> None, loading |-> TRUE, error |-> FALSE, meta |-> FALSE,
                       trust |-> "unavailable", enabled |-> enabled, cooling |-> FALSE,
                       stored |-> FALSE, flying |-> <<>>])
  BY DEF QDIIInit
<1>2. <<>> \in Seq(QDIIRequests)
  OBVIOUS
<1> QED
  BY <1>1, <1>2, RefreshKeeps DEF QDIIType

LEMMA QDIISteps ==
    ASSUME QDIIOK(ui), QDIINext
    PROVE  QDIIOK(ui')
<1>0. ui \in QDIIType /\ ui.flying \in Seq(QDIIRequests)
      /\ \A i \in DOMAIN ui.flying : Answered(ui.flying, i) \in Seq(QDIIRequests)
  BY AnsweredIn DEF QDIIOK, QDIIType
<1>1. ASSUME NEW i \in DOMAIN ui.flying, NEW defects, NEW level \in {"high", "between"},
             PremiumsAnswer(i, defects, level)
      PROVE  QDIIOK(ui')
  <2> DEFINE t == [ui EXCEPT !.meta = TRUE, !.trust = Trust(defects), !.loading = FALSE,
                             !.level = IF Trust(defects) = "live" THEN level ELSE None]
  <2>1. QDIIOK(t) /\ ~t.loading
    BY <1>0 DEF QDIIOK, QDIIType, Trust
  <2>2. WithPremiums(ui, defects, level) = t \/ WithPremiums(ui, defects, level) = CheckPremium(t, level)
    BY DEF WithPremiums
  <2>3. QDIIOK(WithPremiums(ui, defects, level)) /\ ~WithPremiums(ui, defects, level).loading
        /\ WithPremiums(ui, defects, level).flying = ui.flying
    <3>1. t.flying = ui.flying /\ CheckPremium(t, level).flying = t.flying /\ QDIIOK(CheckPremium(t, level))
      BY <1>0, <2>1, CheckPremiumKeeps DEF QDIIType
    <3>2. ~CheckPremium(t, level).loading
      BY <1>0 DEF CheckPremium, QDIIType
    <3> QED
      BY <2>1, <2>2, <3>1, <3>2
  <2>4. ui' = [WithPremiums(ui, defects, level) EXCEPT !.flying = Answered(ui.flying, i)]
    BY <1>1, <2>3 DEF PremiumsAnswer, Taken
  <2> QED
    BY <1>0, <2>3, <2>4 DEF QDIIOK, QDIIType
<1>2. ASSUME NEW i \in DOMAIN ui.flying, PremiumsError(i)
      PROVE  QDIIOK(ui')
  BY <1>0, <1>2 DEF PremiumsError, Taken, Trust, QDIIOK, QDIIType
<1>3. ASSUME NEW i \in DOMAIN ui.flying, PermissionAnswer(i)
      PROVE  QDIIOK(ui')
  <2> DEFINE s == CheckPremium([ui EXCEPT !.enabled = TRUE], ui.flying[i].of)
  <2>1. QDIIOK([ui EXCEPT !.enabled = TRUE]) /\ [ui EXCEPT !.enabled = TRUE].flying = ui.flying
    BY DEF QDIIOK, QDIIType
  <2>2. QDIIOK(s) /\ s.flying = ui.flying
    BY <2>1, CheckPremiumKeeps
  <2>3. ui.loading => Flying(Answered(ui.flying, i), "premiums") # {}
    BY <1>0, <1>3, WaitingAnswered DEF PermissionAnswer, QDIIOK
  <2>4. s.loading = ui.loading
    BY <1>0 DEF CheckPremium, QDIIType
  <2>5. ui' = [s EXCEPT !.flying = Answered(ui.flying, i)]
    BY <1>3, <2>2 DEF PermissionAnswer, Taken
  <2> HIDE DEF s
  <2> QED
    BY <1>0, <2>2, <2>3, <2>4, <2>5 DEF QDIIOK, QDIIType
<1>4. ASSUME NEW asks \in BOOLEAN, ToggleAlerts(asks)
      PROVE  QDIIOK(ui')
  <2>1. CASE ui.enabled
    BY <1>4, <2>1 DEF ToggleAlerts, QDIIOK, QDIIType
  <2>2. CASE ~ui.enabled /\ asks
    <3> DEFINE flying == Ask(ui.flying, "permission", ui.level)
    <3>1. ui' = [ui EXCEPT !.flying = flying]
      BY <1>4, <2>2 DEF ToggleAlerts
    <3>2. flying \in Seq(QDIIRequests)
      <4>1. \A r \in QDIIRequests : Outdated(r, "permission") \in QDIIRequests
        BY DEF QDIIRequests, Requests, Outdated
      <4>2. [what |-> "permission", of |-> ui.level, current |-> TRUE] \in QDIIRequests
        BY <1>0 DEF QDIIRequests, QDIIType, Requests
      <4> QED
        BY <1>0, <4>1, <4>2, AskIn
    <3>3. ui.loading => Flying(flying, "premiums") # {}
      BY <1>0, FlyingLasts DEF QDIIOK, QDIIRequests
    <3> HIDE DEF flying
    <3> QED
      BY <3>1, <3>2, <3>3 DEF QDIIOK, QDIIType
  <2>3. CASE ~ui.enabled /\ ~asks
    <3>1. QDIIOK([ui EXCEPT !.enabled = TRUE])
      BY DEF QDIIOK, QDIIType
    <3> QED
      BY <1>4, <2>3, <3>1, CheckPremiumKeeps DEF ToggleAlerts
  <2> QED
    BY <2>1, <2>2, <2>3
<1>5. CASE RefreshPremiums
  BY <1>5, <1>0, RefreshKeeps DEF RefreshPremiums, QDIIOK
<1>6. CASE PremiumCooled
  BY <1>6 DEF PremiumCooled, QDIIOK, QDIIType
<1>7. CASE ReloadRadar
  <2> DEFINE s == [ui EXCEPT !.level = None, !.meta = FALSE, !.trust = "unavailable",
                             !.cooling = ui.stored, !.flying = <<>>]
  <2>0. <<>> \in Seq(QDIIRequests)
    OBVIOUS
  <2>1. s \in QDIIType /\ s.level = None
    BY <1>0, <2>0 DEF QDIIType
  <2>2. ui' = Refresh(s)
    BY <1>7 DEF ReloadRadar
  <2> HIDE DEF s
  <2> QED
    BY <2>1, <2>2, RefreshKeeps
<1> QED
  BY <1>1, <1>2, <1>3, <1>4, <1>5, <1>6, <1>7 DEF QDIINext

LEMMA QDIITold == ASSUME QDIIOK(ui) PROVE QDIIItemsLive /\ QDIINeverStuck
  BY DEF QDIIOK, QDIIItemsLive, QDIINeverStuck

-----------------------------------------------------------------------------
(* The connection of the research lab *)

SocketType ==
    [enabled : BOOLEAN, connecting : BOOLEAN, asked : {0, 1}, socket : {None, "opening", "open", "closing"},
     others : {0}, timerRef : {None, "pending", "cleared"}, status : {"disconnected", "connecting", "connected"}]

\* While the session is asked for there is no socket, so the answer makes the only one.
SocketOK(s) ==
    /\ s \in SocketType
    /\ s.connecting <=> (s.asked = 1)
    /\ s.connecting => s.socket = None
    /\ s.socket \in {"opening", "open"} => s.enabled
    /\ s.status = "connected" => s.socket = "open"

LEMMA SocketKeeps ==
    ASSUME NEW s, SocketOK(s)
    PROVE  SocketOK(Connect(s)) /\ SocketOK(ScheduleReconnect(s))
<1>1. SocketOK(ScheduleReconnect(s))
  BY DEF SocketOK, SocketType, ScheduleReconnect
<1>2. CASE Connect(s) = s
  BY <1>1, <1>2
<1>3. CASE ~s.connecting /\ s.socket = None /\ Connect(s) # s
  <2>1. s.asked = 0 /\ s.asked + 1 = 1
    BY <1>3 DEF SocketOK, SocketType
  <2>2. Connect(s) = [s EXCEPT !.connecting = TRUE, !.asked = 1, !.status = "connecting"]
    BY <1>3, <2>1 DEF Connect
  <2>3. SocketOK(Connect(s))
    BY <1>3, <2>2 DEF SocketOK, SocketType
  <2> QED
    BY <1>1, <2>3
<1> QED
  BY <1>2, <1>3 DEF Connect

LEMMA SocketStarts == SocketInit => SocketOK(ui)
  BY DEF SocketInit, SocketOK, SocketType, None

LEMMA SocketSteps ==
    ASSUME SocketOK(ui), SocketNext
    PROVE  SocketOK(ui')
<1>1. CASE EnterLab
  <2>1. SocketOK([ui EXCEPT !.enabled = TRUE])
    BY DEF SocketOK, SocketType
  <2> QED
    BY <1>1, <2>1, SocketKeeps DEF EnterLab
<1>2. CASE LeaveLab
  BY <1>2 DEF LeaveLab, SocketOK, SocketType, None
<1>3. CASE Opened
  BY <1>3 DEF Opened, SocketOK, SocketType, None
<1>4. CASE Closed
  <2>1. SocketOK([ui EXCEPT !.socket = None, !.status = "disconnected"])
    BY DEF SocketOK, SocketType, None
  <2> QED
    BY <1>4, <2>1, SocketKeeps DEF Closed
<1>5. CASE ReconnectTimer
  <2>1. SocketOK([ui EXCEPT !.timerRef = None])
    BY DEF SocketOK, SocketType
  <2> QED
    BY <1>5, <2>1, SocketKeeps DEF ReconnectTimer
<1>6. ASSUME NEW authorized \in BOOLEAN, Authorized(authorized)
      PROVE  SocketOK(ui')
  <2> DEFINE s == [ui EXCEPT !.connecting = FALSE, !.asked = @ - 1]
  <2>1. SocketOK(s) /\ s.socket = None /\ ~s.connecting
    <3>1. ui.asked = 1 /\ ui.asked - 1 = 0
      BY <1>6 DEF Authorized, SocketOK, SocketType
    <3>2. s = [ui EXCEPT !.connecting = FALSE, !.asked = 0]
      BY <3>1
    <3> HIDE DEF s
    <3>3. ui \in SocketType /\ ui.connecting /\ ui.socket = None
      BY <3>1 DEF SocketOK, SocketType
    <3>4. s \in SocketType
      BY <3>2, <3>3 DEF SocketType
    <3>5. s.connecting = FALSE /\ s.asked = 0 /\ s.socket = None /\ s.status = ui.status
      BY <3>2, <3>3 DEF SocketType
    <3>6. ui.status # "connected"
      BY <3>3 DEF SocketOK, None
    <3> QED
      BY <3>4, <3>5, <3>6 DEF SocketOK, None
  <2>2. SocketOK([s EXCEPT !.status = "disconnected"])
    BY <2>1 DEF SocketOK, SocketType
  <2>3. s.enabled => SocketOK([s EXCEPT !.socket = "opening", !.others = IF s.socket = None THEN @ ELSE @ + 1])
    <3> HIDE DEF s
    <3> QED
      BY <2>1 DEF SocketOK, SocketType, None
  <2>4. \/ ui' = s \/ ui' = ScheduleReconnect([s EXCEPT !.status = "disconnected"])
        \/ s.enabled /\ ui' = [s EXCEPT !.socket = "opening", !.others = IF s.socket = None THEN @ ELSE @ + 1]
    BY <1>6 DEF Authorized
  <2> HIDE DEF s
  <2> QED
    BY <2>1, <2>2, <2>3, <2>4, SocketKeeps
<1> QED
  BY <1>1, <1>2, <1>3, <1>4, <1>5, <1>6 DEF SocketNext

LEMMA SocketTold == ASSUME SocketOK(ui) PROVE SocketSingle
  BY DEF SocketOK, SocketType, SocketSingle, None

-----------------------------------------------------------------------------
(* The chat of the copilot *)

Messages(facts) ==
    [role : {"assistant", "user"}, of : Questions \cup {None}, facts : facts, stray : BOOLEAN]

Trusted == {None, "trusted"}

\* An answer of the chat that was not cleared follows its question.
Paired(messages) ==
    \A k \in DOMAIN messages :
        messages[k].role = "assistant" /\ messages[k].of # None /\ ~messages[k].stray =>
            k > 1 /\ messages[k - 1].role = "user" /\ messages[k - 1].of = messages[k].of

CopilotType ==
    [messages : Seq(Messages(Trusted)), saved : Seq(Messages(Trusted)), loading : BOOLEAN,
     quotes : {"loading", "live", "hidden"}, bound : BOOLEAN, copied : BOOLEAN,
     flying : Seq(Requests({"chat", "quotes"}, Questions \cup {None}))]

\* One question waits at most, and the chat ends with it unless it was cleared.
OneQuestion(messages, loading, flying) ==
    /\ \A i \in DOMAIN flying : flying[i].what = "chat" =>
          /\ loading
          /\ \A j \in DOMAIN flying : flying[j].what = "chat" => j = i
          /\ flying[i].current =>
                /\ Len(messages) > 0 /\ messages[Len(messages)].role = "user"
                /\ messages[Len(messages)].of = flying[i].of
    /\ loading => Flying(flying, "chat") # {}

CopilotOK(s) ==
    /\ s \in CopilotType
    /\ Paired(s.messages)
    /\ s.saved = s.messages
    /\ OneQuestion(s.messages, s.loading, s.flying)
    /\ s.quotes = "loading" => Waiting(s.flying, "quotes")

LEMMA WelcomePaired ==
    <<Welcome>> \in Seq(Messages(Trusted)) /\ Paired(<<Welcome>>)
<1>1. Welcome \in Messages(Trusted) /\ Welcome.of = None
  BY DEF Welcome, Message, Messages, Trusted
<1> QED
  BY <1>1 DEF Paired

LEMMA RestoredPaired ==
    ASSUME NEW saved \in Seq(Messages({None, "trusted", "unchecked"})), Paired(saved)
    PROVE  Restored(saved) \in Seq(Messages(Trusted)) /\ Paired(Restored(saved))
<1>1. CASE saved = <<>>
  BY <1>1, WelcomePaired DEF Restored
<1>2. CASE saved # <<>>
  <2> DEFINE r(k) == [saved[k] EXCEPT !.facts = Normalized(@)]
             g == [k \in 1 .. Len(saved) |-> r(k)]
  <2>1. DOMAIN saved = 1 .. Len(saved) /\ Len(saved) \in Nat
    OBVIOUS
  <2>2. \A k \in 1 .. Len(saved) :
           /\ r(k) \in Messages(Trusted)
           /\ r(k).role = saved[k].role /\ r(k).of = saved[k].of /\ r(k).stray = saved[k].stray
    <3> TAKE k \in 1 .. Len(saved)
    <3>1. saved[k] \in Messages({None, "trusted", "unchecked"})
      BY <2>1
    <3>2. Normalized(saved[k].facts) \in Trusted
      BY DEF Normalized, Trusted
    <3> QED
      BY <3>1, <3>2 DEF Messages
  <2>3. Restored(saved) = g
    BY <1>2, <2>1, Zenon DEF Restored
  <2> HIDE DEF r
  <2>4. g \in Seq(Messages(Trusted)) /\ DOMAIN g = 1 .. Len(saved) /\ \A k \in 1 .. Len(saved) : g[k] = r(k)
    BY <2>1, <2>2
  <2> HIDE DEF g
  <2>5. Paired(g)
    <3> SUFFICES ASSUME NEW k \in 1 .. Len(saved),
                        g[k].role = "assistant", g[k].of # None, ~g[k].stray
                 PROVE  k > 1 /\ g[k - 1].role = "user" /\ g[k - 1].of = g[k].of
      BY <2>4 DEF Paired
    <3>1. k > 1 /\ saved[k - 1].role = "user" /\ saved[k - 1].of = saved[k].of
      BY <2>1, <2>2, <2>4 DEF Paired
    <3>2. k - 1 \in 1 .. Len(saved)
      BY <3>1, <2>1
    <3> QED
      BY <3>1, <3>2, <2>2, <2>4
  <2> QED
    BY <2>3, <2>4, <2>5
<1> QED
  BY <1>1, <1>2

\* The chat grows by a message: the pairs stay, if the message fits the last one.
LEMMA AppendPaired ==
    ASSUME NEW messages \in Seq(Messages(Trusted)), Paired(messages), NEW m \in Messages(Trusted),
           m.role = "assistant" /\ m.of # None /\ ~m.stray =>
               Len(messages) > 0 /\ messages[Len(messages)].role = "user" /\ messages[Len(messages)].of = m.of
    PROVE  Append(messages, m) \in Seq(Messages(Trusted)) /\ Paired(Append(messages, m))
<1> DEFINE g == Append(messages, m)
<1>1. /\ g \in Seq(Messages(Trusted)) /\ DOMAIN g = 1 .. Len(messages) + 1 /\ Len(messages) \in Nat
      /\ g[Len(messages) + 1] = m /\ \A k \in 1 .. Len(messages) : g[k] = messages[k]
  OBVIOUS
<1> HIDE DEF g
<1>2. ASSUME NEW k \in 1 .. Len(messages) + 1, g[k].role = "assistant", g[k].of # None, ~g[k].stray
      PROVE  k > 1 /\ g[k - 1].role = "user" /\ g[k - 1].of = g[k].of
  <2>1. CASE k = Len(messages) + 1
    <3>1. g[k] = m /\ k - 1 = Len(messages)
      BY <1>1, <2>1
    <3>2. Len(messages) > 0 /\ messages[Len(messages)].role = "user" /\ messages[Len(messages)].of = m.of
      BY <1>2, <3>1
    <3> QED
      BY <1>1, <3>1, <3>2, <2>1
  <2>2. CASE k \in 1 .. Len(messages)
    <3>1. g[k] = messages[k] /\ k \in DOMAIN messages
      BY <1>1, <2>2
    <3>2. k > 1 /\ messages[k - 1].role = "user" /\ messages[k - 1].of = messages[k].of
      BY <1>2, <3>1 DEF Paired
    <3>3. k - 1 \in 1 .. Len(messages)
      BY <1>1, <2>2, <3>2
    <3> QED
      BY <1>1, <3>1, <3>2, <3>3
  <2> QED
    BY <1>1, <2>1, <2>2
<1>3. Paired(g)
  BY <1>1, <1>2 DEF Paired
<1> QED
  BY <1>1, <1>3 DEF g

LEMMA OpenedKeeps ==
    ASSUME NEW s, s \in [messages : Seq(Messages(Trusted)), saved : Seq(Messages({None, "trusted", "unchecked"})), loading : BOOLEAN,
                         quotes : {"loading", "live", "hidden"}, bound : BOOLEAN, copied : BOOLEAN,
                         flying : Seq(Requests({"chat", "quotes"}, Questions \cup {None}))],
           Paired(s.saved)
    PROVE  CopilotOK(OpenedCopilot(s))
<1> DEFINE r == Restored(s.saved)
           f == Ask(<<>>, "quotes", None)
           Allowed == Requests({"chat", "quotes"}, Questions \cup {None})
<1>1. r \in Seq(Messages(Trusted)) /\ Paired(r)
  BY RestoredPaired
<1>3. f \in Seq(Allowed) /\ Waiting(f, "quotes") /\ \A i \in DOMAIN f : f[i].what = "quotes"
  <2>2. [what |-> "quotes", of |-> None, current |-> TRUE] \in Allowed
    BY DEF Requests
  <2> HIDE DEF Allowed
  <2>3. f \in Seq(Allowed) /\ DOMAIN f = 1 .. 1 /\ f[1] = [what |-> "quotes", of |-> None, current |-> TRUE]
    BY <2>2, AskFirst
  <2>5. Waiting(f, "quotes")
    BY AskFirst
  <2> QED
    BY <2>3, <2>5
<1>4. OpenedCopilot(s) = [s EXCEPT !.messages = r, !.saved = r, !.loading = FALSE, !.quotes = "loading",
                             !.bound = FALSE, !.copied = FALSE, !.flying = f]
  BY DEF OpenedCopilot, WithMessages
<1> HIDE DEF r, f
<1>5. /\ OpenedCopilot(s) \in CopilotType
      /\ OpenedCopilot(s).messages = r /\ OpenedCopilot(s).saved = r /\ OpenedCopilot(s).loading = FALSE
      /\ OpenedCopilot(s).quotes = "loading" /\ OpenedCopilot(s).flying = f
  BY <1>1, <1>3, <1>4 DEF CopilotType
<1>6. OneQuestion(r, FALSE, f)
  BY <1>3 DEF OneQuestion
<1> QED
  BY <1>1, <1>3, <1>5, <1>6 DEF CopilotOK

LEMMA CopilotStarts == CopilotInit => CopilotOK(ui)
<1> SUFFICES ASSUME CopilotInit PROVE CopilotOK(ui)
  OBVIOUS
<1> DEFINE Written == Messages({None, "trusted", "unchecked"})
<1>1. PICK saved \in {<<>>} \cup {<<Message("assistant", None, facts, FALSE)>> : facts \in {"trusted", "unchecked"}} :
         ui = OpenedCopilot([messages |-> <<>>, saved |-> saved, loading |-> FALSE, quotes |-> "loading",
                             bound |-> FALSE, copied |-> FALSE, flying |-> <<>>])
  BY Zenon DEF CopilotInit
<1>2. saved \in Seq(Written) /\ Paired(saved)
  <2>1. CASE saved = <<>>
    <3>1. <<>> \in Seq(Written) /\ DOMAIN <<>> = {}
      OBVIOUS
    <3> QED
      BY <2>1, <3>1 DEF Paired
  <2>2. ASSUME NEW facts \in {"trusted", "unchecked"}, saved = <<Message("assistant", None, facts, FALSE)>>
        PROVE  saved \in Seq(Written) /\ Paired(saved)
    <3> DEFINE m == Message("assistant", None, facts, FALSE)
    <3>1. m \in Written /\ m.of = None
      BY DEF Message, Messages
    <3> HIDE DEF m, Written
    <3>2. <<m>> \in Seq(Written) /\ DOMAIN <<m>> = {1} /\ <<m>>[1] = m
      BY <3>1
    <3>3. saved = <<m>>
      BY <2>2 DEF m
    <3> QED
      BY <3>1, <3>2, <3>3 DEF Paired
  <2> QED
    BY <2>1, <2>2
<1>3. <<>> \in Seq(Messages(Trusted)) /\ <<>> \in Seq(Requests({"chat", "quotes"}, Questions \cup {None}))
  OBVIOUS
<1> HIDE DEF Written
<1> DEFINE s == [messages |-> <<>>, saved |-> saved, loading |-> FALSE, quotes |-> "loading",
                 bound |-> FALSE, copied |-> FALSE, flying |-> <<>>]
<1>4. s \in [messages : Seq(Messages(Trusted)), saved : Seq(Messages({None, "trusted", "unchecked"})), loading : BOOLEAN,
             quotes : {"loading", "live", "hidden"}, bound : BOOLEAN, copied : BOOLEAN,
             flying : Seq(Requests({"chat", "quotes"}, Questions \cup {None}))]
  BY <1>2, <1>3 DEF Written
<1>5. s.saved = saved
  OBVIOUS
<1>6. ui = OpenedCopilot(s)
  BY <1>1
<1> HIDE DEF s
<1> QED
  BY <1>2, <1>4, <1>5, <1>6, OpenedKeeps

LEMMA CopilotSteps ==
    ASSUME CopilotOK(ui), CopilotNext
    PROVE  CopilotOK(ui')
<1> DEFINE Allowed == Requests({"chat", "quotes"}, Questions \cup {None})
           f == ui.flying
<1>0. /\ ui \in CopilotType /\ f \in Seq(Allowed) /\ Len(f) \in Nat /\ DOMAIN f = 1 .. Len(f)
      /\ ui.messages \in Seq(Messages(Trusted)) /\ Len(ui.messages) \in Nat /\ Paired(ui.messages)
      /\ OneQuestion(ui.messages, ui.loading, f)
      /\ ui.quotes = "loading" => Waiting(f, "quotes")
  <2>1. ui \in CopilotType /\ Paired(ui.messages) /\ OneQuestion(ui.messages, ui.loading, ui.flying)
        /\ (ui.quotes = "loading" => Waiting(ui.flying, "quotes"))
    BY DEF CopilotOK
  <2>2. ui.flying \in Seq(Allowed) /\ ui.messages \in Seq(Messages(Trusted))
    BY <2>1 DEF CopilotType
  <2> HIDE DEF Allowed
  <2>3. Len(f) \in Nat /\ DOMAIN f = 1 .. Len(f) /\ Len(ui.messages) \in Nat
    BY <2>2
  <2> QED
    BY <2>1, <2>2, <2>3
<1>1. ASSUME NEW question \in Questions, HandleSend(question)
      PROVE  CopilotOK(ui')
  <2> DEFINE m == Message("user", question, None, FALSE)
             g == Append(ui.messages, m)
             new == [what |-> "chat", of |-> question, current |-> TRUE]
             h == Append(f, new)
  <2>1. m \in Messages(Trusted) /\ m.role = "user" /\ m.of = question
    BY DEF Message, Messages, Trusted
  <2>2. g \in Seq(Messages(Trusted)) /\ Paired(g)
    <3> HIDE DEF m
    <3> QED
      BY <1>0, <2>1, AppendPaired
  <2>3. Len(g) = Len(ui.messages) + 1 /\ g[Len(g)] = m
    <3> HIDE DEF m
    <3> QED
      BY <1>0, <2>1
  <2>4. new \in Allowed /\ new.what = "chat" /\ new.of = question
    BY DEF Requests
  <2>5. ~ui.loading /\ ui' = [ui EXCEPT !.messages = g, !.saved = g, !.loading = TRUE, !.flying = h]
    BY <1>1 DEF HandleSend, WithMessages
  <2> HIDE DEF m, g, new, f, Allowed
  <2>6. h \in Seq(Allowed) /\ DOMAIN h = 1 .. Len(f) + 1 /\ h[Len(f) + 1] = new /\ \A i \in 1 .. Len(f) : h[i] = f[i]
    BY <1>0, <2>4
  <2> HIDE DEF h
  <2>7. OneQuestion(g, TRUE, h)
    <3>1. \A i \in 1 .. Len(f) : h[i].what # "chat"
      BY <1>0, <2>5, <2>6 DEF OneQuestion
    <3>2. Len(f) + 1 \in Flying(h, "chat")
      BY <1>0, <2>4, <2>6 DEF Flying
    <3>3. \A i \in DOMAIN h : h[i].what = "chat" => i = Len(f) + 1
      BY <1>0, <2>6, <3>1
    <3>4. Len(g) > 0 /\ g[Len(g)].role = "user" /\ g[Len(g)].of = h[Len(f) + 1].of
      BY <1>0, <2>1, <2>3, <2>4, <2>6
    <3> QED
      BY <3>2, <3>3, <3>4 DEF OneQuestion
  <2>8. ui.quotes = "loading" => Waiting(h, "quotes")
    <3>1. ASSUME NEW k \in DOMAIN f, f[k].what = "quotes", f[k].current
          PROVE  Waiting(h, "quotes")
      BY <1>0, <3>1, <2>6 DEF Waiting, Flying
    <3> QED
      BY <1>0, <3>1 DEF Waiting, Flying
  <2>9. /\ ui' \in CopilotType /\ ui'.messages = g /\ ui'.saved = g /\ ui'.loading = TRUE
        /\ ui'.quotes = ui.quotes /\ ui'.flying = h
    <3>1. h \in Seq(Requests({"chat", "quotes"}, Questions \cup {None}))
      BY <2>6 DEF Allowed
    <3> QED
      BY <1>0, <2>2, <3>1, <2>5 DEF CopilotType
  <2> QED
    BY <2>2, <2>7, <2>8, <2>9 DEF CopilotOK
<1>2. ASSUME NEW i \in DOMAIN ui.flying, NEW facts \in {None, "trusted", "unchecked"}, ChatAnswer(i, facts)
      PROVE  CopilotOK(ui')
  <2> DEFINE m == Message("assistant", f[i].of, Normalized(facts), ~f[i].current)
             g == Append(ui.messages, m)
             h == Answered(f, i)
  <2>1. f[i] \in Allowed /\ f[i].what = "chat"
    BY <1>0, <1>2 DEF ChatAnswer
  <2>2. m \in Messages(Trusted) /\ m.of = f[i].of /\ m.stray = ~f[i].current
    <3>1. Normalized(facts) \in Trusted
      BY DEF Normalized, Trusted
    <3>2. f[i].of \in Questions \cup {None}
      BY <2>1 DEF Requests
    <3>3. (~f[i].current) \in BOOLEAN
      OBVIOUS
    <3> HIDE DEF f, Allowed
    <3> QED
      BY <3>1, <3>2, <3>3 DEF Message, Messages
  <2>3. ui' = [ui EXCEPT !.messages = g, !.saved = g, !.loading = FALSE, !.flying = h]
    BY <1>2 DEF ChatAnswer, Taken, WithMessages
  <2> HIDE DEF m
  <2>4. ~m.stray => Len(ui.messages) > 0 /\ ui.messages[Len(ui.messages)].role = "user"
                    /\ ui.messages[Len(ui.messages)].of = m.of
    BY <1>0, <2>1, <2>2 DEF OneQuestion
  <2> HIDE DEF Allowed, f
  <2>5. g \in Seq(Messages(Trusted)) /\ Paired(g)
    BY <1>0, <2>2, <2>4, AppendPaired
  <2>6. i \in DOMAIN f
    BY DEF f
  <2>7. h \in Seq(Allowed)
    BY <1>0, <2>6, AnsweredIn
  <2>8. \A j \in DOMAIN h : h[j].what # "chat"
    <3> TAKE j \in DOMAIN h
    <3>1. j \in DOMAIN f /\ (j >= i => j + 1 \in DOMAIN f) /\ h[j] = IF j < i THEN f[j] ELSE f[j + 1]
      BY <1>0, <2>6, AnsweredIs
    <3>2. \A k \in DOMAIN f : f[k].what = "chat" => k = i
      BY <1>0, <2>1, <2>6 DEF OneQuestion
    <3> HIDE DEF h
    <3> QED
      BY <1>0, <2>6, <3>1, <3>2
  <2>9. ui.quotes = "loading" => Waiting(h, "quotes")
    BY <1>0, <2>1, <2>6, WaitingAnswered
  <2> HIDE DEF g, h
  <2>10. OneQuestion(g, FALSE, h)
    BY <2>8 DEF OneQuestion
  <2>11. /\ ui' \in CopilotType /\ ui'.messages = g /\ ui'.saved = g /\ ui'.loading = FALSE
         /\ ui'.quotes = ui.quotes /\ ui'.flying = h
    <3>1. h \in Seq(Requests({"chat", "quotes"}, Questions \cup {None}))
      BY <2>7 DEF Allowed
    <3> QED
      BY <1>0, <2>5, <3>1, <2>3 DEF CopilotType
  <2> QED
    BY <2>5, <2>9, <2>10, <2>11 DEF CopilotOK
<1>3. ASSUME NEW i \in DOMAIN ui.flying, NEW quotes \in {"live", "hidden"}, QuotesOfPopular(i, quotes)
      PROVE  CopilotOK(ui')
  <2> DEFINE h == Answered(f, i)
  <2>1. f[i].what = "quotes" /\ ui' = [ui EXCEPT !.quotes = quotes, !.flying = h]
    BY <1>3 DEF QuotesOfPopular, Taken
  <2>2. i \in DOMAIN f
    OBVIOUS
  <2> HIDE DEF f, Allowed
  <2>3. h \in Seq(Allowed)
    BY <1>0, <2>2, AnsweredIn
  <2>4. OneQuestion(ui.messages, ui.loading, h)
    <3>1. ASSUME NEW j \in DOMAIN h, h[j].what = "chat"
          PROVE  /\ ui.loading /\ \A k \in DOMAIN h : h[k].what = "chat" => k = j
                 /\ h[j].current => /\ Len(ui.messages) > 0 /\ ui.messages[Len(ui.messages)].role = "user"
                                    /\ ui.messages[Len(ui.messages)].of = h[j].of
      <4> DEFINE p(k) == IF k < i THEN k ELSE k + 1
      <4>1. \A k \in DOMAIN h : k \in Nat /\ p(k) \in DOMAIN f /\ h[k] = f[p(k)]
        <5>1. \A k \in DOMAIN h : k \in DOMAIN f /\ (k >= i => k + 1 \in DOMAIN f) /\ h[k] = IF k < i THEN f[k] ELSE f[k + 1]
          BY <1>0, <2>2, AnsweredIs
        <5> HIDE DEF h
        <5> QED
          BY <1>0, <2>2, <5>1
      <4>2. \A k \in DOMAIN f : f[k].what = "chat" =>
               /\ ui.loading /\ \A l \in DOMAIN f : f[l].what = "chat" => l = k
               /\ f[k].current => /\ Len(ui.messages) > 0 /\ ui.messages[Len(ui.messages)].role = "user"
                                  /\ ui.messages[Len(ui.messages)].of = f[k].of
        BY <1>0 DEF OneQuestion
      <4> HIDE DEF h, p
      <4>3. ASSUME NEW k \in DOMAIN h, h[k].what = "chat"
            PROVE  k = j
        <5>1. p(k) = p(j)
          BY <3>1, <4>1, <4>2, <4>3
        <5> QED
          BY <5>1, <4>1, <1>0, <2>2 DEF p
      <4> QED
        BY <3>1, <4>1, <4>2, <4>3
    <3>2. ui.loading => Flying(h, "chat") # {}
      <4>1. Flying(f, "chat") # {} => Flying(h, "chat") # {}
        BY <1>0, <2>1, <2>2, WaitingAnswered
      <4> QED
        BY <4>1, <1>0 DEF OneQuestion
    <3> HIDE DEF h
    <3> QED
      BY <3>1, <3>2 DEF OneQuestion
  <2> HIDE DEF h
  <2>5. /\ ui' \in CopilotType /\ ui'.messages = ui.messages /\ ui'.saved = ui.saved /\ ui'.loading = ui.loading
        /\ ui'.quotes = quotes /\ ui'.flying = h
    <3>1. h \in Seq(Requests({"chat", "quotes"}, Questions \cup {None}))
      BY <2>3 DEF Allowed
    <3> QED
      BY <1>0, <3>1, <2>1 DEF CopilotType
  <2>6. ui.saved = ui.messages
    BY DEF CopilotOK
  <2> QED
    BY <1>0, <2>4, <2>5, <2>6 DEF CopilotOK
<1>4. CASE HandleClearChat
  <2> DEFINE h == Superseded(f, "chat")
  <2>1. ui' = [ui EXCEPT !.messages = <<Welcome>>, !.saved = <<Welcome>>, !.flying = h]
    BY <1>4 DEF HandleClearChat, WithMessages
  <2>2. \A q \in Allowed : Outdated(q, "chat") \in Allowed
    BY DEF Outdated, Requests
  <2>3. \A i \in DOMAIN f : /\ Outdated(f[i], "chat").what = f[i].what
                            /\ f[i].what = "chat" => Outdated(f[i], "chat").current = FALSE
    <3> TAKE i \in DOMAIN f
    <3>1. f[i] \in Allowed
      BY <1>0
    <3> QED
      BY <3>1 DEF Outdated, Requests
  <2>7. Flying(f, "chat") # {} => Flying(h, "chat") # {}
    BY <1>0, FlyingLasts
  <2> HIDE DEF f, Allowed
  <2>4. h \in Seq(Allowed)
    BY <1>0, <2>2, SupersededIn
  <2>5. DOMAIN h = 1 .. Len(f) /\ \A i \in DOMAIN f : h[i] = Outdated(f[i], "chat")
    BY <1>0, SupersededIs
  <2>6. ui.quotes = "loading" => Waiting(h, "quotes")
    BY <1>0, WaitingSuperseded
  <2> HIDE DEF h
  <2>8. OneQuestion(<<Welcome>>, ui.loading, h)
    <3>1. \A i \in DOMAIN h : i \in DOMAIN f /\ h[i].what = f[i].what /\ (f[i].what = "chat" => ~h[i].current)
      BY <1>0, <2>3, <2>5
    <3> QED
      BY <1>0, <3>1, <2>7 DEF OneQuestion
  <2>9. /\ ui' \in CopilotType /\ ui'.messages = <<Welcome>> /\ ui'.saved = <<Welcome>> /\ ui'.loading = ui.loading
        /\ ui'.quotes = ui.quotes /\ ui'.flying = h
    <3>1. h \in Seq(Requests({"chat", "quotes"}, Questions \cup {None}))
      BY <2>4 DEF Allowed
    <3> DEFINE w == <<Welcome>>
    <3>2. w \in Seq(Messages(Trusted))
      BY WelcomePaired
    <3>3. ui' = [ui EXCEPT !.messages = w, !.saved = w, !.flying = h]
      BY <2>1
    <3> HIDE DEF w
    <3>4. /\ ui' \in CopilotType /\ ui'.messages = w /\ ui'.saved = w /\ ui'.loading = ui.loading
          /\ ui'.quotes = ui.quotes /\ ui'.flying = h
      BY <1>0, <3>1, <3>2, <3>3 DEF CopilotType
    <3> QED
      BY <3>4 DEF w
  <2> QED
    BY <2>6, <2>8, <2>9, WelcomePaired DEF CopilotOK
<1>5. CASE RevisitCopilot
  <2>1. /\ ui \in [messages : Seq(Messages(Trusted)), saved : Seq(Messages({None, "trusted", "unchecked"})), loading : BOOLEAN,
                   quotes : {"loading", "live", "hidden"}, bound : BOOLEAN, copied : BOOLEAN,
                   flying : Seq(Requests({"chat", "quotes"}, Questions \cup {None}))]
        /\ Paired(ui.saved)
    <3>1. ui.saved = ui.messages
      BY DEF CopilotOK
    <3>2. \A m \in Messages(Trusted) : m \in Messages({None, "trusted", "unchecked"})
      BY DEF Messages, Trusted
    <3>3. ui.saved \in Seq(Messages({None, "trusted", "unchecked"}))
      BY <1>0, <3>1, <3>2, SeqWider, Zenon
    <3> QED
      BY <1>0, <3>1, <3>3 DEF CopilotType
  <2> QED
    BY <1>5, <2>1, OpenedKeeps DEF RevisitCopilot
<1>6. CASE BindSymbol \/ CopyContent
  <2>1. /\ ui' \in CopilotType /\ ui'.messages = ui.messages /\ ui'.saved = ui.saved /\ ui'.loading = ui.loading
        /\ ui'.quotes = ui.quotes /\ ui'.flying = ui.flying
    BY <1>0, <1>6 DEF BindSymbol, CopyContent, CopilotType
  <2> QED
    BY <2>1 DEF CopilotOK
<1> QED
  BY <1>1, <1>2, <1>3, <1>4, <1>5, <1>6 DEF CopilotNext

LEMMA CopilotTold ==
    ASSUME CopilotOK(ui)
    PROVE  CopilotFactsTrusted /\ CopilotAnswersPaired /\ CopilotNeverStuck
<1>1. CopilotFactsTrusted
  <2>1. ui.messages \in Seq(Messages(Trusted))
    BY DEF CopilotOK, CopilotType
  <2>2. \A k \in DOMAIN ui.messages : ui.messages[k].facts \in Trusted
    <3> TAKE k \in DOMAIN ui.messages
    <3>1. ui.messages[k] \in Messages(Trusted)
      BY <2>1
    <3> QED
      BY <3>1 DEF Messages
  <2> QED
    BY <2>2 DEF CopilotFactsTrusted, Trusted
<1>2. CopilotAnswersPaired
  BY DEF CopilotOK, Paired, CopilotAnswersPaired
<1>3. CopilotNeverStuck
  BY DEF CopilotOK, OneQuestion, CopilotNeverStuck
<1> QED
  BY <1>1, <1>2, <1>3

-----------------------------------------------------------------------------
(* The cache of the heat map *)

PulseLoad == [region : PulseRegions, outcome : {"pending", "done", "failed"}, void : BOOLEAN]
PulseCaller == [on : Nat, wants : PulseRegions \cup {None}, late : BOOLEAN]

\* What a caller waits for, and what the cache holds, is a load.
CallerFits(caller, loads) ==
    caller.on # 0 =>
        /\ caller.on \in 1 .. Len(loads)
        /\ loads[caller.on].region = caller.wants
        /\ loads[caller.on].void => caller.late

KeptFits(cache, region, loads) ==
    cache # 0 =>
        /\ cache \in 1 .. Len(loads)
        /\ loads[cache].region = region /\ ~loads[cache].void /\ loads[cache].outcome # "failed"

PulseOK(s) ==
    /\ s \in [cache : Nat, cacheRegion : PulseRegions \cup {None}, young : BOOLEAN, loads : Seq(PulseLoad),
              callers : [PulseCallers -> PulseCaller]]
    /\ \A c \in PulseCallers : CallerFits(s.callers[c], s.loads)
    /\ KeptFits(s.cache, s.cacheRegion, s.loads)

LEMMA NoCallerFits ==
    NoCaller \in PulseCaller /\ \A loads : CallerFits(NoCaller, loads)
  BY DEF NoCaller, PulseCaller, CallerFits

LEMMA PulseStarts == PulseInit => PulseOK(ui)
<1> SUFFICES ASSUME PulseInit PROVE PulseOK(ui)
  OBVIOUS
<1> DEFINE callers == [c \in PulseCallers |-> NoCaller]
           loads == <<>>
<1>1. ui = [cache |-> 0, cacheRegion |-> None, young |-> FALSE, loads |-> loads, callers |-> callers]
  BY DEF PulseInit
<1>2. callers \in [PulseCallers -> PulseCaller] /\ \A c \in PulseCallers : CallerFits(callers[c], loads)
  BY NoCallerFits
<1>3. loads \in Seq(PulseLoad)
  OBVIOUS
<1> HIDE DEF callers, loads
<1> QED
  BY <1>1, <1>2, <1>3 DEF PulseOK, KeptFits

LEMMA PulseSteps ==
    ASSUME PulseOK(ui), PulseNext
    PROVE  PulseOK(ui')
<1>0. /\ ui \in [cache : Nat, cacheRegion : PulseRegions \cup {None}, young : BOOLEAN, loads : Seq(PulseLoad),
                 callers : [PulseCallers -> PulseCaller]]
      /\ ui.callers \in [PulseCallers -> PulseCaller] /\ ui.loads \in Seq(PulseLoad) /\ Len(ui.loads) \in Nat
      /\ \A c \in PulseCallers : CallerFits(ui.callers[c], ui.loads)
      /\ KeptFits(ui.cache, ui.cacheRegion, ui.loads)
  BY DEF PulseOK
<1>1. ASSUME NEW c \in PulseCallers, NEW region \in PulseRegions, LoadPulse(c, region)
      PROVE  PulseOK(ui')
  <2>1. CASE ui.cache # 0 /\ ui.cacheRegion = region /\ ui.young
    <3> DEFINE new == [on |-> ui.cache, wants |-> region, late |-> FALSE]
               callers == [ui.callers EXCEPT ![c] = new]
    <3>1. new \in PulseCaller /\ CallerFits(new, ui.loads)
      BY <1>0, <2>1 DEF PulseCaller, CallerFits, KeptFits
    <3>2. ui' = [ui EXCEPT !.callers = callers]
      BY <1>0, <1>1, <2>1 DEF LoadPulse
    <3> HIDE DEF new
    <3>3. callers \in [PulseCallers -> PulseCaller] /\ \A d \in PulseCallers : CallerFits(callers[d], ui.loads)
      BY <1>0, <3>1
    <3> HIDE DEF callers
    <3> QED
      BY <1>0, <3>2, <3>3 DEF PulseOK
  <2>2. CASE ~(ui.cache # 0 /\ ui.cacheRegion = region /\ ui.young)
    <3> DEFINE n == Len(ui.loads) + 1
               load == [region |-> region, outcome |-> "pending", void |-> FALSE]
               new == [on |-> n, wants |-> region, late |-> FALSE]
               loads == Append(ui.loads, load)
               callers == [ui.callers EXCEPT ![c] = new]
    <3>1. ui' = [ui EXCEPT !.loads = loads, !.cache = n, !.cacheRegion = region, !.young = TRUE, !.callers = callers]
      <4>1. ui' = [ui EXCEPT !.loads = Append(@, load), !.cache = n, !.cacheRegion = region, !.young = TRUE,
                             !.callers[c] = new]
        BY <1>1, <2>2, Zenon DEF LoadPulse
      <4> HIDE DEF load, n, new
      <4> QED
        BY <1>0, <4>1
    <3>2. load \in PulseLoad /\ load.region = region /\ load.outcome = "pending" /\ ~load.void
      BY DEF PulseLoad
    <3>3. new \in PulseCaller /\ new.on = n /\ new.wants = region
      BY <1>0 DEF PulseCaller
    <3> HIDE DEF load, new
    <3>4. /\ loads \in Seq(PulseLoad) /\ Len(loads) = n /\ loads[n] = load
          /\ \A k \in 1 .. Len(ui.loads) : loads[k] = ui.loads[k]
      BY <1>0, <3>2
    <3>5. n \in Nat /\ n > 0 /\ \A k \in 1 .. Len(ui.loads) : k \in 1 .. n
      BY <1>0
    <3> HIDE DEF n, loads
    <3>6. CallerFits(new, loads)
      BY <3>2, <3>3, <3>4, <3>5 DEF CallerFits
    <3>7. \A d \in PulseCallers : CallerFits(ui.callers[d], loads)
      BY <1>0, <3>4, <3>5 DEF CallerFits
    <3>8. callers \in [PulseCallers -> PulseCaller] /\ \A d \in PulseCallers : CallerFits(callers[d], loads)
      BY <1>0, <3>3, <3>6, <3>7
    <3>9. KeptFits(n, region, loads)
      BY <3>2, <3>4, <3>5 DEF KeptFits
    <3> HIDE DEF callers
    <3>10. ui' \in [cache : Nat, cacheRegion : PulseRegions \cup {None}, young : BOOLEAN, loads : Seq(PulseLoad),
                    callers : [PulseCallers -> PulseCaller]]
           /\ ui'.callers = callers /\ ui'.loads = loads /\ ui'.cache = n /\ ui'.cacheRegion = region
      BY <1>0, <3>1, <3>4, <3>5, <3>8
    <3> QED
      BY <3>8, <3>9, <3>10 DEF PulseOK
  <2> QED
    BY <2>1, <2>2
<1>2. ASSUME NEW c \in PulseCallers, PulseReturned(c)
      PROVE  PulseOK(ui')
  <2> DEFINE callers == [ui.callers EXCEPT ![c] = NoCaller]
  <2>1. ui' = [ui EXCEPT !.callers = callers]
    BY <1>0, <1>2 DEF PulseReturned
  <2>2. callers \in [PulseCallers -> PulseCaller] /\ \A d \in PulseCallers : CallerFits(callers[d], ui.loads)
    BY <1>0, NoCallerFits
  <2> HIDE DEF callers
  <2> QED
    BY <1>0, <2>1, <2>2 DEF PulseOK
<1>3. ASSUME NEW n \in DOMAIN ui.loads, PulseLoaded(n) \/ PulseLoadFailed(n)
      PROVE  PulseOK(ui')
  <2> DEFINE with(outcome) == [ui.loads[n] EXCEPT !.outcome = outcome]
             loads(outcome) == [ui.loads EXCEPT ![n] = with(outcome)]
  <2>0. DOMAIN ui.loads = 1 .. Len(ui.loads) /\ ui.loads[n] \in PulseLoad
    BY <1>0
  <2>1. \A outcome \in {"done", "failed"} :
           /\ with(outcome) \in PulseLoad /\ with(outcome).region = ui.loads[n].region
           /\ with(outcome).void = ui.loads[n].void /\ with(outcome).outcome = outcome
    BY <2>0 DEF PulseLoad
  <2>2. /\ PulseLoaded(n) => ui' = [ui EXCEPT !.loads = loads("done")]
        /\ PulseLoadFailed(n) =>
              ui' = [ui EXCEPT !.loads = loads("failed"), !.cache = IF @ = n THEN 0 ELSE @, !.young = @ /\ ui.cache # n]
    <3>1. ASSUME PulseLoaded(n)
          PROVE  ui' = [ui EXCEPT !.loads = loads("done")]
      BY <1>0, <3>1 DEF PulseLoaded
    <3>2. ASSUME PulseLoadFailed(n)
          PROVE  ui' = [ui EXCEPT !.loads = loads("failed"), !.cache = IF @ = n THEN 0 ELSE @, !.young = @ /\ ui.cache # n]
      BY <1>0, <3>2 DEF PulseLoadFailed
    <3> QED
      BY <3>1, <3>2
  <2> HIDE DEF with
  <2>3. \A outcome \in {"done", "failed"} :
           /\ loads(outcome) \in Seq(PulseLoad) /\ Len(loads(outcome)) = Len(ui.loads)
           /\ \A m \in 1 .. Len(ui.loads) :
                 loads(outcome)[m] = IF m = n THEN with(outcome) ELSE ui.loads[m]
    BY <1>0, <2>0, <2>1
  <2> HIDE DEF loads
  <2>4. \A outcome \in {"done", "failed"} : \A d \in PulseCallers : CallerFits(ui.callers[d], loads(outcome))
    <3>1. \A outcome \in {"done", "failed"} : \A m \in 1 .. Len(ui.loads) :
             loads(outcome)[m].region = ui.loads[m].region /\ loads(outcome)[m].void = ui.loads[m].void
      BY <2>0, <2>1, <2>3
    <3> TAKE outcome \in {"done", "failed"}
    <3> TAKE d \in PulseCallers
    <3>2. CallerFits(ui.callers[d], ui.loads) /\ Len(loads(outcome)) = Len(ui.loads)
      BY <1>0, <2>3
    <3> QED
      BY <3>1, <3>2 DEF CallerFits
  <2>5. KeptFits(ui.cache, ui.cacheRegion, loads("done"))
    BY <1>0, <2>0, <2>1, <2>3 DEF KeptFits
  <2>6. KeptFits(IF ui.cache = n THEN 0 ELSE ui.cache, ui.cacheRegion, loads("failed"))
    BY <1>0, <2>0, <2>1, <2>3 DEF KeptFits
  <2>7. CASE PulseLoaded(n)
    BY <1>0, <2>2, <2>3, <2>4, <2>5, <2>7 DEF PulseOK
  <2>8. CASE PulseLoadFailed(n)
    <3> DEFINE cache == IF ui.cache = n THEN 0 ELSE ui.cache
               young == ui.young /\ ui.cache # n
    <3>1. cache \in Nat /\ young \in BOOLEAN
      BY <1>0
    <3>2. ui' = [ui EXCEPT !.loads = loads("failed"), !.cache = cache, !.young = young]
      BY <2>2, <2>8
    <3>3. KeptFits(cache, ui.cacheRegion, loads("failed"))
      BY <2>6
    <3> HIDE DEF cache, young
    <3> QED
      BY <1>0, <2>3, <2>4, <3>1, <3>2, <3>3 DEF PulseOK
  <2> QED
    BY <1>3, <2>7, <2>8
<1>4. CASE InvalidatePulse
  <2> DEFINE void(n) == [ui.loads[n] EXCEPT !.void = TRUE]
             late(c) == [ui.callers[c] EXCEPT !.late = TRUE]
             loads == [n \in 1 .. Len(ui.loads) |-> void(n)]
             callers == [c \in PulseCallers |-> late(c)]
  <2>1. \A n \in 1 .. Len(ui.loads) : void(n) \in PulseLoad /\ void(n).region = ui.loads[n].region
    <3> TAKE n \in 1 .. Len(ui.loads)
    <3>1. ui.loads[n] \in PulseLoad
      BY <1>0
    <3> QED
      BY <3>1 DEF PulseLoad
  <2>2. \A c \in PulseCallers : /\ late(c) \in PulseCaller /\ late(c).on = ui.callers[c].on
                                /\ late(c).wants = ui.callers[c].wants /\ late(c).late
    <3> TAKE c \in PulseCallers
    <3>1. ui.callers[c] \in PulseCaller
      BY <1>0
    <3> QED
      BY <3>1 DEF PulseCaller
  <2>3. ui' = [ui EXCEPT !.cache = 0, !.young = FALSE, !.loads = loads, !.callers = callers]
    <3>1. DOMAIN ui.loads = 1 .. Len(ui.loads)
      BY <1>0
    <3> QED
      BY <1>4, <3>1 DEF InvalidatePulse
  <2> HIDE DEF void, late
  <2>4. loads \in Seq(PulseLoad) /\ Len(loads) = Len(ui.loads) /\ \A n \in 1 .. Len(ui.loads) : loads[n] = void(n)
    BY <1>0, <2>1
  <2>5. callers \in [PulseCallers -> PulseCaller] /\ \A c \in PulseCallers : callers[c] = late(c)
    BY <2>2
  <2> HIDE DEF loads, callers
  <2>6. \A c \in PulseCallers : CallerFits(callers[c], loads)
    BY <1>0, <2>1, <2>2, <2>4, <2>5 DEF CallerFits
  <2>7. KeptFits(0, ui.cacheRegion, loads)
    BY DEF KeptFits
  <2> QED
    BY <1>0, <2>3, <2>4, <2>5, <2>6, <2>7 DEF PulseOK
<1>5. CASE PulseExpired
  BY <1>0, <1>5 DEF PulseExpired, PulseOK
<1> QED
  BY <1>1, <1>2, <1>3, <1>4, <1>5 DEF PulseNext

LEMMA PulseTold == ASSUME PulseOK(ui) PROVE PulseCacheFresh
  BY DEF PulseOK, CallerFits, KeptFits, PulseCacheFresh

-----------------------------------------------------------------------------
(* The journal of trades *)

JournalRequests == [what : {"post", "trades", "stats"}, of : SUBSET Trades, current : BOOLEAN]

JournalType ==
    [form : [symbol : BOOLEAN, trade : Trades \cup {None}], saving : BOOLEAN, saveError : BOOLEAN,
     last : Trades \cup {None}, stored : SUBSET Trades, listed : SUBSET Trades, counted : SUBSET Trades,
     statistics : BOOLEAN, tradesError : BOOLEAN, statsError : BOOLEAN, flying : Seq(JournalRequests)]

\* The form waits for its trade alone, or for the lists after it.
FormWaits(flying, saving) ==
    /\ \A i \in DOMAIN flying : flying[i].current =>
          /\ saving
          /\ flying[i].what = "post" => \A j \in DOMAIN flying : flying[j].current => j = i
    /\ saving => \E i \in DOMAIN flying : flying[i].current

\* A trade that is not stored is on its way, or its failure is told.
TradeKnown(last, stored, saveError, flying) ==
    last # None /\ last \notin stored /\ ~saveError =>
        \E i \in DOMAIN flying : flying[i].what = "post" /\ flying[i].current /\ flying[i].of = {last}

JournalOK(s) ==
    /\ s \in JournalType
    /\ FormWaits(s.flying, s.saving)
    /\ TradeKnown(s.last, s.stored, s.saveError, s.flying)

\* The two requests that FetchTrades appends.
LEMMA FetchedIs ==
    ASSUME NEW S, NEW f \in Seq(S), NEW a, NEW b
    PROVE  /\ DOMAIN (f \o <<a, b>>) = 1 .. Len(f) + 2
           /\ (f \o <<a, b>>)[Len(f) + 1] = a /\ (f \o <<a, b>>)[Len(f) + 2] = b
           /\ \A i \in 1 .. Len(f) : (f \o <<a, b>>)[i] = f[i]
           /\ a \in S /\ b \in S => f \o <<a, b>> \in Seq(S)
<1> DEFINE T == S \cup {a, b}
<1>1. f \in Seq(T) /\ <<a, b>> \in Seq(T) /\ Len(<<a, b>>) = 2 /\ Len(f) \in Nat
  OBVIOUS
<1>2. <<a, b>>[1] = a /\ <<a, b>>[2] = b
  OBVIOUS
<1>3. a \in S /\ b \in S => <<a, b>> \in Seq(S)
  OBVIOUS
<1> DEFINE p == <<a, b>>
<1> HIDE DEF T, p
<1>4. /\ DOMAIN (f \o p) = 1 .. Len(f) + 2
      /\ (f \o p)[Len(f) + 1] = p[1] /\ (f \o p)[Len(f) + 2] = p[2]
      /\ \A i \in 1 .. Len(f) : (f \o p)[i] = f[i]
      /\ p \in Seq(S) => f \o p \in Seq(S)
  BY <1>1 DEF p
<1> QED
  BY <1>2, <1>3, <1>4 DEF p

LEMMA FetchTradesKeeps ==
    ASSUME NEW s, s \in JournalType, FormWaits(s.flying, s.saving), TradeKnown(s.last, s.stored, s.saveError, s.flying)
    PROVE  JournalOK(FetchTrades(s, FALSE))
<1> DEFINE a == [what |-> "trades", of |-> s.stored, current |-> FALSE]
           b == [what |-> "stats", of |-> s.stored, current |-> FALSE]
           f == s.flying
           g == f \o <<a, b>>
<1>1. a \in JournalRequests /\ b \in JournalRequests /\ ~a.current /\ ~b.current
  BY DEF JournalType, JournalRequests
<1>2. f \in Seq(JournalRequests) /\ Len(f) \in Nat /\ DOMAIN f = 1 .. Len(f)
  BY DEF JournalType
<1>3. FetchTrades(s, FALSE) = [s EXCEPT !.tradesError = FALSE, !.statsError = FALSE, !.flying = g]
  BY DEF FetchTrades
<1> HIDE DEF a, b, f
<1>4. /\ g \in Seq(JournalRequests) /\ DOMAIN g = 1 .. Len(f) + 2
      /\ g[Len(f) + 1] = a /\ g[Len(f) + 2] = b /\ \A i \in 1 .. Len(f) : g[i] = f[i]
  BY <1>1, <1>2, FetchedIs
<1> HIDE DEF g
<1>5. \A i \in DOMAIN g : g[i].current => i \in DOMAIN f /\ g[i] = f[i]
  BY <1>1, <1>2, <1>4
<1>6. \A i \in DOMAIN f : i \in DOMAIN g /\ g[i] = f[i]
  BY <1>2, <1>4
<1>7. FormWaits(g, s.saving)
  <2>1. FormWaits(f, s.saving)
    BY DEF f
  <2> QED
    BY <1>5, <1>6, <2>1 DEF FormWaits
<1>8. TradeKnown(s.last, s.stored, s.saveError, g)
  <2>1. TradeKnown(s.last, s.stored, s.saveError, f)
    BY DEF f
  <2> QED
    BY <1>6, <2>1 DEF TradeKnown
<1> QED
  BY <1>3, <1>4, <1>7, <1>8 DEF JournalOK, JournalType

LEMMA OpenedJournalKeeps ==
    ASSUME NEW s, s \in JournalType, NEW symbol \in BOOLEAN
    PROVE  JournalOK(OpenedJournal(s, symbol))
<1> DEFINE f == s.flying
           left(i) == [f[i] EXCEPT !.current = FALSE]
           g == [i \in DOMAIN f |-> left(i)]
           t == [s EXCEPT !.form = [symbol |-> symbol, trade |-> None], !.saving = FALSE, !.saveError = FALSE,
                          !.last = None, !.flying = g]
<1>1. f \in Seq(JournalRequests) /\ Len(f) \in Nat /\ DOMAIN f = 1 .. Len(f)
  BY DEF JournalType
<1>2. \A i \in DOMAIN f : left(i) \in JournalRequests /\ ~left(i).current
  <2> TAKE i \in DOMAIN f
  <2>1. f[i] \in JournalRequests
    BY <1>1
  <2> QED
    BY <2>1 DEF JournalRequests
<1>3. OpenedJournal(s, symbol) = FetchTrades(t, FALSE)
  BY DEF OpenedJournal
<1> HIDE DEF left
<1>4. g \in Seq(JournalRequests) /\ DOMAIN g = DOMAIN f /\ \A i \in DOMAIN f : g[i] = left(i)
  BY <1>1, <1>2
<1> DEFINE form == [symbol |-> symbol, trade |-> None]
<1>5. form \in [symbol : BOOLEAN, trade : Trades \cup {None}]
  OBVIOUS
<1>6. t = [s EXCEPT !.form = form, !.saving = FALSE, !.saveError = FALSE, !.last = None, !.flying = g]
  OBVIOUS
<1> HIDE DEF g, t, form
<1>7. t \in JournalType /\ t.flying = g /\ t.last = None /\ t.saving = FALSE
  BY <1>4, <1>5, <1>6 DEF JournalType
<1>8. FormWaits(g, FALSE) /\ TradeKnown(None, t.stored, t.saveError, g)
  BY <1>2, <1>4 DEF FormWaits, TradeKnown
<1> QED
  BY <1>3, <1>7, <1>8, FetchTradesKeeps

LEMMA JournalStarts == JournalInit => JournalOK(ui)
<1> DEFINE f == <<>>
           form == [symbol |-> FALSE, trade |-> None]
           s == [form |-> form, saving |-> FALSE, saveError |-> FALSE,
                 last |-> None, stored |-> {}, listed |-> {}, counted |-> {}, statistics |-> FALSE,
                 tradesError |-> FALSE, statsError |-> FALSE, flying |-> f]
<1>1. f \in Seq(JournalRequests)
  OBVIOUS
<1>2. form \in [symbol : BOOLEAN, trade : Trades \cup {None}]
  OBVIOUS
<1>3. JournalInit => \E symbol \in BOOLEAN : ui = OpenedJournal(s, symbol)
  BY DEF JournalInit
<1> HIDE DEF f, form
<1>4. s \in JournalType
  BY <1>1, <1>2 DEF JournalType
<1> HIDE DEF s
<1> QED
  BY <1>3, <1>4, OpenedJournalKeeps

LEMMA JournalSteps ==
    ASSUME JournalOK(ui), JournalNext
    PROVE  JournalOK(ui')
<1> DEFINE f == ui.flying
<1>0. /\ ui \in JournalType /\ f \in Seq(JournalRequests) /\ Len(f) \in Nat /\ DOMAIN f = 1 .. Len(f)
      /\ FormWaits(f, ui.saving) /\ TradeKnown(ui.last, ui.stored, ui.saveError, f)
  BY DEF JournalOK, JournalType
<1>1. CASE RevisitJournal
  BY <1>0, <1>1, OpenedJournalKeeps DEF RevisitJournal
<1>2. CASE RetryJournal
  BY <1>0, <1>2, FetchTradesKeeps DEF RetryJournal
<1>3. ASSUME NEW trade \in Trades, EnterTrade(trade)
      PROVE  JournalOK(ui')
  <2> DEFINE form == [symbol |-> TRUE, trade |-> trade]
  <2>1. form \in [symbol : BOOLEAN, trade : Trades \cup {None}]
    OBVIOUS
  <2>2. ui' = [ui EXCEPT !.form = form]
    BY <1>3 DEF EnterTrade
  <2> HIDE DEF form
  <2> QED
    BY <1>0, <2>1, <2>2 DEF JournalOK, JournalType
<1>4. CASE SubmitTrade
  <2> DEFINE new == [what |-> "post", of |-> {ui.form.trade}, current |-> TRUE]
             g == Append(f, new)
  <2>1. ~ui.saving /\ ui.form.trade # None /\ ui.form.trade \in Trades
    BY <1>0, <1>4 DEF SubmitTrade, JournalType
  <2>2. new \in JournalRequests /\ new.what = "post" /\ new.of = {ui.form.trade} /\ new.current
    BY <2>1 DEF JournalRequests
  <2>3. ui' = [ui EXCEPT !.saving = TRUE, !.saveError = FALSE, !.last = ui.form.trade, !.flying = g]
    BY <1>4 DEF SubmitTrade
  <2> HIDE DEF f, new
  <2>4. g \in Seq(JournalRequests) /\ DOMAIN g = 1 .. Len(f) + 1 /\ g[Len(f) + 1] = new /\ \A i \in 1 .. Len(f) : g[i] = f[i]
    BY <1>0, <2>2
  <2> HIDE DEF g
  <2>5. \A i \in DOMAIN g : g[i].current => i = Len(f) + 1
    BY <1>0, <2>1, <2>4 DEF FormWaits
  <2>6. FormWaits(g, TRUE)
    BY <1>0, <2>2, <2>4, <2>5 DEF FormWaits
  <2>7. TradeKnown(ui.form.trade, ui.stored, FALSE, g)
    BY <1>0, <2>2, <2>4 DEF TradeKnown
  <2>8. /\ ui' \in JournalType /\ ui'.flying = g /\ ui'.saving = TRUE /\ ui'.last = ui.form.trade
        /\ ui'.stored = ui.stored /\ ui'.saveError = FALSE
    BY <1>0, <2>1, <2>3, <2>4 DEF JournalType
  <2> QED
    BY <2>6, <2>7, <2>8 DEF JournalOK
<1>5. ASSUME NEW i \in DOMAIN ui.flying, NEW ok \in BOOLEAN,
             TradePosted(i) \/ TradeNotPosted(i, ok) \/ TradesAnswer(i, ok) \/ StatsAnswer(i, ok)
      PROVE  JournalOK(ui')
  <2> DEFINE h == Answered(f, i)
  <2>0. i \in DOMAIN f /\ f[i] \in JournalRequests
    BY <1>0
  <2>1. h \in Seq(JournalRequests)
    BY <1>0, <2>0, AnsweredIn
  <2>2. /\ \A j \in DOMAIN h : \E k \in DOMAIN f \ {i} : h[j] = f[k]
        /\ \A k \in DOMAIN f \ {i} : \E j \in DOMAIN h : h[j] = f[k]
        /\ \A j, k \in DOMAIN h : j # k => \E l, m \in DOMAIN f \ {i} : l # m /\ h[j] = f[l] /\ h[k] = f[m]
    <3>1. f \in Seq(JournalRequests)
      BY <1>0
    <3> HIDE DEF f
    <3> QED
      BY <2>0, <3>1, OthersStay
  <2>3. \* whoever does not wait leaves the others as they are
        ~f[i].current => FormWaits(h, ui.saving) /\ TradeKnown(ui.last, ui.stored, ui.saveError, h)
    <3> HIDE DEF h, f
    <3> SUFFICES ASSUME ~f[i].current PROVE FormWaits(h, ui.saving) /\ TradeKnown(ui.last, ui.stored, ui.saveError, h)
      OBVIOUS
    <3>1. \A j \in DOMAIN h : h[j].current => ui.saving
      BY <1>0, <2>2 DEF FormWaits
    <3>2. \A j, k \in DOMAIN h : h[j].current /\ h[j].what = "post" /\ h[k].current => k = j
      <4>1. \A l, m \in DOMAIN f : f[l].current /\ f[l].what = "post" /\ f[m].current => m = l
        BY <1>0 DEF FormWaits
      <4> SUFFICES ASSUME NEW j \in DOMAIN h, NEW k \in DOMAIN h, h[j].current, h[j].what = "post", h[k].current, j # k
                   PROVE  FALSE
        OBVIOUS
      <4>2. PICK l \in DOMAIN f, m \in DOMAIN f : l # m /\ h[j] = f[l] /\ h[k] = f[m]
        BY <2>2
      <4> QED
        BY <4>1, <4>2
    <3>3. ui.saving => \E j \in DOMAIN h : h[j].current
      BY <1>0, <2>2 DEF FormWaits
    <3>4. TradeKnown(ui.last, ui.stored, ui.saveError, h)
      BY <1>0, <2>2 DEF TradeKnown
    <3> QED
      BY <3>1, <3>2, <3>3, <3>4 DEF FormWaits
  <2>4. \* while a trade is waited for, nothing else is
        f[i].current /\ f[i].what = "post" => \A j \in DOMAIN h : ~h[j].current
    <3> HIDE DEF h, f
    <3> QED
      BY <1>0, <2>0, <2>2 DEF FormWaits
  <2>5. CASE TradePosted(i)
    <3> DEFINE stored == ui.stored \cup f[i].of
               cur == f[i].current
               a == [what |-> "trades", of |-> stored, current |-> cur]
               b == [what |-> "stats", of |-> stored, current |-> cur]
               g == f \o <<a, b>>
               h2 == Answered(g, i)
    <3>1. stored \in SUBSET Trades /\ cur \in BOOLEAN /\ f[i].what = "post"
      BY <1>0, <2>0, <2>5 DEF JournalType, JournalRequests, TradePosted
    <3>2. ui' = [ui EXCEPT !.stored = stored, !.tradesError = FALSE, !.statsError = FALSE, !.flying = h2]
      <4> DEFINE s == [ui EXCEPT !.stored = stored]
      <4>1. ui' = [FetchTrades(s, cur) EXCEPT !.flying = Answered(@, i)]
        BY <2>5 DEF TradePosted, Taken
      <4>2. s.stored = stored /\ s.flying = f
        BY <1>0 DEF JournalType
      <4>3. FetchTrades(s, cur) = [s EXCEPT !.tradesError = FALSE, !.statsError = FALSE, !.flying = g]
        BY <4>2, Zenon DEF FetchTrades
      <4> HIDE DEF g, cur
      <4>4. FetchTrades(s, cur).flying = g
        BY <1>0, <4>3 DEF JournalType
      <4> QED
        BY <4>1, <4>3, <4>4
    <3> HIDE DEF stored, cur
    <3>3. /\ a \in JournalRequests /\ a.what # "post" /\ a.current = cur
          /\ b \in JournalRequests /\ b.what # "post" /\ b.current = cur
      BY <3>1 DEF JournalRequests
    <3> HIDE DEF a, b, f
    <3>4. /\ g \in Seq(JournalRequests) /\ DOMAIN g = 1 .. Len(f) + 2
          /\ g[Len(f) + 1] = a /\ g[Len(f) + 2] = b /\ \A j \in 1 .. Len(f) : g[j] = f[j]
      BY <1>0, <3>3, FetchedIs
    <3>5. i \in DOMAIN g
      BY <1>0, <2>0, <3>4
    <3> HIDE DEF g
    <3>6. h2 \in Seq(JournalRequests)
      BY <3>4, <3>5, AnsweredIn
    <3>7. /\ \A j \in DOMAIN h2 : \E k \in DOMAIN g \ {i} : h2[j] = g[k]
          /\ \A k \in DOMAIN g \ {i} : \E j \in DOMAIN h2 : h2[j] = g[k]
          /\ \A j, k \in DOMAIN h2 : j # k => \E l, m \in DOMAIN g \ {i} : l # m /\ h2[j] = g[l] /\ h2[k] = g[m]
      <4>1. g \in Seq(JournalRequests)
        BY <3>4
      <4> QED
        BY <4>1, <3>5, OthersStay
    <3> HIDE DEF h2, h
    <3>8. \A k \in DOMAIN g \ {i} : \/ k \in DOMAIN f \ {i} /\ g[k] = f[k]
                                    \/ g[k].what # "post" /\ g[k].current = cur
      BY <1>0, <3>3, <3>4
    <3>9. \A k \in DOMAIN f \ {i} : k \in DOMAIN g \ {i} /\ g[k] = f[k]
      BY <1>0, <3>4
    <3>10. cur => ui.saving
      BY <1>0, <2>0 DEF FormWaits, cur
    <3>11. \A k \in DOMAIN g \ {i} : g[k].current => ui.saving
      BY <1>0, <3>8, <3>10 DEF FormWaits
    <3>12. \A k, l \in DOMAIN g \ {i} : g[k].current /\ g[k].what = "post" /\ g[l].current => k = l
      <4> TAKE k, l \in DOMAIN g \ {i}
      <4> SUFFICES ASSUME g[k].current, g[k].what = "post", g[l].current PROVE k = l
        OBVIOUS
      <4>1. k \in DOMAIN f \ {i} /\ g[k] = f[k]
        BY <3>8
      <4>2. ~cur
        BY <1>0, <2>0, <3>1, <4>1 DEF FormWaits, cur
      <4>3. l \in DOMAIN f \ {i} /\ g[l] = f[l]
        BY <3>8, <4>2
      <4> QED
        BY <1>0, <4>1, <4>3 DEF FormWaits
    <3>13. ui.saving => \E k \in DOMAIN g \ {i} : g[k].current
      <4> SUFFICES ASSUME ui.saving PROVE \E k \in DOMAIN g \ {i} : g[k].current
        OBVIOUS
      <4>1. CASE cur
        <5>1. Len(f) + 1 \in DOMAIN g \ {i}
          BY <1>0, <2>0, <3>4
        <5> QED
          BY <4>1, <5>1, <3>3, <3>4
      <4>2. CASE ~cur
        BY <1>0, <2>0, <3>9, <4>2 DEF FormWaits, cur
      <4> QED
        BY <4>1, <4>2
    <3>14. FormWaits(h2, ui.saving)
      <4>1. \A j \in DOMAIN h2 : h2[j].current => ui.saving
        BY <3>7, <3>11
      <4>2. \A j, k \in DOMAIN h2 : h2[j].current /\ h2[j].what = "post" /\ h2[k].current => k = j
        BY <3>7, <3>12
      <4>3. ui.saving => \E j \in DOMAIN h2 : h2[j].current
        BY <3>7, <3>13
      <4> QED
        BY <4>1, <4>2, <4>3 DEF FormWaits
    <3>15. TradeKnown(ui.last, stored, ui.saveError, h2)
      <4> SUFFICES ASSUME ui.last # None, ui.last \notin stored, ~ui.saveError
                   PROVE  \E j \in DOMAIN h2 : h2[j].what = "post" /\ h2[j].current /\ h2[j].of = {ui.last}
        BY DEF TradeKnown
      <4>1. PICK k \in DOMAIN f : f[k].what = "post" /\ f[k].current /\ f[k].of = {ui.last}
        BY <1>0 DEF TradeKnown, stored
      <4>2. k # i
        BY <4>1 DEF stored
      <4> QED
        BY <3>7, <3>9, <4>1, <4>2
    <3>16. /\ ui' \in JournalType /\ ui'.flying = h2 /\ ui'.saving = ui.saving /\ ui'.last = ui.last
           /\ ui'.stored = stored /\ ui'.saveError = ui.saveError
      BY <1>0, <3>1, <3>2, <3>6 DEF JournalType
    <3> QED
      BY <3>14, <3>15, <3>16 DEF JournalOK
  <2>6. CASE TradeNotPosted(i, ok)
    <3> DEFINE stored == IF ok THEN ui.stored \cup f[i].of ELSE ui.stored
               cur == f[i].current
    <3>1. stored \in SUBSET Trades /\ ui.stored \subseteq stored /\ f[i].what = "post"
      BY <1>0, <2>0, <2>6 DEF JournalType, JournalRequests, TradeNotPosted
    <3>2. /\ cur => ui' = [ui EXCEPT !.stored = stored, !.saving = FALSE, !.saveError = TRUE, !.flying = h]
          /\ ~cur => ui' = [ui EXCEPT !.stored = stored, !.flying = h]
      BY <2>6 DEF TradeNotPosted, Taken, NotPosted
    <3> HIDE DEF stored, h, f
    <3>3. CASE cur
      <4>1. FormWaits(h, FALSE) /\ TradeKnown(ui.last, stored, TRUE, h)
        BY <2>4, <3>1, <3>3 DEF FormWaits, TradeKnown
      <4>2. /\ ui' \in JournalType /\ ui'.flying = h /\ ui'.saving = FALSE /\ ui'.last = ui.last
            /\ ui'.stored = stored /\ ui'.saveError = TRUE
        BY <1>0, <2>1, <3>1, <3>2, <3>3 DEF JournalType
      <4> QED
        BY <4>1, <4>2 DEF JournalOK
    <3>4. CASE ~cur
      <4>1. FormWaits(h, ui.saving) /\ TradeKnown(ui.last, stored, ui.saveError, h)
        BY <2>3, <3>1, <3>4 DEF TradeKnown
      <4>2. /\ ui' \in JournalType /\ ui'.flying = h /\ ui'.saving = ui.saving /\ ui'.last = ui.last
            /\ ui'.stored = stored /\ ui'.saveError = ui.saveError
        BY <1>0, <2>1, <3>1, <3>2, <3>4 DEF JournalType
      <4> QED
        BY <4>1, <4>2 DEF JournalOK
    <3> QED
      BY <3>3, <3>4
  <2>7. \* the answer of a list changes what is listed, and the form as AfterAnswer says
        ASSUME NEW s, s \in JournalType, s.flying = f, s.saving = ui.saving, s.last = ui.last, s.stored = ui.stored,
               s.saveError = ui.saveError, ui' = [AfterAnswer(s, i) EXCEPT !.flying = h], f[i].what # "post"
        PROVE  JournalOK(ui')
    <3> DEFINE form == [symbol |-> FALSE, trade |-> None]
               over == f[i].current /\ ~(\E k \in DOMAIN f \ {i} : f[k].current)
    <3>1. form \in [symbol : BOOLEAN, trade : Trades \cup {None}]
      OBVIOUS
    <3>2. ui' = IF over THEN [s EXCEPT !.saving = FALSE, !.form = form, !.flying = h] ELSE [s EXCEPT !.flying = h]
      BY <2>7 DEF AfterAnswer
    <3> HIDE DEF form, h, f
    <3>3. TradeKnown(ui.last, ui.stored, ui.saveError, h)
      <4> SUFFICES ASSUME ui.last # None, ui.last \notin ui.stored, ~ui.saveError
                   PROVE  \E j \in DOMAIN h : h[j].what = "post" /\ h[j].current /\ h[j].of = {ui.last}
        BY DEF TradeKnown
      <4>1. PICK k \in DOMAIN f : f[k].what = "post" /\ f[k].current /\ f[k].of = {ui.last}
        BY <1>0 DEF TradeKnown
      <4>2. k # i
        BY <4>1, <2>7
      <4> QED
        BY <2>2, <4>1, <4>2
    <3>4. CASE over
      <4>1. FormWaits(h, FALSE)
        BY <2>2, <3>4 DEF FormWaits
      <4>2. /\ ui' \in JournalType /\ ui'.flying = h /\ ui'.saving = FALSE /\ ui'.last = ui.last
            /\ ui'.stored = ui.stored /\ ui'.saveError = ui.saveError
        <5> HIDE DEF over
        <5> QED
          BY <2>1, <2>7, <3>1, <3>2, <3>4 DEF JournalType
      <4> QED
        BY <3>3, <4>1, <4>2 DEF JournalOK
    <3>5. CASE ~over
      <4>1. /\ \A j \in DOMAIN h : h[j].current => ui.saving
            /\ \A j, k \in DOMAIN h : h[j].current /\ h[j].what = "post" /\ h[k].current => k = j
        <5>1. \A k \in DOMAIN f : f[k].current => ui.saving
          BY <1>0 DEF FormWaits
        <5>2. \A k, l \in DOMAIN f : f[k].current /\ f[k].what = "post" /\ f[l].current => l = k
          BY <1>0 DEF FormWaits
        <5>3. \A j \in DOMAIN h : h[j].current => ui.saving
          BY <2>2, <5>1
        <5>4. \A j, k \in DOMAIN h : h[j].current /\ h[j].what = "post" /\ h[k].current => k = j
          BY <2>2, <5>2
        <5> QED
          BY <5>3, <5>4
      <4>2. ui.saving => \E j \in DOMAIN h : h[j].current
        <5> SUFFICES ASSUME ui.saving PROVE \E j \in DOMAIN h : h[j].current
          OBVIOUS
        <5>1. PICK k \in DOMAIN f \ {i} : f[k].current
          BY <1>0, <2>0, <3>5 DEF FormWaits
        <5> QED
          BY <2>2, <5>1
      <4>3. /\ ui' \in JournalType /\ ui'.flying = h /\ ui'.saving = ui.saving /\ ui'.last = ui.last
            /\ ui'.stored = ui.stored /\ ui'.saveError = ui.saveError
        <5> HIDE DEF over
        <5> QED
          BY <2>1, <2>7, <3>2, <3>5 DEF JournalType
      <4>4. FormWaits(h, ui.saving)
        BY <4>1, <4>2 DEF FormWaits
      <4> QED
        BY <3>3, <4>3, <4>4 DEF JournalOK
    <3> QED
      BY <3>4, <3>5
  <2>8. ASSUME NEW list \in {f[i].of, ui.stored}, f[i].what = "trades",
               Taken(i, AfterAnswer([ui EXCEPT !.listed = IF ok THEN list ELSE {}, !.tradesError = ~ok], i))
        PROVE  JournalOK(ui')
    <3> DEFINE listed == IF ok THEN list ELSE {}
               bad == ~ok
               s == [ui EXCEPT !.listed = listed, !.tradesError = bad]
    <3>1. listed \in SUBSET Trades /\ bad \in BOOLEAN
      BY <1>0, <2>0 DEF JournalType, JournalRequests
    <3>2. ui' = [AfterAnswer(s, i) EXCEPT !.flying = Answered(AfterAnswer(s, i).flying, i)]
      BY <2>8 DEF Taken
    <3> HIDE DEF listed, bad
    <3>3. /\ s \in JournalType /\ s.flying = f /\ s.saving = ui.saving /\ s.last = ui.last /\ s.stored = ui.stored
          /\ s.saveError = ui.saveError
      BY <1>0, <3>1 DEF JournalType
    <3> HIDE DEF s
    <3>4. AfterAnswer(s, i).flying = f
      BY <3>3 DEF AfterAnswer, JournalType
    <3>5. f[i].what # "post"
      BY <2>8
    <3> QED
      BY <2>7, <3>2, <3>3, <3>4, <3>5
  <2>9. ASSUME NEW list \in {f[i].of, ui.stored}, f[i].what = "stats",
               Taken(i, AfterAnswer([ui EXCEPT !.counted = IF ok THEN list ELSE {}, !.statistics = ok,
                                              !.statsError = ~ok], i))
        PROVE  JournalOK(ui')
    <3> DEFINE counted == IF ok THEN list ELSE {}
               bad == ~ok
               s == [ui EXCEPT !.counted = counted, !.statistics = ok, !.statsError = bad]
    <3>1. counted \in SUBSET Trades /\ bad \in BOOLEAN
      BY <1>0, <2>0 DEF JournalType, JournalRequests
    <3>2. ui' = [AfterAnswer(s, i) EXCEPT !.flying = Answered(AfterAnswer(s, i).flying, i)]
      BY <2>9 DEF Taken
    <3> HIDE DEF counted, bad
    <3>3. /\ s \in JournalType /\ s.flying = f /\ s.saving = ui.saving /\ s.last = ui.last /\ s.stored = ui.stored
          /\ s.saveError = ui.saveError
      BY <1>0, <3>1 DEF JournalType
    <3> HIDE DEF s
    <3>4. AfterAnswer(s, i).flying = f
      BY <3>3 DEF AfterAnswer, JournalType
    <3>5. f[i].what # "post"
      BY <2>9
    <3> QED
      BY <2>7, <3>2, <3>3, <3>4, <3>5
  <2> QED
    BY <1>5, <2>5, <2>6, <2>8, <2>9 DEF TradesAnswer, StatsAnswer
<1> QED
  BY <1>1, <1>2, <1>3, <1>4, <1>5 DEF JournalNext

LEMMA JournalTold == ASSUME JournalOK(ui) PROVE JournalFailureTold /\ JournalNeverStuck
  BY DEF JournalOK, FormWaits, TradeKnown, JournalFailureTold, JournalNeverStuck

-----------------------------------------------------------------------------
(* The calendar of events *)

MacroRequests == [what : {"post", "events", "feed"}, of : SUBSET Own, current : BOOLEAN]
Saves == {{}} \cup {{date} : date \in Own}

MacroType ==
    [view : Dates, adding : BOOLEAN, saving : BOOLEAN, saveError : BOOLEAN, last : Saves, stored : SUBSET Own,
     events : SUBSET Own, eventsError : BOOLEAN, feed : SUBSET Feed, trust : {"live", "unavailable", None},
     feedError : BOOLEAN, flying : Seq(MacroRequests)]

\* The form waits for one answer, of the event or of the list after it, and the
\* event it waits for is the one that was entered last.
EventWaits(flying, saving, last) ==
    /\ \A i \in DOMAIN flying :
          /\ flying[i].what = "post" => flying[i].current
          /\ flying[i].what = "feed" => ~flying[i].current
          /\ flying[i].current => saving /\ last # {} /\ \A j \in DOMAIN flying : flying[j].current => j = i
    /\ saving => \E i \in DOMAIN flying : flying[i].current

MacroOK(s) == s \in MacroType /\ EventWaits(s.flying, s.saving, s.last)

LEMMA DatesThere ==
    /\ Own \subseteq Dates /\ Today \in Dates
    /\ \A month \in 1 .. MaxMonth : <<month, 1>> \in Dates
    /\ \A date \in Dates, day \in 1 .. 3 : day <= DaysIn(date[1]) => [date EXCEPT ![2] = day] \in Dates
<1>1. <<1, 3>> \in Dates
  BY MacroConstants DEF Dates, DaysIn
<1>2. <<2, 2>> \in Dates
  BY MacroConstants DEF Dates, DaysIn
<1>3. \A month \in 1 .. MaxMonth : <<month, 1>> \in Dates
  BY MacroConstants DEF Dates, DaysIn
<1>4. ASSUME NEW date \in Dates, NEW day \in 1 .. 3, day <= DaysIn(date[1])
      PROVE  [date EXCEPT ![2] = day] \in Dates
  <2>1. PICK m \in 1 .. MaxMonth, d \in 1 .. 3 : date = <<m, d>>
    BY DEF Dates
  <2>2. [date EXCEPT ![2] = day] = <<m, day>> /\ date[1] = m
    BY <2>1
  <2> QED
    BY <2>2, <1>4 DEF Dates
<1> QED
  BY <1>1, <1>2, <1>3, <1>4 DEF Own, Today

\* A request that nobody waits for is added.
LEMMA FetchKeeps ==
    ASSUME NEW f \in Seq(MacroRequests), NEW r \in MacroRequests, NEW saving, NEW last, EventWaits(f, saving, last),
           ~r.current, r.what # "post"
    PROVE  Append(f, r) \in Seq(MacroRequests) /\ EventWaits(Append(f, r), saving, last)
<1> DEFINE g == Append(f, r)
<1>1. /\ g[Len(f) + 1] = r /\ g \in Seq(MacroRequests)
      /\ \A i \in DOMAIN f : i \in DOMAIN g /\ g[i] = f[i]
      /\ \A i \in DOMAIN g : i = Len(f) + 1 \/ (i \in DOMAIN f /\ g[i] = f[i])
  BY OneMore
<1> HIDE DEF g
<1>2. \A i \in DOMAIN g : g[i].current \/ g[i].what = "post" => i \in DOMAIN f /\ g[i] = f[i]
  BY <1>1
<1>3. EventWaits(g, saving, last)
  <2>1. \A i \in DOMAIN g : g[i].what = "feed" => ~g[i].current
    BY <1>1 DEF EventWaits
  <2> QED
    BY <1>1, <1>2, <2>1 DEF EventWaits
<1> QED
  BY <1>1, <1>3 DEF g

LEMMA FetchesKeep ==
    ASSUME NEW s, MacroOK(s)
    PROVE  MacroOK(FetchFeed(s)) /\ MacroOK(FetchEvents(s, FALSE))
<1> DEFINE a == [what |-> "feed", of |-> {}, current |-> FALSE]
           b == [what |-> "events", of |-> s.stored, current |-> FALSE]
           f == s.flying
<1>1. /\ a \in MacroRequests /\ ~a.current /\ a.what # "post"
      /\ b \in MacroRequests /\ ~b.current /\ b.what # "post"
  BY DEF MacroOK, MacroType, MacroRequests
<1>2. f \in Seq(MacroRequests) /\ EventWaits(f, s.saving, s.last) /\ s \in MacroType
  BY DEF MacroOK, MacroType
<1>3. /\ FetchFeed(s) = [s EXCEPT !.feedError = FALSE, !.flying = Append(f, a)]
      /\ FetchEvents(s, FALSE) = [s EXCEPT !.eventsError = FALSE, !.flying = Append(f, b)]
  BY DEF FetchFeed, FetchEvents
<1> HIDE DEF a, b, f
<1>4. Append(f, a) \in Seq(MacroRequests) /\ EventWaits(Append(f, a), s.saving, s.last)
  BY <1>1, <1>2, FetchKeeps
<1>5. Append(f, b) \in Seq(MacroRequests) /\ EventWaits(Append(f, b), s.saving, s.last)
  BY <1>1, <1>2, FetchKeeps
<1>6. MacroOK(FetchFeed(s))
  BY <1>2, <1>3, <1>4 DEF MacroOK, MacroType
<1>7. MacroOK(FetchEvents(s, FALSE))
  BY <1>2, <1>3, <1>5 DEF MacroOK, MacroType
<1> QED
  BY <1>6, <1>7

LEMMA MacroStarts == MacroInit => MacroOK(ui)
<1> DEFINE f == <<>>
           s == [view |-> Today, adding |-> FALSE, saving |-> FALSE,
                 saveError |-> FALSE, last |-> {}, stored |-> {}, events |-> {}, eventsError |-> FALSE,
                 feed |-> {}, trust |-> None, feedError |-> FALSE, flying |-> f]
<1>1. f \in Seq(MacroRequests) /\ EventWaits(f, FALSE, {})
  <2>1. f \in Seq(MacroRequests) /\ DOMAIN f = {}
    OBVIOUS
  <2> QED
    BY <2>1 DEF EventWaits
<1>2. MacroInit => ui = FetchFeed(FetchEvents(s, FALSE))
  BY DEF MacroInit
<1> HIDE DEF f
<1>3. MacroOK(s)
  BY <1>1, DatesThere DEF MacroOK, MacroType, Saves
<1> HIDE DEF s
<1> QED
  BY <1>2, <1>3, FetchesKeep

LEMMA MacroSteps ==
    ASSUME MacroOK(ui), MacroNext
    PROVE  MacroOK(ui')
<1> DEFINE f == ui.flying
<1>0. ui \in MacroType /\ f \in Seq(MacroRequests) /\ EventWaits(f, ui.saving, ui.last)
  BY DEF MacroOK, MacroType
<1>1. CASE RefetchBoth
  BY <1>1, FetchesKeep DEF RefetchBoth
<1>2. CASE RetryEvents \/ RetryFeed
  BY <1>2, FetchesKeep DEF RetryEvents, RetryFeed
<1>3. CASE GoToday
  BY <1>0, <1>3, DatesThere DEF GoToday, MacroOK, MacroType
<1>4. CASE ToggleAdd
  BY <1>0, <1>4 DEF ToggleAdd, MacroOK, MacroType
<1>5. ASSUME NEW month \in 1 .. MaxMonth, ShiftMonth(month)
      PROVE  MacroOK(ui')
  <2> DEFINE view == <<month, 1>>
  <2>1. view \in Dates /\ ui' = [ui EXCEPT !.view = view]
    BY <1>5, DatesThere DEF ShiftMonth
  <2> HIDE DEF view
  <2> QED
    BY <1>0, <2>1 DEF MacroOK, MacroType
<1>6. ASSUME NEW day \in 1 .. 3, SelectDay(day)
      PROVE  MacroOK(ui')
  <2> DEFINE view == [ui.view EXCEPT ![2] = day]
  <2>1. ui.view \in Dates
    BY <1>0 DEF MacroType
  <2>2. view \in Dates
    BY <1>6, <2>1, DatesThere DEF SelectDay
  <2>3. ui' = [ui EXCEPT !.view = view]
    BY <1>0, <1>6 DEF SelectDay, MacroType
  <2> HIDE DEF view
  <2> QED
    BY <1>0, <2>2, <2>3 DEF MacroOK, MacroType
<1>7. ASSUME NEW date \in Own, SubmitEvent(date)
      PROVE  MacroOK(ui')
  <2> DEFINE new == [what |-> "post", of |-> {date}, current |-> TRUE]
             g == Append(f, new)
             last == {date}
  <2>1. new \in MacroRequests /\ new.current /\ new.what = "post"
    BY DEF MacroRequests
  <2>2. ~ui.saving /\ ui' = [ui EXCEPT !.saving = TRUE, !.saveError = FALSE, !.last = last, !.flying = g]
    BY <1>7 DEF SubmitEvent
  <2>3. last \in Saves /\ last # {}
    BY DEF Saves
  <2> HIDE DEF new, f, last
  <2>4. /\ g[Len(f) + 1] = new /\ g \in Seq(MacroRequests) /\ Len(f) + 1 \in DOMAIN g
        /\ \A i \in DOMAIN f : i \in DOMAIN g /\ g[i] = f[i]
        /\ \A i \in DOMAIN g : i = Len(f) + 1 \/ (i \in DOMAIN f /\ g[i] = f[i])
    BY <1>0, <2>1, OneMore
  <2> HIDE DEF g
  <2>5. \A i \in DOMAIN g : g[i].current \/ g[i].what = "post" => i = Len(f) + 1
    BY <1>0, <2>2, <2>4 DEF EventWaits
  <2>6. EventWaits(g, TRUE, last)
    BY <2>1, <2>3, <2>4, <2>5 DEF EventWaits
  <2> QED
    BY <1>0, <2>2, <2>3, <2>4, <2>6 DEF MacroOK, MacroType
<1>8. ASSUME NEW i \in DOMAIN ui.flying,
             \/ EventPosted(i) \/ EventNotPosted(i) \/ \E ok \in BOOLEAN : EventsAnswer(i, ok)
             \/ \E trust \in {"live", "unavailable", None} : FeedAnswer(i, trust)
      PROVE  MacroOK(ui')
  <2> DEFINE h == Answered(f, i)
  <2>0. i \in DOMAIN f /\ f[i] \in MacroRequests
    BY <1>0
  <2>1. h \in Seq(MacroRequests)
    BY <1>0, <2>0, AnsweredIn
  <2>2. /\ \A j \in DOMAIN h : \E k \in DOMAIN f \ {i} : h[j] = f[k]
        /\ \A k \in DOMAIN f \ {i} : \E j \in DOMAIN h : h[j] = f[k]
        /\ \A j, k \in DOMAIN h : j # k => \E l, m \in DOMAIN f \ {i} : l # m /\ h[j] = f[l] /\ h[k] = f[m]
    BY <1>0, <2>0, OthersStay
  <2>3. \A j \in DOMAIN h : (h[j].what = "post" => h[j].current) /\ (h[j].what = "feed" => ~h[j].current)
    <3> HIDE DEF h, f
    <3> QED
      BY <1>0, <2>2 DEF EventWaits
  <2>4. ~f[i].current => EventWaits(h, ui.saving, ui.last)
    <3> HIDE DEF h, f
    <3> SUFFICES ASSUME ~f[i].current PROVE EventWaits(h, ui.saving, ui.last)
      OBVIOUS
    <3>1. \A k \in DOMAIN f : f[k].current => ui.saving /\ ui.last # {}
      BY <1>0 DEF EventWaits
    <3>2. \A k, l \in DOMAIN f : f[k].current /\ f[l].current => k = l
      BY <1>0 DEF EventWaits
    <3>3. \A j \in DOMAIN h : h[j].current => ui.saving /\ ui.last # {}
      BY <2>2, <3>1
    <3>4. \A j, k \in DOMAIN h : h[j].current /\ h[k].current => k = j
      BY <2>2, <3>2
    <3>5. ui.saving => \E j \in DOMAIN h : h[j].current
      BY <1>0, <2>2 DEF EventWaits
    <3> QED
      BY <2>3, <3>3, <3>4, <3>5 DEF EventWaits
  <2>5. f[i].current => ui.last # {} /\ ui.saving /\ \A j \in DOMAIN h : ~h[j].current
    <3> HIDE DEF h, f
    <3> QED
      BY <1>0, <2>0, <2>2 DEF EventWaits
  <2>6. f[i].current => EventWaits(h, FALSE, ui.last)
    <3> HIDE DEF h, f
    <3> QED
      BY <2>3, <2>5 DEF EventWaits
  <2>7. (f[i].what = "post" => f[i].current) /\ (f[i].what = "feed" => ~f[i].current)
    BY <1>0, <2>0 DEF EventWaits
  <2>8. CASE EventPosted(i)
    <3> DEFINE stored == ui.stored \cup f[i].of
               a == [what |-> "events", of |-> stored, current |-> TRUE]
               g == Append(f, a)
               h2 == Answered(g, i)
    <3>1. stored \in SUBSET Own /\ f[i].current /\ f[i].what = "post"
      BY <1>0, <2>0, <2>7, <2>8 DEF MacroType, MacroRequests, EventPosted
    <3>2. ui' = [ui EXCEPT !.stored = stored, !.eventsError = FALSE, !.flying = h2]
      <4> DEFINE s == [ui EXCEPT !.stored = stored]
      <4>1. ui' = [FetchEvents(s, TRUE) EXCEPT !.flying = Answered(@, i)]
        BY <2>8 DEF EventPosted, Taken
      <4>2. s.stored = stored /\ s.flying = f
        BY <1>0 DEF MacroType
      <4>3. FetchEvents(s, TRUE) = [s EXCEPT !.eventsError = FALSE, !.flying = g]
        BY <4>2, Zenon DEF FetchEvents
      <4> HIDE DEF g
      <4>4. FetchEvents(s, TRUE).flying = g
        BY <1>0, <4>3 DEF MacroType
      <4> QED
        BY <4>1, <4>3, <4>4
    <3> HIDE DEF stored
    <3>3. a \in MacroRequests /\ a.what = "events" /\ a.current
      BY <3>1 DEF MacroRequests
    <3> HIDE DEF a, f
    <3>4. /\ g[Len(f) + 1] = a /\ g \in Seq(MacroRequests) /\ Len(f) + 1 \in DOMAIN g /\ Len(f) + 1 \notin DOMAIN f
          /\ \A j \in DOMAIN f : j \in DOMAIN g /\ g[j] = f[j]
          /\ \A j \in DOMAIN g : j = Len(f) + 1 \/ (j \in DOMAIN f /\ g[j] = f[j])
      BY <1>0, <3>3, OneMore
    <3>5. g \in Seq(MacroRequests) /\ i \in DOMAIN g
      BY <2>0, <3>4
    <3> HIDE DEF g
    <3>6. h2 \in Seq(MacroRequests)
      BY <3>5, AnsweredIn
    <3>7. /\ \A j \in DOMAIN h2 : \E k \in DOMAIN g \ {i} : h2[j] = g[k]
          /\ \A k \in DOMAIN g \ {i} : \E j \in DOMAIN h2 : h2[j] = g[k]
          /\ \A j, k \in DOMAIN h2 : j # k => \E l, m \in DOMAIN g \ {i} : l # m /\ h2[j] = g[l] /\ h2[k] = g[m]
      BY <3>5, OthersStay
    <3> HIDE DEF h2, h
    <3>8. \A k \in DOMAIN g \ {i} : g[k].current => k = Len(f) + 1
      BY <1>0, <2>0, <3>1, <3>4 DEF EventWaits
    <3>9. \A k \in DOMAIN g : (g[k].what = "post" => g[k].current) /\ (g[k].what = "feed" => ~g[k].current)
      BY <1>0, <3>3, <3>4 DEF EventWaits
    <3>10. ui.saving /\ ui.last # {}
      BY <1>0, <2>0, <3>1 DEF EventWaits
    <3>11. Len(f) + 1 \in DOMAIN g \ {i} /\ g[Len(f) + 1].current
      BY <2>0, <3>3, <3>4
    <3>12. \E j \in DOMAIN h2 : h2[j].current
      BY <3>7, <3>11
    <3>13. \A j \in DOMAIN h2 : (h2[j].what = "post" => h2[j].current) /\ (h2[j].what = "feed" => ~h2[j].current)
      BY <3>7, <3>9
    <3>14. \A j, k \in DOMAIN h2 : h2[j].current /\ h2[k].current => k = j
      BY <3>7, <3>8
    <3>15. EventWaits(h2, ui.saving, ui.last)
      BY <3>10, <3>12, <3>13, <3>14 DEF EventWaits
    <3> QED
      BY <1>0, <3>1, <3>2, <3>6, <3>15 DEF MacroOK, MacroType
  <2>9. CASE EventNotPosted(i)
    <3>1. f[i].current /\ ui' = [ui EXCEPT !.saving = FALSE, !.saveError = TRUE, !.flying = h]
      BY <2>7, <2>9 DEF EventNotPosted, Taken
    <3> HIDE DEF h, f
    <3> QED
      BY <1>0, <2>1, <2>6, <3>1 DEF MacroOK, MacroType
  <2>10. ASSUME NEW ok \in BOOLEAN, EventsAnswer(i, ok)
         PROVE  MacroOK(ui')
    <3> DEFINE events == IF ok THEN f[i].of ELSE {}
               bad == ~ok
               view == CHOOSE date \in ui.last : TRUE
               s == WithEvents(ui, f[i].of, ok)
    <3>1. events \in SUBSET Own /\ bad \in BOOLEAN
      BY <2>0 DEF MacroRequests
    <3>2. s = [ui EXCEPT !.events = events, !.eventsError = bad]
      BY DEF WithEvents
    <3>3. /\ f[i].current => ui' = [EventSaved(s) EXCEPT !.flying = Answered(EventSaved(s).flying, i)]
          /\ ~f[i].current => ui' = [s EXCEPT !.flying = Answered(s.flying, i)]
      BY <2>10 DEF EventsAnswer, Taken
    <3> HIDE DEF s
    <3> HIDE DEF events, bad
    <3>4. s.flying = f /\ s.last = ui.last
      BY <1>0, <3>2 DEF MacroType
    <3>5. EventSaved(s) = [s EXCEPT !.saving = FALSE, !.adding = FALSE, !.view = view]
      BY <3>4 DEF EventSaved
    <3>6. ui.last # {} => view \in Dates
      <4>1. ui.last \in Saves
        BY <1>0 DEF MacroType
      <4>2. ui.last # {} => view \in ui.last
        OBVIOUS
      <4> HIDE DEF view
      <4> QED
        BY <4>1, <4>2, DatesThere DEF Saves
    <3> HIDE DEF view
    <3>7. EventSaved(s).flying = f
      BY <1>0, <3>2, <3>4, <3>5 DEF MacroType
    <3> HIDE DEF h, f
    <3>8. CASE f[i].current
      <4>1. ui' = [ui EXCEPT !.events = events, !.eventsError = bad, !.saving = FALSE, !.adding = FALSE, !.view = view,
                             !.flying = h]
        BY <3>2, <3>3, <3>5, <3>7, <3>8 DEF h
      <4> QED
        BY <1>0, <2>1, <2>5, <2>6, <3>1, <3>6, <3>8, <4>1 DEF MacroOK, MacroType
    <3>9. CASE ~f[i].current
      <4>1. ui' = [ui EXCEPT !.events = events, !.eventsError = bad, !.flying = h]
        BY <3>2, <3>3, <3>4, <3>9 DEF h
      <4> QED
        BY <1>0, <2>1, <2>4, <3>1, <3>9, <4>1 DEF MacroOK, MacroType
    <3> QED
      BY <3>8, <3>9
  <2>11. ASSUME NEW trust \in {"live", "unavailable", None}, FeedAnswer(i, trust)
         PROVE  MacroOK(ui')
    <3> DEFINE feed == IF trust = None THEN {} ELSE Feed
               bad == trust = None
    <3>1. feed \in SUBSET Feed /\ bad \in BOOLEAN
      OBVIOUS
    <3>2. f[i].what = "feed" /\ ui' = [ui EXCEPT !.feed = feed, !.trust = trust, !.feedError = bad, !.flying = h]
      BY <2>11 DEF FeedAnswer, Taken
    <3> HIDE DEF feed, bad
    <3> HIDE DEF h, f
    <3> QED
      BY <1>0, <2>1, <2>4, <2>7, <3>1, <3>2 DEF MacroOK, MacroType
  <2> QED
    BY <1>8, <2>8, <2>9, <2>10, <2>11
<1> QED
  BY <1>1, <1>2, <1>3, <1>4, <1>5, <1>6, <1>7, <1>8 DEF MacroNext

LEMMA MacroTold == ASSUME MacroOK(ui) PROVE MacroDayExists /\ MacroNeverStuck
  BY DEF MacroOK, MacroType, EventWaits, MacroDayExists, MacroNeverStuck

-----------------------------------------------------------------------------
(* The settings: the administration and the readiness *)

SettingsRequests == Requests({"status", "enable", "market", "after", "verify", "end"}, {None, "session", "refresh"})

SettingsType ==
    [token : {None, "token"}, input : {None, "token"}, hook : {"checking", "authorized", "unavailable"},
     admin : {"valid", "invalid", "unknown", "checking"}, known : SUBSET Profiles, kept : SUBSET Profiles,
     loading : BOOLEAN, error : BOOLEAN, refreshing : BOOLEAN, flying : Seq(SettingsRequests)]

\* Without an alert every row is of the last round, or a round is on its way.
SettingsOK(s) ==
    /\ s \in SettingsType
    /\ s.admin = "checking" => Some(s.flying, {"enable", "verify"})
    /\ s.refreshing => Some(s.flying, {"market", "after"})
    /\ s.loading => Some(s.flying, {"status", "after"})
    /\ s.error \/ (s.known = Profiles /\ s.kept = {}) \/ Some(s.flying, {"status", "after"})

LEMMA AdminEffectIs ==
    ASSUME NEW s, s \in SettingsType
    PROVE  \E admin \in {"valid", "invalid", s.admin} : AdminEffect(s) = [s EXCEPT !.admin = admin]
  BY DEF AdminEffect, SettingsType

LEMMA AdminEffectKeeps ==
    ASSUME NEW s, SettingsOK(s)
    PROVE  SettingsOK(AdminEffect(s))
<1>1. PICK admin \in {"valid", "invalid", s.admin} : AdminEffect(s) = [s EXCEPT !.admin = admin]
  BY AdminEffectIs DEF SettingsOK
<1> QED
  BY <1>1 DEF SettingsOK, SettingsType

\* A request joins the others.
LEMMA SettingsAsk ==
    ASSUME NEW f \in Seq(SettingsRequests), NEW what \in {"status", "enable", "market", "after", "verify", "end"}
    PROVE  /\ AskOnce(f, what) \in Seq(SettingsRequests)
           /\ Some(f, {"enable", "verify"}) \/ what \in {"enable", "verify"} => Some(AskOnce(f, what), {"enable", "verify"})
           /\ Some(f, {"market", "after"}) \/ what \in {"market", "after"} => Some(AskOnce(f, what), {"market", "after"})
           /\ Some(f, {"status", "after"}) \/ what \in {"status", "after"} => Some(AskOnce(f, what), {"status", "after"})
<1>1. [what |-> what, of |-> None, current |-> TRUE] \in SettingsRequests
  BY DEF SettingsRequests, Requests
<1> QED
  BY <1>1, AskOnceIs, SomeOnce

LEMMA FetchStatusKeeps ==
    ASSUME NEW s, s \in SettingsType,
           s.admin = "checking" => Some(s.flying, {"enable", "verify"}),
           s.refreshing => Some(s.flying, {"market", "after"})
    PROVE  SettingsOK(FetchStatus(s))
<1> DEFINE f == s.flying
           g == AskOnce(f, "status")
<1>1. f \in Seq(SettingsRequests)
  BY DEF SettingsType
<1>2. FetchStatus(s) = [s EXCEPT !.loading = TRUE, !.error = FALSE, !.flying = g]
  BY DEF FetchStatus
<1>3. s.admin = "checking" => Some(f, {"enable", "verify"})
  OBVIOUS
<1>4. s.refreshing => Some(f, {"market", "after"})
  OBVIOUS
<1> HIDE DEF f
<1>5. /\ g \in Seq(SettingsRequests)
      /\ Some(f, {"enable", "verify"}) \/ "status" \in {"enable", "verify"} => Some(g, {"enable", "verify"})
      /\ Some(f, {"market", "after"}) \/ "status" \in {"market", "after"} => Some(g, {"market", "after"})
      /\ Some(f, {"status", "after"}) \/ "status" \in {"status", "after"} => Some(g, {"status", "after"})
  BY <1>1, SettingsAsk
<1> HIDE DEF g
<1> QED
  BY <1>2, <1>3, <1>4, <1>5 DEF SettingsOK, SettingsType

LEMMA QuotesStartKeep ==
    ASSUME NEW s, SettingsOK(s)
    PROVE  SettingsOK(RefreshQuotesStart(s))
<1> DEFINE g == AskOnce(s.flying, "market")
<1>1. s.flying \in Seq(SettingsRequests)
  BY DEF SettingsOK, SettingsType
<1>2. RefreshQuotesStart(s) = [s EXCEPT !.refreshing = TRUE, !.flying = g]
  BY DEF RefreshQuotesStart
<1>3. /\ g \in Seq(SettingsRequests)
      /\ Some(s.flying, {"enable", "verify"}) \/ "market" \in {"enable", "verify"} => Some(g, {"enable", "verify"})
      /\ Some(s.flying, {"market", "after"}) \/ "market" \in {"market", "after"} => Some(g, {"market", "after"})
      /\ Some(s.flying, {"status", "after"}) \/ "market" \in {"status", "after"} => Some(g, {"status", "after"})
  BY <1>1, SettingsAsk
<1> HIDE DEF g
<1> QED
  BY <1>2, <1>3 DEF SettingsOK, SettingsType

LEMMA EnableKeeps ==
    ASSUME NEW s, SettingsOK(s), NEW for \in {"session", "refresh"}
    PROVE  SettingsOK(Enable(s, for))
<1> DEFINE new == [what |-> "enable", of |-> for, current |-> TRUE]
           g == Append(s.flying, new)
<1>1. s.flying \in Seq(SettingsRequests)
  BY DEF SettingsOK, SettingsType
<1>2. Enable(s, for) = [s EXCEPT !.admin = "checking", !.flying = g]
  BY DEF Enable
<1>3. new \in SettingsRequests /\ new.what = "enable"
  BY DEF SettingsRequests, Requests
<1> HIDE DEF new
<1>4. /\ g \in Seq(SettingsRequests)
      /\ Some(s.flying, {"enable", "verify"}) \/ "enable" \in {"enable", "verify"} => Some(g, {"enable", "verify"})
      /\ Some(s.flying, {"market", "after"}) \/ "enable" \in {"market", "after"} => Some(g, {"market", "after"})
      /\ Some(s.flying, {"status", "after"}) \/ "enable" \in {"status", "after"} => Some(g, {"status", "after"})
  BY <1>1, <1>3, OneMore, SomeMore
<1> HIDE DEF g
<1> QED
  BY <1>2, <1>4 DEF SettingsOK, SettingsType

LEMMA SettingsStarts == SettingsInit => SettingsOK(ui)
<1> SUFFICES ASSUME SettingsInit PROVE SettingsOK(ui)
  OBVIOUS
<1>1. PICK token \in {None, "token"}, hook \in {"checking", "authorized", "unavailable"} :
         ui = AdminEffect(FetchStatus(
                  [token |-> token, input |-> token, hook |-> hook,
                   admin |-> IF token = None THEN "invalid" ELSE "unknown",
                   known |-> {}, kept |-> {}, loading |-> FALSE, error |-> FALSE,
                   refreshing |-> FALSE, flying |-> <<>>]))
  BY DEF SettingsInit
<1> DEFINE f == <<>>
           admin == IF token = None THEN "invalid" ELSE "unknown"
           s == [token |-> token, input |-> token, hook |-> hook, admin |-> admin,
                 known |-> {}, kept |-> {}, loading |-> FALSE, error |-> FALSE,
                 refreshing |-> FALSE, flying |-> f]
<1>2. f \in Seq(SettingsRequests)
  OBVIOUS
<1>3. admin \in {"invalid", "unknown"}
  OBVIOUS
<1>4. ui = AdminEffect(FetchStatus(s))
  BY <1>1
<1> HIDE DEF f, admin
<1>5. s \in SettingsType /\ s.admin = admin /\ ~s.refreshing
  BY <1>2, <1>3 DEF SettingsType
<1> HIDE DEF s
<1> QED
  BY <1>3, <1>4, <1>5, FetchStatusKeeps, AdminEffectKeeps

\* A round that is answered.
LEMMA RoundKeeps ==
    ASSUME NEW s, SettingsOK(s), NEW i \in DOMAIN s.flying, NEW arrived \in SUBSET Profiles,
           s.flying[i].what \in {"status", "after"}, s.flying[i].what = "after" \/ s.flying[i].what = "status",
           NEW refreshing \in BOOLEAN, refreshing => s.refreshing /\ s.flying[i].what = "status"
    PROVE  SettingsOK([WithStatus(s, arrived) EXCEPT !.refreshing = refreshing, !.flying = Answered(s.flying, i)])
<1> DEFINE h == Answered(s.flying, i)
           known == s.known \cup arrived
           kept == Profiles \ arrived
           error == s.error \/ arrived # Profiles
           t == [WithStatus(s, arrived) EXCEPT !.refreshing = refreshing, !.flying = Answered(s.flying, i)]
<1>1. s.flying \in Seq(SettingsRequests) /\ s \in SettingsType
  BY DEF SettingsOK, SettingsType
<1>2. h \in Seq(SettingsRequests)
  BY <1>1, AnsweredIn
<1>3. /\ s.admin = "checking" => Some(h, {"enable", "verify"})
      /\ refreshing => Some(h, {"market", "after"})
  BY <1>1, SomeAnswered DEF SettingsOK
<1>4. known \in SUBSET Profiles /\ kept \in SUBSET Profiles /\ error \in BOOLEAN
  BY <1>1 DEF SettingsType
<1>5. error \/ (known = Profiles /\ kept = {})
  BY <1>1 DEF SettingsType
<1>6. t = [s EXCEPT !.known = known, !.kept = kept, !.error = error, !.loading = FALSE, !.refreshing = refreshing,
                    !.flying = h]
  BY DEF WithStatus
<1> HIDE DEF h, known, kept, error, t
<1>7. SettingsOK(t)
  BY <1>1, <1>2, <1>3, <1>4, <1>5, <1>6 DEF SettingsOK, SettingsType
<1> QED
  BY <1>7 DEF t

LEMMA SettingsSteps ==
    ASSUME SettingsOK(ui), SettingsNext
    PROVE  SettingsOK(ui')
<1> DEFINE f == ui.flying
<1>0. ui \in SettingsType /\ f \in Seq(SettingsRequests)
  BY DEF SettingsOK, SettingsType
<1>1. ASSUME NEW i \in DOMAIN ui.flying, NEW arrived \in SUBSET Profiles, StatusRoundAnswer(i, arrived)
      PROVE  SettingsOK(ui')
  <2> DEFINE r == ui.refreshing
  <2>1. r \in BOOLEAN
    BY <1>0 DEF SettingsType
  <2>2. f[i].what = "status" /\ ui' = [WithStatus(ui, arrived) EXCEPT !.refreshing = r, !.flying = Answered(f, i)]
    BY <1>0, <1>1 DEF StatusRoundAnswer, Taken, WithStatus, SettingsType
  <2>3. ui.flying[i].what = "status" /\ (r => ui.refreshing)
    BY <2>2
  <2> HIDE DEF r
  <2> QED
    BY <2>1, <2>2, <2>3, RoundKeeps
<1>2. ASSUME NEW i \in DOMAIN ui.flying, NEW arrived \in SUBSET Profiles, AfterRefresh(i, arrived)
      PROVE  SettingsOK(ui')
  <2>1. ui.flying[i].what = "after"
        /\ ui' = [WithStatus(ui, arrived) EXCEPT !.refreshing = FALSE, !.flying = Answered(ui.flying, i)]
    BY <1>0, <1>2 DEF AfterRefresh, Taken, WithStatus, SettingsType
  <2> QED
    BY <2>1, RoundKeeps
<1>3. CASE ReloadStatus
  BY <1>0, <1>3, FetchStatusKeeps DEF ReloadStatus, SettingsOK
<1>4. ASSUME NEW hook \in {"authorized", "unavailable"}, HookChanges(hook)
      PROVE  SettingsOK(ui')
  <2>1. SettingsOK([ui EXCEPT !.hook = hook])
    BY DEF SettingsOK, SettingsType
  <2> QED
    BY <1>4, <2>1, AdminEffectKeeps DEF HookChanges
<1>5. CASE EnableSession
  BY <1>5, EnableKeeps DEF EnableSession
<1>6. CASE RefreshMarket
  BY <1>6, EnableKeeps, QuotesStartKeep DEF RefreshMarket
<1>7. ASSUME NEW i \in DOMAIN ui.flying, NEW ok \in BOOLEAN, EnableAnswer(i, ok) \/ VerifyAnswer(i, ok)
      PROVE  SettingsOK(ui')
  <2> DEFINE h == Answered(f, i)
             hook == IF ok THEN "authorized" ELSE IF EnableAnswer(i, ok) THEN "unavailable" ELSE ui.hook
             admin == IF ok THEN "valid" ELSE "invalid"
             s == [ui EXCEPT !.flying = h, !.hook = hook]
             told == [AdminEffect(s) EXCEPT !.admin = admin]
  <2>1. h \in Seq(SettingsRequests)
    BY <1>0, AnsweredIn
  <2>2. /\ ui.refreshing => Some(h, {"market", "after"})
        /\ ui.loading => Some(h, {"status", "after"})
        /\ ui.error \/ (ui.known = Profiles /\ ui.kept = {}) \/ Some(h, {"status", "after"})
    BY <1>0, <1>7, SomeAnswered DEF SettingsOK, EnableAnswer, VerifyAnswer
  <2>3. hook \in {"checking", "authorized", "unavailable"} /\ admin \in {"valid", "invalid"}
    BY <1>0 DEF SettingsType
  <2>4. ui' = told \/ ui' = RefreshQuotesStart(told)
    BY <1>7 DEF EnableAnswer, VerifyAnswer
  <2> HIDE DEF h, hook, admin
  <2>5. s \in SettingsType
    BY <1>0, <2>1, <2>3 DEF SettingsType
  <2>6. PICK a \in {"valid", "invalid", s.admin} : AdminEffect(s) = [s EXCEPT !.admin = a]
    BY <2>5, AdminEffectIs
  <2>7. told = [ui EXCEPT !.flying = h, !.hook = hook, !.admin = admin]
    BY <2>6
  <2> HIDE DEF told
  <2>8. SettingsOK(told)
    BY <1>0, <2>1, <2>2, <2>3, <2>7 DEF SettingsOK, SettingsType
  <2> QED
    BY <2>4, <2>8, QuotesStartKeep
<1>8. ASSUME NEW i \in DOMAIN ui.flying, NEW ok \in BOOLEAN, MarketAnswer(i, ok)
      PROVE  SettingsOK(ui')
  <2> DEFINE h == Answered(f, i)
             g == AskOnce(h, "after")
  <2>1. h \in Seq(SettingsRequests)
    BY <1>0, AnsweredIn
  <2>2. f[i].what = "market"
    BY <1>8 DEF MarketAnswer
  <2>3. /\ ui.admin = "checking" => Some(h, {"enable", "verify"})
        /\ ui.loading => Some(h, {"status", "after"})
        /\ ui.error \/ (ui.known = Profiles /\ ui.kept = {}) \/ Some(h, {"status", "after"})
    BY <1>0, <2>2, SomeAnswered DEF SettingsOK
  <2>4. IF ok THEN ui' = [ui EXCEPT !.loading = TRUE, !.error = FALSE, !.flying = g]
              ELSE ui' = [ui EXCEPT !.flying = h, !.refreshing = FALSE]
    BY <1>0, <1>8 DEF MarketAnswer, SettingsType
  <2> HIDE DEF h
  <2>5. /\ g \in Seq(SettingsRequests)
        /\ Some(h, {"enable", "verify"}) \/ "after" \in {"enable", "verify"} => Some(g, {"enable", "verify"})
        /\ Some(h, {"market", "after"}) \/ "after" \in {"market", "after"} => Some(g, {"market", "after"})
        /\ Some(h, {"status", "after"}) \/ "after" \in {"status", "after"} => Some(g, {"status", "after"})
    BY <2>1, SettingsAsk
  <2> HIDE DEF g
  <2>6. CASE ok
    BY <1>0, <2>3, <2>4, <2>5, <2>6 DEF SettingsOK, SettingsType
  <2>7. CASE ~ok
    BY <1>0, <2>1, <2>3, <2>4, <2>7 DEF SettingsOK, SettingsType
  <2> QED
    BY <2>6, <2>7
<1>9. ASSUME NEW token \in {None, "token"}, TypeToken(token)
      PROVE  SettingsOK(ui')
  <2>1. SettingsOK([ui EXCEPT !.input = token, !.admin = "unknown"])
    BY DEF SettingsOK, SettingsType
  <2> QED
    BY <1>9, <2>1, AdminEffectKeeps DEF TypeToken
<1>10. CASE VerifyToken
  <2> DEFINE g == AskOnce(f, "verify")
  <2>1. /\ g \in Seq(SettingsRequests)
        /\ Some(f, {"enable", "verify"}) \/ "verify" \in {"enable", "verify"} => Some(g, {"enable", "verify"})
        /\ Some(f, {"market", "after"}) \/ "verify" \in {"market", "after"} => Some(g, {"market", "after"})
        /\ Some(f, {"status", "after"}) \/ "verify" \in {"status", "after"} => Some(g, {"status", "after"})
    BY <1>0, SettingsAsk
  <2>2. \/ ui' = [ui EXCEPT !.token = ui.input, !.admin = "invalid"]
        \/ ui' = [ui EXCEPT !.token = ui.input, !.admin = "checking", !.flying = g]
    <3>1. CASE ui.input = None
      BY <1>0, <1>10, <3>1 DEF VerifyToken, SettingsType
    <3>2. CASE ui.input # None
      BY <1>0, <1>10, <3>2 DEF VerifyToken, SettingsType
    <3> QED
      BY <3>1, <3>2
  <2> HIDE DEF g
  <2> QED
    BY <1>0, <2>1, <2>2 DEF SettingsOK, SettingsType
<1>11. CASE EndAdmin
  <2> DEFINE g == AskOnce(f, "end")
             s == [ui EXCEPT !.token = None, !.input = None, !.flying = g]
  <2>1. /\ g \in Seq(SettingsRequests)
        /\ Some(f, {"enable", "verify"}) \/ "end" \in {"enable", "verify"} => Some(g, {"enable", "verify"})
        /\ Some(f, {"market", "after"}) \/ "end" \in {"market", "after"} => Some(g, {"market", "after"})
        /\ Some(f, {"status", "after"}) \/ "end" \in {"status", "after"} => Some(g, {"status", "after"})
    BY <1>0, SettingsAsk
  <2>2. ui' = [AdminEffect(s) EXCEPT !.admin = "invalid"]
    BY <1>11 DEF EndAdmin
  <2> HIDE DEF g
  <2>3. SettingsOK(s)
    BY <1>0, <2>1 DEF SettingsOK, SettingsType
  <2> HIDE DEF s
  <2>4. SettingsOK(AdminEffect(s))
    BY <2>3, AdminEffectKeeps
  <2> QED
    BY <2>2, <2>4 DEF SettingsOK, SettingsType
<1>12. ASSUME NEW i \in DOMAIN ui.flying, EndAdminAnswer(i)
       PROVE  SettingsOK(ui')
  <2> DEFINE h == Answered(f, i)
             s == [ui EXCEPT !.hook = "unavailable"]
  <2>1. h \in Seq(SettingsRequests)
    BY <1>0, AnsweredIn
  <2>2. /\ ui.admin = "checking" => Some(h, {"enable", "verify"})
        /\ ui.refreshing => Some(h, {"market", "after"})
        /\ ui.loading => Some(h, {"status", "after"})
        /\ ui.error \/ (ui.known = Profiles /\ ui.kept = {}) \/ Some(h, {"status", "after"})
    BY <1>0, <1>12, SomeAnswered DEF SettingsOK, EndAdminAnswer
  <2>3. s \in SettingsType /\ s.flying = f /\ s.admin = ui.admin
    BY <1>0 DEF SettingsType
  <2>4. PICK a \in {"valid", "invalid", s.admin} : AdminEffect(s) = [s EXCEPT !.admin = a]
    BY <2>3, AdminEffectIs
  <2>5. ui' = [ui EXCEPT !.hook = "unavailable", !.admin = a, !.flying = h]
    BY <1>0, <1>12, <2>4 DEF EndAdminAnswer, Taken, SettingsType
  <2>6. a \in {"valid", "invalid", ui.admin}
    BY <2>3
  <2> HIDE DEF h, s
  <2> QED
    BY <1>0, <2>1, <2>2, <2>5, <2>6 DEF SettingsOK, SettingsType
<1> QED
  BY <1>1, <1>2, <1>3, <1>4, <1>5, <1>6, <1>7, <1>8, <1>9, <1>10, <1>11, <1>12 DEF SettingsNext

LEMMA SettingsTold == ASSUME SettingsOK(ui) PROVE SettingsKeptTold /\ SettingsNeverStuck
<1>1. SettingsKeptTold
  <2> SUFFICES ASSUME ui.flying = <<>>, "alert" \notin ReadinessPanel(ui)
               PROVE  \A profile \in Profiles : ReadinessRow(ui, profile)
    BY DEF SettingsKeptTold
  <2>1. ~Some(ui.flying, {"status", "after"})
    BY DEF Some
  <2>2. ~ui.error
    BY DEF ReadinessPanel
  <2> QED
    BY <2>1, <2>2 DEF SettingsOK, ReadinessRow
<1>2. SettingsNeverStuck
  BY DEF SettingsOK, SettingsNeverStuck, AdminButtons, StatusTable, Some
<1> QED
  BY <1>1, <1>2
-----------------------------------------------------------------------------
(* The settings: the form of the providers *)

FormRequests == Requests({"config", "test", "save", "reload"}, {None, "saved", "saved without llm"})
FormValues ==
    [provider : Providers \cup {"google"}, deep : Families \cup {None, "typed"}, quick : Families \cup {None, "typed"},
     url : {None, "deepseek", "openai", "typed"}, kept : BOOLEAN]

FormType ==
    [form : FormValues,
     testing : BOOLEAN, result : {None, "connected", "test failed", "save failed", "saved", "saved without llm"},
     flying : Seq(FormRequests)]

FormChoiceFits(form) ==
    /\ form.deep \in {"typed", None} \/ Fits(form.provider, form.deep)
    /\ form.quick \in {"typed", None} \/ Fits(form.provider, form.quick)
    /\ ~UrlShown(form) /\ ~form.kept => form.url = Defaults(form.provider).url

FormOK(s) ==
    /\ s \in FormType
    /\ FormChoiceFits(s.form)
    /\ s.testing => Some(s.flying, {"test"})

LEMMA DefaultsFit ==
    ASSUME NEW provider
    PROVE  /\ Defaults(provider).deep = None \/ Fits(provider, Defaults(provider).deep)
           /\ Defaults(provider).quick = None \/ Fits(provider, Defaults(provider).quick)
           /\ Defaults(provider).deep \in Families \cup {None} /\ Defaults(provider).quick \in Families \cup {None}
           /\ Defaults(provider).url \in {None, "deepseek", "openai"}
  BY DEF Defaults, Fits, Families, None

\* A model is kept where it fits the provider, and the default taken otherwise.
LEMMA FittingFits ==
    ASSUME NEW provider, NEW model, NEW default, default = None \/ Fits(provider, default)
    PROVE  /\ Fitting(provider, model, default) \in {model, default}
           /\ Fitting(provider, model, default) = None \/ Fits(provider, Fitting(provider, model, default))
  BY DEF Fitting

LEMMA FormOfFits ==
    ASSUME NEW config \in Configs
    PROVE  /\ FormOf(config) \in FormValues
           /\ FormChoiceFits(FormOf(config))
<1> DEFINE provider == config.provider
           deep == Fitting(provider, config.deep, Defaults(provider).deep)
           quick == Fitting(provider, config.quick, Defaults(provider).quick)
           url == IF config.provider = "google" THEN None
                  ELSE IF config.url # None THEN config.url ELSE Defaults(config.provider).url
           kept == config.provider # "google" /\ config.url # None
<1>1. provider \in Providers /\ config.deep \in Families /\ config.quick \in Families /\ config.url \in {None, "deepseek"}
  BY DEF Configs
<1>2. /\ deep \in Families \cup {None, "typed"} /\ (deep = None \/ Fits(provider, deep))
      /\ quick \in Families \cup {None, "typed"} /\ (quick = None \/ Fits(provider, quick))
  <2>1. /\ Defaults(provider).deep = None \/ Fits(provider, Defaults(provider).deep)
        /\ Defaults(provider).quick = None \/ Fits(provider, Defaults(provider).quick)
        /\ Defaults(provider).deep \in Families \cup {None} /\ Defaults(provider).quick \in Families \cup {None}
    BY DefaultsFit
  <2>2. deep \in {config.deep, Defaults(provider).deep} /\ (deep = None \/ Fits(provider, deep))
    BY <2>1, FittingFits
  <2>3. quick \in {config.quick, Defaults(provider).quick} /\ (quick = None \/ Fits(provider, quick))
    BY <2>1, FittingFits
  <2> QED
    BY <1>1, <2>1, <2>2, <2>3
<1>3. url \in {None, "deepseek", "openai", "typed"} /\ kept \in BOOLEAN /\ (kept \/ url = Defaults(provider).url)
  BY <1>1, DefaultsFit DEF Defaults, None
<1>4. FormOf(config) = [provider |-> provider, deep |-> deep, quick |-> quick, url |-> url, kept |-> kept]
  BY DEF FormOf
<1> HIDE DEF provider, deep, quick, url, kept
<1> QED
  BY <1>1, <1>2, <1>3, <1>4 DEF FormChoiceFits, FormValues

LEMMA ProviderChosenFits ==
    ASSUME NEW s \in FormType, NEW provider \in Providers
    PROVE  /\ ProviderChosen(s.form, provider) \in FormValues
           /\ FormChoiceFits(ProviderChosen(s.form, provider))
<1> DEFINE form == s.form
           deep == Fitting(provider, form.deep, Defaults(provider).deep)
           quick == Fitting(provider, form.quick, Defaults(provider).quick)
           url == Defaults(provider).url
<1>1. form \in FormValues
  BY DEF FormType
<1> HIDE DEF form
<1>2. /\ deep \in Families \cup {None, "typed"} /\ (deep = None \/ Fits(provider, deep))
      /\ quick \in Families \cup {None, "typed"} /\ (quick = None \/ Fits(provider, quick))
  <2>1. /\ Defaults(provider).deep = None \/ Fits(provider, Defaults(provider).deep)
        /\ Defaults(provider).quick = None \/ Fits(provider, Defaults(provider).quick)
        /\ Defaults(provider).deep \in Families \cup {None} /\ Defaults(provider).quick \in Families \cup {None}
    BY DefaultsFit
  <2>2. deep \in {form.deep, Defaults(provider).deep} /\ (deep = None \/ Fits(provider, deep))
    BY <2>1, FittingFits
  <2>3. quick \in {form.quick, Defaults(provider).quick} /\ (quick = None \/ Fits(provider, quick))
    BY <2>1, FittingFits
  <2>4. form.deep \in Families \cup {None, "typed"} /\ form.quick \in Families \cup {None, "typed"}
    BY <1>1 DEF FormValues
  <2> QED
    BY <2>1, <2>2, <2>3, <2>4
<1>3. url \in {None, "deepseek", "openai", "typed"}
  BY DefaultsFit
<1>4. ProviderChosen(form, provider)
        = [form EXCEPT !.provider = provider, !.url = url, !.kept = FALSE, !.deep = deep, !.quick = quick]
  BY DEF ProviderChosen
<1>5. url = Defaults(provider).url
  OBVIOUS
<1> HIDE DEF deep, quick, url
<1> QED
  BY <1>1, <1>2, <1>3, <1>4, <1>5 DEF FormChoiceFits, form, FormValues

LEMMA FormAsk ==
    ASSUME NEW f \in Seq(FormRequests), NEW what \in {"config", "test", "save"}
    PROVE  /\ AskOnce(f, what) \in Seq(FormRequests)
           /\ Some(f, {"test"}) \/ what \in {"test"} => Some(AskOnce(f, what), {"test"})
<1>1. [what |-> what, of |-> None, current |-> TRUE] \in FormRequests
  BY DEF FormRequests, Requests
<1> QED
  BY <1>1, AskOnceIs, SomeOnce

LEMMA FetchConfigKeeps ==
    ASSUME NEW s, FormOK(s)
    PROVE  FormOK(FetchConfig(s))
<1> DEFINE g == AskOnce(s.flying, "config")
<1>1. s \in FormType /\ s.flying \in Seq(FormRequests)
  BY DEF FormOK, FormType
<1>2. FetchConfig(s) = [s EXCEPT !.flying = g]
  BY DEF FetchConfig
<1>3. g \in Seq(FormRequests) /\ (Some(s.flying, {"test"}) => Some(g, {"test"}))
  BY <1>1, FormAsk
<1> HIDE DEF g
<1> QED
  BY <1>1, <1>2, <1>3 DEF FormOK, FormType

LEMMA FormStarts == FormInit => FormOK(ui)
<1> SUFFICES ASSUME FormInit PROVE FormOK(ui)
  OBVIOUS
<1> DEFINE f == <<>>
           form == [provider |-> "google", deep |-> "gemini", quick |-> "gemini", url |-> None, kept |-> FALSE]
           s == [form |-> form, testing |-> FALSE, result |-> None, flying |-> f]
<1>1. f \in Seq(FormRequests)
  OBVIOUS
<1>2. form \in FormValues
  BY DEF FormValues, Families
<1>3. FormChoiceFits(form)
  BY DEF FormChoiceFits, Fits, Defaults, None
<1>4. ui = FetchConfig(s)
  BY DEF FormInit
<1> HIDE DEF f, form
<1>5. FormOK(s)
  BY <1>1, <1>2, <1>3 DEF FormOK, FormType
<1> QED
  BY <1>4, <1>5, FetchConfigKeeps

\* A form that fits takes the place of the old one, while a request is answered.
LEMMA NewFormKeeps ==
    ASSUME NEW s, FormOK(s), NEW i \in DOMAIN s.flying, s.flying[i].what # "test",
           NEW form, FormChoiceFits(form),
           form \in FormValues,
           NEW result \in {None, "connected", "test failed", "save failed", "saved", "saved without llm"}
    PROVE  FormOK([s EXCEPT !.form = form, !.result = result, !.flying = Answered(s.flying, i)])
<1> DEFINE h == Answered(s.flying, i)
<1>1. s \in FormType /\ s.flying \in Seq(FormRequests)
  BY DEF FormOK, FormType
<1>2. h \in Seq(FormRequests)
  BY <1>1, AnsweredIn
<1>3. Some(s.flying, {"test"}) => Some(h, {"test"})
  BY <1>1, SomeAnswered
<1> HIDE DEF h
<1>4. FormOK([s EXCEPT !.form = form, !.result = result, !.flying = h])
  BY <1>1, <1>2, <1>3 DEF FormOK, FormType
<1> QED
  BY <1>4 DEF h

LEMMA FormSteps ==
    ASSUME FormOK(ui), FormNext
    PROVE  FormOK(ui')
<1> DEFINE f == ui.flying
<1>0. ui \in FormType /\ f \in Seq(FormRequests) /\ ui.form \in FormValues
  BY DEF FormOK, FormType
<1>1. ASSUME NEW i \in DOMAIN ui.flying, NEW config \in Configs \cup {NoConfig},
             ConfigAnswer(i, config) \/ ReloadAnswer(i, config)
      PROVE  FormOK(ui')
  <2> DEFINE form == IF config = NoConfig THEN ui.form ELSE FormOf(config)
             result == IF ConfigAnswer(i, config) THEN ui.result ELSE ui.flying[i].of
  <2>1. form \in FormValues /\ FormChoiceFits(form)
    BY <1>0, FormOfFits DEF FormOK
  <2>2. ui.flying[i] \in FormRequests
    BY <1>0
  <2>3. ui.flying[i].of \in {None, "saved", "saved without llm"}
    BY <2>2 DEF FormRequests, Requests
  <2>4. result \in {None, "connected", "test failed", "save failed", "saved", "saved without llm"}
    BY <1>0, <2>3 DEF FormType
  <2>5. ui.flying[i].what # "test"
    BY <1>1 DEF ConfigAnswer, ReloadAnswer
  <2>6. ui' = [ui EXCEPT !.form = form, !.result = result, !.flying = Answered(ui.flying, i)]
    <3>1. CASE ConfigAnswer(i, config)
      BY <1>0, <3>1 DEF ConfigAnswer, Taken, FormType
    <3>2. CASE ~ConfigAnswer(i, config)
      BY <1>0, <1>1, <3>2 DEF ReloadAnswer, Taken, FormType
    <3> QED
      BY <3>1, <3>2
  <2> HIDE DEF form, result
  <2> QED
    BY <2>1, <2>4, <2>5, <2>6, NewFormKeeps
<1>2. ASSUME NEW i \in DOMAIN ui.flying, NEW ok \in BOOLEAN, TestAnswer(i, ok)
      PROVE  FormOK(ui')
  <2> DEFINE h == Answered(f, i)
             result == IF ok THEN "connected" ELSE "test failed"
  <2>1. h \in Seq(FormRequests)
    BY <1>0, AnsweredIn
  <2>2. ui' = [ui EXCEPT !.testing = FALSE, !.result = result, !.flying = h]
    BY <1>0, <1>2 DEF TestAnswer, Taken, FormType
  <2>3. result \in {"connected", "test failed"}
    OBVIOUS
  <2> HIDE DEF h, result
  <2> QED
    BY <1>0, <2>1, <2>2, <2>3 DEF FormOK, FormType
<1>3. ASSUME NEW i \in DOMAIN ui.flying, NEW outcome \in {"saved", "saved without llm", "failed"}, SaveAnswer(i, outcome)
      PROVE  FormOK(ui')
  <2> DEFINE h == Answered(f, i)
             new == [what |-> "reload", of |-> outcome, current |-> TRUE]
             g == Append(h, new)
  <2>1. h \in Seq(FormRequests)
    BY <1>0, AnsweredIn
  <2>2. ui.flying[i].what = "save"
    BY <1>3 DEF SaveAnswer
  <2>3. Some(f, {"test"}) => Some(h, {"test"})
    BY <1>0, <2>2, SomeAnswered
  <2>4. IF outcome = "failed" THEN ui' = [ui EXCEPT !.flying = h, !.result = "save failed"]
                              ELSE ui' = [ui EXCEPT !.flying = g]
    BY <1>0, <1>3 DEF SaveAnswer, FormType
  <2>5. outcome # "failed" => new \in FormRequests
    BY DEF FormRequests, Requests
  <2> HIDE DEF h, new
  <2>6. CASE outcome = "failed"
    BY <1>0, <2>1, <2>3, <2>4, <2>6 DEF FormOK, FormType
  <2>7. CASE outcome # "failed"
    <3>0. new \in FormRequests
      BY <2>5, <2>7
    <3>1. g \in Seq(FormRequests)
      BY <2>1, <3>0, OneMore
    <3>2. Some(h, {"test"}) => Some(g, {"test"})
      BY <2>1, SomeMore
    <3> HIDE DEF g
    <3> QED
      BY <1>0, <2>3, <2>4, <2>7, <3>1, <3>2 DEF FormOK, FormType
  <2> QED
    BY <2>6, <2>7
<1>4. ASSUME NEW provider \in Providers, ChooseProvider(provider)
      PROVE  FormOK(ui')
  <2> DEFINE form == ProviderChosen(ui.form, provider)
  <2>1. form \in FormValues /\ FormChoiceFits(form)
    BY <1>0, ProviderChosenFits
  <2>2. ui' = [ui EXCEPT !.form = form, !.result = None]
    BY <1>4 DEF ChooseProvider
  <2> HIDE DEF form
  <2> QED
    BY <1>0, <2>1, <2>2 DEF FormOK, FormType
<1>5. ASSUME NEW field \in {"deep", "quick"}, NEW value \in {"typed", None}, TypeModel(field, value)
      PROVE  FormOK(ui')
  <2> DEFINE form == [ui.form EXCEPT ![field] = value]
  <2>1. ui' = [ui EXCEPT !.form = form]
    BY <1>0, <1>5 DEF TypeModel, FormType
  <2>2. form \in FormValues
    <3>1. CASE field = "deep"
      BY <1>0, <3>1 DEF FormValues
    <3>2. CASE field = "quick"
      BY <1>0, <3>2 DEF FormValues
    <3> QED
      BY <3>1, <3>2
  <2>3. FormChoiceFits(form)
    <3>1. CASE field = "deep"
      BY <1>0, <3>1 DEF FormOK, FormChoiceFits, FormValues, UrlShown
    <3>2. CASE field = "quick"
      BY <1>0, <3>2 DEF FormOK, FormChoiceFits, FormValues, UrlShown
    <3> QED
      BY <3>1, <3>2
  <2> HIDE DEF form
  <2> QED
    BY <1>0, <2>1, <2>2, <2>3 DEF FormOK, FormType
<1>6. CASE TypeUrl
  <2> DEFINE form == [ui.form EXCEPT !.url = "typed", !.kept = FALSE]
  <2>1. ui' = [ui EXCEPT !.form = form]
    BY <1>0, <1>6 DEF TypeUrl, FormType
  <2>2. form \in FormValues
    BY <1>0 DEF FormValues
  <2>3. FormChoiceFits(form)
    BY <1>0, <1>6 DEF FormOK, FormChoiceFits, TypeUrl, UrlShown, FormValues
  <2> HIDE DEF form
  <2> QED
    BY <1>0, <2>1, <2>2, <2>3 DEF FormOK, FormType
<1>7. CASE TestConnection
  <2> DEFINE g == AskOnce(f, "test")
  <2>1. g \in Seq(FormRequests) /\ Some(g, {"test"})
    BY <1>0, FormAsk
  <2>2. ui' = [ui EXCEPT !.testing = TRUE, !.result = None, !.flying = g]
    BY <1>7 DEF TestConnection
  <2> HIDE DEF g
  <2> QED
    BY <1>0, <2>1, <2>2 DEF FormOK, FormType
<1>8. CASE Save
  <2> DEFINE g == AskOnce(f, "save")
  <2>1. g \in Seq(FormRequests) /\ (Some(f, {"test"}) => Some(g, {"test"}))
    BY <1>0, FormAsk
  <2>2. ui' = [ui EXCEPT !.flying = g]
    BY <1>8 DEF Save
  <2> HIDE DEF g
  <2> QED
    BY <1>0, <2>1, <2>2 DEF FormOK, FormType
<1>9. CASE ReloadForm
  BY <1>9, FetchConfigKeeps DEF ReloadForm
<1> QED
  BY <1>1, <1>2, <1>3, <1>4, <1>5, <1>6, <1>7, <1>8, <1>9 DEF FormNext

LEMMA FormTold == ASSUME FormOK(ui) PROVE FormFits /\ FormNeverStuck
<1>1. FormFits
  <2>1. page = "form" => ~UrlShown(ui.form) \/ "url" \in FormFields(ui)
    BY DEF FormFields
  <2> QED
    BY <2>1 DEF FormOK, FormChoiceFits, FormFits
<1>2. FormNeverStuck
  BY DEF FormOK, FormNeverStuck, FormButtons, Some, Flying
<1> QED
  BY <1>1, <1>2

-----------------------------------------------------------------------------
(* The notes on companies *)

NotesOf == Articles \cup {None}
Searched == Queries \cup {None}
ArticleQuestions == [id : NotesOf, read : SUBSET Articles]

NotesRequests == Requests({"toc", "article", "search"}, ArticleQuestions \cup Searched)

NotesType ==
    [route : NotesOf, toc : BOOLEAN, loadingToc : BOOLEAN, active : NotesOf, markdown : NotesOf, loadingArt : BOOLEAN,
     error : BOOLEAN, read : SUBSET Articles, query : Searched, timer : BOOLEAN, hits : Searched, searching : BOOLEAN,
     searchError : BOOLEAN, flying : Seq(NotesRequests)]

\* One article is waited for, the open one, asked for with the list of articles
\* read as it is.
ArticleAsked(s) ==
    /\ AtMostOne(s.flying, "article")
    /\ Owned(s.flying, "article", [id |-> s.active, read |-> s.read])
    /\ Waiting(s.flying, "article") => s.active # None

\* What a settled pane shows is of the open article, or the error.
TextFits(s) ==
    /\ ~s.loadingArt /\ s.markdown # None => s.markdown = s.active
    /\ s.active # None /\ ~s.loadingArt /\ s.markdown = None => s.error
    /\ s.active # None => s.toc

HitsFit(s) ==
    /\ Owned(s.flying, "search", s.query)
    /\ s.hits \in {None, s.query} \/ s.searching \/ s.timer

RouteOpen(s) == s.toc /\ s.route # None => s.active = s.route

NotesOK(s) == s \in NotesType /\ ArticleAsked(s) /\ TextFits(s) /\ HitsFit(s) /\ RouteOpen(s)

LEMMA AskedNotes ==
    ASSUME NEW f \in Seq(NotesRequests), NEW what \in {"toc", "article", "search"}, NEW of \in ArticleQuestions \cup Searched
    PROVE  /\ Ask(f, what, of) \in Seq(NotesRequests) /\ Superseded(f, what) \in Seq(NotesRequests)
           /\ AtMostOne(Ask(f, what, of), what) /\ Owned(Ask(f, what, of), what, of)
           /\ \A other : other # what /\ AtMostOne(f, other) => AtMostOne(Ask(f, what, of), other)
           /\ \A other, o : other # what /\ Owned(f, other, o) => Owned(Ask(f, what, of), other, o)
           /\ \A other : other # what /\ Waiting(Ask(f, what, of), other) => Waiting(f, other)
           /\ \A other : Waiting(Superseded(f, what), other) => Waiting(f, other)
           /\ ~Waiting(Superseded(f, what), what)
           /\ \A other : AtMostOne(f, other) => AtMostOne(Superseded(f, what), other)
           /\ \A other, o : Owned(f, other, o) => Owned(Superseded(f, what), other, o)
           /\ \A o : Owned(Superseded(f, what), what, o)
<1> DEFINE W == {"toc", "article", "search"}
           O == ArticleQuestions \cup Searched
           g == Ask(f, what, of)
<1>0. NotesRequests = Requests(W, O) /\ what \in W /\ of \in O
  BY DEF NotesRequests
<1> HIDE DEF W, O
<1>1. /\ Ask(f, what, of) \in Seq(NotesRequests) /\ Owned(Ask(f, what, of), what, of)
      /\ \A other, o : other # what /\ Owned(f, other, o) => Owned(Ask(f, what, of), other, o)
      /\ \A other : other # what /\ Waiting(Ask(f, what, of), other) => Waiting(f, other)
  <2>1. /\ g \in Seq(NotesRequests) /\ Owned(g, what, of)
        /\ \A other : other # what => (Waiting(g, other) <=> Waiting(f, other))
        /\ \A other, o : other # what /\ Owned(f, other, o) => Owned(g, other, o)
    BY <1>0, GateAsk
  <2>2. \A other : other # what /\ Waiting(g, other) => Waiting(f, other)
    BY <2>1
  <2> QED
    BY <2>1, <2>2
<1>2. /\ Superseded(f, what) \in Seq(NotesRequests)
      /\ \A other, o : Owned(f, other, o) => Owned(Superseded(f, what), other, o)
      /\ \A o : Owned(Superseded(f, what), what, o)
      /\ \A other : Waiting(Superseded(f, what), other) => Waiting(f, other)
      /\ ~Waiting(Superseded(f, what), what)
  BY <1>0, Gate
<1>3. /\ AtMostOne(Ask(f, what, of), what)
      /\ \A other : other # what /\ AtMostOne(f, other) => AtMostOne(Ask(f, what, of), other)
  BY <1>0, OneAsked
<1>4. \A other : AtMostOne(f, other) => AtMostOne(Superseded(f, what), other)
  BY <1>0, OneOutdated
<1> QED
  BY <1>1, <1>2, <1>3, <1>4

LEMMA OpenArticleKeeps ==
    ASSUME NEW s \in NotesType, NEW id \in Articles, id # None, s.toc, HitsFit(s)
    PROVE  /\ OpenArticle(s, id) \in NotesType
           /\ ArticleAsked(OpenArticle(s, id)) /\ TextFits(OpenArticle(s, id)) /\ HitsFit(OpenArticle(s, id))
           /\ OpenArticle(s, id).active = id /\ OpenArticle(s, id).route = s.route /\ OpenArticle(s, id).toc
           /\ OpenArticle(s, id).read = s.read
<1> DEFINE f == s.flying
           of == [id |-> id, read |-> s.read]
           g == Ask(f, "article", of)
           t == OpenArticle(s, id)
<1>1. f \in Seq(NotesRequests) /\ of \in ArticleQuestions \cup Searched /\ id \in NotesOf
  BY DEF NotesType, ArticleQuestions, NotesOf
<1>2. t = [s EXCEPT !.active = id, !.loadingArt = TRUE, !.error = FALSE, !.flying = g]
  BY DEF OpenArticle
<1> HIDE DEF of
<1>3. /\ g \in Seq(NotesRequests) /\ AtMostOne(g, "article") /\ Owned(g, "article", of)
      /\ Owned(f, "search", s.query) => Owned(g, "search", s.query)
  <2> HIDE DEF f
  <2> QED
    BY <1>1, AskedNotes
<1> HIDE DEF g, t
<1>4. /\ t \in NotesType /\ t.active = id /\ t.loadingArt = TRUE /\ t.read = s.read /\ t.toc = s.toc /\ t.route = s.route
      /\ t.flying = g /\ t.query = s.query /\ t.hits = s.hits /\ t.searching = s.searching /\ t.timer = s.timer
  <2>1. id \in NotesOf /\ s \in NotesType /\ g \in Seq(NotesRequests)
    BY <1>1, <1>3
  <2> QED
    BY <1>2, <2>1 DEF NotesType
<1>5. ArticleAsked(t) /\ TextFits(t) /\ HitsFit(t)
  BY <1>3, <1>4 DEF ArticleAsked, TextFits, HitsFit, of
<1> QED
  BY <1>4, <1>5 DEF t

\* The effect on the route opens its article, from wherever the route came.
LEMMA FollowRouteKeeps ==
    ASSUME NEW s \in NotesType, ArticleAsked(s), TextFits(s), HitsFit(s)
    PROVE  NotesOK(FollowRoute(s)) /\ FollowRoute(s).read = s.read
<1>1. CASE s.route = None \/ ~s.toc \/ (s.active = s.route /\ s.markdown # None)
  <2>1. FollowRoute(s) = s
    BY <1>1 DEF FollowRoute
  <2> QED
    BY <1>1, <2>1 DEF NotesOK, RouteOpen
<1>2. CASE ~(s.route = None \/ ~s.toc \/ (s.active = s.route /\ s.markdown # None))
  <2>1. FollowRoute(s) = OpenArticle(s, s.route)
    BY <1>2 DEF FollowRoute
  <2>2. s.route \in Articles /\ s.route # None /\ s.toc
    BY <1>2 DEF NotesType, NotesOf
  <2> QED
    BY <2>1, <2>2, OpenArticleKeeps DEF NotesOK, RouteOpen
<1> QED
  BY <1>1, <1>2

LEMMA NotesStarts == NotesInit => NotesOK(ui)
<1> SUFFICES ASSUME NotesInit PROVE NotesOK(ui)
  OBVIOUS
<1> DEFINE f == <<>>
           g == Ask(f, "toc", None)
<1>1. PICK route \in NotesOf, read \in SUBSET Articles :
        ui = [route |-> route, toc |-> FALSE, loadingToc |-> TRUE, active |-> None,
              markdown |-> None, loadingArt |-> FALSE, error |-> FALSE, read |-> read,
              query |-> None, timer |-> FALSE, hits |-> None, searching |-> FALSE,
              searchError |-> FALSE, flying |-> g]
  BY DEF NotesInit, NotesOf
<1>2. f \in Seq(NotesRequests) /\ None \in ArticleQuestions \cup Searched
      /\ AtMostOne(f, "article") /\ Owned(f, "search", None) /\ (\A o : Owned(f, "article", o))
      /\ ~Waiting(f, "article")
  BY DEF Searched, AtMostOne, Owned, Waiting, Flying
<1> HIDE DEF f
<1>3. /\ g \in Seq(NotesRequests) /\ AtMostOne(g, "article") /\ Owned(g, "search", None)
      /\ (\A o : Owned(g, "article", o)) /\ ~Waiting(g, "article")
  BY <1>2, AskedNotes
<1> HIDE DEF g
<1>4. /\ ui \in NotesType /\ ui.flying = g /\ ui.toc = FALSE /\ ui.active = None /\ ui.markdown = None
      /\ ui.hits = None /\ ui.query = None
  BY <1>1, <1>3 DEF NotesType, NotesOf, Searched
<1> QED
  BY <1>3, <1>4 DEF NotesOK, ArticleAsked, TextFits, HitsFit, RouteOpen

\* Every step keeps the invariant, and every article that was read.
LEMMA NotesSteps ==
    ASSUME NotesOK(ui), NotesNext
    PROVE  NotesOK(ui') /\ ui.read \subseteq ui'.read
<1> DEFINE f == ui.flying
           h(i) == Answered(f, i)
<1>0. /\ ui \in NotesType /\ f \in Seq(NotesRequests) /\ ArticleAsked(ui) /\ TextFits(ui) /\ HitsFit(ui) /\ RouteOpen(ui)
  BY DEF NotesOK, NotesType
<1>h. ASSUME NEW i \in DOMAIN f
      PROVE  /\ h(i) \in Seq(NotesRequests) /\ f[i] \in NotesRequests
             /\ \A what, o : Owned(f, what, o) => Owned(h(i), what, o)
             /\ AtMostOne(h(i), "article") /\ (Waiting(h(i), "article") => Waiting(f, "article"))
             /\ f[i].what = "article" /\ f[i].current => ~Waiting(h(i), "article")
  <2>1. f[i] \in NotesRequests /\ AtMostOne(f, "article")
    BY <1>0 DEF ArticleAsked
  <2> HIDE DEF f
  <2>2. /\ h(i) \in Seq(NotesRequests) /\ (Waiting(h(i), "article") => Waiting(f, "article"))
        /\ \A what, o : Owned(f, what, o) => Owned(h(i), what, o)
    BY <1>0, GateAnswered
  <2>3. AtMostOne(h(i), "article") /\ (f[i].what = "article" /\ f[i].current => ~Waiting(h(i), "article"))
    BY <1>0, <2>1, OneAnswered
  <2> QED
    BY <2>1, <2>2, <2>3
\* The answer to an outdated request.
<1>u. ASSUME NEW i \in DOMAIN f, ui' = [ui EXCEPT !.flying = h(i)]
      PROVE  NotesOK(ui') /\ ui'.read = ui.read
  <2>1. /\ h(i) \in Seq(NotesRequests) /\ AtMostOne(h(i), "article") /\ (Waiting(h(i), "article") => Waiting(f, "article"))
        /\ \A what, o : Owned(f, what, o) => Owned(h(i), what, o)
    BY <1>h
  <2> HIDE DEF h
  <2>2. /\ ui' \in NotesType /\ ui'.flying = h(i) /\ ui'.route = ui.route /\ ui'.toc = ui.toc /\ ui'.active = ui.active
        /\ ui'.markdown = ui.markdown /\ ui'.loadingArt = ui.loadingArt /\ ui'.error = ui.error /\ ui'.read = ui.read
        /\ ui'.query = ui.query /\ ui'.timer = ui.timer /\ ui'.hits = ui.hits /\ ui'.searching = ui.searching
    BY <1>0, <1>u, <2>1 DEF NotesType
  <2> QED
    BY <1>0, <2>1, <2>2 DEF NotesOK, ArticleAsked, TextFits, HitsFit, RouteOpen
<1>1. ASSUME NEW i \in DOMAIN ui.flying, NEW ok \in BOOLEAN, TocAnswer(i, ok)
      PROVE  NotesOK(ui') /\ ui'.read = ui.read
  <2> DEFINE t == [ui EXCEPT !.toc = TRUE, !.loadingToc = FALSE]
             e == [ui EXCEPT !.error = TRUE, !.loadingToc = FALSE]
             s == IF ok THEN FollowRoute(t) ELSE e
  <2>1. f[i].what = "toc" /\ Heard(i, s)
    BY <1>1 DEF TocAnswer
  <2>2. /\ t \in NotesType /\ t.flying = f /\ t.active = ui.active /\ t.toc = TRUE
        /\ t.markdown = ui.markdown /\ t.loadingArt = ui.loadingArt /\ t.error = ui.error /\ t.read = ui.read
        /\ t.query = ui.query /\ t.timer = ui.timer /\ t.hits = ui.hits /\ t.searching = ui.searching
    BY <1>0 DEF NotesType
  <2>3. /\ e \in NotesType /\ e.flying = f /\ e.active = ui.active /\ e.toc = ui.toc /\ e.route = ui.route
        /\ e.markdown = ui.markdown /\ e.loadingArt = ui.loadingArt /\ e.error = TRUE /\ e.read = ui.read
        /\ e.query = ui.query /\ e.timer = ui.timer /\ e.hits = ui.hits /\ e.searching = ui.searching
    BY <1>0 DEF NotesType
  <2> HIDE DEF t, e
  <2>4. ArticleAsked(t) /\ TextFits(t) /\ HitsFit(t)
    BY <1>0, <2>2 DEF ArticleAsked, TextFits, HitsFit
  <2>5. NotesOK(e)
    BY <1>0, <2>3 DEF NotesOK, ArticleAsked, TextFits, HitsFit, RouteOpen
  <2>6. NotesOK(FollowRoute(t)) /\ FollowRoute(t).read = ui.read
    BY <2>2, <2>4, FollowRouteKeeps
  <2>7. NotesOK(s) /\ s.read = ui.read
    BY <2>3, <2>5, <2>6
  <2>8. CASE ~f[i].current
    <3>1. ui' = [ui EXCEPT !.flying = h(i)]
      BY <2>1, <2>8 DEF Heard
    <3> QED
      BY <1>u, <3>1
  <2>9. CASE f[i].current
    <3> DEFINE k == Answered(s.flying, i)
    <3>1. ui' = [s EXCEPT !.flying = k]
      BY <2>1, <2>9 DEF Heard
    <3>2. s.flying \in Seq(NotesRequests) /\ i \in DOMAIN s.flying
      <4>1. CASE ok /\ s # t
        <5>1. s = OpenArticle(t, t.route)
          BY <4>1 DEF FollowRoute
        <5> DEFINE of == [id |-> t.route, read |-> t.read]
                   g == Ask(t.flying, "article", of)
        <5>2. s.flying = g
          BY <2>2, <5>1 DEF OpenArticle, NotesType
        <5>3. of \in ArticleQuestions \cup Searched
          BY <2>2 DEF NotesType, ArticleQuestions
        <5>4. t.flying \in Seq(NotesRequests)
          BY <1>0, <2>2
        <5> HIDE DEF s, of
        <5>5. g \in Seq(NotesRequests) /\ Len(g) = Len(t.flying) + 1 /\ DOMAIN g = 1 .. Len(t.flying) + 1
          <6>1. g \in Seq(NotesRequests)
            BY <5>3, <5>4, AskedNotes
          <6>2. Len(g) = Len(t.flying) + 1 /\ DOMAIN g = 1 .. Len(t.flying) + 1
            BY <5>4, AskIs
          <6> QED
            BY <6>1, <6>2
        <5>6. i \in 1 .. Len(t.flying) /\ Len(t.flying) \in Nat
          BY <2>2, <5>4
        <5> HIDE DEF g
        <5> QED
          BY <5>2, <5>5, <5>6
      <4>2. CASE ~(ok /\ s # t)
        BY <1>0, <2>2, <2>3, <4>2
      <4> QED
        BY <4>1, <4>2
    <3>3. /\ k \in Seq(NotesRequests) /\ \A what, o : Owned(s.flying, what, o) => Owned(k, what, o)
          /\ AtMostOne(s.flying, "article") => AtMostOne(k, "article")
          /\ Waiting(k, "article") => Waiting(s.flying, "article")
      <4> HIDE DEF s
      <4> QED
        BY <3>2, GateAnswered, OneAnswered
    <3> HIDE DEF s, k
    <3>4. s \in NotesType
      BY <2>7 DEF NotesOK
    <3>5. /\ ui' \in NotesType /\ ui'.flying = k /\ ui'.route = s.route /\ ui'.toc = s.toc /\ ui'.active = s.active
          /\ ui'.markdown = s.markdown /\ ui'.loadingArt = s.loadingArt /\ ui'.error = s.error /\ ui'.read = s.read
          /\ ui'.query = s.query /\ ui'.timer = s.timer /\ ui'.hits = s.hits /\ ui'.searching = s.searching
      BY <3>1, <3>3, <3>4 DEF NotesType
    <3> QED
      BY <2>7, <3>3, <3>5 DEF NotesOK, ArticleAsked, TextFits, HitsFit, RouteOpen
  <2> QED
    BY <2>8, <2>9
<1>2. ASSUME NEW i \in DOMAIN ui.flying, NEW ok \in BOOLEAN, ArticleAnswer(i, ok)
      PROVE  NotesOK(ui') /\ ui.read \subseteq ui'.read
  <2> DEFINE asked == f[i].of
             s == WithArticle(ui, asked, ok)
  <2>1. f[i].what = "article" /\ Heard(i, s)
    BY <1>2 DEF ArticleAnswer
  <2>2. CASE ~f[i].current
    <3>1. ui' = [ui EXCEPT !.flying = h(i)]
      BY <2>1, <2>2 DEF Heard
    <3> QED
      BY <1>u, <3>1
  <2>3. CASE f[i].current
    <3>1. asked = [id |-> ui.active, read |-> ui.read]
      BY <1>0, <2>1, <2>3 DEF ArticleAsked, Owned
    <3>2. asked.id = ui.active /\ asked.read = ui.read
      BY <3>1
    <3>3. /\ h(i) \in Seq(NotesRequests) /\ AtMostOne(h(i), "article") /\ ~Waiting(h(i), "article")
          /\ \A what, o : Owned(f, what, o) => Owned(h(i), what, o)
      BY <1>h, <2>1, <2>3
    <3>4. \A o : Owned(h(i), "article", o)
      BY <3>3 DEF Owned, Waiting, Flying
    <3>5. Waiting(f, "article") /\ ui.active \in Articles /\ ui.active # None
      <4>1. Waiting(f, "article")
        BY <2>1, <2>3 DEF Waiting, Flying
      <4> HIDE DEF f
      <4> QED
        BY <1>0, <4>1 DEF ArticleAsked, NotesType, NotesOf, f
    <3> DEFINE read == IF ok THEN ui.read \cup {ui.active} ELSE ui.read
               markdown == IF ok THEN ui.active ELSE None
               error == ui.error \/ ~ok
    <3>6. s = [ui EXCEPT !.markdown = markdown, !.error = error, !.loadingArt = FALSE, !.read = read]
      <4> HIDE DEF f, asked
      <4>1. CASE ok
        <5>1. s = [ui EXCEPT !.markdown = ui.active, !.loadingArt = FALSE,
                             !.read = IF ui.active \in ui.read THEN ui.read ELSE ui.read \cup {ui.active}]
          BY <3>2, <4>1 DEF WithArticle
        <5>2. read = (IF ui.active \in ui.read THEN ui.read ELSE ui.read \cup {ui.active}) /\ error = ui.error
          BY <1>0, <4>1 DEF NotesType
        <5> HIDE DEF read, error, s
        <5> QED
          BY <1>0, <4>1, <5>1, <5>2 DEF NotesType
      <4>2. CASE ~ok
        <5>1. s = [ui EXCEPT !.markdown = None, !.error = TRUE, !.loadingArt = FALSE]
          BY <4>2 DEF WithArticle
        <5>2. read = ui.read /\ error = TRUE /\ markdown = None
          BY <4>2
        <5> HIDE DEF read, error, markdown, s
        <5> QED
          BY <1>0, <5>1, <5>2 DEF NotesType
      <4> QED
        BY <4>1, <4>2
    <3>7. /\ read \in SUBSET Articles /\ ui.read \subseteq read /\ markdown \in NotesOf /\ error \in BOOLEAN
          /\ (markdown # None => markdown = ui.active) /\ (markdown = None => error)
      BY <1>0, <3>5 DEF NotesType, NotesOf
    <3> HIDE DEF s, asked, read, markdown, error
    <3>8. s.flying = f
      BY <1>0, <3>6 DEF NotesType
    <3>9. ui' = [s EXCEPT !.flying = h(i)]
      BY <2>1, <2>3, <3>8 DEF Heard
    <3> HIDE DEF h, f
    <3>10. ui' = [ui EXCEPT !.markdown = markdown, !.error = error, !.loadingArt = FALSE, !.read = read, !.flying = h(i)]
      BY <1>0, <3>6, <3>9 DEF NotesType
    <3>11. /\ ui' \in NotesType /\ ui'.flying = h(i) /\ ui'.route = ui.route /\ ui'.toc = ui.toc /\ ui'.active = ui.active
           /\ ui'.markdown = markdown /\ ui'.loadingArt = FALSE /\ ui'.error = error /\ ui'.read = read
           /\ ui'.query = ui.query /\ ui'.timer = ui.timer /\ ui'.hits = ui.hits /\ ui'.searching = ui.searching
      BY <1>0, <3>3, <3>7, <3>10 DEF NotesType
    <3>12. ArticleAsked(ui') /\ TextFits(ui')
      BY <1>0, <3>3, <3>4, <3>7, <3>11 DEF ArticleAsked, TextFits
    <3>13. HitsFit(ui') /\ RouteOpen(ui')
      BY <1>0, <3>3, <3>11 DEF HitsFit, RouteOpen, f
    <3> QED
      BY <3>7, <3>11, <3>12, <3>13 DEF NotesOK
  <2> QED
    BY <2>2, <2>3
<1>3. ASSUME NEW i \in DOMAIN ui.flying, NEW ok \in BOOLEAN, SearchAnswer(i, ok)
      PROVE  NotesOK(ui') /\ ui'.read = ui.read
  <2> DEFINE hits == IF ok THEN f[i].of ELSE None
             error == ~ok
             s == [ui EXCEPT !.hits = hits, !.searchError = error, !.searching = FALSE]
  <2>1. f[i].what = "search" /\ Heard(i, s)
    BY <1>3 DEF SearchAnswer
  <2>2. CASE ~f[i].current
    <3>1. ui' = [ui EXCEPT !.flying = h(i)]
      BY <2>1, <2>2 DEF Heard
    <3> QED
      BY <1>u, <3>1
  <2>3. CASE f[i].current
    <3>1. f[i].of = ui.query /\ ui.query \in Searched
      BY <1>0, <2>1, <2>3 DEF HitsFit, Owned, NotesType
    <3>2. hits \in {None, ui.query} /\ hits \in Searched /\ error \in BOOLEAN
      BY <3>1 DEF Searched
    <3>3. /\ h(i) \in Seq(NotesRequests) /\ AtMostOne(h(i), "article") /\ (Waiting(h(i), "article") => Waiting(f, "article"))
          /\ \A what, o : Owned(f, what, o) => Owned(h(i), what, o)
      BY <1>h
    <3> HIDE DEF hits, error
    <3>4. s.flying = f
      BY <1>0 DEF NotesType
    <3> HIDE DEF s
    <3>5. ui' = [s EXCEPT !.flying = h(i)]
      BY <2>1, <2>3, <3>4 DEF Heard
    <3> HIDE DEF h, f
    <3>6. /\ ui' \in NotesType /\ ui'.flying = h(i) /\ ui'.route = ui.route /\ ui'.toc = ui.toc /\ ui'.active = ui.active
          /\ ui'.markdown = ui.markdown /\ ui'.loadingArt = ui.loadingArt /\ ui'.error = ui.error /\ ui'.read = ui.read
          /\ ui'.query = ui.query /\ ui'.timer = ui.timer /\ ui'.hits = hits
      BY <1>0, <3>2, <3>3, <3>5 DEF NotesType, s
    <3> QED
      BY <1>0, <3>2, <3>3, <3>6 DEF NotesOK, ArticleAsked, TextFits, HitsFit, RouteOpen, f
  <2> QED
    BY <2>2, <2>3
<1>4. ASSUME NEW id \in Articles, ClickArticle(id)
      PROVE  NotesOK(ui') /\ ui'.read = ui.read
  <2> DEFINE opened == OpenArticle(ui, id)
             t == [opened EXCEPT !.route = id]
  <2>1. ui.toc /\ ui' = IF ui.route = id THEN opened ELSE FollowRoute(t)
    BY <1>4 DEF ClickArticle
  <2>2. /\ opened \in NotesType /\ ArticleAsked(opened) /\ TextFits(opened) /\ HitsFit(opened)
        /\ opened.active = id /\ opened.route = ui.route /\ opened.read = ui.read /\ opened.toc
    BY <1>0, <2>1, ArticlesNamed, OpenArticleKeeps
  <2> HIDE DEF opened
  <2>3. CASE ui.route = id
    BY <2>1, <2>2, <2>3 DEF NotesOK, RouteOpen
  <2>4. CASE ui.route # id
    <3>1. /\ t \in NotesType /\ t.flying = opened.flying /\ t.toc = opened.toc /\ t.active = opened.active
          /\ t.markdown = opened.markdown /\ t.loadingArt = opened.loadingArt /\ t.error = opened.error /\ t.read = opened.read
          /\ t.query = opened.query /\ t.timer = opened.timer /\ t.hits = opened.hits /\ t.searching = opened.searching
      BY <2>2 DEF NotesType, NotesOf
    <3> HIDE DEF t
    <3>2. ArticleAsked(t) /\ TextFits(t) /\ HitsFit(t)
      BY <2>2, <3>1 DEF ArticleAsked, TextFits, HitsFit
    <3> QED
      BY <2>1, <2>2, <2>4, <3>1, <3>2, FollowRouteKeeps
  <2> QED
    BY <2>3, <2>4
<1>5. ASSUME NEW route \in Articles \cup {None}, Browse(route)
      PROVE  NotesOK(ui') /\ ui'.read = ui.read
  <2> DEFINE t == [ui EXCEPT !.route = route]
  <2>1. ui' = FollowRoute(t)
    BY <1>5 DEF Browse
  <2>2. /\ t \in NotesType /\ t.flying = f /\ t.toc = ui.toc /\ t.active = ui.active
        /\ t.markdown = ui.markdown /\ t.loadingArt = ui.loadingArt /\ t.error = ui.error /\ t.read = ui.read
        /\ t.query = ui.query /\ t.timer = ui.timer /\ t.hits = ui.hits /\ t.searching = ui.searching
    BY <1>0 DEF NotesType, NotesOf
  <2> HIDE DEF t
  <2>3. ArticleAsked(t) /\ TextFits(t) /\ HitsFit(t)
    BY <1>0, <2>2 DEF ArticleAsked, TextFits, HitsFit
  <2> QED
    BY <2>1, <2>2, <2>3, FollowRouteKeeps
<1>6. ASSUME NEW query \in Queries \cup {None}, Type(query)
      PROVE  NotesOK(ui') /\ ui'.read = ui.read
  <2> DEFINE g == Superseded(f, "search")
             hits == IF query = None THEN None ELSE ui.hits
             timer == query # None
  <2>1. /\ ui'.flying = g /\ ui'.route = ui.route /\ ui'.toc = ui.toc /\ ui'.active = ui.active
        /\ ui'.markdown = ui.markdown /\ ui'.loadingArt = ui.loadingArt /\ ui'.error = ui.error /\ ui'.read = ui.read
        /\ ui'.query = query /\ ui'.timer = timer /\ ui'.hits = hits
        /\ g \in Seq(NotesRequests) => ui' \in NotesType
    <3>1. query \in Searched /\ hits \in Searched /\ timer \in BOOLEAN
      BY <1>0 DEF NotesType, Searched
    <3>2. CASE query = None
      <4>1. ui' = [ui EXCEPT !.query = None, !.timer = FALSE, !.hits = None, !.searching = FALSE,
                             !.searchError = FALSE, !.flying = g]
        BY <1>6, <3>2 DEF Type
      <4> HIDE DEF g
      <4> QED
        BY <1>0, <3>1, <3>2, <4>1 DEF NotesType
    <3>3. CASE query # None
      <4>1. ui' = [ui EXCEPT !.query = query, !.timer = TRUE, !.flying = g]
        BY <1>6, <3>3 DEF Type
      <4> HIDE DEF g
      <4> QED
        BY <1>0, <3>1, <3>3, <4>1 DEF NotesType
    <3> QED
      BY <3>2, <3>3
  <2>2. None \in ArticleQuestions \cup Searched
    BY DEF Searched
  <2>3. /\ g \in Seq(NotesRequests) /\ AtMostOne(g, "article") /\ (\A o : Owned(g, "search", o))
        /\ (\A o : Owned(f, "article", o) => Owned(g, "article", o))
        /\ (Waiting(g, "article") => Waiting(f, "article"))
    <3> HIDE DEF f
    <3> QED
      BY <1>0, <2>2, AskedNotes DEF ArticleAsked, f
  <2> HIDE DEF g, f
  <2>4. ArticleAsked(ui') /\ TextFits(ui') /\ RouteOpen(ui')
    BY <1>0, <2>1, <2>3 DEF ArticleAsked, TextFits, RouteOpen, f
  <2>5. HitsFit(ui')
    BY <2>1, <2>3 DEF HitsFit
  <2> QED
    BY <2>1, <2>3, <2>4, <2>5 DEF NotesOK
<1>7. ASSUME RetryToc
      PROVE  NotesOK(ui') /\ ui'.read = ui.read
  <2> DEFINE g == Ask(f, "toc", None)
  <2>1. ~ui.toc /\ ui' = [ui EXCEPT !.loadingToc = TRUE, !.error = FALSE, !.flying = g]
    BY <1>7 DEF RetryToc
  <2>2. None \in ArticleQuestions \cup Searched
    BY DEF Searched
  <2>3. /\ g \in Seq(NotesRequests) /\ AtMostOne(g, "article") /\ (Waiting(g, "article") => Waiting(f, "article"))
        /\ \A what, o : what # "toc" /\ Owned(f, what, o) => Owned(g, what, o)
    <3> HIDE DEF f
    <3> QED
      BY <1>0, <2>2, AskedNotes DEF ArticleAsked, f
  <2> HIDE DEF g
  <2>4. /\ ui' \in NotesType /\ ui'.flying = g /\ ui'.route = ui.route /\ ui'.toc = ui.toc /\ ui'.active = ui.active
        /\ ui'.markdown = ui.markdown /\ ui'.loadingArt = ui.loadingArt /\ ui'.error = FALSE /\ ui'.read = ui.read
        /\ ui'.query = ui.query /\ ui'.timer = ui.timer /\ ui'.hits = ui.hits /\ ui'.searching = ui.searching
    BY <1>0, <2>1, <2>3 DEF NotesType
  <2> HIDE DEF f
  <2>5. ArticleAsked(ui') /\ HitsFit(ui')
    BY <1>0, <2>3, <2>4 DEF ArticleAsked, HitsFit, f
  <2>6. TextFits(ui') /\ RouteOpen(ui')
    BY <1>0, <2>1, <2>4 DEF TextFits, RouteOpen
  <2> QED
    BY <2>4, <2>5, <2>6 DEF NotesOK
<1>8. ASSUME LeaveArticle
      PROVE  NotesOK(ui') /\ ui'.read = ui.read
  <2> DEFINE g == Superseded(f, "article")
  <2>1. ui' = [ui EXCEPT !.active = None, !.markdown = None, !.route = None, !.flying = g]
    BY <1>8 DEF LeaveArticle
  <2>2. None \in ArticleQuestions \cup Searched /\ None \in NotesOf
    BY DEF Searched, NotesOf
  <2>3. /\ g \in Seq(NotesRequests) /\ AtMostOne(g, "article") /\ (\A o : Owned(g, "article", o))
        /\ (\A o : Owned(f, "search", o) => Owned(g, "search", o)) /\ ~Waiting(g, "article")
    <3> HIDE DEF f
    <3> QED
      BY <1>0, <2>2, AskedNotes DEF ArticleAsked, f
  <2> HIDE DEF g
  <2>4. /\ ui' \in NotesType /\ ui'.flying = g /\ ui'.route = None /\ ui'.toc = ui.toc /\ ui'.active = None
        /\ ui'.markdown = None /\ ui'.read = ui.read
        /\ ui'.query = ui.query /\ ui'.timer = ui.timer /\ ui'.hits = ui.hits /\ ui'.searching = ui.searching
    BY <1>0, <2>1, <2>2, <2>3 DEF NotesType
  <2> HIDE DEF f
  <2>5. ArticleAsked(ui') /\ HitsFit(ui')
    BY <1>0, <2>3, <2>4 DEF ArticleAsked, HitsFit, f
  <2>6. TextFits(ui') /\ RouteOpen(ui')
    BY <2>4 DEF TextFits, RouteOpen
  <2> QED
    BY <2>4, <2>5, <2>6 DEF NotesOK
<1>9. ASSUME SearchTimer
      PROVE  NotesOK(ui') /\ ui'.read = ui.read
  <2> DEFINE g == Ask(f, "search", ui.query)
  <2>1. ui' = [ui EXCEPT !.timer = FALSE, !.searching = TRUE, !.searchError = FALSE, !.flying = g]
    BY <1>9 DEF SearchTimer
  <2>2. ui.query \in ArticleQuestions \cup Searched
    BY <1>0 DEF NotesType
  <2>3. /\ g \in Seq(NotesRequests) /\ AtMostOne(g, "article") /\ (Waiting(g, "article") => Waiting(f, "article"))
        /\ (\A o : Owned(f, "article", o) => Owned(g, "article", o)) /\ Owned(g, "search", ui.query)
    <3> HIDE DEF f
    <3> QED
      BY <1>0, <2>2, AskedNotes DEF ArticleAsked, f
  <2> HIDE DEF g
  <2>4. /\ ui' \in NotesType /\ ui'.flying = g /\ ui'.route = ui.route /\ ui'.toc = ui.toc /\ ui'.active = ui.active
        /\ ui'.markdown = ui.markdown /\ ui'.loadingArt = ui.loadingArt /\ ui'.error = ui.error /\ ui'.read = ui.read
        /\ ui'.query = ui.query /\ ui'.searching = TRUE
    BY <1>0, <2>1, <2>3 DEF NotesType
  <2> HIDE DEF f
  <2>5. ArticleAsked(ui') /\ HitsFit(ui')
    BY <1>0, <2>3, <2>4 DEF ArticleAsked, HitsFit, f
  <2>6. TextFits(ui') /\ RouteOpen(ui')
    BY <1>0, <2>4 DEF TextFits, RouteOpen
  <2> QED
    BY <2>4, <2>5, <2>6 DEF NotesOK
<1> QED
  BY <1>1, <1>2, <1>3, <1>4, <1>5, <1>6, <1>7, <1>8, <1>9 DEF NotesNext

LEMMA NotesTold ==
    ASSUME NotesOK(ui)
    PROVE  NotesShowsSelection /\ NotesRouteOpen
<1>1. /\ ~ui.loadingArt /\ ui.markdown # None => ui.markdown = ui.active
      /\ ui.active # None /\ ~ui.loadingArt /\ ui.markdown = None => ui.error
      /\ ui.hits \in {None, ui.query} \/ ui.searching \/ ui.timer
      /\ ui.toc /\ ui.route # None => ui.active = ui.route
  BY DEF NotesOK, TextFits, HitsFit, RouteOpen
<1>2. "text" \in ArticlePane(ui) => ~ui.loadingArt /\ ui.markdown # None
  BY DEF ArticlePane
<1>3. "title" \in ArticlePane(ui) => ArticlePane(ui) \cap {"loading", "error", "busy text", "text"} # {}
  <2> SUFFICES ASSUME "title" \in ArticlePane(ui)
               PROVE  \E w \in {"loading", "error", "busy text", "text"} : w \in ArticlePane(ui)
    OBVIOUS
  <2>1. ui.active # None
    BY DEF ArticlePane
  <2>2. CASE ui.loadingArt /\ ui.markdown = None
    BY <2>1, <2>2 DEF ArticlePane
  <2>3. CASE ui.loadingArt /\ ui.markdown # None
    BY <2>1, <2>3 DEF ArticlePane
  <2>4. CASE ~ui.loadingArt /\ ui.markdown # None
    BY <2>1, <2>4 DEF ArticlePane
  <2>5. CASE ~ui.loadingArt /\ ui.markdown = None
    BY <1>1, <2>1, <2>5 DEF ArticlePane
  <2> QED
    BY <2>2, <2>3, <2>4, <2>5
<1>4. SearchPane(ui).hits \in {None, ui.query} \/ SearchPane(ui).busy
  BY <1>1 DEF SearchPane
<1> QED
  BY <1>1, <1>2, <1>3, <1>4 DEF NotesShowsSelection, NotesRouteOpen

-----------------------------------------------------------------------------
(* The runs of the research lab *)

RunOf == Researched \cup {None}
LabEvents == [type : {"analysis_start"} \cup Endings, of : RunOf]
LabRequests == Requests({"start", "stop", "status"}, {"idle", "busy", "refused", "accepted"})

LabRuns == [of : RunOf, ended : BOOLEAN, batch : BOOLEAN]

LabType ==
    [run : LabRuns, connected : BOOLEAN, wire : Seq(LabEvents), lost : BOOLEAN, missed : BOOLEAN, advised : RunOf,
     decision : RunOf, running : BOOLEAN, error : BOOLEAN, flying : Seq(LabRequests)]

LabOK(s) == s \in LabType

LEMMA SendKeeps ==
    ASSUME NEW s, LabOK(s), NEW what \in {"start", "stop", "status"}, NEW answer \in {"idle", "busy", "refused", "accepted"}
    PROVE  LabOK(Send(s, what, answer)) /\ LabOK(SendStatus(s))
<1>1. ASSUME NEW w \in {"start", "stop", "status"}, NEW a \in {"idle", "busy", "refused", "accepted"}
      PROVE  LabOK(Send(s, w, a))
  <2> DEFINE new == [what |-> w, of |-> a, current |-> TRUE]
             g == Append(s.flying, new)
  <2>1. new \in LabRequests
    BY DEF LabRequests, Requests
  <2> HIDE DEF new
  <2>2. g \in Seq(LabRequests)
    BY <2>1 DEF LabOK, LabType
  <2> HIDE DEF g
  <2>3. Send(s, w, a) = [s EXCEPT !.flying = g]
    BY DEF Send, g, new
  <2> QED
    BY <2>2, <2>3 DEF LabOK, LabType
<1>2. "status" \in {"start", "stop", "status"} /\ (IF s.run.of = None THEN "idle" ELSE "busy") \in {"idle", "busy", "refused", "accepted"}
  OBVIOUS
<1> QED
  BY <1>1, <1>2 DEF SendStatus

LEMMA RunIs ==
    /\ \A of \in RunOf, batch \in BOOLEAN : Run(of, batch) \in LabRuns
    /\ NoRun \in LabRuns /\ None \in RunOf
  BY DEF Run, NoRun, LabRuns, RunOf

LEMMA DisconnectedKeeps ==
    ASSUME NEW s, LabOK(s)
    PROVE  LabOK(Disconnected(s))
<1>1. <<>> \in Seq(LabEvents)
  OBVIOUS
<1>2. (s.lost \/ s.wire # <<>>) \in BOOLEAN /\ (s.missed \/ ResultTold(s.wire)) \in BOOLEAN
  OBVIOUS
<1> QED
  BY <1>1, <1>2 DEF LabOK, LabType, Disconnected

\* What the page knows when it is opened for the first time.
LabOpen(run) ==
    [run |-> run, connected |-> FALSE, wire |-> <<>>, lost |-> run.of # None, missed |-> FALSE,
     advised |-> None, decision |-> None, running |-> FALSE, error |-> FALSE, flying |-> <<>>]

LEMMA LabOpened ==
    ASSUME LabInit
    PROVE  \E run \in LabRuns :
               /\ ui = SendStatus(LabOpen(run)) /\ LabOpen(run) \in LabType
               /\ LabOpen(run).wire = <<>> /\ ~LabOpen(run).connected /\ ~LabOpen(run).running /\ LabOpen(run).decision = None
<1>1. PICK of \in RunOf, batch \in BOOLEAN : ui = SendStatus(LabOpen(Run(of, batch)))
  BY DEF LabInit, LabOpen, Run, RunOf
<1> DEFINE run == Run(of, batch)
           none == <<>>
           lost == run.of # None
<1>2. run \in LabRuns
  BY RunIs
<1>3. none \in Seq(LabEvents) /\ none \in Seq(LabRequests) /\ lost \in BOOLEAN
  OBVIOUS
<1>4. LabOpen(run) = [run |-> run, connected |-> FALSE, wire |-> none, lost |-> lost, missed |-> FALSE,
                     advised |-> None, decision |-> None, running |-> FALSE, error |-> FALSE, flying |-> none]
  BY DEF LabOpen
<1> HIDE DEF none, lost
<1> HIDE DEF run
<1>5. /\ LabOpen(run) \in LabType
      /\ LabOpen(run).wire = none /\ ~LabOpen(run).connected /\ ~LabOpen(run).running /\ LabOpen(run).decision = None
  BY <1>2, <1>3, <1>4, RunIs DEF LabType
<1> QED
  BY <1>1, <1>2, <1>5 DEF none, run

LEMMA LabStarts == LabInit => LabOK(ui)
  BY LabOpened, SendKeeps DEF LabOK

\* What an event that is told changes.
LEMMA RunTold ==
    ASSUME LabOK(ui), NEW type \in {"analysis_start"} \cup Endings, RunTells(type)
    PROVE  /\ ui' \in LabType
           /\ ui'.connected = ui.connected /\ ui'.running = ui.running /\ ui'.decision = ui.decision
           /\ ui'.flying = ui.flying
           /\ ui'.run.of = ui.run.of /\ ui'.run.ended = (type \in Endings)
           /\ ui'.advised = (IF type = "BUY" THEN ui.run.of ELSE IF type \in Results THEN None ELSE ui.advised)
           /\ \/ /\ ui.connected /\ ui'.wire = Append(ui.wire, [type |-> type, of |-> ui.run.of])
                 /\ ui'.lost = ui.lost /\ ui'.missed = ui.missed
              \/ ~ui.connected /\ ui'.wire = ui.wire /\ ui'.lost = TRUE /\ ui'.missed = (ui.missed \/ type \in Results)
<1>0. ui \in LabType
  BY DEF LabOK
<1> DEFINE event == [type |-> type, of |-> ui.run.of]
           wire == Append(ui.wire, event)
           missed == ui.missed \/ type \in Results
           ended == type \in Endings
           advised == IF type = "BUY" THEN ui.run.of ELSE IF type \in Results THEN None ELSE ui.advised
           run == [ui.run EXCEPT !.ended = ended]
           s == Broadcast(ui, type)
<1>1. ui.run \in LabRuns /\ ui.wire \in Seq(LabEvents) /\ ui.run.of \in RunOf /\ ui.advised \in RunOf
  BY <1>0 DEF LabType, LabRuns
<1>2. event \in LabEvents
  BY <1>1 DEF LabEvents
<1>3. missed \in BOOLEAN /\ ended \in BOOLEAN /\ advised \in RunOf
  BY <1>1, RunIs
<1>4. wire \in Seq(LabEvents)
  <2> HIDE DEF event
  <2> QED
    BY <1>1, <1>2
<1>5. \/ ui.connected /\ s = [ui EXCEPT !.wire = wire]
      \/ ~ui.connected /\ s = [ui EXCEPT !.lost = TRUE, !.missed = missed]
  BY DEF Broadcast
<1> HIDE DEF missed, ended, wire, s
<1>6. run \in LabRuns /\ run.of = ui.run.of /\ run.ended = ended
  BY <1>1, <1>3 DEF LabRuns
<1>7. /\ s \in LabType /\ s.run = ui.run /\ s.advised = ui.advised /\ s.connected = ui.connected
      /\ s.running = ui.running /\ s.decision = ui.decision /\ s.flying = ui.flying
      /\ \/ ui.connected /\ s.wire = wire /\ s.lost = ui.lost /\ s.missed = ui.missed
         \/ ~ui.connected /\ s.wire = ui.wire /\ s.lost = TRUE /\ s.missed = missed
  BY <1>0, <1>3, <1>4, <1>5 DEF LabType
<1>8. ui' = [s EXCEPT !.run = run, !.advised = advised]
  <2>1. ui' = [s EXCEPT !.run.ended = ended,
                        !.advised = IF type = "BUY" THEN ui.run.of ELSE IF type \in Results THEN None ELSE @]
    BY DEF RunTells, s, ended
  <2> QED
    BY <1>7, <2>1
<1> HIDE DEF run, advised
<1>9. /\ ui' \in LabType /\ ui'.run = run /\ ui'.advised = advised /\ ui'.connected = s.connected
      /\ ui'.running = s.running /\ ui'.decision = s.decision /\ ui'.flying = s.flying
      /\ ui'.wire = s.wire /\ ui'.lost = s.lost /\ ui'.missed = s.missed
  BY <1>3, <1>6, <1>7, <1>8 DEF LabType
<1> QED
  BY <1>6, <1>7, <1>9 DEF wire, missed, ended, advised

LEMMA LabSteps ==
    ASSUME LabOK(ui), LabNext
    PROVE  LabOK(ui')
<1>0. ui \in LabType /\ ui.flying \in Seq(LabRequests)
  BY DEF LabOK, LabType
\* An answer.
<1>t. ASSUME NEW i \in DOMAIN ui.flying, NEW s \in LabType, s.flying = ui.flying, Taken(i, s)
      PROVE  LabOK(ui')
  <2> DEFINE f == ui.flying
             h == Answered(f, i)
  <2>1. h \in Seq(LabRequests)
    <3> HIDE DEF f
    <3> QED
      BY <1>0, <1>t, AnsweredIn DEF f
  <2>2. ui' = [s EXCEPT !.flying = h]
    BY <1>t DEF Taken
  <2> HIDE DEF h
  <2> QED
    BY <1>t, <2>1, <2>2 DEF LabOK, LabType
<1>1. ASSUME NEW i \in DOMAIN ui.flying, NEW ok \in BOOLEAN, StartAnswer(i, ok) PROVE LabOK(ui')
  <2> DEFINE s == IF ok THEN ui ELSE [ui EXCEPT !.running = FALSE, !.error = TRUE]
  <2>1. Taken(i, s)
    BY <1>1 DEF StartAnswer
  <2>2. s \in LabType /\ s.flying = ui.flying
    BY <1>0 DEF LabType
  <2> HIDE DEF s
  <2> QED
    BY <1>t, <2>1, <2>2
<1>2. ASSUME NEW i \in DOMAIN ui.flying, NEW ok \in BOOLEAN, StopAnswer(i, ok) PROVE LabOK(ui')
  <2> DEFINE s == IF ok THEN [ui EXCEPT !.running = FALSE] ELSE [ui EXCEPT !.error = TRUE]
  <2>1. Taken(i, s)
    BY <1>2 DEF StopAnswer
  <2>2. s \in LabType /\ s.flying = ui.flying
    BY <1>0 DEF LabType
  <2> HIDE DEF s
  <2> QED
    BY <1>t, <2>1, <2>2
<1>3. ASSUME NEW i \in DOMAIN ui.flying, NEW ok \in BOOLEAN, StatusOfRun(i, ok) PROVE LabOK(ui')
  <2> DEFINE busy == ui.flying[i].of = "busy"
             lost == busy # Going(ui) \/ (ui.lost /\ ui.wire # <<>>)
             s == IF ~ok THEN [ui EXCEPT !.error = TRUE] ELSE [ui EXCEPT !.running = busy, !.lost = lost, !.error = FALSE]
  <2>1. Taken(i, s)
    BY <1>3 DEF StatusOfRun
  <2>2. busy \in BOOLEAN /\ lost \in BOOLEAN
    OBVIOUS
  <2> HIDE DEF busy, lost
  <2>3. s \in LabType /\ s.flying = ui.flying
    BY <1>0, <2>2 DEF LabType
  <2> HIDE DEF s
  <2> QED
    BY <1>t, <2>1, <2>3
<1>4. ASSUME NEW type \in {"analysis_start"} \cup Endings, RunTells(type) PROVE LabOK(ui')
  BY <1>4, RunTold DEF LabOK
<1>5. ASSUME NEW symbol \in Researched, NEW batch \in BOOLEAN, RunElsewhere(symbol, batch) \/ NextOfBatch(symbol)
      PROVE  LabOK(ui')
  <2>1. symbol \in RunOf /\ \E run \in LabRuns : ui' = [ui EXCEPT !.run = run]
    BY <1>5, RunIs DEF RunElsewhere, NextOfBatch, RunOf
  <2> QED
    BY <1>0, <2>1 DEF LabOK, LabType
<1>6. ASSUME NEW symbol \in Researched, StartAnalysis(symbol) PROVE LabOK(ui')
  <2> DEFINE s == [ui EXCEPT !.running = TRUE, !.error = FALSE, !.decision = None, !.missed = FALSE]
             t == [s EXCEPT !.run = Run(symbol, FALSE)]
  <2>1. ui' = Send(s, "start", "refused") \/ ui' = Send(t, "start", "accepted")
    BY <1>6 DEF StartAnalysis
  <2>2. s \in LabType
    BY <1>0, RunIs DEF LabType
  <2> HIDE DEF s
  <2>3. symbol \in RunOf
    BY DEF RunOf
  <2>4. t \in LabType
    BY <2>2, <2>3, RunIs DEF LabType
  <2> HIDE DEF t
  <2> QED
    BY <2>1, <2>2, <2>4, SendKeeps DEF LabOK
<1>7. CASE StopAnalysis
  <2> DEFINE s == [ui EXCEPT !.error = FALSE]
             answer == IF ui.run.of = None THEN "refused" ELSE "accepted"
  <2>1. ui' = Send(s, "stop", answer) /\ answer \in {"idle", "busy", "refused", "accepted"}
    BY <1>7 DEF StopAnalysis
  <2> HIDE DEF answer
  <2>2. LabOK(s)
    BY <1>0 DEF LabOK, LabType
  <2> HIDE DEF s
  <2> QED
    BY <2>1, <2>2, SendKeeps
<1>8. CASE SyncStatus
  BY <1>8, SendKeeps DEF SyncStatus
<1>9. CASE RevisitLab
  <2> DEFINE d == Disconnected(ui)
             s == [d EXCEPT !.error = FALSE]
  <2>1. ui' = SendStatus(s)
    BY <1>9 DEF RevisitLab
  <2>2. LabOK(d)
    BY DisconnectedKeeps
  <2> HIDE DEF d
  <2>3. LabOK(s)
    BY <2>2 DEF LabOK, LabType
  <2> HIDE DEF s
  <2> QED
    BY <2>1, <2>3, SendKeeps
<1>10. CASE SocketUp
  BY <1>0, <1>10 DEF SocketUp, LabOK, LabType
<1>11. CASE SocketDown
  BY <1>11, DisconnectedKeeps DEF SocketDown
<1>12. CASE RunPutAway
  BY <1>0, <1>12, RunIs DEF RunPutAway, LabOK, LabType
<1>13. CASE HandleWsEvent
  <2> DEFINE event == Head(ui.wire)
             rest == Tail(ui.wire)
             s == [ui EXCEPT !.wire = rest]
  <2>1. event \in LabEvents /\ rest \in Seq(LabEvents)
    BY <1>0, <1>13 DEF HandleWsEvent, LabType
  <2>2. event.of \in RunOf /\ None \in RunOf
    BY <2>1, RunIs DEF LabEvents
  <2>3. \/ ui' = [s EXCEPT !.running = TRUE] \/ ui' = [s EXCEPT !.running = FALSE]
        \/ ui' = [s EXCEPT !.running = FALSE, !.missed = FALSE, !.decision = None]
        \/ ui' = [s EXCEPT !.running = FALSE, !.missed = FALSE, !.decision = event.of]
    <3>1. CASE event.type \in Decisions /\ ui' = HeardDecision(s, event)
      <4> HIDE DEF s, event
      <4> QED
        BY <3>1 DEF HeardDecision
    <3>2. CASE event.type = "analysis_unavailable" /\ ui' = HeardUnavailable(s)
      BY <3>2 DEF HeardUnavailable
    <3> QED
      BY <1>13, <3>1, <3>2 DEF HandleWsEvent
  <2> HIDE DEF rest, event
  <2>4. s \in LabType
    BY <1>0, <2>1 DEF LabType
  <2> HIDE DEF s
  <2> QED
    BY <2>2, <2>3, <2>4 DEF LabOK, LabType
<1>14. CASE BatchRunFails
  <2>1. ui.run \in LabRuns
    BY <1>0 DEF LabType
  <2>2. [ui.run EXCEPT !.ended = TRUE] \in LabRuns
    BY <2>1 DEF LabRuns
  <2>3. ui' = [ui EXCEPT !.run = [ui.run EXCEPT !.ended = TRUE], !.lost = TRUE]
    BY <1>14 DEF BatchRunFails
  <2> QED
    BY <1>0, <2>2, <2>3 DEF LabOK, LabType
<1> QED
  BY <1>1, <1>2, <1>3, <1>4, <1>5, <1>6, <1>7, <1>8, <1>9, <1>10, <1>11, <1>12, <1>13, <1>14 DEF LabNext

\* The end of a run on the wire, a run told of on it that is going or whose end
\* is there too, and a start that the server refused.
EndTold(wire) == \E k \in DOMAIN wire : wire[k].type \in Endings

Heralded(wire, going) ==
    \A k \in DOMAIN wire :
        wire[k].type = "analysis_start" => going \/ \E j \in DOMAIN wire : j > k /\ wire[j].type \in Endings

RefusedStart(f) == \E i \in DOMAIN f : f[i].what = "start" /\ f[i].of = "refused"

\* A page that offers to stop a run knows of one that is going or of its end to
\* come, unless it was not told of something; a closed socket has no events.
LabWaits(s) ==
    /\ ~s.connected => s.wire = <<>>
    /\ Heralded(s.wire, Going(s) \/ s.lost)
    /\ s.running /\ ~s.lost => Going(s) \/ EndTold(s.wire) \/ RefusedStart(s.flying)

LEMMA WireEmpty == ~EndTold(<<>>) /\ \A going : Heralded(<<>>, going)
  BY DEF EndTold, Heralded

\* One event more, and the first one taken away.
LEMMA WireMore ==
    ASSUME NEW wire \in Seq(LabEvents), NEW event \in LabEvents, Heralded(wire, TRUE)
    PROVE  /\ Heralded(Append(wire, event), TRUE)
           /\ event.type \in Endings => Heralded(Append(wire, event), FALSE) /\ EndTold(Append(wire, event))
<1> DEFINE g == Append(wire, event)
           n == Len(wire) + 1
<1>1. /\ DOMAIN g = 1 .. n /\ g[n] = event /\ n \in DOMAIN g /\ n \notin DOMAIN wire
      /\ \A i \in DOMAIN g : i = n \/ (i \in DOMAIN wire /\ g[i] = wire[i])
  BY OneMore
<1>2. n \in Nat /\ DOMAIN wire = 1 .. n - 1
  OBVIOUS
<1> HIDE DEF g, n
<1>3. Heralded(g, TRUE)
  BY DEF Heralded
<1>4. ASSUME event.type \in Endings PROVE Heralded(g, FALSE) /\ EndTold(g)
  <2>1. g[n].type \in Endings /\ g[n].type # "analysis_start"
    BY <1>1, <1>4 DEF Endings, Results, Decisions
  <2>2. ASSUME NEW k \in DOMAIN g, g[k].type = "analysis_start" PROVE n > k
    BY <1>1, <1>2, <2>1, <2>2
  <2> QED
    BY <1>1, <2>1, <2>2 DEF Heralded, EndTold
<1> QED
  BY <1>3, <1>4 DEF g

LEMMA WireLess ==
    ASSUME NEW wire \in Seq(LabEvents), wire # <<>>, NEW going \in BOOLEAN, Heralded(wire, going)
    PROVE  /\ Heralded(Tail(wire), going)
           /\ Head(wire).type = "analysis_start" => going \/ EndTold(Tail(wire))
<1> DEFINE g == Tail(wire)
<1>1. /\ Len(wire) \in Nat \ {0} /\ DOMAIN wire = 1 .. Len(wire) /\ DOMAIN g = 1 .. Len(wire) - 1
      /\ \A i \in DOMAIN g : g[i] = wire[i + 1]
      /\ Head(wire) = wire[1]
  OBVIOUS
<1> HIDE DEF g
<1>2. ASSUME NEW j \in DOMAIN wire, NEW k \in Nat, j > k + 1
      PROVE  j - 1 \in DOMAIN g /\ j - 1 > k /\ g[j - 1] = wire[j]
  <2>1. j - 1 \in DOMAIN g /\ j - 1 > k /\ (j - 1) + 1 = j
    BY <1>1, <1>2
  <2> QED
    BY <1>1, <2>1
<1>3. Heralded(g, going)
  <2> SUFFICES ASSUME NEW k \in DOMAIN g, g[k].type = "analysis_start", ~going
               PROVE  \E j \in DOMAIN g : j > k /\ g[j].type \in Endings
    BY DEF Heralded
  <2>1. k + 1 \in DOMAIN wire /\ wire[k + 1].type = "analysis_start" /\ k \in Nat
    BY <1>1
  <2>2. PICK j \in DOMAIN wire : j > k + 1 /\ wire[j].type \in Endings
    BY <2>1 DEF Heralded
  <2> QED
    BY <1>2, <2>1, <2>2
<1>4. ASSUME Head(wire).type = "analysis_start", ~going PROVE EndTold(g)
  <2>1. 1 \in DOMAIN wire /\ wire[1].type = "analysis_start"
    BY <1>1, <1>4
  <2>2. PICK j \in DOMAIN wire : j > 1 /\ wire[j].type \in Endings
    BY <1>4, <2>1 DEF Heralded
  <2>3. j > 0 + 1 /\ 0 \in Nat
    BY <2>2
  <2> QED
    BY <1>2, <2>2, <2>3 DEF EndTold
<1> QED
  BY <1>3, <1>4 DEF g

LEMMA RefusedMore ==
    ASSUME NEW s \in LabType, NEW what, NEW of
    PROVE  /\ Send(s, what, of) = [s EXCEPT !.flying = Send(s, what, of).flying]
           /\ RefusedStart(s.flying) \/ (what = "start" /\ of = "refused") => RefusedStart(Send(s, what, of).flying)
<1> DEFINE f == s.flying
           r == [what |-> what, of |-> of, current |-> TRUE]
           g == Append(f, r)
<1>1. f \in Seq(LabRequests)
  BY DEF LabType
<1>2. r.what = what /\ r.of = of
  OBVIOUS
<1>3. Send(s, what, of) = [s EXCEPT !.flying = g]
  BY DEF Send
<1> HIDE DEF f, r
<1>4. /\ g[Len(f) + 1] = r /\ Len(f) + 1 \in DOMAIN g
      /\ \A i \in DOMAIN f : i \in DOMAIN g /\ g[i] = f[i]
  BY <1>1, OneMore
<1> HIDE DEF g
<1>5. Send(s, what, of).flying = g
  BY <1>3 DEF LabType
<1> QED
  BY <1>2, <1>3, <1>4, <1>5 DEF RefusedStart, f

LEMMA LabWaitsSend ==
    ASSUME NEW s \in LabType, LabWaits(s), NEW what, NEW of
    PROVE  LabWaits(Send(s, what, of))
<1> DEFINE g == Send(s, what, of).flying
           t == Send(s, what, of)
<1>1. t = [s EXCEPT !.flying = g] /\ (RefusedStart(s.flying) => RefusedStart(g))
  BY RefusedMore
<1> HIDE DEF t, g
<1>2. /\ t.flying = g /\ t.connected = s.connected /\ t.wire = s.wire /\ t.run = s.run
      /\ t.running = s.running /\ t.lost = s.lost
  BY <1>1 DEF LabType
<1>3. LabWaits(t)
  BY <1>1, <1>2 DEF LabWaits, Going
<1> QED
  BY <1>3 DEF t

LEMMA LabWaitsClosed ==
    ASSUME NEW s \in LabType, LabWaits(s)
    PROVE  LabWaits(Disconnected(s)) /\ Disconnected(s) \in LabType
<1> DEFINE t == Disconnected(s)
           lost == s.lost \/ s.wire # <<>>
           missed == s.missed \/ ResultTold(s.wire)
           none == <<>>
<1>1. none \in Seq(LabEvents) /\ lost \in BOOLEAN /\ missed \in BOOLEAN
  OBVIOUS
<1>2. t = [s EXCEPT !.connected = FALSE, !.wire = none, !.lost = lost, !.missed = missed]
  BY DEF Disconnected
<1> HIDE DEF t, none, lost, missed
<1>3. /\ t \in LabType /\ t.wire = none /\ t.run = s.run /\ t.running = s.running /\ t.lost = lost
      /\ t.flying = s.flying
  BY <1>1, <1>2 DEF LabType
<1>4. LabWaits(t)
  BY <1>3, WireEmpty DEF LabWaits, Going, none, lost
<1> QED
  BY <1>3, <1>4 DEF t

LEMMA LabWaitsStart == LabInit => LabWaits(ui)
<1> SUFFICES ASSUME LabInit PROVE LabWaits(ui)
  OBVIOUS
<1>1. PICK run \in LabRuns :
        /\ ui = SendStatus(LabOpen(run)) /\ LabOpen(run) \in LabType
        /\ LabOpen(run).wire = <<>> /\ ~LabOpen(run).running
  BY LabOpened
<1>2. LabWaits(LabOpen(run))
  BY <1>1, WireEmpty DEF LabWaits
<1> QED
  BY <1>1, <1>2, LabWaitsSend DEF SendStatus

LEMMA LabWaitsSteps ==
    ASSUME LabOK(ui), LabWaits(ui), LabNext
    PROVE  LabWaits(ui')
<1> DEFINE f == ui.flying
           h(i) == Answered(f, i)
<1>0. ui \in LabType /\ f \in Seq(LabRequests)
  BY DEF LabOK, LabType
<1>h. ASSUME NEW i \in DOMAIN f, RefusedStart(f), ~(f[i].what = "start" /\ f[i].of = "refused")
      PROVE  RefusedStart(h(i))
  <2> HIDE DEF f
  <2>1. \A k \in DOMAIN f \ {i} : \E j \in DOMAIN h(i) : h(i)[j] = f[k]
    BY <1>0, AnsweredIs
  <2> HIDE DEF h
  <2> QED
    BY <1>h, <2>1 DEF RefusedStart
\* An answer that changes neither the run nor the wire.
<1>t. ASSUME NEW i \in DOMAIN f, NEW s \in LabType, s.flying = f, Taken(i, s),
             s.connected = ui.connected, s.wire = ui.wire, s.run = ui.run,
             ui.lost /\ ui.wire # <<>> => s.lost,
             \/ s.running = FALSE
             \/ s.running = ui.running /\ s.lost = ui.lost /\ ~(f[i].what = "start" /\ f[i].of = "refused")
             \/ s.running = TRUE /\ (~s.lost => Going(ui))
      PROVE  LabWaits(ui')
  <2> DEFINE k == h(i)
  <2>1. ui' = [s EXCEPT !.flying = k]
    BY <1>t DEF Taken
  <2>2. ~(f[i].what = "start" /\ f[i].of = "refused") /\ RefusedStart(f) => RefusedStart(k)
    BY <1>h
  <2> HIDE DEF k, f
  <2>3. /\ ui'.flying = k /\ ui'.connected = ui.connected /\ ui'.wire = ui.wire /\ ui'.run = ui.run
        /\ ui'.running = s.running /\ ui'.lost = s.lost
    BY <1>t, <2>1 DEF LabType
  <2>4. Heralded(ui'.wire, Going(ui') \/ ui'.lost)
    <3>1. CASE ui.wire = <<>>
      BY <1>t, <2>3, <3>1, WireEmpty
    <3>2. CASE ui.wire # <<>>
      BY <1>t, <2>3, <3>2 DEF LabWaits, Going, Heralded
    <3> QED
      BY <3>1, <3>2
  <2> QED
    BY <1>t, <2>2, <2>3, <2>4 DEF LabWaits, Going, f
<1>1. ASSUME NEW i \in DOMAIN ui.flying, NEW ok \in BOOLEAN, StartAnswer(i, ok) PROVE LabWaits(ui')
  <2> DEFINE s == IF ok THEN ui ELSE [ui EXCEPT !.running = FALSE, !.error = TRUE]
  <2>1. Taken(i, s) /\ (ok => f[i].of = "accepted")
    BY <1>1 DEF StartAnswer
  <2>2. /\ s \in LabType /\ s.flying = f /\ s.connected = ui.connected /\ s.wire = ui.wire /\ s.run = ui.run
        /\ s.lost = ui.lost /\ (s.running = FALSE \/ (s = ui /\ ok))
    BY <1>0 DEF LabType
  <2> HIDE DEF s, f
  <2>3. CASE s.running = FALSE
    BY <1>1, <1>t, <2>1, <2>2, <2>3 DEF f
  <2>4. CASE s = ui /\ ok
    <3>1. ~(f[i].what = "start" /\ f[i].of = "refused")
      BY <2>1, <2>4
    <3> QED
      BY <1>1, <1>t, <2>1, <2>2, <2>4, <3>1 DEF f
  <2> QED
    BY <2>2, <2>3, <2>4
<1>2. ASSUME NEW i \in DOMAIN ui.flying, NEW ok \in BOOLEAN, StopAnswer(i, ok) PROVE LabWaits(ui')
  <2> DEFINE s == IF ok THEN [ui EXCEPT !.running = FALSE] ELSE [ui EXCEPT !.error = TRUE]
  <2>1. Taken(i, s) /\ ~(f[i].what = "start" /\ f[i].of = "refused")
    BY <1>2 DEF StopAnswer
  <2>2. /\ s \in LabType /\ s.flying = f /\ s.connected = ui.connected /\ s.wire = ui.wire /\ s.run = ui.run
        /\ s.lost = ui.lost /\ (s.running = FALSE \/ s.running = ui.running)
    BY <1>0 DEF LabType
  <2> HIDE DEF s, f
  <2> QED
    BY <1>2, <1>t, <2>1, <2>2 DEF f
<1>3. ASSUME NEW i \in DOMAIN ui.flying, NEW ok \in BOOLEAN, StatusOfRun(i, ok) PROVE LabWaits(ui')
  <2> DEFINE busy == ui.flying[i].of = "busy"
             lost == busy # Going(ui) \/ (ui.lost /\ ui.wire # <<>>)
             failed == [ui EXCEPT !.error = TRUE]
             heard == [ui EXCEPT !.running = busy, !.lost = lost, !.error = FALSE]
  <2>0. f[i].what # "start"
    BY <1>3 DEF StatusOfRun
  <2>1. (~ok /\ Taken(i, failed)) \/ (ok /\ Taken(i, heard))
    BY <1>3 DEF StatusOfRun
  <2>2. busy \in BOOLEAN /\ lost \in BOOLEAN /\ (busy /\ ~lost => Going(ui))
        /\ (ui.lost /\ ui.wire # <<>> => lost)
    OBVIOUS
  <2> HIDE DEF busy, lost
  <2>3. /\ failed \in LabType /\ failed.flying = f /\ failed.connected = ui.connected /\ failed.wire = ui.wire
        /\ failed.run = ui.run /\ failed.running = ui.running /\ failed.lost = ui.lost
    BY <1>0 DEF LabType
  <2>4. /\ heard \in LabType /\ heard.flying = f /\ heard.connected = ui.connected /\ heard.wire = ui.wire
        /\ heard.run = ui.run /\ heard.running = busy /\ heard.lost = lost
    BY <1>0, <2>2 DEF LabType
  <2> HIDE DEF failed, heard, f
  <2>5. CASE ~ok /\ Taken(i, failed)
    BY <1>3, <1>t, <2>0, <2>3, <2>5 DEF f
  <2>6. CASE ok /\ Taken(i, heard)
    <3>1. CASE busy
      <4>1. heard.running = TRUE /\ (~heard.lost => Going(ui))
        BY <2>2, <2>4, <3>1
      <4> QED
        BY <1>3, <1>t, <2>2, <2>4, <2>6, <4>1 DEF f
    <3>2. CASE ~busy
      <4>1. heard.running = FALSE
        BY <2>2, <2>4, <3>2
      <4> QED
        BY <1>3, <1>t, <2>2, <2>4, <2>6, <4>1 DEF f
    <3> QED
      BY <3>1, <3>2
  <2> QED
    BY <2>1, <2>5, <2>6
<1>4. ASSUME NEW type \in {"analysis_start"} \cup Endings, RunTells(type) PROVE LabWaits(ui')
  <2> DEFINE event == [type |-> type, of |-> ui.run.of]
             wire == Append(ui.wire, event)
             ended == type \in Endings
  <2>0. Going(ui)
    BY <1>4 DEF RunTells
  <2>1. /\ ui'.running = ui.running /\ ui'.run.of = ui.run.of /\ ui'.run.ended = ended
        /\ ui'.connected = ui.connected
        /\ \/ ui.connected /\ ui'.wire = wire /\ ui'.lost = ui.lost
           \/ ~ui.connected /\ ui'.wire = ui.wire /\ ui'.lost = TRUE
    BY <1>4, RunTold
  <2>2. ui.wire \in Seq(LabEvents) /\ event \in LabEvents /\ event.type = type /\ ended \in BOOLEAN
    BY <1>0 DEF LabType, LabEvents, LabRuns
  <2>3. Heralded(ui.wire, TRUE)
    BY DEF Heralded
  <2> HIDE DEF event
  <2>4. /\ Heralded(wire, TRUE)
        /\ ended => Heralded(wire, FALSE) /\ EndTold(wire)
    BY <2>2, <2>3, WireMore
  <2> HIDE DEF wire
  <2>5. Going(ui') <=> ~ended
    BY <2>0, <2>1 DEF Going
  <2>6. CASE ui.connected
    <3>1. CASE ended
      BY <2>1, <2>4, <2>6, <3>1 DEF LabWaits, Heralded
    <3>2. CASE ~ended
      BY <2>1, <2>4, <2>5, <2>6, <3>2 DEF LabWaits, Heralded
    <3> QED
      BY <3>1, <3>2
  <2>7. CASE ~ui.connected
    BY <2>1, <2>7, WireEmpty DEF LabWaits
  <2> QED
    BY <2>6, <2>7
<1>5. ASSUME NEW symbol \in Researched, NEW batch \in BOOLEAN, RunElsewhere(symbol, batch) \/ NextOfBatch(symbol)
      PROVE  LabWaits(ui')
  <2>1. PICK b \in BOOLEAN : ui' = [ui EXCEPT !.run = Run(symbol, b)]
    BY <1>5 DEF RunElsewhere, NextOfBatch
  <2>2. symbol # None
    BY LabConstants
  <2>3. ui'.run = Run(symbol, b) /\ ui'.connected = ui.connected /\ ui'.wire = ui.wire
    BY <1>0, <2>1 DEF LabType
  <2>4. Going(ui')
    BY <2>2, <2>3 DEF Going, Run
  <2> QED
    BY <2>3, <2>4 DEF LabWaits, Heralded
<1>6. ASSUME NEW symbol \in Researched, StartAnalysis(symbol) PROVE LabWaits(ui')
  <2> DEFINE s == [ui EXCEPT !.running = TRUE, !.error = FALSE, !.decision = None, !.missed = FALSE]
             t == [s EXCEPT !.run = Run(symbol, FALSE)]
  <2>1. ui' = Send(s, "start", "refused") \/ ui' = Send(t, "start", "accepted")
    BY <1>6 DEF StartAnalysis
  <2>2. /\ s \in LabType /\ s.connected = ui.connected /\ s.wire = ui.wire /\ s.run = ui.run
        /\ s.lost = ui.lost
    BY <1>0, RunIs DEF LabType
  <2> HIDE DEF s
  <2>3. symbol \in RunOf /\ symbol # None
    BY LabConstants DEF RunOf
  <2>4. /\ t \in LabType /\ t.connected = ui.connected /\ t.wire = ui.wire /\ t.run = Run(symbol, FALSE)
    BY <2>2, <2>3, RunIs DEF LabType
  <2> HIDE DEF t
  <2>5. CASE ui' = Send(s, "start", "refused")
    <3> DEFINE g == Send(s, "start", "refused").flying
    <3>1. ui' = [s EXCEPT !.flying = g] /\ RefusedStart(g)
      BY <2>2, <2>5, RefusedMore
    <3> HIDE DEF g
    <3>2. ui'.flying = g /\ ui'.connected = ui.connected /\ ui'.wire = ui.wire /\ ui'.run = ui.run /\ ui'.lost = ui.lost
      BY <2>2, <3>1 DEF LabType
    <3> QED
      BY <3>1, <3>2 DEF LabWaits, Going
  <2>6. CASE ui' = Send(t, "start", "accepted")
    <3>1. Going(t)
      BY <2>3, <2>4 DEF Going, Run
    <3>2. LabWaits(t)
      BY <2>4, <3>1 DEF LabWaits, Heralded
    <3> QED
      BY <2>4, <2>6, <3>2, LabWaitsSend
  <2> QED
    BY <2>1, <2>5, <2>6
<1>s. ASSUME NEW s \in LabType, s.connected = ui.connected, s.wire = ui.wire, s.run = ui.run,
             s.running = ui.running, s.lost = ui.lost, s.flying = ui.flying
      PROVE  LabWaits(s)
  BY <1>s DEF LabWaits, Going
<1>7. CASE StopAnalysis
  <2> DEFINE s == [ui EXCEPT !.error = FALSE]
             answer == IF ui.run.of = None THEN "refused" ELSE "accepted"
  <2>1. ui' = Send(s, "stop", answer)
    BY <1>7 DEF StopAnalysis
  <2> HIDE DEF answer
  <2>2. /\ s \in LabType /\ s.connected = ui.connected /\ s.wire = ui.wire /\ s.run = ui.run
        /\ s.running = ui.running /\ s.lost = ui.lost /\ s.flying = ui.flying
    BY <1>0 DEF LabType
  <2> HIDE DEF s
  <2>3. LabWaits(s)
    BY <1>s, <2>2
  <2> QED
    BY <2>1, <2>2, <2>3, LabWaitsSend
<1>8. CASE SyncStatus
  BY <1>0, <1>8, LabWaitsSend DEF SyncStatus, SendStatus
<1>9. CASE RevisitLab
  <2> DEFINE d == Disconnected(ui)
             s == [d EXCEPT !.error = FALSE]
  <2>1. ui' = SendStatus(s)
    BY <1>9 DEF RevisitLab
  <2>2. LabWaits(d) /\ d \in LabType
    BY <1>0, LabWaitsClosed
  <2> HIDE DEF d
  <2>3. /\ s \in LabType /\ s.connected = d.connected /\ s.wire = d.wire /\ s.run = d.run
        /\ s.running = d.running /\ s.lost = d.lost /\ s.flying = d.flying
    BY <2>2 DEF LabType
  <2> HIDE DEF s
  <2>4. LabWaits(s)
    BY <2>2, <2>3 DEF LabWaits, Going
  <2> QED
    BY <2>1, <2>3, <2>4, LabWaitsSend DEF SendStatus
<1>10. CASE SocketUp
  <2>1. /\ ui'.connected = TRUE /\ ui'.wire = ui.wire /\ ui'.run = ui.run
        /\ ui'.running = ui.running /\ ui'.lost = ui.lost /\ ui'.flying = ui.flying
    BY <1>0, <1>10 DEF SocketUp, LabType
  <2> QED
    BY <2>1 DEF LabWaits, Going
<1>11. CASE SocketDown
  BY <1>0, <1>11, LabWaitsClosed DEF SocketDown
<1>12. CASE RunPutAway
  <2>1. /\ ui'.connected = ui.connected /\ ui'.wire = ui.wire /\ ui'.run = NoRun /\ ui.run.ended
        /\ ui'.running = ui.running /\ ui'.lost = ui.lost /\ ui'.flying = ui.flying
    BY <1>0, <1>12 DEF RunPutAway, LabType
  <2>2. ~Going(ui') /\ ~Going(ui)
    BY <2>1 DEF Going, NoRun, Run
  <2> QED
    BY <2>1, <2>2 DEF LabWaits, Heralded
<1>13. CASE HandleWsEvent
  <2> DEFINE event == Head(ui.wire)
             rest == Tail(ui.wire)
             s == [ui EXCEPT !.wire = rest]
             going == Going(ui) \/ ui.lost
  <2>0. ui.wire # <<>> /\ ui.wire \in Seq(LabEvents) /\ going \in BOOLEAN /\ ui.connected /\ Heralded(ui.wire, going)
    BY <1>0, <1>13 DEF HandleWsEvent, LabType, LabWaits, Going
  <2> HIDE DEF going
  <2>1. Heralded(rest, going) /\ (event.type = "analysis_start" => going \/ EndTold(rest))
    BY <2>0, WireLess
  <2>2. rest \in Seq(LabEvents)
    BY <2>0
  <2>3. \/ event.type = "analysis_start" /\ ui' = [s EXCEPT !.running = TRUE]
        \/ ui' = [s EXCEPT !.running = FALSE]
        \/ \E decision \in {None, event.of} : ui' = [s EXCEPT !.running = FALSE, !.missed = FALSE, !.decision = decision]
    BY <1>13 DEF HandleWsEvent, HeardUnavailable, HeardDecision
  <2> HIDE DEF rest, event
  <2>4. /\ ui'.connected = ui.connected /\ ui'.wire = rest /\ ui'.run = ui.run /\ ui'.lost = ui.lost
        /\ ui'.running = FALSE \/ event.type = "analysis_start"
    BY <1>0, <2>3 DEF LabType
  <2>5. Going(ui') \/ ui'.lost <=> going
    BY <2>4 DEF Going, going
  <2>6. Heralded(rest, Going(ui') \/ ui'.lost)
    BY <2>1, <2>5 DEF Heralded
  <2> QED
    BY <2>0, <2>1, <2>4, <2>5, <2>6 DEF LabWaits
<1>14. CASE BatchRunFails
  <2>1. ui'.lost = TRUE /\ ui'.connected = ui.connected /\ ui'.wire = ui.wire
    BY <1>0, <1>14 DEF BatchRunFails, LabType
  <2> QED
    BY <2>1 DEF LabWaits, Heralded
<1> QED
  BY <1>1, <1>2, <1>3, <1>4, <1>5, <1>6, <1>7, <1>8, <1>9, <1>10, <1>11, <1>12, <1>13, <1>14 DEF LabNext

LEMMA LabWaitsTold == ASSUME LabOK(ui), LabWaits(ui) PROVE LabNeverStuck
<1>1. ButtonShows(ui) = "stop" => ui.running
  BY DEF ButtonShows
<1>2. RefusedStart(ui.flying) => Flying(ui.flying, "start") # {}
  BY DEF RefusedStart, Flying
<1> QED
  BY <1>1, <1>2 DEF LabNeverStuck, LabWaits, EndTold

\* What the last result on the wire advises is what the server advises, and so is
\* what the page advises once there is none.
AdviceOf(event) == IF event.type = "BUY" THEN event.of ELSE None

LastTold(wire, advised) ==
    \A k \in DOMAIN wire :
        wire[k].type \in Results /\ (\A j \in DOMAIN wire : j > k => wire[j].type \notin Results)
            => AdviceOf(wire[k]) = advised

LabAdvised(s) ==
    /\ LastTold(s.wire, s.advised)
    /\ ~s.missed /\ ~ResultTold(s.wire) => s.decision \in {None, s.advised}

LEMMA AdviceMore ==
    ASSUME NEW wire \in Seq(LabEvents), NEW event \in LabEvents, NEW advised
    PROVE  /\ event.type \in Results =>
                ResultTold(Append(wire, event)) /\ LastTold(Append(wire, event), AdviceOf(event))
           /\ event.type \notin Results =>
                /\ LastTold(wire, advised) => LastTold(Append(wire, event), advised)
                /\ ResultTold(wire) => ResultTold(Append(wire, event))
<1> DEFINE g == Append(wire, event)
           n == Len(wire) + 1
<1>1. /\ DOMAIN g = 1 .. n /\ g[n] = event /\ n \in DOMAIN g
      /\ \A i \in DOMAIN g : i = n \/ (i \in DOMAIN wire /\ g[i] = wire[i])
      /\ \A i \in DOMAIN wire : i \in DOMAIN g /\ g[i] = wire[i]
  BY OneMore
<1>2. n \in Nat
  OBVIOUS
<1> HIDE DEF g, n
<1>3. ASSUME event.type \in Results PROVE ResultTold(g) /\ LastTold(g, AdviceOf(event))
  <2>1. ASSUME NEW k \in DOMAIN g, \A j \in DOMAIN g : j > k => g[j].type \notin Results PROVE k = n
    BY <1>1, <1>2, <1>3, <2>1
  <2> QED
    BY <1>1, <1>3, <2>1 DEF ResultTold, LastTold
<1>4. ASSUME event.type \notin Results
      PROVE  (LastTold(wire, advised) => LastTold(g, advised)) /\ (ResultTold(wire) => ResultTold(g))
  BY <1>1, <1>4 DEF ResultTold, LastTold
<1> QED
  BY <1>3, <1>4 DEF g

LEMMA AdviceLess ==
    ASSUME NEW wire \in Seq(LabEvents), wire # <<>>, NEW advised, LastTold(wire, advised)
    PROVE  /\ LastTold(Tail(wire), advised)
           /\ Head(wire).type \notin Results /\ ResultTold(wire) => ResultTold(Tail(wire))
           /\ Head(wire).type \in Results /\ ~ResultTold(Tail(wire)) => AdviceOf(Head(wire)) = advised
<1> DEFINE g == Tail(wire)
<1>1. /\ Len(wire) \in Nat \ {0} /\ DOMAIN wire = 1 .. Len(wire) /\ DOMAIN g = 1 .. Len(wire) - 1
      /\ \A i \in DOMAIN g : g[i] = wire[i + 1]
      /\ Head(wire) = wire[1]
  OBVIOUS
<1> HIDE DEF g
<1>2. \A j \in DOMAIN wire : j > 1 => j - 1 \in DOMAIN g /\ g[j - 1] = wire[j]
  <2> SUFFICES ASSUME NEW j \in DOMAIN wire, j > 1 PROVE j - 1 \in DOMAIN g /\ g[j - 1] = wire[j]
    OBVIOUS
  <2>1. j - 1 \in DOMAIN g /\ (j - 1) + 1 = j
    BY <1>1
  <2> QED
    BY <1>1, <2>1
<1>3. LastTold(g, advised)
  <2> SUFFICES ASSUME NEW k \in DOMAIN g, g[k].type \in Results, \A j \in DOMAIN g : j > k => g[j].type \notin Results
               PROVE  AdviceOf(g[k]) = advised
    BY DEF LastTold
  <2>1. k + 1 \in DOMAIN wire /\ wire[k + 1] = g[k] /\ k \in Nat \ {0}
    BY <1>1
  <2>2. ASSUME NEW j \in DOMAIN wire, j > k + 1 PROVE wire[j].type \notin Results
    <3>1. j > 1 /\ j - 1 > k
      BY <1>1, <2>1, <2>2
    <3> QED
      BY <1>2, <3>1
  <2> QED
    BY <2>1, <2>2 DEF LastTold
<1>4. ASSUME Head(wire).type \notin Results, ResultTold(wire) PROVE ResultTold(g)
  <2>1. PICK k \in DOMAIN wire : wire[k].type \in Results
    BY <1>4 DEF ResultTold
  <2>2. k > 1
    BY <1>1, <1>4, <2>1
  <2> QED
    BY <1>2, <2>1, <2>2 DEF ResultTold
<1>5. ASSUME Head(wire).type \in Results, ~ResultTold(g) PROVE AdviceOf(Head(wire)) = advised
  <2>1. 1 \in DOMAIN wire /\ wire[1].type \in Results
    BY <1>1, <1>5
  <2>2. \A j \in DOMAIN wire : j > 1 => wire[j].type \notin Results
    BY <1>2, <1>5 DEF ResultTold
  <2> QED
    BY <1>1, <2>1, <2>2 DEF LastTold
<1> QED
  BY <1>3, <1>4, <1>5 DEF g

LEMMA NothingAdvised == ~ResultTold(<<>>) /\ \A advised : LastTold(<<>>, advised)
  BY DEF ResultTold, LastTold

LEMMA LabAdvisedSend ==
    ASSUME NEW s \in LabType, NEW what, NEW of
    PROVE  LabAdvised(Send(s, what, of)) <=> LabAdvised(s)
<1> DEFINE g == Send(s, what, of).flying
           t == Send(s, what, of)
<1>1. t = [s EXCEPT !.flying = g]
  BY RefusedMore
<1> HIDE DEF t, g
<1>2. t.wire = s.wire /\ t.advised = s.advised /\ t.missed = s.missed /\ t.decision = s.decision
  BY <1>1 DEF LabType
<1>3. LabAdvised(t) <=> LabAdvised(s)
  BY <1>2 DEF LabAdvised
<1> QED
  BY <1>3 DEF t

LEMMA LabAdvisedClosed ==
    ASSUME NEW s \in LabType, LabAdvised(s)
    PROVE  LabAdvised(Disconnected(s))
<1> DEFINE t == Disconnected(s)
<1>1. /\ t.wire = <<>> /\ t.advised = s.advised /\ t.decision = s.decision
      /\ t.missed <=> s.missed \/ ResultTold(s.wire)
  BY DEF Disconnected, LabType
<1> HIDE DEF t
<1>2. LabAdvised(t)
  BY <1>1, NothingAdvised DEF LabAdvised
<1> QED
  BY <1>2 DEF t

LEMMA LabAdvisedStart == LabInit => LabAdvised(ui)
<1> SUFFICES ASSUME LabInit PROVE LabAdvised(ui)
  OBVIOUS
<1>1. PICK run \in LabRuns :
        /\ ui = SendStatus(LabOpen(run)) /\ LabOpen(run) \in LabType
        /\ LabOpen(run).wire = <<>> /\ LabOpen(run).decision = None
  BY LabOpened
<1>2. LabAdvised(LabOpen(run))
  BY <1>1, NothingAdvised DEF LabAdvised
<1> QED
  BY <1>1, <1>2, LabAdvisedSend DEF SendStatus

LEMMA LabAdvisedSteps ==
    ASSUME LabOK(ui), LabWaits(ui), LabAdvised(ui), LabNext
    PROVE  LabAdvised(ui')
<1>0. ui \in LabType /\ ui.wire \in Seq(LabEvents)
  BY DEF LabOK, LabType
\* A step that neither tells nor hears of a run.
<1>s. ASSUME ui'.wire = ui.wire, ui'.advised = ui.advised, ui'.missed = ui.missed, ui'.decision = ui.decision
      PROVE  LabAdvised(ui')
  BY <1>s DEF LabAdvised
\* An answer.
<1>t. ASSUME NEW i \in DOMAIN ui.flying, NEW s \in LabType, Taken(i, s),
             s.wire = ui.wire, s.advised = ui.advised, s.missed = ui.missed, s.decision = ui.decision
      PROVE  LabAdvised(ui')
  <2>1. ui'.wire = s.wire /\ ui'.advised = s.advised /\ ui'.missed = s.missed /\ ui'.decision = s.decision
    BY <1>t DEF Taken, LabType
  <2> QED
    BY <1>s, <1>t, <2>1
<1>1. ASSUME NEW i \in DOMAIN ui.flying, NEW ok \in BOOLEAN, StartAnswer(i, ok) \/ StopAnswer(i, ok) \/ StatusOfRun(i, ok)
      PROVE  LabAdvised(ui')
  <2> DEFINE busy == ui.flying[i].of = "busy"
             lost == busy # Going(ui) \/ (ui.lost /\ ui.wire # <<>>)
             a == [ui EXCEPT !.running = FALSE, !.error = TRUE]
             b == [ui EXCEPT !.running = FALSE]
             c == [ui EXCEPT !.error = TRUE]
             d == [ui EXCEPT !.running = busy, !.lost = lost, !.error = FALSE]
  <2>1. Taken(i, ui) \/ Taken(i, a) \/ Taken(i, b) \/ Taken(i, c) \/ Taken(i, d)
    <3>1. CASE StartAnswer(i, ok)
      BY <3>1 DEF StartAnswer
    <3>2. CASE StopAnswer(i, ok)
      BY <3>2 DEF StopAnswer
    <3>3. CASE StatusOfRun(i, ok)
      BY <3>3 DEF StatusOfRun
    <3> QED
      BY <1>1, <3>1, <3>2, <3>3
  <2>2. busy \in BOOLEAN /\ lost \in BOOLEAN
    OBVIOUS
  <2> HIDE DEF busy, lost
  <2>3. \A s \in {ui, a, b, c, d} :
           s \in LabType /\ s.wire = ui.wire /\ s.advised = ui.advised /\ s.missed = ui.missed /\ s.decision = ui.decision
    BY <1>0, <2>2 DEF LabType
  <2> HIDE DEF a, b, c, d
  <2> QED
    BY <1>1, <1>t, <2>1, <2>3
<1>2. ASSUME NEW type \in {"analysis_start"} \cup Endings, RunTells(type) PROVE LabAdvised(ui')
  <2> DEFINE event == [type |-> type, of |-> ui.run.of]
             wire == Append(ui.wire, event)
             advised == IF type = "BUY" THEN ui.run.of ELSE IF type \in Results THEN None ELSE ui.advised
  <2>1. event \in LabEvents /\ event.type = type /\ (type \in Results => AdviceOf(event) = advised)
        /\ (type \notin Results => advised = ui.advised)
    BY <1>0 DEF LabType, LabRuns, LabEvents, AdviceOf, Results, Decisions
  <2>2. /\ ui'.decision = ui.decision /\ ui'.advised = advised
        /\ \/ ui.connected /\ ui'.wire = wire /\ ui'.missed = ui.missed
           \/ ~ui.connected /\ ui'.wire = ui.wire /\ ui'.missed = (ui.missed \/ type \in Results)
    BY <1>2, RunTold
  <2> HIDE DEF event, advised
  <2>3. /\ type \in Results => ResultTold(wire) /\ LastTold(wire, advised)
        /\ type \notin Results => LastTold(wire, advised) /\ (ResultTold(ui.wire) => ResultTold(wire))
    BY <1>0, <2>1, AdviceMore DEF LabAdvised
  <2> HIDE DEF wire
  <2>4. CASE ui.connected
    BY <2>1, <2>2, <2>3, <2>4 DEF LabAdvised
  <2>5. CASE ~ui.connected
    BY <2>1, <2>2, <2>5, NothingAdvised DEF LabAdvised, LabWaits
  <2> QED
    BY <2>4, <2>5
<1>3. ASSUME NEW symbol \in Researched, NEW batch \in BOOLEAN, RunElsewhere(symbol, batch) \/ NextOfBatch(symbol)
      PROVE  LabAdvised(ui')
  <2>1. \E run : ui' = [ui EXCEPT !.run = run]
    BY <1>3 DEF RunElsewhere, NextOfBatch
  <2> QED
    BY <1>0, <1>s, <2>1 DEF LabType
<1>4. ASSUME NEW symbol \in Researched, StartAnalysis(symbol) PROVE LabAdvised(ui')
  <2> DEFINE s == [ui EXCEPT !.running = TRUE, !.error = FALSE, !.decision = None, !.missed = FALSE]
             t == [s EXCEPT !.run = Run(symbol, FALSE)]
  <2>1. ui' = Send(s, "start", "refused") \/ ui' = Send(t, "start", "accepted")
    BY <1>4 DEF StartAnalysis
  <2>2. s \in LabType /\ s.decision = None /\ s.wire = ui.wire /\ s.advised = ui.advised
    BY <1>0, RunIs DEF LabType
  <2> HIDE DEF s
  <2>3. t \in LabType /\ t.decision = None /\ t.wire = ui.wire /\ t.advised = ui.advised
    BY <2>2, RunIs DEF LabType, RunOf
  <2> HIDE DEF t
  <2>4. LabAdvised(s) /\ LabAdvised(t)
    BY <2>2, <2>3 DEF LabAdvised
  <2> QED
    BY <2>1, <2>2, <2>3, <2>4, LabAdvisedSend
<1>5. CASE StopAnalysis
  <2> DEFINE s == [ui EXCEPT !.error = FALSE]
  <2>1. \E answer : ui' = Send(s, "stop", answer)
    BY <1>5 DEF StopAnalysis
  <2>2. /\ s \in LabType /\ s.wire = ui.wire /\ s.advised = ui.advised /\ s.missed = ui.missed
        /\ s.decision = ui.decision
    BY <1>0 DEF LabType
  <2> HIDE DEF s
  <2>3. LabAdvised(s)
    BY <2>2 DEF LabAdvised
  <2> QED
    BY <2>1, <2>2, <2>3, LabAdvisedSend
<1>6. CASE SyncStatus
  BY <1>0, <1>6, LabAdvisedSend DEF SyncStatus, SendStatus
<1>7. CASE RevisitLab
  <2> DEFINE d == Disconnected(ui)
             s == [d EXCEPT !.error = FALSE]
  <2>1. ui' = SendStatus(s)
    BY <1>7 DEF RevisitLab
  <2>2. LabAdvised(d) /\ d \in LabType
    BY <1>0, LabAdvisedClosed, LabWaitsClosed
  <2> HIDE DEF d
  <2>3. s \in LabType /\ s.wire = d.wire /\ s.advised = d.advised /\ s.missed = d.missed /\ s.decision = d.decision
    BY <2>2 DEF LabType
  <2> HIDE DEF s
  <2>4. LabAdvised(s)
    BY <2>2, <2>3 DEF LabAdvised
  <2> QED
    BY <2>1, <2>3, <2>4, LabAdvisedSend DEF SendStatus
<1>8. CASE SocketUp
  BY <1>0, <1>8, <1>s DEF SocketUp, LabType
<1>9. CASE SocketDown
  BY <1>0, <1>9, LabAdvisedClosed DEF SocketDown
<1>10. CASE RunPutAway \/ BatchRunFails
  <2>1. ui'.wire = ui.wire /\ ui'.advised = ui.advised /\ ui'.missed = ui.missed /\ ui'.decision = ui.decision
    BY <1>0, <1>10 DEF RunPutAway, BatchRunFails, LabType
  <2> QED
    BY <1>s, <2>1
<1>11. CASE HandleWsEvent
  <2> DEFINE event == Head(ui.wire)
             rest == Tail(ui.wire)
             s == [ui EXCEPT !.wire = rest]
  <2>1. ui.wire # <<>> /\ event \in LabEvents
    BY <1>0, <1>11 DEF HandleWsEvent
  <2>2. /\ LastTold(rest, ui.advised)
        /\ event.type \notin Results /\ ResultTold(ui.wire) => ResultTold(rest)
        /\ event.type \in Results /\ ~ResultTold(rest) => AdviceOf(event) = ui.advised
    BY <1>0, <2>1, AdviceLess DEF LabAdvised
  <2> HIDE DEF rest, event
  <2>4. s.wire = rest /\ s.advised = ui.advised /\ s.missed = ui.missed /\ s.decision = ui.decision
        /\ s = [s EXCEPT !.running = s.running]
    BY <1>0 DEF LabType
  <2>k. DOMAIN s = DOMAIN ui /\ {"wire", "advised", "missed", "decision", "running"} \subseteq DOMAIN ui
    BY <1>0 DEF LabType
  <2> HIDE DEF s
  <2>5. CASE event.type \notin Results /\ (ui' = [s EXCEPT !.running = TRUE] \/ ui' = [s EXCEPT !.running = FALSE])
    <3>1. ui'.wire = rest /\ ui'.advised = ui.advised /\ ui'.missed = ui.missed /\ ui'.decision = ui.decision
      BY <2>4, <2>5, <2>k
    <3> QED
      BY <2>2, <2>5, <3>1 DEF LabAdvised
  <2>6. CASE event.type = "analysis_unavailable" /\ ui' = HeardUnavailable(s)
    <3>1. ui'.wire = rest /\ ui'.advised = ui.advised /\ ui'.decision = None
      BY <2>4, <2>6, <2>k DEF HeardUnavailable
    <3> QED
      BY <2>2, <3>1 DEF LabAdvised
  <2>7. CASE event.type \in Decisions /\ ui' = HeardDecision(s, event)
    <3>1. ui'.wire = rest /\ ui'.advised = ui.advised /\ ui'.decision = (IF event.type = "OBSERVE" THEN None ELSE event.of)
      BY <2>4, <2>7, <2>k DEF HeardDecision
    <3>2. event.type \in Results /\ ui'.decision = AdviceOf(event)
      BY <2>7, <3>1 DEF Results, Decisions, AdviceOf
    <3> QED
      BY <2>2, <3>1, <3>2 DEF LabAdvised
  <2> QED
    BY <1>11, <2>5, <2>6, <2>7 DEF HandleWsEvent, Results, Decisions, s, rest, event
<1> QED
  BY <1>1, <1>2, <1>3, <1>4, <1>5, <1>6, <1>7, <1>8, <1>9, <1>10, <1>11 DEF LabNext

LEMMA LabTold == ASSUME LabAdvised(ui) PROVE LabAdvicePublished
  BY DEF LabAdvised, LabAdvicePublished, GaugeShows

-----------------------------------------------------------------------------
(* One investor or one member of congress *)

PeriodOf == Periods \cup {None}
ProfileQuestions == Slugs \X PeriodOf
ProfileRequests == Requests({"profile"}, ProfileQuestions)

ProfileType ==
    [kind : {"investor", "politician"}, slug : Slugs, period : PeriodOf, detail : Profiled \cup {None},
     of : ProfileQuestions \cup {None}, loading : BOOLEAN, error : BOOLEAN, flying : Seq(ProfileRequests)]

\* What is waited for, and what a settled page shows, is of the one the path
\* names, in the period that is chosen; and a page that is loading waits.
ProfileOwn(s) ==
    /\ Owned(s.flying, "profile", <<s.slug, s.period>>)
    /\ s.loading => Waiting(s.flying, "profile")
    /\ ~s.loading /\ s.detail # None => s.of = <<s.slug, s.period>>

ProfileOK(s) == s \in ProfileType /\ ProfileOwn(s)

LEMMA LoadProfileKeeps ==
    ASSUME NEW s \in ProfileType
    PROVE  ProfileOK(LoadProfile(s))
<1> DEFINE f == s.flying
           of == <<s.slug, s.period>>
           g == Ask(f, "profile", of)
           t == [s EXCEPT !.loading = TRUE, !.error = FALSE, !.flying = g]
<1>1. f \in Seq(ProfileRequests) /\ of \in ProfileQuestions /\ "profile" \in {"profile"}
  BY DEF ProfileType, ProfileQuestions
<1>2. LoadProfile(s) = t
  BY DEF LoadProfile
<1> HIDE DEF of
<1>3. g \in Seq(ProfileRequests) /\ Owned(g, "profile", of) /\ Waiting(g, "profile")
  <2> HIDE DEF f
  <2> QED
    BY <1>1, GateAsk DEF ProfileRequests
<1> HIDE DEF g
<1>4. t \in ProfileType /\ t.flying = g /\ t.loading = TRUE /\ t.slug = s.slug /\ t.period = s.period
  BY <1>3 DEF ProfileType
<1> HIDE DEF t
<1> QED
  BY <1>2, <1>3, <1>4 DEF ProfileOK, ProfileOwn, of

LEMMA ProfileStarts == ProfileInit => ProfileOK(ui)
<1> SUFFICES ASSUME ProfileInit PROVE ProfileOK(ui)
  OBVIOUS
<1> DEFINE f == <<>>
<1>1. PICK kind \in {"investor", "politician"}, slug \in Slugs :
        ui = LoadProfile([kind |-> kind, slug |-> slug, period |-> None, detail |-> None, of |-> None,
                          loading |-> TRUE, error |-> FALSE, flying |-> f])
  BY DEF ProfileInit
<1>2. f \in Seq(ProfileRequests)
  OBVIOUS
<1> HIDE DEF f
<1> DEFINE s == [kind |-> kind, slug |-> slug, period |-> None, detail |-> None, of |-> None,
                 loading |-> TRUE, error |-> FALSE, flying |-> f]
<1>3. s \in ProfileType
  BY <1>2 DEF ProfileType, PeriodOf
<1> HIDE DEF s
<1> QED
  BY <1>1, <1>3, LoadProfileKeeps DEF s

LEMMA ProfileSteps ==
    ASSUME ProfileOK(ui), ProfileNext
    PROVE  ProfileOK(ui')
<1> DEFINE f == ui.flying
           own == <<ui.slug, ui.period>>
<1>0. ui \in ProfileType /\ ProfileOwn(ui) /\ f \in Seq(ProfileRequests) /\ own \in ProfileQuestions
  BY DEF ProfileOK, ProfileType, ProfileQuestions
\* An answer that puts an own profile, or none, on the page.
<1>h. ASSUME NEW i \in DOMAIN f, NEW s \in ProfileType, s.flying = f, s.slug = ui.slug, s.period = ui.period, ~s.loading,
             f[i].current /\ s.detail # None => s.of = own, Heard(i, s)
      PROVE  ProfileOK(ui')
  <2> DEFINE h == Answered(f, i)
  <2>1. h \in Seq(ProfileRequests) /\ Owned(h, "profile", own) /\ (ui.loading /\ ~f[i].current => Waiting(h, "profile"))
    <3>1. Owned(f, "profile", own) /\ (ui.loading => Waiting(f, "profile"))
      BY <1>0 DEF ProfileOwn
    <3> HIDE DEF f, own
    <3> QED
      BY <1>0, <1>h, <3>1, GateAnswered
  <2>2. (f[i].current /\ ui' = [s EXCEPT !.flying = h]) \/ (~f[i].current /\ ui' = [ui EXCEPT !.flying = h])
    BY <1>h DEF Heard
  <2> HIDE DEF h
  <2>3. /\ ui' \in ProfileType /\ ui'.flying = h /\ ui'.slug = ui.slug /\ ui'.period = ui.period
        /\ ui'.loading => ui.loading /\ ~f[i].current
    BY <1>0, <1>h, <2>1, <2>2 DEF ProfileType
  <2>4. ~ui'.loading /\ ui'.detail # None => ui'.of = own
    <3> HIDE DEF own
    <3>1. ~ui.loading /\ ui.detail # None => ui.of = own
      BY <1>0 DEF ProfileOwn, own
    <3> QED
      BY <1>0, <1>h, <2>2, <3>1 DEF ProfileType
  <2> QED
    BY <2>1, <2>3, <2>4 DEF ProfileOK, ProfileOwn
<1>1. ASSUME NEW i \in DOMAIN ui.flying, NEW what \in Profiled \cup {None}, ProfileAnswer(i, what)
      PROVE  ProfileOK(ui')
  <2> DEFINE of == f[i].of
             s == [ui EXCEPT !.detail = what, !.of = of, !.loading = FALSE]
  <2>1. Heard(i, s)
    BY <1>1 DEF ProfileAnswer
  <2>2. f[i] \in ProfileRequests
    BY <1>0
  <2>3. of \in ProfileQuestions /\ f[i].what = "profile"
    <3> HIDE DEF f
    <3> QED
      BY <2>2 DEF ProfileRequests, Requests
  <2>4. f[i].current => of = own
    <3>1. Owned(f, "profile", own)
      BY <1>0 DEF ProfileOwn
    <3> HIDE DEF f, own
    <3> QED
      BY <1>1, <2>3, <3>1 DEF Owned, f
  <2> HIDE DEF of
  <2>5. s \in ProfileType /\ s.flying = f /\ s.slug = ui.slug /\ s.period = ui.period /\ s.of = of /\ ~s.loading
    BY <1>0, <2>3 DEF ProfileType
  <2> HIDE DEF s
  <2> QED
    BY <1>h, <2>1, <2>4, <2>5
<1>2. ASSUME NEW i \in DOMAIN ui.flying, ProfileFailed(i)
      PROVE  ProfileOK(ui')
  <2> DEFINE s == [ui EXCEPT !.detail = None, !.of = None, !.error = TRUE, !.loading = FALSE]
  <2>1. Heard(i, s)
    BY <1>2 DEF ProfileFailed
  <2>2. s \in ProfileType /\ s.flying = f /\ s.slug = ui.slug /\ s.period = ui.period /\ s.detail = None /\ ~s.loading
    BY <1>0 DEF ProfileType
  <2> HIDE DEF s
  <2> QED
    BY <1>h, <2>1, <2>2
<1>3. ASSUME NEW slug \in Slugs, FollowSlug(slug)
      PROVE  ProfileOK(ui')
  <2>1. [ui EXCEPT !.slug = slug, !.period = None] \in ProfileType
    BY <1>0 DEF ProfileType, PeriodOf
  <2> QED
    BY <1>3, <2>1, LoadProfileKeeps DEF FollowSlug
<1>4. ASSUME NEW period \in Periods, SelectPeriod(period)
      PROVE  ProfileOK(ui')
  <2>1. [ui EXCEPT !.period = period] \in ProfileType
    BY <1>0 DEF ProfileType, PeriodOf
  <2> QED
    BY <1>4, <2>1, LoadProfileKeeps DEF SelectPeriod
<1>5. CASE RetryProfile
  BY <1>0, <1>5, LoadProfileKeeps DEF RetryProfile
<1> QED
  BY <1>1, <1>2, <1>3, <1>4, <1>5 DEF ProfileNext

LEMMA ProfileTold == ASSUME ProfileOK(ui) PROVE ProfileShowsOwn /\ ProfileNeverStuck
<1>1. InvestorShows(ui) \cup PoliticianShows(ui) # {} => ProfileView(ui) = "profile"
  BY DEF InvestorShows, PoliticianShows
<1>2. ProfileView(ui) = "profile" => ~ui.loading /\ ui.detail # None
  BY DEF ProfileView
<1>3. "trades" \in PoliticianShows(ui) /\ ui.detail # "verified" => "warning" \in PoliticianShows(ui)
  BY DEF PoliticianShows
<1>4. ProfileView(ui) = "loading" => ui.loading
  BY DEF ProfileView
<1> QED
  BY <1>1, <1>2, <1>3, <1>4 DEF ProfileOK, ProfileOwn, ProfileShowsOwn, ProfileNeverStuck

-----------------------------------------------------------------------------
(* The lists of investors *)

DisclosersOf == Disclosers \cup {AllDisclosers}
FiltersOf == Filters \cup {AllFilters}
ListOf == [has : {None, "failure"} \cup DisclosersOf \cup FiltersOf, loading : BOOLEAN]

WhalesRequests == Requests({"investors", "consensus"}, DisclosersOf) \cup Requests({"congress"}, FiltersOf)

WhalesType ==
    [tab : {"institutions", "congress"}, category : DisclosersOf, filter : FiltersOf, pageCategory : DisclosersOf,
     pageFilter : FiltersOf, investors : ListOf, consensus : ListOf, congress : ListOf, flying : Seq(WhalesRequests)]

\* A list that is settled failed or answers the question of now.
Settles(list, of) == list.loading \/ list.has \in {"failure", of}

ListsSettle(s) ==
    /\ s.pageCategory = s.category
    /\ Settles(s.investors, s.category) /\ Settles(s.consensus, s.category)

CongressSettles(s) == s.tab = "congress" => s.pageFilter = s.filter /\ Settles(s.congress, s.filter)

\* A list that is loading has a request whose answer is taken.
Expected(f, what, of) == \E i \in DOMAIN f : f[i].what = what /\ f[i].of = of

ListsExpected(s) ==
    /\ s.investors.loading => Expected(s.flying, "investors", s.pageCategory)
    /\ s.consensus.loading => Expected(s.flying, "consensus", s.pageCategory)
    /\ s.congress.loading => Expected(s.flying, "congress", s.pageFilter)

WhalesOK(s) == s \in WhalesType /\ ListsSettle(s) /\ CongressSettles(s) /\ ListsExpected(s)

LEMMA ExpectedLasts ==
    ASSUME NEW S, NEW f \in Seq(S)
    PROVE  /\ \A i \in DOMAIN f : \A w, o : Expected(f, w, o) /\ ~(f[i].what = w /\ f[i].of = o) => Expected(Answered(f, i), w, o)
           /\ \A r, w, o : Expected(f, w, o) \/ (r.what = w /\ r.of = o) => Expected(Append(f, r), w, o)
<1>1. ASSUME NEW i \in DOMAIN f, NEW w, NEW o, Expected(f, w, o), ~(f[i].what = w /\ f[i].of = o)
      PROVE  Expected(Answered(f, i), w, o)
  <2> DEFINE h == Answered(f, i)
  <2>1. PICK k \in DOMAIN f : f[k].what = w /\ f[k].of = o
    BY <1>1 DEF Expected
  <2>2. \E j \in DOMAIN h : h[j] = f[k]
    BY <1>1, <2>1, OthersStay
  <2> HIDE DEF h
  <2>3. Expected(h, w, o)
    BY <2>1, <2>2 DEF Expected
  <2> QED
    BY <2>3 DEF h
<1>2. ASSUME NEW r, NEW w, NEW o, Expected(f, w, o) \/ (r.what = w /\ r.of = o)
      PROVE  Expected(Append(f, r), w, o)
  <2> DEFINE g == Append(f, r)
  <2>1. /\ \A i \in DOMAIN f : i \in DOMAIN g /\ g[i] = f[i]
        /\ Len(f) + 1 \in DOMAIN g /\ g[Len(f) + 1] = r
    BY OneMore
  <2> HIDE DEF g
  <2>2. Expected(g, w, o)
    BY <1>2, <2>1 DEF Expected
  <2> QED
    BY <2>2 DEF g
<1> QED
  BY <1>1, <1>2

LEMMA LoadingIs == ASSUME NEW list \in ListOf PROVE Loading(list) \in ListOf /\ Loading(list).loading = TRUE
  BY DEF Loading, ListOf

LEMMA FetchInvestorsIs ==
    ASSUME NEW s \in WhalesType, NEW category \in DisclosersOf
    PROVE  LET t == FetchPageInvestors(s, category)
           IN  /\ t \in WhalesType /\ t.pageCategory = category /\ t.investors.loading = TRUE
               /\ t.tab = s.tab /\ t.category = s.category /\ t.filter = s.filter /\ t.pageFilter = s.pageFilter
               /\ t.consensus = s.consensus /\ t.congress = s.congress
               /\ Expected(t.flying, "investors", category) /\ \A w, o : Expected(s.flying, w, o) => Expected(t.flying, w, o)
<1> DEFINE new == [what |-> "investors", of |-> category, current |-> TRUE]
           g == Append(s.flying, new)
           l == Loading(s.investors)
           t == FetchPageInvestors(s, category)
<1>1. new \in WhalesRequests
  BY DEF WhalesRequests, Requests
<1> HIDE DEF new
<1>2. g \in Seq(WhalesRequests) /\ l \in ListOf /\ l.loading = TRUE
  <2>1. s.flying \in Seq(WhalesRequests) /\ s.investors \in ListOf
    BY DEF WhalesType
  <2>2. l \in ListOf /\ l.loading = TRUE
    BY <2>1, LoadingIs
  <2> QED
    BY <1>1, <2>1, <2>2
<1>5. Expected(g, "investors", category) /\ \A w, o : Expected(s.flying, w, o) => Expected(g, w, o)
  <2>1. s.flying \in Seq(WhalesRequests) /\ new.what = "investors" /\ new.of = category
    BY DEF WhalesType, new
  <2>2. \A w, o : Expected(s.flying, w, o) \/ (new.what = w /\ new.of = o) => Expected(g, w, o)
    BY <2>1, ExpectedLasts
  <2> QED
    BY <2>1, <2>2
<1>3. t = [s EXCEPT !.pageCategory = category, !.investors = l, !.flying = g]
  BY DEF FetchPageInvestors, new
<1> HIDE DEF g, l, t
<1>4. /\ t \in WhalesType /\ t.pageCategory = category /\ t.investors.loading = TRUE
      /\ t.tab = s.tab /\ t.category = s.category /\ t.filter = s.filter /\ t.pageFilter = s.pageFilter
      /\ t.consensus = s.consensus /\ t.congress = s.congress
  BY <1>2, <1>3 DEF WhalesType
<1>6. t.flying = g
  BY <1>3 DEF WhalesType
<1> QED
  BY <1>4, <1>5, <1>6 DEF t

LEMMA FetchConsensusIs ==
    ASSUME NEW s \in WhalesType, NEW category \in DisclosersOf
    PROVE  LET t == FetchPageConsensus(s, category)
           IN  /\ t \in WhalesType /\ t.pageCategory = category /\ t.consensus.loading = TRUE
               /\ t.tab = s.tab /\ t.category = s.category /\ t.filter = s.filter /\ t.pageFilter = s.pageFilter
               /\ t.investors = s.investors /\ t.congress = s.congress
               /\ Expected(t.flying, "consensus", category) /\ \A w, o : Expected(s.flying, w, o) => Expected(t.flying, w, o)
<1> DEFINE new == [what |-> "consensus", of |-> category, current |-> TRUE]
           g == Append(s.flying, new)
           l == Loading(s.consensus)
           t == FetchPageConsensus(s, category)
<1>1. new \in WhalesRequests
  BY DEF WhalesRequests, Requests
<1> HIDE DEF new
<1>2. g \in Seq(WhalesRequests) /\ l \in ListOf /\ l.loading = TRUE
  <2>1. s.flying \in Seq(WhalesRequests) /\ s.consensus \in ListOf
    BY DEF WhalesType
  <2>2. l \in ListOf /\ l.loading = TRUE
    BY <2>1, LoadingIs
  <2> QED
    BY <1>1, <2>1, <2>2
<1>5. Expected(g, "consensus", category) /\ \A w, o : Expected(s.flying, w, o) => Expected(g, w, o)
  <2>1. s.flying \in Seq(WhalesRequests) /\ new.what = "consensus" /\ new.of = category
    BY DEF WhalesType, new
  <2>2. \A w, o : Expected(s.flying, w, o) \/ (new.what = w /\ new.of = o) => Expected(g, w, o)
    BY <2>1, ExpectedLasts
  <2> QED
    BY <2>1, <2>2
<1>3. t = [s EXCEPT !.pageCategory = category, !.consensus = l, !.flying = g]
  BY DEF FetchPageConsensus, new
<1> HIDE DEF g, l, t
<1>4. /\ t \in WhalesType /\ t.pageCategory = category /\ t.consensus.loading = TRUE
      /\ t.tab = s.tab /\ t.category = s.category /\ t.filter = s.filter /\ t.pageFilter = s.pageFilter
      /\ t.investors = s.investors /\ t.congress = s.congress
  BY <1>2, <1>3 DEF WhalesType
<1>6. t.flying = g
  BY <1>3 DEF WhalesType
<1> QED
  BY <1>4, <1>5, <1>6 DEF t

LEMMA FetchCongressIs ==
    ASSUME NEW s \in WhalesType, NEW filter \in FiltersOf
    PROVE  LET t == FetchPageCongress(s, filter)
           IN  /\ t \in WhalesType /\ t.pageFilter = filter /\ t.congress.loading = TRUE
               /\ t.tab = s.tab /\ t.category = s.category /\ t.filter = s.filter /\ t.pageCategory = s.pageCategory
               /\ t.investors = s.investors /\ t.consensus = s.consensus
               /\ Expected(t.flying, "congress", filter) /\ \A w, o : Expected(s.flying, w, o) => Expected(t.flying, w, o)
<1> DEFINE new == [what |-> "congress", of |-> filter, current |-> TRUE]
           g == Append(s.flying, new)
           l == Loading(s.congress)
           t == FetchPageCongress(s, filter)
<1>1. new \in WhalesRequests
  BY DEF WhalesRequests, Requests
<1> HIDE DEF new
<1>2. g \in Seq(WhalesRequests) /\ l \in ListOf /\ l.loading = TRUE
  <2>1. s.flying \in Seq(WhalesRequests) /\ s.congress \in ListOf
    BY DEF WhalesType
  <2>2. l \in ListOf /\ l.loading = TRUE
    BY <2>1, LoadingIs
  <2> QED
    BY <1>1, <2>1, <2>2
<1>5. Expected(g, "congress", filter) /\ \A w, o : Expected(s.flying, w, o) => Expected(g, w, o)
  <2>1. s.flying \in Seq(WhalesRequests) /\ new.what = "congress" /\ new.of = filter
    BY DEF WhalesType, new
  <2>2. \A w, o : Expected(s.flying, w, o) \/ (new.what = w /\ new.of = o) => Expected(g, w, o)
    BY <2>1, ExpectedLasts
  <2> QED
    BY <2>1, <2>2
<1>3. t = [s EXCEPT !.pageFilter = filter, !.congress = l, !.flying = g]
  BY DEF FetchPageCongress, new
<1> HIDE DEF g, l, t
<1>4. /\ t \in WhalesType /\ t.pageFilter = filter /\ t.congress.loading = TRUE
      /\ t.tab = s.tab /\ t.category = s.category /\ t.filter = s.filter /\ t.pageCategory = s.pageCategory
      /\ t.investors = s.investors /\ t.consensus = s.consensus
  BY <1>2, <1>3 DEF WhalesType
<1>6. t.flying = g
  BY <1>3 DEF WhalesType
<1> QED
  BY <1>4, <1>5, <1>6 DEF t

\* Whatever the store has of before, the effects on the tab ask for what is chosen.
LEMMA TabEffectsKeep ==
    ASSUME NEW s \in WhalesType, s.tab = "congress" => ListsSettle(s), ListsExpected(s)
    PROVE  WhalesOK(TabEffects(s))
<1>1. s.category \in DisclosersOf /\ s.filter \in FiltersOf
  BY DEF WhalesType
<1>2. CASE s.tab = "institutions"
  <2> DEFINE t == FetchPageInvestors(s, s.category)
             u == FetchPageConsensus(t, s.category)
  <2>1. /\ t \in WhalesType /\ t.pageCategory = s.category /\ t.investors.loading = TRUE
        /\ t.tab = s.tab /\ t.category = s.category /\ t.congress = s.congress /\ t.pageFilter = s.pageFilter
        /\ Expected(t.flying, "investors", s.category) /\ \A w, o : Expected(s.flying, w, o) => Expected(t.flying, w, o)
    BY <1>1, FetchInvestorsIs
  <2> HIDE DEF t
  <2>2. /\ u \in WhalesType /\ u.pageCategory = s.category /\ u.consensus.loading = TRUE
        /\ u.tab = t.tab /\ u.category = t.category /\ u.investors = t.investors
        /\ u.congress = t.congress /\ u.pageFilter = t.pageFilter
        /\ Expected(u.flying, "consensus", s.category) /\ \A w, o : Expected(t.flying, w, o) => Expected(u.flying, w, o)
    BY <1>1, <2>1, FetchConsensusIs
  <2>3. TabEffects(s) = u
    BY <1>2 DEF TabEffects, t
  <2> HIDE DEF u
  <2> QED
    BY <1>2, <2>1, <2>2, <2>3 DEF WhalesOK, ListsSettle, CongressSettles, Settles, ListsExpected
<1>3. CASE s.tab # "institutions"
  <2> DEFINE t == FetchPageCongress(s, s.filter)
  <2>1. /\ t \in WhalesType /\ t.pageFilter = s.filter /\ t.congress.loading = TRUE
        /\ t.tab = s.tab /\ t.category = s.category /\ t.filter = s.filter /\ t.pageCategory = s.pageCategory
        /\ t.investors = s.investors /\ t.consensus = s.consensus
        /\ Expected(t.flying, "congress", s.filter) /\ \A w, o : Expected(s.flying, w, o) => Expected(t.flying, w, o)
    BY <1>1, FetchCongressIs
  <2>2. TabEffects(s) = t
    BY <1>3 DEF TabEffects
  <2>3. ListsSettle(s)
    BY <1>3 DEF WhalesType
  <2> HIDE DEF t
  <2> QED
    BY <2>1, <2>2, <2>3 DEF WhalesOK, ListsSettle, CongressSettles, Settles, ListsExpected
<1> QED
  BY <1>2, <1>3

LEMMA WhalesStarts == WhalesInit => WhalesOK(ui)
<1> SUFFICES ASSUME WhalesInit PROVE WhalesOK(ui)
  OBVIOUS
<1> DEFINE f == <<>>
           s == [tab |-> "institutions", category |-> AllDisclosers, filter |-> AllFilters,
                 pageCategory |-> AllDisclosers, pageFilter |-> AllFilters,
                 investors |-> Empty, consensus |-> Empty, congress |-> Empty, flying |-> f]
<1>1. ui = TabEffects(s)
  BY DEF WhalesInit
<1>2. f \in Seq(WhalesRequests)
  OBVIOUS
<1> HIDE DEF f
<1>3. s \in WhalesType /\ s.tab # "congress" /\ ListsExpected(s)
  BY <1>2 DEF WhalesType, DisclosersOf, FiltersOf, ListOf, Empty, ListsExpected
<1> HIDE DEF s
<1> QED
  BY <1>1, <1>3, TabEffectsKeep

LEMMA WhalesSteps ==
    ASSUME WhalesOK(ui), WhalesNext
    PROVE  WhalesOK(ui')
<1> DEFINE f == ui.flying
<1>0. ui \in WhalesType /\ ListsSettle(ui) /\ CongressSettles(ui) /\ ListsExpected(ui) /\ f \in Seq(WhalesRequests)
  BY DEF WhalesOK, WhalesType
<1>c. ui.category \in DisclosersOf /\ ui.filter \in FiltersOf /\ ui.pageCategory \in DisclosersOf /\ ui.pageFilter \in FiltersOf
  BY <1>0 DEF WhalesType
<1>h. ASSUME NEW i \in DOMAIN f
      PROVE  /\ Answered(f, i) \in Seq(WhalesRequests) /\ f[i] \in WhalesRequests
             /\ \A w, o : Expected(f, w, o) /\ ~(f[i].what = w /\ f[i].of = o) => Expected(Answered(f, i), w, o)
  <2>1. f[i] \in WhalesRequests
    BY <1>0
  <2> HIDE DEF f
  <2>2. Answered(f, i) \in Seq(WhalesRequests)
    BY <1>0, AnsweredIn
  <2>3. \A w, o : Expected(f, w, o) /\ ~(f[i].what = w /\ f[i].of = o) => Expected(Answered(f, i), w, o)
    BY <1>0, <1>h, ExpectedLasts
  <2> QED
    BY <2>1, <2>2, <2>3
<1>r. ASSUME NEW i \in DOMAIN f, NEW ok \in BOOLEAN, NEW of, f[i].of = of, of \in DisclosersOf \cup FiltersOf
      PROVE  Result(i, ok) \in ListOf /\ Settles(Result(i, ok), of)
  <2>1. Result(i, ok) = [has |-> IF ok THEN of ELSE "failure", loading |-> FALSE]
    BY <1>r DEF Result
  <2> QED
    BY <1>r, <2>1 DEF ListOf, Settles
<1>1. ASSUME NEW i \in DOMAIN ui.flying, NEW ok \in BOOLEAN, InvestorsAnswer(i, ok)
      PROVE  WhalesOK(ui')
  <2> DEFINE of == f[i].of
             list == IF ui.pageCategory = of THEN Result(i, ok) ELSE ui.investors
             h == Answered(f, i)
  <2>1. f[i].what = "investors" /\ f[i] \in WhalesRequests /\ h \in Seq(WhalesRequests)
    BY <1>1, <1>h DEF InvestorsAnswer
  <2>2. of \in DisclosersOf
    <3> HIDE DEF f
    <3> QED
      BY <2>1 DEF WhalesRequests, Requests
  <2>3. list \in ListOf /\ Settles(list, ui.category)
    <3>1. Result(i, ok) \in ListOf /\ Settles(Result(i, ok), of)
      BY <2>2, <1>r
    <3> HIDE DEF of
    <3> QED
      BY <1>0, <3>1 DEF ListsSettle, WhalesType
  <2>4. ui' = [ui EXCEPT !.investors = list, !.flying = h]
    <3> DEFINE t == [ui EXCEPT !.investors = list]
    <3>1. ui' = [t EXCEPT !.flying = Answered(t.flying, i)]
      BY <1>1 DEF InvestorsAnswer, Taken
    <3>2. t.flying = f
      BY <1>0 DEF WhalesType
    <3> HIDE DEF list
    <3> QED
      BY <1>0, <3>1, <3>2 DEF WhalesType
  <2>6. \A w, o : Expected(f, w, o) /\ ~(f[i].what = w /\ f[i].of = o) => Expected(h, w, o)
    BY <1>h
  <2>7. list.loading => ui.investors.loading /\ of # ui.pageCategory
    BY DEF Result
  <2> HIDE DEF list, h
  <2>5. /\ ui' \in WhalesType /\ ui'.flying = h /\ ui'.investors = list /\ ui'.pageCategory = ui.pageCategory /\ ui'.category = ui.category
        /\ ui'.consensus = ui.consensus /\ ui'.congress = ui.congress /\ ui'.tab = ui.tab /\ ui'.filter = ui.filter
        /\ ui'.pageFilter = ui.pageFilter
    BY <1>0, <2>1, <2>3, <2>4 DEF WhalesType
  <2>8. ListsExpected(ui')
    <3>1. ListsExpected(ui)
      BY <1>0
    <3> QED
      BY <2>1, <2>5, <2>6, <2>7, <3>1 DEF ListsExpected
  <2> QED
    BY <1>0, <2>3, <2>5, <2>8 DEF WhalesOK, ListsSettle, CongressSettles
<1>2. ASSUME NEW i \in DOMAIN ui.flying, NEW ok \in BOOLEAN, ConsensusAnswer(i, ok)
      PROVE  WhalesOK(ui')
  <2> DEFINE of == f[i].of
             list == IF ui.pageCategory = of THEN Result(i, ok) ELSE ui.consensus
             h == Answered(f, i)
  <2>1. f[i].what = "consensus" /\ f[i] \in WhalesRequests /\ h \in Seq(WhalesRequests)
    BY <1>2, <1>h DEF ConsensusAnswer
  <2>2. of \in DisclosersOf
    <3> HIDE DEF f
    <3> QED
      BY <2>1 DEF WhalesRequests, Requests
  <2>3. list \in ListOf /\ Settles(list, ui.category)
    <3>1. Result(i, ok) \in ListOf /\ Settles(Result(i, ok), of)
      BY <2>2, <1>r
    <3> HIDE DEF of
    <3> QED
      BY <1>0, <3>1 DEF ListsSettle, WhalesType
  <2>4. ui' = [ui EXCEPT !.consensus = list, !.flying = h]
    <3> DEFINE t == [ui EXCEPT !.consensus = list]
    <3>1. ui' = [t EXCEPT !.flying = Answered(t.flying, i)]
      BY <1>2 DEF ConsensusAnswer, Taken
    <3>2. t.flying = f
      BY <1>0 DEF WhalesType
    <3> HIDE DEF list
    <3> QED
      BY <1>0, <3>1, <3>2 DEF WhalesType
  <2>6. \A w, o : Expected(f, w, o) /\ ~(f[i].what = w /\ f[i].of = o) => Expected(h, w, o)
    BY <1>h
  <2>7. list.loading => ui.consensus.loading /\ of # ui.pageCategory
    BY DEF Result
  <2> HIDE DEF list, h
  <2>5. /\ ui' \in WhalesType /\ ui'.flying = h /\ ui'.consensus = list /\ ui'.pageCategory = ui.pageCategory /\ ui'.category = ui.category
        /\ ui'.investors = ui.investors /\ ui'.congress = ui.congress /\ ui'.tab = ui.tab /\ ui'.filter = ui.filter
        /\ ui'.pageFilter = ui.pageFilter
    BY <1>0, <2>1, <2>3, <2>4 DEF WhalesType
  <2>8. ListsExpected(ui')
    <3>1. ListsExpected(ui)
      BY <1>0
    <3> QED
      BY <2>1, <2>5, <2>6, <2>7, <3>1 DEF ListsExpected
  <2> QED
    BY <1>0, <2>3, <2>5, <2>8 DEF WhalesOK, ListsSettle, CongressSettles
<1>3. ASSUME NEW i \in DOMAIN ui.flying, NEW ok \in BOOLEAN, CongressAnswer(i, ok)
      PROVE  WhalesOK(ui')
  <2> DEFINE of == f[i].of
             list == IF ui.pageFilter = of THEN Result(i, ok) ELSE ui.congress
             h == Answered(f, i)
  <2>1. f[i].what = "congress" /\ f[i] \in WhalesRequests /\ h \in Seq(WhalesRequests)
    BY <1>3, <1>h DEF CongressAnswer
  <2>2. of \in FiltersOf
    <3> HIDE DEF f
    <3> QED
      BY <2>1 DEF WhalesRequests, Requests
  <2>3. list \in ListOf /\ (ui.tab = "congress" => Settles(list, ui.filter))
    <3>1. Result(i, ok) \in ListOf /\ Settles(Result(i, ok), of)
      BY <2>2, <1>r
    <3> HIDE DEF of
    <3> QED
      BY <1>0, <3>1 DEF CongressSettles, WhalesType
  <2>4. ui' = [ui EXCEPT !.congress = list, !.flying = h]
    <3> DEFINE t == [ui EXCEPT !.congress = list]
    <3>1. ui' = [t EXCEPT !.flying = Answered(t.flying, i)]
      BY <1>3 DEF CongressAnswer, Taken
    <3>2. t.flying = f
      BY <1>0 DEF WhalesType
    <3> HIDE DEF list
    <3> QED
      BY <1>0, <3>1, <3>2 DEF WhalesType
  <2>6. \A w, o : Expected(f, w, o) /\ ~(f[i].what = w /\ f[i].of = o) => Expected(h, w, o)
    BY <1>h
  <2>7. list.loading => ui.congress.loading /\ of # ui.pageFilter
    BY DEF Result
  <2> HIDE DEF list, h
  <2>5. /\ ui' \in WhalesType /\ ui'.flying = h /\ ui'.congress = list /\ ui'.pageCategory = ui.pageCategory /\ ui'.category = ui.category
        /\ ui'.investors = ui.investors /\ ui'.consensus = ui.consensus /\ ui'.tab = ui.tab /\ ui'.filter = ui.filter
        /\ ui'.pageFilter = ui.pageFilter
    BY <1>0, <2>1, <2>3, <2>4 DEF WhalesType
  <2>8. ListsExpected(ui')
    <3>1. ListsExpected(ui)
      BY <1>0
    <3> QED
      BY <2>1, <2>5, <2>6, <2>7, <3>1 DEF ListsExpected
  <2> QED
    BY <1>0, <2>3, <2>5, <2>8 DEF WhalesOK, ListsSettle, CongressSettles
<1>4. ASSUME NEW tab \in {"institutions", "congress"}, SetActiveTab(tab)
      PROVE  WhalesOK(ui')
  <2> DEFINE s == [ui EXCEPT !.tab = tab]
  <2>1. ui' = TabEffects(s)
    BY <1>4 DEF SetActiveTab
  <2>2. s \in WhalesType /\ s.pageCategory = ui.pageCategory /\ s.category = ui.category /\ s.investors = ui.investors
        /\ s.consensus = ui.consensus /\ s.congress = ui.congress /\ s.pageFilter = ui.pageFilter /\ s.flying = f
    BY <1>0 DEF WhalesType
  <2> HIDE DEF s
  <2>3. ListsSettle(s) /\ ListsExpected(s)
    BY <1>0, <2>2 DEF ListsSettle, ListsExpected
  <2> QED
    BY <2>1, <2>2, <2>3, TabEffectsKeep
<1>5. ASSUME NEW category \in Disclosers, SetDisclosers(category)
      PROVE  WhalesOK(ui')
  <2> DEFINE s == [ui EXCEPT !.category = category]
  <2>1. ui' = TabEffects(s) /\ ui.tab = "institutions" /\ category \in DisclosersOf
    BY <1>5 DEF SetDisclosers, DisclosersOf
  <2>2. /\ s \in WhalesType /\ s.tab = ui.tab /\ s.pageCategory = ui.pageCategory /\ s.investors = ui.investors
        /\ s.consensus = ui.consensus /\ s.congress = ui.congress /\ s.pageFilter = ui.pageFilter /\ s.flying = f
    BY <1>0, <2>1 DEF WhalesType
  <2> HIDE DEF s
  <2>3. ListsExpected(s)
    BY <1>0, <2>2 DEF ListsExpected
  <2> QED
    BY <2>1, <2>2, <2>3, TabEffectsKeep
<1>6. ASSUME NEW filter \in Filters, SetFilter(filter)
      PROVE  WhalesOK(ui')
  <2> DEFINE s == [ui EXCEPT !.filter = filter]
  <2>1. ui' = TabEffects(s) /\ filter \in FiltersOf
    BY <1>6 DEF SetFilter, FiltersOf
  <2>2. s \in WhalesType /\ s.pageCategory = ui.pageCategory /\ s.category = ui.category /\ s.investors = ui.investors
        /\ s.consensus = ui.consensus /\ s.congress = ui.congress /\ s.pageFilter = ui.pageFilter /\ s.flying = f
    BY <1>0, <2>1 DEF WhalesType
  <2> HIDE DEF s
  <2>3. ListsSettle(s) /\ ListsExpected(s)
    BY <1>0, <2>2 DEF ListsSettle, ListsExpected
  <2> QED
    BY <2>1, <2>2, <2>3, TabEffectsKeep
<1>7. CASE ReopenWhales
  <2> DEFINE s == [ui EXCEPT !.tab = "institutions", !.category = AllDisclosers, !.filter = AllFilters]
  <2>1. ui' = TabEffects(s)
    BY <1>7 DEF ReopenWhales
  <2>2. /\ s \in WhalesType /\ s.tab # "congress" /\ s.pageCategory = ui.pageCategory /\ s.investors = ui.investors
        /\ s.consensus = ui.consensus /\ s.congress = ui.congress /\ s.pageFilter = ui.pageFilter /\ s.flying = f
    BY <1>0 DEF WhalesType, DisclosersOf, FiltersOf
  <2> HIDE DEF s
  <2>3. ListsExpected(s)
    BY <1>0, <2>2 DEF ListsExpected
  <2> QED
    BY <2>1, <2>2, <2>3, TabEffectsKeep
<1>8. CASE RetryInvestors
  <2> DEFINE t == FetchPageInvestors(ui, ui.category)
  <2>1. ui' = t
    BY <1>8 DEF RetryInvestors
  <2>2. /\ t \in WhalesType /\ t.pageCategory = ui.category /\ t.investors.loading = TRUE
        /\ t.tab = ui.tab /\ t.category = ui.category /\ t.filter = ui.filter /\ t.pageFilter = ui.pageFilter
        /\ t.consensus = ui.consensus /\ t.congress = ui.congress
        /\ Expected(t.flying, "investors", ui.category) /\ \A w, o : Expected(f, w, o) => Expected(t.flying, w, o)
    BY <1>0, <1>c, FetchInvestorsIs
  <2> HIDE DEF t
  <2> QED
    BY <1>0, <2>1, <2>2 DEF WhalesOK, ListsSettle, CongressSettles, Settles, ListsExpected
<1>9. CASE RetryConsensus
  <2> DEFINE t == FetchPageConsensus(ui, ui.category)
  <2>1. ui' = t
    BY <1>9 DEF RetryConsensus
  <2>2. /\ t \in WhalesType /\ t.pageCategory = ui.category /\ t.consensus.loading = TRUE
        /\ t.tab = ui.tab /\ t.category = ui.category /\ t.filter = ui.filter /\ t.pageFilter = ui.pageFilter
        /\ t.investors = ui.investors /\ t.congress = ui.congress
        /\ Expected(t.flying, "consensus", ui.category) /\ \A w, o : Expected(f, w, o) => Expected(t.flying, w, o)
    BY <1>0, <1>c, FetchConsensusIs
  <2> HIDE DEF t
  <2> QED
    BY <1>0, <2>1, <2>2 DEF WhalesOK, ListsSettle, CongressSettles, Settles, ListsExpected
<1>10. CASE RetryCongress
  <2> DEFINE t == FetchPageCongress(ui, ui.filter)
  <2>1. ui' = t
    BY <1>10 DEF RetryCongress
  <2>2. /\ t \in WhalesType /\ t.pageFilter = ui.filter /\ t.congress.loading = TRUE
        /\ t.tab = ui.tab /\ t.category = ui.category /\ t.filter = ui.filter /\ t.pageCategory = ui.pageCategory
        /\ t.investors = ui.investors /\ t.consensus = ui.consensus
        /\ Expected(t.flying, "congress", ui.filter) /\ \A w, o : Expected(f, w, o) => Expected(t.flying, w, o)
    BY <1>0, <1>c, FetchCongressIs
  <2> HIDE DEF t
  <2> QED
    BY <1>0, <2>1, <2>2 DEF WhalesOK, ListsSettle, CongressSettles, Settles, ListsExpected
<1>11. CASE RefreshWhalesPage
  <2> DEFINE t == FetchPageInvestors(ui, ui.pageCategory)
             u == FetchPageConsensus(t, ui.pageCategory)
             v == FetchPageCongress(u, ui.pageFilter)
  <2>1. ui' = v
    BY <1>11 DEF RefreshWhalesPage
  <2>2. /\ t \in WhalesType /\ t.pageCategory = ui.pageCategory /\ t.investors.loading = TRUE
        /\ t.tab = ui.tab /\ t.category = ui.category /\ t.filter = ui.filter
        /\ Expected(t.flying, "investors", ui.pageCategory)
    BY <1>0, <1>c, FetchInvestorsIs
  <2> HIDE DEF t
  <2>3. /\ u \in WhalesType /\ u.pageCategory = ui.pageCategory /\ u.consensus.loading = TRUE
        /\ u.tab = t.tab /\ u.category = t.category /\ u.filter = t.filter /\ u.investors = t.investors
        /\ Expected(u.flying, "consensus", ui.pageCategory) /\ \A w, o : Expected(t.flying, w, o) => Expected(u.flying, w, o)
    BY <1>c, <2>2, FetchConsensusIs
  <2> HIDE DEF u
  <2>4. /\ v \in WhalesType /\ v.pageFilter = ui.pageFilter /\ v.congress.loading = TRUE
        /\ v.tab = u.tab /\ v.category = u.category /\ v.filter = u.filter /\ v.pageCategory = u.pageCategory
        /\ v.investors = u.investors /\ v.consensus = u.consensus
        /\ Expected(v.flying, "congress", ui.pageFilter) /\ \A w, o : Expected(u.flying, w, o) => Expected(v.flying, w, o)
    BY <1>c, <2>3, FetchCongressIs
  <2> HIDE DEF v
  <2> QED
    BY <1>0, <2>1, <2>2, <2>3, <2>4 DEF WhalesOK, ListsSettle, CongressSettles, Settles, ListsExpected
<1> QED
  BY <1>1, <1>2, <1>3, <1>4, <1>5, <1>6, <1>7, <1>8, <1>9, <1>10, <1>11 DEF WhalesNext

LEMMA WhalesTold == ASSUME WhalesOK(ui) PROVE WhalesListsOwn /\ WhalesNeverStuck
<1>1. ui \in WhalesType /\ ListsSettle(ui) /\ CongressSettles(ui)
  BY DEF WhalesOK
<1>2. \A list \in {ui.investors, ui.consensus} : StatusOf(list) \notin {"error", "loading"} => list.has = ui.category
  BY <1>1 DEF ListsSettle, Settles, StatusOf
<1>3. InstitutionsShown(ui) => ui.investors.has = ui.category
  BY <1>2 DEF InstitutionsShown
<1>4. InvestorRows(ui) \subseteq {ui.category} /\ InvestorCards(ui) \subseteq {ui.category}
  BY <1>3 DEF InvestorRows, InvestorCards
<1>5. ConsensusShown(ui) \subseteq {ui.category}
  BY <1>2 DEF ConsensusShown
<1>6. CongressShown(ui) \subseteq {ui.filter}
  BY <1>1 DEF CongressShown, CongressSettles, Settles, StatusOf
<1>7. WhalesNeverStuck
  BY DEF WhalesOK, ListsExpected, Expected, WhalesNeverStuck, Flying
<1> QED
  BY <1>4, <1>5, <1>6, <1>7 DEF WhalesListsOwn

-----------------------------------------------------------------------------
(* The board of the arena and the search for its stocks *)

ArenaMarkets == {"us", "cn"}
PresetsOf == Presets \cup {FirstPreset}
Pairs == [Sides -> PresetsOf \cup {None, "searched"}]

ArenaRequests == Requests({"arena"}, ArenaMarkets) \cup Requests({"mount", "preset"}, PresetsOf)

ArenaType ==
    [market : ArenaMarkets, tab : {"board", "compare"}, players : ArenaMarkets \cup {None},
     trust : {"live", "stale", "unavailable"}, loading : BOOLEAN, error : BOOLEAN, pair : Pairs, flying : Seq(ArenaRequests)]

\* A board that is loading waits for players; those that are waited for, and those of a settled board, are of the market.
ArenaAsks(s) ==
    /\ Single(s.flying, "arena") /\ Owned(s.flying, "arena", s.market)
    /\ s.loading => Waiting(s.flying, "arena")
ArenaOwn(s) == ~s.loading /\ s.trust = "live" => s.players = s.market

ArenaOK(s) == s \in ArenaType /\ ArenaAsks(s) /\ ArenaOwn(s)

LEMMA LoadArenaKeeps ==
    ASSUME NEW s \in ArenaType, Single(s.flying, "arena")
    PROVE  ArenaOK(LoadArena(s))
<1> DEFINE f == s.flying
           g == AskAnew(f, "arena", s.market)
           new == [what |-> "arena", of |-> s.market, current |-> TRUE]
           t == [s EXCEPT !.loading = TRUE, !.error = FALSE, !.flying = g]
<1>1. f \in Seq(ArenaRequests) /\ s.market \in ArenaMarkets
  BY DEF ArenaType
<1>2. new \in ArenaRequests
  BY <1>1 DEF ArenaRequests, Requests
<1>3. g \in Seq(ArenaRequests) /\ Single(g, "arena") /\ Owned(g, "arena", s.market) /\ Waiting(g, "arena")
  <2> HIDE DEF f
  <2> QED
    BY <1>1, <1>2, AskAnewIs DEF f
<1>4. LoadArena(s) = t
  BY DEF LoadArena
<1> HIDE DEF g
<1>5. t \in ArenaType /\ t.flying = g /\ t.market = s.market /\ t.loading = TRUE
  BY <1>3 DEF ArenaType
<1> HIDE DEF t
<1> QED
  BY <1>3, <1>4, <1>5 DEF ArenaOK, ArenaAsks, ArenaOwn

LEMMA AskPairKeeps ==
    ASSUME NEW s, ArenaOK(s), NEW what \in {"mount", "preset"}, NEW preset \in PresetsOf
    PROVE  ArenaOK(AskPair(s, what, preset))
<1> DEFINE f == s.flying
           new == [what |-> what, of |-> preset, current |-> TRUE]
           g == Append(f, new)
           t == [s EXCEPT !.flying = g]
<1>1. f \in Seq(ArenaRequests) /\ s \in ArenaType /\ ArenaAsks(s) /\ ArenaOwn(s)
  BY DEF ArenaOK, ArenaType
<1>2. new \in ArenaRequests /\ new.what # "arena"
  BY <1>1 DEF ArenaRequests, Requests
<1> HIDE DEF new, f
<1>3. g \in Seq(ArenaRequests) /\ Single(g, "arena") /\ Owned(g, "arena", s.market) /\ (s.loading => Waiting(g, "arena"))
  <2>1. Single(f, "arena") /\ Owned(f, "arena", s.market) /\ (s.loading => Waiting(f, "arena"))
    BY <1>1 DEF ArenaAsks, f
  <2>2. Single(g, "arena")
    BY <1>1, <1>2, <2>1, SingleLasts
  <2>3. g \in Seq(ArenaRequests) /\ Owned(g, "arena", s.market)
    BY <1>1, <1>2, <2>1, GateMore
  <2>4. Waiting(f, "arena") => Waiting(g, "arena")
    BY <1>1, <1>2, GateMore
  <2> QED
    BY <2>1, <2>2, <2>3, <2>4
<1>4. AskPair(s, what, preset) = t
  BY DEF AskPair, new, f
<1> HIDE DEF g
<1>5. t \in ArenaType /\ t.flying = g /\ t.market = s.market /\ t.loading = s.loading /\ t.trust = s.trust /\ t.players = s.players
  BY <1>1, <1>3 DEF ArenaType
<1> HIDE DEF t
<1> QED
  BY <1>1, <1>3, <1>4, <1>5 DEF ArenaOK, ArenaAsks, ArenaOwn

LEMMA ArenaStarts == ArenaInit => ArenaOK(ui)
<1> SUFFICES ASSUME ArenaInit PROVE ArenaOK(ui)
  OBVIOUS
<1> DEFINE f == <<>>
           pair == [side \in Sides |-> None]
           s == [market |-> "us", tab |-> "board", players |-> None, trust |-> "unavailable",
                 loading |-> TRUE, error |-> FALSE, pair |-> pair, flying |-> f]
<1>1. ui = AskPair(LoadArena(s), "mount", FirstPreset)
  BY DEF ArenaInit
<1>2. f \in Seq(ArenaRequests) /\ Single(f, "arena") /\ pair \in Pairs /\ FirstPreset \in PresetsOf
  BY DEF Single, Flying, Pairs, PresetsOf
<1> HIDE DEF f, pair
<1>3. s \in ArenaType /\ s.flying = f
  BY <1>2 DEF ArenaType, ArenaMarkets
<1> HIDE DEF s
<1> QED
  BY <1>1, <1>2, <1>3, LoadArenaKeeps, AskPairKeeps

LEMMA ArenaSteps ==
    ASSUME ArenaOK(ui), ArenaNext
    PROVE  ArenaOK(ui')
<1> DEFINE f == ui.flying
           h(i) == Answered(f, i)
<1>0. ui \in ArenaType /\ ArenaAsks(ui) /\ ArenaOwn(ui) /\ f \in Seq(ArenaRequests)
  BY DEF ArenaOK, ArenaType
<1>f. f = ui.flying
  OBVIOUS
<1>i. ASSUME NEW i \in DOMAIN f
      PROVE  /\ h(i) \in Seq(ArenaRequests) /\ Single(h(i), "arena") /\ Owned(h(i), "arena", ui.market)
             /\ f[i] \in ArenaRequests
             /\ ui.loading /\ (~f[i].current \/ f[i].what # "arena") => Waiting(h(i), "arena")
  <2>0. ui.loading => Waiting(f, "arena")
    BY <1>0 DEF ArenaAsks
  <2>1. Single(f, "arena") /\ Owned(f, "arena", ui.market) /\ f[i] \in ArenaRequests
    BY <1>0 DEF ArenaAsks
  <2> HIDE DEF f
  <2>2. Single(h(i), "arena")
    BY <1>0, <2>1, SingleLasts
  <2>3. h(i) \in Seq(ArenaRequests) /\ Owned(h(i), "arena", ui.market)
    BY <1>0, <2>1, GateAnswered
  <2>4. Waiting(f, "arena") /\ (~f[i].current \/ f[i].what # "arena") => Waiting(h(i), "arena")
    BY <1>0, <2>1, GateAnswered
  <2> QED
    BY <2>0, <2>1, <2>2, <2>3, <2>4
\* An answer that leaves the market alone.
<1>s. ASSUME NEW i \in DOMAIN f, NEW s \in ArenaType, s.flying = f, s.market = ui.market, ArenaOwn(s),
             s.loading => ui.loading /\ (~f[i].current \/ f[i].what # "arena"), ui' = [s EXCEPT !.flying = h(i)]
      PROVE  ArenaOK(ui')
  <2>1. /\ h(i) \in Seq(ArenaRequests) /\ Single(h(i), "arena") /\ Owned(h(i), "arena", ui.market)
        /\ s.loading => Waiting(h(i), "arena")
    BY <1>i, <1>s
  <2> HIDE DEF h
  <2>2. /\ ui' \in ArenaType /\ ui'.flying = h(i) /\ ui'.market = ui.market /\ ui'.loading = s.loading
        /\ ui'.trust = s.trust /\ ui'.players = s.players
    BY <1>s, <2>1 DEF ArenaType
  <2> QED
    BY <1>s, <2>1, <2>2 DEF ArenaOK, ArenaAsks, ArenaOwn
<1>h. ASSUME NEW i \in DOMAIN f, NEW s \in ArenaType, s.flying = f, s.market = ui.market, Heard(i, s),
             ~s.loading, f[i].current => ArenaOwn(s)
      PROVE  ArenaOK(ui')
  <2>1. (f[i].current /\ ui' = [s EXCEPT !.flying = h(i)]) \/ (~f[i].current /\ ui' = [ui EXCEPT !.flying = h(i)])
    BY <1>h DEF Heard
  <2> HIDE DEF h, f
  <2> QED
    BY <1>0, <1>f, <1>h, <1>s, <2>1
<1>t. ASSUME NEW i \in DOMAIN f, NEW s \in ArenaType, s.flying = f, s.market = ui.market, Taken(i, s), ArenaOwn(s),
             f[i].what # "arena", s.loading = ui.loading
      PROVE  ArenaOK(ui')
  <2>1. ui' = [s EXCEPT !.flying = h(i)]
    BY <1>t DEF Taken
  <2> HIDE DEF h, f
  <2> QED
    BY <1>0, <1>t, <1>s, <2>1
\* What leaves the requests, the market and its players alone.
<1>l. ASSUME NEW s \in ArenaType, s.flying = f, s.market = ui.market, s.loading = ui.loading, s.trust = ui.trust,
             s.players = ui.players
      PROVE  ArenaOK(s)
  BY <1>0, <1>l DEF ArenaOK, ArenaAsks, ArenaOwn
<1>1. ASSUME NEW market \in {"us", "cn"}, SelectArenaMarket(market)
      PROVE  ArenaOK(ui')
  <2> DEFINE tab == IF market = "cn" THEN "board" ELSE ui.tab
             s == [ui EXCEPT !.market = market, !.tab = tab]
  <2>1. ui' = IF market = ui.market THEN s ELSE LoadArena(s)
    BY <1>1 DEF SelectArenaMarket
  <2>2. tab \in {"board", "compare"}
    BY <1>0 DEF ArenaType
  <2> HIDE DEF tab
  <2>3. /\ s \in ArenaType /\ s.flying = f /\ s.market = market /\ s.loading = ui.loading /\ s.trust = ui.trust
        /\ s.players = ui.players
    BY <1>0, <2>2 DEF ArenaType, ArenaMarkets
  <2> HIDE DEF s
  <2>4. Single(s.flying, "arena")
    BY <1>0, <2>3 DEF ArenaAsks
  <2> QED
    BY <1>l, <2>1, <2>3, <2>4, LoadArenaKeeps
<1>2. ASSUME NEW tab \in {"board", "compare"}, SetArenaTab(tab)
      PROVE  ArenaOK(ui')
  <2> DEFINE s == [ui EXCEPT !.tab = tab]
  <2>1. ui' = s
    BY <1>2 DEF SetArenaTab
  <2>2. s \in ArenaType /\ s.flying = f /\ s.market = ui.market /\ s.loading = ui.loading /\ s.trust = ui.trust /\ s.players = ui.players
    BY <1>0 DEF ArenaType
  <2> HIDE DEF s
  <2> QED
    BY <1>l, <2>1, <2>2
<1>3. CASE RetryArena
  BY <1>0, <1>3, LoadArenaKeeps DEF RetryArena, ArenaAsks
<1>4. ASSUME NEW preset \in Presets, ApplyArenaPreset(preset)
      PROVE  ArenaOK(ui')
  <2>1. preset \in PresetsOf
    BY DEF PresetsOf
  <2> QED
    BY <1>4, <2>1, AskPairKeeps DEF ApplyArenaPreset
<1>5. ASSUME NEW side \in Sides, NEW stock \in {None, "searched"}, ChooseStock(side, stock)
      PROVE  ArenaOK(ui')
  <2> DEFINE pair == [ui.pair EXCEPT ![side] = stock]
             s == [ui EXCEPT !.pair = pair]
  <2>1. ui' = s
    BY <1>5 DEF ChooseStock
  <2>2. pair \in Pairs
    BY <1>0 DEF ArenaType, Pairs
  <2> HIDE DEF pair
  <2>3. s \in ArenaType /\ s.flying = f /\ s.market = ui.market /\ s.loading = ui.loading /\ s.trust = ui.trust /\ s.players = ui.players
    BY <1>0, <2>2 DEF ArenaType
  <2> HIDE DEF s
  <2> QED
    BY <1>l, <2>1, <2>3
<1>6. ASSUME NEW i \in DOMAIN ui.flying, ArenaFailed(i)
      PROVE  ArenaOK(ui')
  <2> DEFINE s == [ui EXCEPT !.players = None, !.trust = "unavailable", !.error = TRUE, !.loading = FALSE]
  <2>1. Heard(i, s)
    BY <1>6 DEF ArenaFailed
  <2>2. s \in ArenaType /\ s.flying = f /\ s.market = ui.market /\ s.trust = "unavailable" /\ ~s.loading
    BY <1>0 DEF ArenaType
  <2> HIDE DEF s
  <2>3. ArenaOwn(s)
    BY <2>2 DEF ArenaOwn
  <2> QED
    BY <1>h, <2>1, <2>2, <2>3
<1>7. ASSUME NEW i \in DOMAIN ui.flying, PairFailed(i)
      PROVE  ArenaOK(ui')
  BY <1>0, <1>7, <1>t DEF PairFailed
<1>8. ASSUME NEW i \in DOMAIN ui.flying, NEW trust \in {"live", "stale", "unavailable"}, ArenaAnswer(i, trust)
      PROVE  ArenaOK(ui')
  <2> DEFINE of == f[i].of
             s == [ui EXCEPT !.players = of, !.trust = trust, !.loading = FALSE]
  <2>1. Heard(i, s) /\ f[i].what = "arena"
    BY <1>8 DEF ArenaAnswer
  <2>2. f[i] \in ArenaRequests
    BY <1>i
  <2>3. of \in ArenaMarkets
    <3> HIDE DEF f
    <3> QED
      BY <2>1, <2>2 DEF ArenaRequests, Requests
  <2>4. f[i].current => of = ui.market
    <3>1. Owned(f, "arena", ui.market)
      BY <1>0 DEF ArenaAsks
    <3> HIDE DEF f
    <3> QED
      BY <1>8, <2>1, <3>1 DEF Owned, f
  <2> HIDE DEF of
  <2>5. s \in ArenaType /\ s.flying = f /\ s.market = ui.market /\ s.players = of /\ ~s.loading
    BY <1>0, <2>3 DEF ArenaType
  <2> HIDE DEF s
  <2>6. f[i].current => ArenaOwn(s)
    BY <2>4, <2>5 DEF ArenaOwn
  <2> QED
    BY <1>h, <2>1, <2>5, <2>6
<1>9. ASSUME NEW i \in DOMAIN ui.flying, NEW found \in SUBSET Sides, MountPair(i, found)
      PROVE  ArenaOK(ui')
  <2> DEFINE of == f[i].of
             pair == [side \in Sides |-> IF side \in found THEN of ELSE ui.pair[side]]
             s == [ui EXCEPT !.pair = pair]
  <2>1. Taken(i, s) /\ f[i].what = "mount" /\ f[i] \in ArenaRequests
    BY <1>9, <1>i DEF MountPair
  <2>2. of \in PresetsOf
    <3> HIDE DEF f
    <3> QED
      BY <2>1 DEF ArenaRequests, Requests
  <2> HIDE DEF of
  <2>3. pair \in Pairs
    BY <1>0, <2>2 DEF ArenaType, Pairs
  <2> HIDE DEF pair
  <2>4. s \in ArenaType /\ s.flying = f /\ s.market = ui.market /\ s.loading = ui.loading /\ s.trust = ui.trust /\ s.players = ui.players
    BY <1>0, <2>3 DEF ArenaType
  <2> HIDE DEF s
  <2>5. ArenaOwn(s)
    BY <1>0, <2>4 DEF ArenaOwn
  <2> QED
    BY <1>t, <2>1, <2>4, <2>5
<1>10. ASSUME NEW i \in DOMAIN ui.flying, NEW found \in SUBSET Sides, PresetPair(i, found)
       PROVE  ArenaOK(ui')
  <2> DEFINE of == f[i].of
             pair == [side \in Sides |-> IF side \in found THEN of ELSE None]
             s == [ui EXCEPT !.pair = pair, !.tab = "compare"]
  <2>1. Taken(i, s) /\ f[i].what = "preset" /\ f[i] \in ArenaRequests
    BY <1>10, <1>i DEF PresetPair
  <2>2. of \in PresetsOf
    <3> HIDE DEF f
    <3> QED
      BY <2>1 DEF ArenaRequests, Requests
  <2> HIDE DEF of
  <2>3. pair \in Pairs
    BY <1>0, <2>2 DEF ArenaType, Pairs
  <2> HIDE DEF pair
  <2>4. s \in ArenaType /\ s.flying = f /\ s.market = ui.market /\ s.loading = ui.loading /\ s.trust = ui.trust /\ s.players = ui.players
    BY <1>0, <2>3 DEF ArenaType
  <2> HIDE DEF s
  <2>5. ArenaOwn(s)
    BY <1>0, <2>4 DEF ArenaOwn
  <2> QED
    BY <1>t, <2>1, <2>4, <2>5
<1> QED
  BY <1>1, <1>2, <1>3, <1>4, <1>5, <1>6, <1>7, <1>8, <1>9, <1>10 DEF ArenaNext

\* The search.  Its results are its own, or some are waited for, which is marked.
SelectorRequests == Requests({"search"}, Typed \cup {None})

SelectorType ==
    [value : BOOLEAN, query : Typed \cup {None}, debounced : Typed \cup {None}, results : Typed \cup {None},
     open : BOOLEAN, isSearching : BOOLEAN, error : BOOLEAN, flying : Seq(SelectorRequests)]

ResultsOwn(s) ==
    /\ Owned(s.flying, "search", s.debounced)
    /\ Waiting(s.flying, "search") \/ s.results \in {None, s.debounced}
    /\ AtMostOne(s.flying, "search") /\ (Waiting(s.flying, "search") => s.isSearching)

SelectorOK(s) == s \in SelectorType /\ ResultsOwn(s)

LEMMA SelectorEffectKeeps ==
    ASSUME NEW s \in SelectorType
    PROVE  SelectorOK(SelectorEffect(s))
<1> DEFINE f == s.flying
           g == Ask(f, "search", s.debounced)
           q == Superseded(f, "search")
           a == [s EXCEPT !.isSearching = TRUE, !.error = FALSE, !.flying = g]
           b == [s EXCEPT !.results = None, !.error = FALSE, !.flying = q]
<1>1. f \in Seq(SelectorRequests) /\ s.debounced \in Typed \cup {None} /\ "search" \in {"search"}
  BY DEF SelectorType
<1>2. /\ g \in Seq(SelectorRequests) /\ Owned(g, "search", s.debounced) /\ Waiting(g, "search")
      /\ q \in Seq(SelectorRequests) /\ Owned(q, "search", s.debounced)
      /\ AtMostOne(g, "search") /\ AtMostOne(q, "search") /\ ~Waiting(q, "search")
  <2> HIDE DEF f
  <2>1. g \in Seq(SelectorRequests) /\ Owned(g, "search", s.debounced) /\ Waiting(g, "search")
    BY <1>1, GateAsk DEF SelectorRequests
  <2>2. q \in Seq(SelectorRequests) /\ Owned(q, "search", s.debounced)
    BY <1>1, Gate DEF SelectorRequests
  <2>3. AtMostOne(g, "search")
    BY <1>1, OneAsked DEF SelectorRequests
  <2>4. ~Waiting(q, "search")
    BY <1>1, Gate DEF SelectorRequests
  <2> HIDE DEF q
  <2>5. AtMostOne(q, "search")
    BY <2>4 DEF AtMostOne, Waiting, Flying
  <2> QED
    BY <2>1, <2>2, <2>3, <2>4, <2>5
<1>3. SelectorEffect(s) = a \/ SelectorEffect(s) = b
  BY DEF SelectorEffect, SearchStocks
<1> HIDE DEF g, q
<1>4. /\ a \in SelectorType /\ a.flying = g /\ a.debounced = s.debounced /\ a.isSearching = TRUE
      /\ b \in SelectorType /\ b.flying = q /\ b.debounced = s.debounced /\ b.results = None
  BY <1>2 DEF SelectorType
<1> HIDE DEF a, b
<1> QED
  BY <1>2, <1>3, <1>4 DEF SelectorOK, ResultsOwn

LEMMA SelectorStarts == SelectorInit => SelectorOK(ui)
<1> SUFFICES ASSUME SelectorInit PROVE SelectorOK(ui)
  OBVIOUS
<1> DEFINE f == <<>>
<1>1. ui = [value |-> FALSE, query |-> None, debounced |-> None, results |-> None, open |-> FALSE,
            isSearching |-> FALSE, error |-> FALSE, flying |-> f]
  BY DEF SelectorInit
<1>2. f \in Seq(SelectorRequests) /\ Owned(f, "search", None) /\ AtMostOne(f, "search") /\ ~Waiting(f, "search")
  BY DEF Owned, AtMostOne, Waiting, Flying
<1> HIDE DEF f
<1> QED
  BY <1>1, <1>2 DEF SelectorOK, SelectorType, ResultsOwn

LEMMA SelectorSteps ==
    ASSUME SelectorOK(ui), SelectorNext
    PROVE  SelectorOK(ui')
<1> DEFINE f == ui.flying
<1>0. ui \in SelectorType /\ ResultsOwn(ui) /\ f \in Seq(SelectorRequests)
  BY DEF SelectorOK, SelectorType
\* What leaves the search alone, or takes its results away.
<1>l. ASSUME ui' \in SelectorType, ui'.flying = ui.flying, ui'.debounced = ui.debounced, ui'.results \in {None, ui.results},
             ui'.isSearching = ui.isSearching
      PROVE  SelectorOK(ui')
  BY <1>0, <1>l DEF SelectorOK, ResultsOwn
<1>h. ASSUME NEW i \in DOMAIN f, NEW s \in SelectorType, s.flying = f, s.debounced = ui.debounced,
             f[i].current => s.results \in {None, ui.debounced}, Heard(i, s)
      PROVE  SelectorOK(ui')
  <2> DEFINE h == Answered(f, i)
  <2>1. /\ h \in Seq(SelectorRequests) /\ Owned(h, "search", ui.debounced)
        /\ Waiting(f, "search") /\ ~f[i].current => Waiting(h, "search")
    <3>1. Owned(f, "search", ui.debounced)
      BY <1>0 DEF ResultsOwn
    <3> HIDE DEF f
    <3> QED
      BY <1>0, <1>h, <3>1, GateAnswered
  <2>5. /\ AtMostOne(h, "search") /\ (Waiting(h, "search") => ui.isSearching)
        /\ f[i].current => ~Waiting(h, "search")
    <3>1. AtMostOne(f, "search") /\ (Waiting(f, "search") => ui.isSearching)
      BY <1>0 DEF ResultsOwn
    <3>0. f[i] \in SelectorRequests
      BY <1>0, <1>h
    <3> HIDE DEF f
    <3>2. f[i].what = "search"
      BY <3>0 DEF SelectorRequests, Requests
    <3>3. AtMostOne(h, "search")
      BY <1>0, <1>h, <3>1, OneAnswered
    <3>4. f[i].current => ~Waiting(h, "search")
      BY <1>0, <1>h, <3>1, <3>2, OneAnswered
    <3>5. Waiting(h, "search") => Waiting(f, "search")
      BY <1>0, <1>h, GateAnswered
    <3> QED
      BY <3>1, <3>3, <3>4, <3>5
  <2>2. (f[i].current /\ ui' = [s EXCEPT !.flying = h]) \/ (~f[i].current /\ ui' = [ui EXCEPT !.flying = h])
    BY <1>h DEF Heard
  <2>3. Waiting(f, "search") \/ ui.results \in {None, ui.debounced}
    BY <1>0 DEF ResultsOwn
  <2> HIDE DEF h
  <2>4. /\ ui' \in SelectorType /\ ui'.flying = h /\ ui'.debounced = ui.debounced
        /\ (f[i].current /\ ui'.results = s.results) \/ (~f[i].current /\ ui'.results = ui.results /\ ui'.isSearching = ui.isSearching)
    <3> HIDE DEF f
    <3> QED
      BY <1>0, <1>h, <2>1, <2>2 DEF SelectorType
  <2> HIDE DEF f
  <2> QED
    BY <1>h, <2>1, <2>3, <2>4, <2>5 DEF SelectorOK, ResultsOwn
<1>1. ASSUME NEW query \in Typed \cup {None}, TypeSelector(query) PROVE SelectorOK(ui')
  <2>1. ui' \in SelectorType /\ ui'.flying = ui.flying /\ ui'.debounced = ui.debounced /\ ui'.results = ui.results
        /\ ui'.isSearching = ui.isSearching
    BY <1>0, <1>1 DEF TypeSelector, SelectorType
  <2> QED
    BY <1>l, <2>1
<1>2. CASE DebounceTimer
  <2>1. [ui EXCEPT !.debounced = ui.query] \in SelectorType
    BY <1>0 DEF SelectorType
  <2> QED
    BY <1>2, <2>1, SelectorEffectKeeps DEF DebounceTimer
<1>3. CASE OpenResults
  <2>1. ui' \in SelectorType /\ ui'.flying = ui.flying /\ ui'.debounced = ui.debounced /\ ui'.results = ui.results
        /\ ui'.isSearching = ui.isSearching
    BY <1>0, <1>3 DEF OpenResults, SelectorType
  <2> QED
    BY <1>l, <2>1
<1>4. CASE BlurTimer
  <2>1. ui' \in SelectorType /\ ui'.flying = ui.flying /\ ui'.debounced = ui.debounced /\ ui'.results = ui.results
        /\ ui'.isSearching = ui.isSearching
    BY <1>0, <1>4 DEF BlurTimer, SelectorType
  <2> QED
    BY <1>l, <2>1
<1>5. CASE SelectResult
  <2>1. ui' \in SelectorType /\ ui'.flying = ui.flying /\ ui'.debounced = ui.debounced /\ ui'.results = None
        /\ ui'.isSearching = ui.isSearching
    BY <1>0, <1>5 DEF SelectResult, SelectorType
  <2> QED
    BY <1>l, <2>1
<1>6. CASE ClearStock
  <2>1. ui' \in SelectorType /\ ui'.flying = ui.flying /\ ui'.debounced = ui.debounced /\ ui'.results = None
        /\ ui'.isSearching = ui.isSearching
    BY <1>0, <1>6 DEF ClearStock, SelectorType
  <2> QED
    BY <1>l, <2>1
<1>7. CASE ValueGiven
  <2>1. ui' \in SelectorType /\ ui'.flying = ui.flying /\ ui'.debounced = ui.debounced /\ ui'.results = ui.results
        /\ ui'.isSearching = ui.isSearching
    BY <1>0, <1>7 DEF ValueGiven, SelectorType
  <2> QED
    BY <1>l, <2>1
<1>8. CASE RetrySelector
  BY <1>0, <1>8, SelectorEffectKeeps DEF RetrySelector
<1>9. ASSUME NEW i \in DOMAIN ui.flying, SelectorAnswer(i) PROVE SelectorOK(ui')
  <2> DEFINE of == f[i].of
             s == [ui EXCEPT !.results = of, !.open = TRUE, !.isSearching = FALSE]
  <2>1. Heard(i, s) /\ f[i] \in SelectorRequests
    BY <1>0, <1>9 DEF SelectorAnswer
  <2>2. of \in Typed \cup {None} /\ (f[i].current => of = ui.debounced)
    <3>1. Owned(f, "search", ui.debounced)
      BY <1>0 DEF ResultsOwn
    <3> HIDE DEF f
    <3>2. of \in Typed \cup {None} /\ f[i].what = "search"
      BY <2>1 DEF SelectorRequests, Requests
    <3> QED
      BY <1>9, <3>1, <3>2 DEF Owned, f
  <2> HIDE DEF of
  <2>3. s \in SelectorType /\ s.flying = f /\ s.debounced = ui.debounced /\ s.results = of
    BY <1>0, <2>2 DEF SelectorType
  <2> HIDE DEF s
  <2> QED
    BY <1>h, <2>1, <2>2, <2>3
<1>10. ASSUME NEW i \in DOMAIN ui.flying, SelectorFailed(i) PROVE SelectorOK(ui')
  <2> DEFINE s == [ui EXCEPT !.results = None, !.open = FALSE, !.error = TRUE, !.isSearching = FALSE]
  <2>1. Heard(i, s)
    BY <1>10 DEF SelectorFailed
  <2>2. s \in SelectorType /\ s.flying = f /\ s.debounced = ui.debounced /\ s.results = None
    BY <1>0 DEF SelectorType
  <2> HIDE DEF s
  <2> QED
    BY <1>h, <2>1, <2>2
<1> QED
  BY <1>1, <1>2, <1>3, <1>4, <1>5, <1>6, <1>7, <1>8, <1>9, <1>10 DEF SelectorNext

LEMMA ArenaTold ==
    /\ ArenaOK(ui) /\ BoardShows(ui) # {} => BoardShows(ui) = {ui.market} /\ ui.trust = "live"
    /\ SelectorOK(ui) /\ ~Waiting(ui.flying, "search") => ui.results \in {None, ui.debounced}
    /\ ArenaOK(ui) /\ ui.loading => Waiting(ui.flying, "arena")
    /\ SelectorOK(ui) /\ Waiting(ui.flying, "search") => ui.isSearching
<1>1. ASSUME ArenaOK(ui), BoardShows(ui) # {} PROVE BoardShows(ui) = {ui.market} /\ ui.trust = "live"
  <2>1. ui.tab = "board" /\ ArenaNotice(ui) = None /\ BoardShows(ui) = {ui.players}
    BY <1>1 DEF BoardShows
  <2>0. ui.trust \in {"live", "stale", "unavailable"}
    BY <1>1 DEF ArenaOK, ArenaType
  <2>3. ASSUME ui.loading PROVE FALSE
    BY <2>1, <2>3 DEF ArenaNotice, None
  <2>4. ASSUME ~ui.loading, ui.error PROVE FALSE
    BY <2>1, <2>4 DEF ArenaNotice, None
  <2>5. ASSUME ~ui.loading, ~ui.error, ui.trust # "live" PROVE FALSE
    <3>1. ui.trust \in {"stale", "unavailable"}
      BY <2>0, <2>5
    <3> QED
      BY <3>1, <2>1, <2>5 DEF ArenaNotice, None
  <2>2. ~ui.loading /\ ui.trust = "live"
    BY <2>3, <2>4, <2>5
  <2> QED
    BY <1>1, <2>1, <2>2 DEF ArenaOK, ArenaOwn
<1>2. SelectorOK(ui) /\ ~Waiting(ui.flying, "search") => ui.results \in {None, ui.debounced}
  BY DEF SelectorOK, ResultsOwn
<1>3. ArenaOK(ui) /\ ui.loading => Waiting(ui.flying, "arena")
  BY DEF ArenaOK, ArenaAsks
<1>4. SelectorOK(ui) /\ Waiting(ui.flying, "search") => ui.isSearching
  BY DEF SelectorOK, ResultsOwn
<1> QED
  BY <1>1, <1>2, <1>3, <1>4

-----------------------------------------------------------------------------
(* The server's portfolio, in the ledger's page *)

PollLoops == [job : {"j1", "j2"}, left : 0 .. MaxAttempts - 1]

PaperPanelRequests == Requests({"paper", "batch"}, {None}) \cup Requests({"status"}, PollLoops)

PaperPanelType ==
    [authorized : BOOLEAN, paper : BOOLEAN, paperError : {None, "unauthorized", "failed"}, job : {"j1", "j2", None},
     polling : BOOLEAN, batch : {None, "queued", "started", "running", "done", "failed", "still running"},
     loops : SUBSET PollLoops, flying : Seq(PaperPanelRequests)]

\* Without a session nothing is shown and nothing is waited for.
PaperPrivate(s) ==
    /\ s.paper => s.authorized
    /\ Waiting(s.flying, "paper") => s.authorized

PaperPanelOK(s) == s \in PaperPanelType /\ PaperPrivate(s)

LEMMA AskedPaper ==
    ASSUME NEW f \in Seq(PaperPanelRequests)
    PROVE  /\ Ask(f, "paper", None) \in Seq(PaperPanelRequests)
           /\ Superseded(f, "paper") \in Seq(PaperPanelRequests) /\ ~Waiting(Superseded(f, "paper"), "paper")
<1> DEFINE W == {"paper", "batch", "status"}
           O == PollLoops \cup {None}
<1>1. \A r \in PaperPanelRequests : r \in Requests(W, O) /\ Outdated(r, "paper") \in PaperPanelRequests
  <2> TAKE r \in PaperPanelRequests
  <2>1. r \in Requests(W, O)
    BY DEF PaperPanelRequests, Requests
  <2>2. CASE r \in Requests({"paper", "batch"}, {None})
    BY <2>1, <2>2, OutdatedIs DEF PaperPanelRequests
  <2>3. CASE r \in Requests({"status"}, PollLoops)
    BY <2>1, <2>3, OutdatedIs DEF PaperPanelRequests
  <2> QED
    BY <2>1, <2>2, <2>3 DEF PaperPanelRequests
<1>2. [what |-> "paper", of |-> None, current |-> TRUE] \in PaperPanelRequests
  BY DEF PaperPanelRequests, Requests
<1> HIDE DEF W, O
<1>3. f \in Seq(Requests(W, O))
  BY <1>1, SeqWider
<1>4. ~Waiting(Superseded(f, "paper"), "paper")
  BY <1>3, Gate
<1>5. Superseded(f, "paper") \in Seq(PaperPanelRequests)
  BY <1>1, SupersededIn
<1>6. Ask(f, "paper", None) \in Seq(PaperPanelRequests)
  BY <1>1, <1>2, AskIn
<1> QED
  BY <1>4, <1>5, <1>6

LEMMA SessionEffectKeeps ==
    ASSUME NEW s \in PaperPanelType, s.authorized => PaperPrivate(s)
    PROVE  PaperPanelOK(SessionEffect(s))
<1> DEFINE f == s.flying
           g == Ask(f, "paper", None)
           h == Superseded(f, "paper")
           t == SessionEffect(s)
<1>1. f \in Seq(PaperPanelRequests)
  BY DEF PaperPanelType
<1>2. g \in Seq(PaperPanelRequests) /\ h \in Seq(PaperPanelRequests) /\ ~Waiting(h, "paper")
  <2> HIDE DEF f
  <2> QED
    BY <1>1, AskedPaper
<1>3. CASE s.authorized
  <2>1. t = [s EXCEPT !.flying = g]
    BY <1>3 DEF SessionEffect
  <2> HIDE DEF g, t
  <2>2. t \in PaperPanelType /\ t.authorized = s.authorized
    BY <1>2, <2>1 DEF PaperPanelType
  <2>3. PaperPanelOK(t)
    BY <1>3, <2>2 DEF PaperPanelOK, PaperPrivate
  <2> QED
    BY <2>3 DEF t
<1>4. CASE ~s.authorized
  <2>1. t = [s EXCEPT !.paper = FALSE, !.paperError = "unauthorized", !.flying = h]
    BY <1>4 DEF SessionEffect
  <2> HIDE DEF h, t
  <2>2. t \in PaperPanelType /\ t.paper = FALSE /\ t.flying = h
    BY <1>2, <2>1 DEF PaperPanelType
  <2>3. PaperPanelOK(t)
    BY <1>2, <2>2 DEF PaperPanelOK, PaperPrivate
  <2> QED
    BY <2>3 DEF t
<1> QED
  BY <1>3, <1>4

LEMMA PaperPanelStarts == PaperPanelInit => PaperPanelOK(ui)
<1> SUFFICES ASSUME PaperPanelInit PROVE PaperPanelOK(ui)
  OBVIOUS
<1> DEFINE f == <<>>
           s(authorized) == [authorized |-> authorized, paper |-> FALSE, paperError |-> None,
                             job |-> None, polling |-> FALSE, batch |-> None, loops |-> {}, flying |-> f]
<1>1. PICK authorized \in BOOLEAN : ui = SessionEffect(s(authorized))
  BY DEF PaperPanelInit
<1>2. f \in Seq(PaperPanelRequests) /\ ~Waiting(f, "paper")
  BY DEF Waiting, Flying
<1> HIDE DEF f
<1>3. s(authorized) \in PaperPanelType /\ PaperPrivate(s(authorized))
  BY <1>2 DEF PaperPanelType, PaperPrivate
<1> HIDE DEF s
<1> QED
  BY <1>1, <1>3, SessionEffectKeeps

\* A call that is not for the portfolio changes nothing about it.
LEMMA PaperPanelCalls ==
    ASSUME NEW f \in Seq(PaperPanelRequests)
    PROVE  /\ \A r \in PaperPanelRequests :
                 /\ Append(f, r) \in Seq(PaperPanelRequests)
                 /\ r.what # "paper" /\ Waiting(Append(f, r), "paper") => Waiting(f, "paper")
           /\ \A i \in DOMAIN f :
                 /\ f[i] \in PaperPanelRequests
                 /\ Answered(f, i) \in Seq(PaperPanelRequests)
                 /\ Waiting(Answered(f, i), "paper") => Waiting(f, "paper")
<1>1. ASSUME NEW r \in PaperPanelRequests
      PROVE  /\ Append(f, r) \in Seq(PaperPanelRequests)
             /\ r.what # "paper" /\ Waiting(Append(f, r), "paper") => Waiting(f, "paper")
  BY GateMore
<1>2. ASSUME NEW i \in DOMAIN f
      PROVE  /\ f[i] \in PaperPanelRequests
             /\ Answered(f, i) \in Seq(PaperPanelRequests)
             /\ Waiting(Answered(f, i), "paper") => Waiting(f, "paper")
  BY GateAnswered
<1> QED
  BY <1>1, <1>2

LEMMA StartLoopKeeps ==
    ASSUME NEW s, PaperPanelOK(s), NEW job \in {"j1", "j2"}
    PROVE  PaperPanelOK(StartLoop(s, job))
<1> DEFINE f == s.flying
           of == [job |-> job, left |-> MaxAttempts - 1]
           r == [what |-> "status", current |-> TRUE, of |-> of]
           g == Append(f, r)
           t == [s EXCEPT !.polling = TRUE, !.flying = g]
<1>1. s \in PaperPanelType /\ f \in Seq(PaperPanelRequests) /\ PaperPrivate(s)
  BY DEF PaperPanelOK, PaperPanelType
<1>2. of \in PollLoops
  BY PaperPanelConstants DEF PollLoops
<1>3. StartLoop(s, job) = t
  BY DEF StartLoop
<1> HIDE DEF of
<1>4. r \in PaperPanelRequests /\ r.what = "status"
  BY <1>2 DEF PaperPanelRequests, Requests
<1> HIDE DEF r
<1>5. g \in Seq(PaperPanelRequests) /\ (Waiting(g, "paper") => Waiting(f, "paper"))
  <2> HIDE DEF f
  <2> QED
    BY <1>1, <1>4, PaperPanelCalls
<1> HIDE DEF g
<1>6. t \in PaperPanelType /\ t.flying = g /\ t.paper = s.paper /\ t.authorized = s.authorized
  BY <1>1, <1>5 DEF PaperPanelType
<1> HIDE DEF t
<1> QED
  BY <1>1, <1>3, <1>5, <1>6 DEF PaperPanelOK, PaperPrivate

LEMMA PaperPanelSteps ==
    ASSUME PaperPanelOK(ui), PaperPanelNext
    PROVE  PaperPanelOK(ui')
<1> DEFINE f == ui.flying
           h(i) == Answered(f, i)
<1>0. ui \in PaperPanelType /\ f \in Seq(PaperPanelRequests) /\ PaperPrivate(ui)
  BY DEF PaperPanelOK, PaperPanelType
<1>h. ASSUME NEW i \in DOMAIN f
      PROVE  f[i] \in PaperPanelRequests /\ h(i) \in Seq(PaperPanelRequests) /\ (Waiting(h(i), "paper") => Waiting(f, "paper"))
  <2> HIDE DEF f
  <2> QED
    BY <1>0, PaperPanelCalls
<1>k. ASSUME NEW s \in PaperPanelType, s.paper = ui.paper, s.authorized = ui.authorized,
             Waiting(s.flying, "paper") => Waiting(f, "paper")
      PROVE  PaperPanelOK(s)
  BY <1>0, <1>k DEF PaperPanelOK, PaperPrivate
<1>1. ASSUME NEW i \in DOMAIN ui.flying, NEW ok \in BOOLEAN, PaperAnswer(i, ok) PROVE PaperPanelOK(ui')
  <2> DEFINE s == IF ok THEN [ui EXCEPT !.paper = TRUE, !.paperError = None] ELSE [ui EXCEPT !.paperError = "failed"]
             k == h(i)
  <2>1. f[i].what = "paper" /\ Heard(i, s)
    BY <1>1 DEF PaperAnswer
  <2>2. s \in PaperPanelType /\ s.flying = f /\ s.authorized = ui.authorized /\ (s.paper => ok \/ ui.paper)
    BY <1>0 DEF PaperPanelType
  <2>3. k \in Seq(PaperPanelRequests) /\ (Waiting(k, "paper") => Waiting(f, "paper"))
    BY <1>h
  <2>4. CASE ~f[i].current
    <3>1. ui' = [ui EXCEPT !.flying = k]
      BY <2>1, <2>4 DEF Heard
    <3> HIDE DEF k, s
    <3>2. ui' \in PaperPanelType /\ ui'.flying = k /\ ui'.paper = ui.paper /\ ui'.authorized = ui.authorized
      BY <1>0, <2>3, <3>1 DEF PaperPanelType
    <3> QED
      BY <1>k, <2>3, <3>2
  <2>5. CASE f[i].current
    <3>1. ui' = [s EXCEPT !.flying = k]
      BY <2>1, <2>2, <2>5 DEF Heard
    <3>2. Waiting(f, "paper")
      BY <2>1, <2>5 DEF Waiting, Flying
    <3>3. ui.authorized
      BY <1>0, <3>2 DEF PaperPrivate
    <3> HIDE DEF k, s
    <3>4. ui' \in PaperPanelType /\ ui'.authorized = ui.authorized
      BY <2>2, <2>3, <3>1 DEF PaperPanelType
    <3> QED
      BY <3>3, <3>4 DEF PaperPanelOK, PaperPrivate
  <2> QED
    BY <2>4, <2>5
<1>2. ASSUME NEW i \in DOMAIN ui.flying, NEW job \in {"j1", "j2", None}, BatchAnswer(i, job) PROVE PaperPanelOK(ui')
  <2> DEFINE k == h(i)
             rest == [ui EXCEPT !.flying = k]
  <2>1. k \in Seq(PaperPanelRequests) /\ (Waiting(k, "paper") => Waiting(f, "paper"))
    BY <1>h
  <2>2. \/ job = None /\ ui' = [rest EXCEPT !.batch = "failed"]
        \/ job # None /\ ui' = StartLoop([rest EXCEPT !.job = job, !.batch = "started"], job)
    BY <1>2 DEF BatchAnswer
  <2> HIDE DEF k
  <2>3. rest \in PaperPanelType /\ rest.flying = k /\ rest.paper = ui.paper /\ rest.authorized = ui.authorized
    BY <1>0, <2>1 DEF PaperPanelType
  <2> HIDE DEF rest
  <2>4. CASE job = None /\ ui' = [rest EXCEPT !.batch = "failed"]
    <3>1. ui' \in PaperPanelType /\ ui'.flying = k /\ ui'.paper = ui.paper /\ ui'.authorized = ui.authorized
      BY <2>3, <2>4 DEF PaperPanelType
    <3> QED
      BY <1>k, <2>1, <3>1
  <2>5. CASE job # None /\ ui' = StartLoop([rest EXCEPT !.job = job, !.batch = "started"], job)
    <3> DEFINE t == [rest EXCEPT !.job = job, !.batch = "started"]
    <3>1. t \in PaperPanelType /\ t.flying = k /\ t.paper = ui.paper /\ t.authorized = ui.authorized
      BY <2>3 DEF PaperPanelType
    <3>2. job \in {"j1", "j2"}
      BY <2>5
    <3> HIDE DEF t
    <3>3. PaperPanelOK(t)
      BY <1>k, <2>1, <3>1
    <3> QED
      BY <2>5, <3>2, <3>3, StartLoopKeeps DEF t
  <2> QED
    BY <2>2, <2>4, <2>5
<1>3. ASSUME NEW i \in DOMAIN ui.flying, NEW state \in {"running", "done", "failed"}, StatusAnswer(i, state) PROVE PaperPanelOK(ui')
  <2> DEFINE k == h(i)
             loops == ui.loops \cup {f[i].of}
             rest == [ui EXCEPT !.flying = k, !.batch = state]
  <2>1. k \in Seq(PaperPanelRequests) /\ (Waiting(k, "paper") => Waiting(f, "paper")) /\ f[i] \in PaperPanelRequests
    BY <1>h
  <2>2. /\ f[i].what = "status"
        /\ ui' = [rest EXCEPT !.loops = loops] \/ ui' = [rest EXCEPT !.polling = FALSE]
    BY <1>0, <1>3 DEF StatusAnswer, PaperPanelType
  <2>3. loops \in SUBSET PollLoops
    <3>1. ui.loops \in SUBSET PollLoops
      BY <1>0 DEF PaperPanelType
    <3> HIDE DEF f
    <3> QED
      BY <2>1, <2>2, <3>1 DEF PaperPanelRequests, Requests
  <2> HIDE DEF k, loops
  <2>4. rest \in PaperPanelType /\ rest.flying = k /\ rest.paper = ui.paper /\ rest.authorized = ui.authorized
    BY <1>0, <2>1 DEF PaperPanelType
  <2> HIDE DEF rest, f
  <2>5. ui' \in PaperPanelType /\ ui'.flying = k /\ ui'.paper = ui.paper /\ ui'.authorized = ui.authorized
    BY <2>2, <2>3, <2>4 DEF PaperPanelType
  <2> QED
    BY <1>k, <2>1, <2>5
<1>4. ASSUME NEW loop \in ui.loops, LoopWakes(loop) PROVE PaperPanelOK(ui')
  <2>0. loop \in PollLoops
    BY <1>0 DEF PaperPanelType
  <2> DEFINE loops == ui.loops \ {loop}
             of == [loop EXCEPT !.left = @ - 1]
             r == [what |-> "status", current |-> TRUE, of |-> of]
             g == Append(f, r)
  <2>1. \/ ui' = [ui EXCEPT !.loops = loops, !.batch = "still running", !.polling = FALSE]
        \/ loop.left # 0 /\ ui' = [ui EXCEPT !.loops = loops, !.flying = g]
    BY <1>4 DEF LoopWakes
  <2>2. loops \in SUBSET PollLoops
    BY <1>0 DEF PaperPanelType
  <2> HIDE DEF loops
  <2>3. CASE ui' = [ui EXCEPT !.loops = loops, !.batch = "still running", !.polling = FALSE]
    <3>1. ui' \in PaperPanelType /\ ui'.flying = f /\ ui'.paper = ui.paper /\ ui'.authorized = ui.authorized
      BY <1>0, <2>2, <2>3 DEF PaperPanelType
    <3> QED
      BY <1>k, <3>1
  <2>4. CASE loop.left # 0 /\ ui' = [ui EXCEPT !.loops = loops, !.flying = g]
    <3>1. of \in PollLoops
      BY <2>0, <2>4, PaperPanelConstants DEF PollLoops
    <3> HIDE DEF of
    <3>2. r \in PaperPanelRequests /\ r.what = "status"
      BY <3>1 DEF PaperPanelRequests, Requests
    <3> HIDE DEF r
    <3>3. g \in Seq(PaperPanelRequests) /\ (Waiting(g, "paper") => Waiting(f, "paper"))
      <4> HIDE DEF f
      <4> QED
        BY <1>0, <3>2, PaperPanelCalls
    <3> HIDE DEF g
    <3>4. ui' \in PaperPanelType /\ ui'.flying = g /\ ui'.paper = ui.paper /\ ui'.authorized = ui.authorized
      BY <1>0, <2>2, <2>4, <3>3 DEF PaperPanelType
    <3> QED
      BY <1>k, <3>3, <3>4
  <2> QED
    BY <2>1, <2>3, <2>4
<1>5. ASSUME SessionTurns PROVE PaperPanelOK(ui')
  <2> DEFINE authorized == ~ui.authorized
             s == [ui EXCEPT !.authorized = authorized]
  <2>1. ui' = SessionEffect(s)
    BY <1>5 DEF SessionTurns
  <2>2. s \in PaperPanelType /\ s.authorized = authorized /\ s.paper = ui.paper /\ s.flying = f
    BY <1>0 DEF PaperPanelType
  <2> HIDE DEF s
  <2>3. s.authorized => PaperPrivate(s)
    BY <2>2 DEF PaperPrivate
  <2> QED
    BY <2>1, <2>2, <2>3, SessionEffectKeeps
<1>6. ASSUME RunBatch PROVE PaperPanelOK(ui')
  <2> DEFINE r == [what |-> "batch", of |-> None, current |-> TRUE]
             g == Append(f, r)
  <2>1. ui' = [ui EXCEPT !.batch = "queued", !.flying = g]
    BY <1>6 DEF RunBatch
  <2>2. r \in PaperPanelRequests /\ r.what = "batch"
    BY DEF PaperPanelRequests, Requests
  <2> HIDE DEF r
  <2>3. g \in Seq(PaperPanelRequests) /\ (Waiting(g, "paper") => Waiting(f, "paper"))
    <3> HIDE DEF f
    <3> QED
      BY <1>0, <2>2, PaperPanelCalls
  <2> HIDE DEF g
  <2>4. ui' \in PaperPanelType /\ ui'.flying = g /\ ui'.paper = ui.paper /\ ui'.authorized = ui.authorized
    BY <1>0, <2>1, <2>3 DEF PaperPanelType
  <2> QED
    BY <1>k, <2>3, <2>4
<1>7. ASSUME CheckBatch PROVE PaperPanelOK(ui')
  <2>1. ui' = StartLoop(ui, ui.job) /\ ui.job \in {"j1", "j2"}
    BY <1>0, <1>7 DEF CheckBatch, PaperPanelType
  <2> QED
    BY <2>1, StartLoopKeeps
<1> QED
  BY <1>1, <1>2, <1>3, <1>4, <1>5, <1>6, <1>7 DEF PaperPanelNext

\* A loop that is said to run sleeps or waits for a status, and a batch that is
\* queued waits for its job.
BatchWaits(s) ==
    /\ s.polling => s.loops # {} \/ Some(s.flying, {"status"})
    /\ s.batch = "queued" => Some(s.flying, {"batch"})

LEMMA PaperPanelSeqs ==
    ASSUME NEW f \in Seq(PaperPanelRequests)
    PROVE  f \in Seq(Requests({"paper", "batch", "status"}, PollLoops \cup {None}))
<1>1. \A r \in PaperPanelRequests : r \in Requests({"paper", "batch", "status"}, PollLoops \cup {None})
  BY DEF PaperPanelRequests, Requests
<1> QED
  BY <1>1, SeqWider

LEMMA SessionEffectWaits ==
    ASSUME NEW s \in PaperPanelType, BatchWaits(s)
    PROVE  BatchWaits(SessionEffect(s))
<1> DEFINE f == s.flying
           g == Ask(f, "paper", None)
           h == Superseded(f, "paper")
           t == SessionEffect(s)
           W == {"paper", "batch", "status"}
           O == PollLoops \cup {None}
<1>1. f \in Seq(PaperPanelRequests)
  BY DEF PaperPanelType
<1>2. "paper" \in W /\ None \in O
  OBVIOUS
<1> HIDE DEF f
<1>3. f \in Seq(Requests(W, O))
  BY <1>1, PaperPanelSeqs
<1> HIDE DEF W, O
<1>4. \A whats : Some(f, whats) => Some(h, whats)
  BY <1>3, Gate
<1>5. \A whats : Some(f, whats) \/ "paper" \in whats => Some(g, whats)
  BY <1>2, <1>3, GateAsk
<1> HIDE DEF g, h
<1>6. PICK k : /\ t.flying = k /\ t.polling = s.polling /\ t.loops = s.loops /\ t.batch = s.batch
               /\ \A whats : Some(f, whats) => Some(k, whats)
  <2>1. CASE s.authorized
    <3>1. t = [s EXCEPT !.flying = g]
      BY <2>1 DEF SessionEffect, f, g
    <3> HIDE DEF t
    <3>2. t.flying = g /\ t.polling = s.polling /\ t.loops = s.loops /\ t.batch = s.batch
      BY <3>1 DEF PaperPanelType
    <3> QED
      BY <1>5, <3>2
  <2>2. CASE ~s.authorized
    <3>1. t = [s EXCEPT !.paper = FALSE, !.paperError = "unauthorized", !.flying = h]
      BY <2>2 DEF SessionEffect, f, h
    <3> HIDE DEF t
    <3>2. t.flying = h /\ t.polling = s.polling /\ t.loops = s.loops /\ t.batch = s.batch
      BY <3>1 DEF PaperPanelType
    <3> QED
      BY <1>4, <3>2
  <2> QED
    BY <2>1, <2>2
<1> HIDE DEF t
<1>7. BatchWaits(t)
  BY <1>6 DEF BatchWaits, f
<1> QED
  BY <1>7 DEF t

LEMMA BatchWaitsStart == PaperPanelInit => BatchWaits(ui)
<1> SUFFICES ASSUME PaperPanelInit PROVE BatchWaits(ui)
  OBVIOUS
<1> DEFINE f == <<>>
           s(authorized) == [authorized |-> authorized, paper |-> FALSE, paperError |-> None,
                             job |-> None, polling |-> FALSE, batch |-> None, loops |-> {}, flying |-> f]
<1>1. PICK authorized \in BOOLEAN : ui = SessionEffect(s(authorized))
  BY DEF PaperPanelInit
<1>2. f \in Seq(PaperPanelRequests)
  OBVIOUS
<1> HIDE DEF f
<1>3. s(authorized) \in PaperPanelType /\ BatchWaits(s(authorized))
  BY <1>2 DEF PaperPanelType, BatchWaits, None
<1> HIDE DEF s
<1> QED
  BY <1>1, <1>3, SessionEffectWaits

LEMMA StartLoopWaits ==
    ASSUME NEW s \in PaperPanelType, NEW job \in {"j1", "j2"}, s.batch = "queued" => Some(s.flying, {"batch"})
    PROVE  BatchWaits(StartLoop(s, job))
<1> DEFINE f == s.flying
           of == [job |-> job, left |-> MaxAttempts - 1]
           r == [what |-> "status", current |-> TRUE, of |-> of]
           g == Append(f, r)
           t == [s EXCEPT !.polling = TRUE, !.flying = g]
<1>1. f \in Seq(PaperPanelRequests)
  BY DEF PaperPanelType
<1>2. StartLoop(s, job) = t
  BY DEF StartLoop
<1> HIDE DEF of
<1>3. r.what = "status"
  OBVIOUS
<1> HIDE DEF r, f
<1>4. \A whats : Some(f, whats) \/ r.what \in whats => Some(g, whats)
  BY <1>1, SomeMore
<1>5. Some(g, {"status"}) /\ (Some(f, {"batch"}) => Some(g, {"batch"}))
  <2>1. Some(g, {"status"})
    <3>1. r.what \in {"status"}
      BY <1>3
    <3> QED
      BY <1>4, <3>1
  <2>2. Some(f, {"batch"}) => Some(g, {"batch"})
    BY <1>4
  <2> QED
    BY <2>1, <2>2
<1> HIDE DEF g
<1>6. t.flying = g /\ t.batch = s.batch
  BY DEF PaperPanelType
<1> HIDE DEF t
<1> QED
  BY <1>2, <1>5, <1>6 DEF BatchWaits, f

LEMMA BatchWaitsSteps ==
    ASSUME PaperPanelOK(ui), BatchWaits(ui), PaperPanelNext
    PROVE  BatchWaits(ui')
<1> DEFINE f == ui.flying
           h(i) == Answered(f, i)
<1>0. ui \in PaperPanelType /\ f \in Seq(PaperPanelRequests)
  BY DEF PaperPanelOK, PaperPanelType
<1>h. ASSUME NEW i \in DOMAIN f
      PROVE  /\ h(i) \in Seq(PaperPanelRequests)
             /\ f[i].what # "status" /\ Some(f, {"status"}) => Some(h(i), {"status"})
             /\ f[i].what # "batch" /\ Some(f, {"batch"}) => Some(h(i), {"batch"})
  <2> HIDE DEF f
  <2>1. h(i) \in Seq(PaperPanelRequests)
    BY <1>0, AnsweredIn
  <2>2. f[i].what \notin {"status"} /\ Some(f, {"status"}) => Some(h(i), {"status"})
    BY <1>0, SomeAnswered
  <2>3. f[i].what \notin {"batch"} /\ Some(f, {"batch"}) => Some(h(i), {"batch"})
    BY <1>0, SomeAnswered
  <2> HIDE DEF h
  <2> QED
    BY <2>1, <2>2, <2>3
<1>m. ASSUME NEW r
      PROVE  /\ Some(f, {"status"}) \/ r.what = "status" => Some(Append(f, r), {"status"})
             /\ Some(f, {"batch"}) \/ r.what = "batch" => Some(Append(f, r), {"batch"})
  <2> HIDE DEF f
  <2>1. Some(f, {"status"}) \/ r.what \in {"status"} => Some(Append(f, r), {"status"})
    BY <1>0, SomeMore
  <2>2. Some(f, {"batch"}) \/ r.what \in {"batch"} => Some(Append(f, r), {"batch"})
    BY <1>0, SomeMore
  <2> QED
    BY <2>1, <2>2
<1>1. ASSUME NEW i \in DOMAIN ui.flying, NEW ok \in BOOLEAN, PaperAnswer(i, ok) PROVE BatchWaits(ui')
  <2> DEFINE s == IF ok THEN [ui EXCEPT !.paper = TRUE, !.paperError = None] ELSE [ui EXCEPT !.paperError = "failed"]
             k == h(i)
  <2>1. f[i].what = "paper" /\ Heard(i, s)
    BY <1>1 DEF PaperAnswer
  <2>2. s \in PaperPanelType /\ s.flying = f /\ s.polling = ui.polling /\ s.loops = ui.loops /\ s.batch = ui.batch
    BY <1>0 DEF PaperPanelType
  <2>3. (Some(f, {"status"}) => Some(k, {"status"})) /\ (Some(f, {"batch"}) => Some(k, {"batch"}))
    <3>1. f[i].what # "status" /\ f[i].what # "batch"
      BY <2>1
    <3> QED
      BY <1>h, <3>1
  <2>4. ui' = [ui EXCEPT !.flying = k] \/ ui' = [s EXCEPT !.flying = k]
    BY <2>1, <2>2 DEF Heard
  <2> HIDE DEF k, s
  <2>5. ui'.flying = k /\ ui'.polling = ui.polling /\ ui'.loops = ui.loops /\ ui'.batch = ui.batch
    BY <1>0, <2>2, <2>4 DEF PaperPanelType
  <2> QED
    BY <2>3, <2>5 DEF BatchWaits
<1>2. ASSUME NEW i \in DOMAIN ui.flying, NEW job \in {"j1", "j2", None}, BatchAnswer(i, job) PROVE BatchWaits(ui')
  <2> DEFINE k == h(i)
             rest == [ui EXCEPT !.flying = k]
  <2>0. f[i].what # "status"
    BY <1>2 DEF BatchAnswer
  <2>1. k \in Seq(PaperPanelRequests) /\ (Some(f, {"status"}) => Some(k, {"status"}))
    BY <1>h, <2>0
  <2>2. \/ job = None /\ ui' = [rest EXCEPT !.batch = "failed"]
        \/ job # None /\ ui' = StartLoop([rest EXCEPT !.job = job, !.batch = "started"], job)
    BY <1>2 DEF BatchAnswer
  <2> HIDE DEF k
  <2>3. rest \in PaperPanelType /\ rest.flying = k /\ rest.polling = ui.polling /\ rest.loops = ui.loops
    BY <1>0, <2>1 DEF PaperPanelType
  <2> HIDE DEF rest
  <2>4. CASE job = None /\ ui' = [rest EXCEPT !.batch = "failed"]
    <3>1. ui'.flying = k /\ ui'.polling = ui.polling /\ ui'.loops = ui.loops /\ ui'.batch # "queued"
      BY <2>3, <2>4 DEF PaperPanelType
    <3> QED
      BY <2>1, <3>1 DEF BatchWaits
  <2>5. CASE job # None /\ ui' = StartLoop([rest EXCEPT !.job = job, !.batch = "started"], job)
    <3> DEFINE t == [rest EXCEPT !.job = job, !.batch = "started"]
    <3>1. t \in PaperPanelType /\ t.batch # "queued"
      BY <2>3 DEF PaperPanelType
    <3>2. job \in {"j1", "j2"}
      BY <2>5
    <3> HIDE DEF t
    <3> QED
      BY <2>5, <3>1, <3>2, StartLoopWaits DEF t
  <2> QED
    BY <2>2, <2>4, <2>5
<1>3. ASSUME NEW i \in DOMAIN ui.flying, NEW state \in {"running", "done", "failed"}, StatusAnswer(i, state) PROVE BatchWaits(ui')
  <2> DEFINE k == h(i)
             loops == ui.loops \cup {f[i].of}
             rest == [ui EXCEPT !.flying = k, !.batch = state]
  <2>2. ui' = [rest EXCEPT !.loops = loops] \/ ui' = [rest EXCEPT !.polling = FALSE]
    BY <1>0, <1>3 DEF StatusAnswer, PaperPanelType
  <2>3. loops # {} /\ state # "queued"
    OBVIOUS
  <2> HIDE DEF k, loops
  <2>4. ui'.batch = state /\ (ui'.loops = loops \/ ui'.polling = FALSE)
    BY <1>0, <2>2 DEF PaperPanelType
  <2> QED
    BY <2>3, <2>4 DEF BatchWaits
<1>4. ASSUME NEW loop \in ui.loops, LoopWakes(loop) PROVE BatchWaits(ui')
  <2> DEFINE loops == ui.loops \ {loop}
             of == [loop EXCEPT !.left = @ - 1]
             r == [what |-> "status", current |-> TRUE, of |-> of]
             g == Append(f, r)
  <2>1. \/ ui' = [ui EXCEPT !.loops = loops, !.batch = "still running", !.polling = FALSE]
        \/ ui' = [ui EXCEPT !.loops = loops, !.flying = g]
    BY <1>4 DEF LoopWakes
  <2> HIDE DEF loops, of
  <2>2. r.what = "status"
    OBVIOUS
  <2> HIDE DEF r
  <2>3. Some(g, {"status"}) /\ (Some(f, {"batch"}) => Some(g, {"batch"}))
    BY <1>m, <2>2
  <2> HIDE DEF g
  <2>4. \/ ui'.batch = "still running" /\ ui'.polling = FALSE
        \/ ui'.flying = g /\ ui'.batch = ui.batch
    BY <1>0, <2>1 DEF PaperPanelType
  <2> QED
    BY <2>3, <2>4 DEF BatchWaits
<1>5. ASSUME SessionTurns PROVE BatchWaits(ui')
  <2> DEFINE authorized == ~ui.authorized
             s == [ui EXCEPT !.authorized = authorized]
  <2>1. ui' = SessionEffect(s)
    BY <1>5 DEF SessionTurns
  <2>2. s \in PaperPanelType /\ s.flying = f /\ s.polling = ui.polling /\ s.loops = ui.loops /\ s.batch = ui.batch
    BY <1>0 DEF PaperPanelType
  <2> HIDE DEF s
  <2>3. BatchWaits(s)
    BY <2>2 DEF BatchWaits
  <2> QED
    BY <2>1, <2>2, <2>3, SessionEffectWaits
<1>6. ASSUME RunBatch PROVE BatchWaits(ui')
  <2> DEFINE r == [what |-> "batch", of |-> None, current |-> TRUE]
             g == Append(f, r)
  <2>1. ui' = [ui EXCEPT !.batch = "queued", !.flying = g]
    BY <1>6 DEF RunBatch
  <2>2. r.what = "batch"
    OBVIOUS
  <2> HIDE DEF r
  <2>3. Some(g, {"batch"}) /\ (Some(f, {"status"}) => Some(g, {"status"}))
    BY <1>m, <2>2
  <2> HIDE DEF g
  <2>4. ui'.flying = g /\ ui'.polling = ui.polling /\ ui'.loops = ui.loops
    BY <1>0, <2>1 DEF PaperPanelType
  <2> QED
    BY <2>3, <2>4 DEF BatchWaits
<1>7. ASSUME CheckBatch PROVE BatchWaits(ui')
  <2>1. ui' = StartLoop(ui, ui.job) /\ ui.job \in {"j1", "j2"}
    BY <1>0, <1>7 DEF CheckBatch, PaperPanelType
  <2> QED
    BY <1>0, <2>1, StartLoopWaits DEF BatchWaits
<1> QED
  BY <1>1, <1>2, <1>3, <1>4, <1>5, <1>6, <1>7 DEF PaperPanelNext

LEMMA BatchWaitsTold ==
    ASSUME BatchWaits(ui)
    PROVE  BatchNeverStuck
<1> DEFINE f == ui.flying
<1>1. "running" \in BatchButtons(ui) => ui.polling
  BY DEF BatchButtons
<1>2. Some(f, {"status"}) => Flying(f, "status") # {}
  BY DEF Some, Flying
<1>3. Some(f, {"batch"}) => f # <<>>
  BY DEF Some
<1> QED
  BY <1>1, <1>2, <1>3 DEF BatchNeverStuck, BatchWaits

LEMMA PaperPanelTold ==
    ASSUME PaperPanelOK(ui)
    PROVE  PaperPortfolioPrivate
  BY DEF PaperPanelOK, PaperPrivate, PaperPortfolioPrivate, PaperSection

-----------------------------------------------------------------------------
(* The quote and the paper state of the desk *)

PaperVersions == [stage : {"orders", "audit"}, version : Nat, baseline : BOOLEAN]

DeskStateRequests ==
    Requests({"quote"}, Stocks) \cup Requests({"paper"}, PaperVersions) \cup Requests({"scanner", "baseline"}, {None})

DeskStateType ==
    [authorized : BOOLEAN, ticker : Stocks, strategy : {"buy", "protect", None},
     quote : [of : Stocks \cup {None}, state : {"live", "closed", "unusable"}], loading : BOOLEAN,
     ordersOf : Nat, auditOf : Nat, baseline : {"missing", "known", None}, loadError : BOOLEAN, refreshing : BOOLEAN,
     made : Nat, scanner : {None, "running", "stopped"}, timer : BOOLEAN, busy : BOOLEAN, flying : Seq(DeskStateRequests)]

QuoteOwn(s) ==
    /\ Owned(s.flying, "quote", s.ticker)
    /\ ~s.loading => s.quote.of = s.ticker

\* An audit chain that is waited for belongs to the orders read before it.
AuditAsked(f, version) ==
    \A i \in DOMAIN f : f[i].what = "paper" /\ f[i].current /\ f[i].of.stage = "audit" => f[i].of.version = version

\* One refresh is waited for, and the page says so.
RefreshWaits(s) ==
    /\ AtMostOne(s.flying, "paper")
    /\ AuditAsked(s.flying, s.ordersOf)
    /\ Waiting(s.flying, "paper") => s.refreshing

AuditOwn(s) == s.auditOf # 0 /\ ~s.loadError /\ ~s.refreshing => s.auditOf = s.ordersOf

DeskStateOK(s) == s \in DeskStateType /\ QuoteOwn(s) /\ RefreshWaits(s) /\ AuditOwn(s)

\* What a change of the requests leaves of the refresh, and of the quote.
RefreshKept(f, g) ==
    /\ g \in Seq(DeskStateRequests)
    /\ AtMostOne(f, "paper") => AtMostOne(g, "paper")
    /\ \A version : AuditAsked(f, version) => AuditAsked(g, version)
    /\ Waiting(g, "paper") => Waiting(f, "paper")

QuoteKept(f, g) == \A of : Owned(f, "quote", of) => Owned(g, "quote", of)

LEMMA DeskStateRequestIs ==
    /\ \A what : \A r \in DeskStateRequests : Outdated(r, what) \in DeskStateRequests
    /\ \A of \in Stocks : [what |-> "quote", of |-> of, current |-> TRUE] \in DeskStateRequests
    /\ \A of \in PaperVersions : [what |-> "paper", of |-> of, current |-> TRUE] \in DeskStateRequests
    /\ \A what \in {"scanner", "baseline"} : [what |-> what, of |-> None, current |-> TRUE] \in DeskStateRequests
    /\ \A r \in DeskStateRequests :
          /\ r.what = "quote" => r.of \in Stocks
          /\ r.what = "paper" => r.of \in PaperVersions
          /\ r \in Requests({"quote", "paper", "scanner", "baseline"}, Stocks \cup PaperVersions \cup {None})
<1>1. ASSUME NEW what, NEW r \in DeskStateRequests PROVE Outdated(r, what) \in DeskStateRequests
  <2>1. CASE r \in Requests({"quote"}, Stocks)
    BY <2>1, OutdatedIs DEF DeskStateRequests
  <2>2. CASE r \in Requests({"paper"}, PaperVersions)
    BY <2>2, OutdatedIs DEF DeskStateRequests
  <2>3. CASE r \in Requests({"scanner", "baseline"}, {None})
    BY <2>3, OutdatedIs DEF DeskStateRequests
  <2> QED
    BY <2>1, <2>2, <2>3 DEF DeskStateRequests
<1>2. /\ \A of \in Stocks : [what |-> "quote", of |-> of, current |-> TRUE] \in DeskStateRequests
      /\ \A of \in PaperVersions : [what |-> "paper", of |-> of, current |-> TRUE] \in DeskStateRequests
      /\ \A what \in {"scanner", "baseline"} : [what |-> what, of |-> None, current |-> TRUE] \in DeskStateRequests
  BY DEF DeskStateRequests, Requests
<1>3. ASSUME NEW r \in DeskStateRequests
      PROVE  /\ r.what = "quote" => r.of \in Stocks
             /\ r.what = "paper" => r.of \in PaperVersions
             /\ r \in Requests({"quote", "paper", "scanner", "baseline"}, Stocks \cup PaperVersions \cup {None})
  BY DEF DeskStateRequests, Requests
<1> QED
  BY <1>1, <1>2, <1>3

LEMMA DeskStateWider ==
    ASSUME NEW f \in Seq(DeskStateRequests)
    PROVE  f \in Seq(Requests({"quote", "paper", "scanner", "baseline"}, Stocks \cup PaperVersions \cup {None}))
  BY DeskStateRequestIs, SeqWider

\* Only calls that were there before are waited for.
LEMMA RefreshOfOld ==
    ASSUME NEW f, NEW g,
           \A j \in DOMAIN g : g[j].what = "paper" /\ g[j].current => \E k \in DOMAIN f : g[j] = f[k]
    PROVE  /\ \A version : AuditAsked(f, version) => AuditAsked(g, version)
           /\ Waiting(g, "paper") => Waiting(f, "paper")
  BY DEF AuditAsked, Waiting, Flying

LEMMA DeskSuperseded ==
    ASSUME NEW f \in Seq(DeskStateRequests), NEW what
    PROVE  /\ Superseded(f, what) \in Seq(DeskStateRequests) /\ RefreshKept(f, Superseded(f, what))
           /\ QuoteKept(f, Superseded(f, what)) /\ ~Waiting(Superseded(f, what), what)
<1> DEFINE g == Superseded(f, what)
           W == {"quote", "paper", "scanner", "baseline"}
           O == Stocks \cup PaperVersions \cup {None}
<1>1. f \in Seq(Requests(W, O))
  BY DeskStateWider
<1> HIDE DEF W, O
<1>2. /\ ~Waiting(g, what)
      /\ \A other, of : Owned(f, other, of) => Owned(g, other, of)
  BY <1>1, Gate
<1>3. AtMostOne(f, "paper") => AtMostOne(g, "paper")
  BY <1>1, OneOutdated
<1>4. g \in Seq(DeskStateRequests)
  BY DeskStateRequestIs, SupersededIn
<1>5. DOMAIN g = 1 .. Len(f) /\ \A i \in DOMAIN f : g[i] = Outdated(f[i], what)
  BY SupersededIs
<1> HIDE DEF g
<1>6. ASSUME NEW j \in DOMAIN g, g[j].what = "paper", g[j].current PROVE \E k \in DOMAIN f : g[j] = f[k]
  <2>1. j \in DOMAIN f /\ g[j] = Outdated(f[j], what)
    BY <1>5
  <2>2. f[j] \in DeskStateRequests
    BY <2>1
  <2>3. f[j] \in Requests(W, O)
    BY <1>1, <2>1
  <2>4. g[j].current <=> f[j].current /\ f[j].what # what
    BY <2>1, <2>3, OutdatedIs
  <2>5. g[j] = f[j]
    BY <1>6, <2>1, <2>4 DEF Outdated
  <2> QED
    BY <2>1, <2>5
<1>7. /\ \A version : AuditAsked(f, version) => AuditAsked(g, version)
      /\ Waiting(g, "paper") => Waiting(f, "paper")
  BY <1>6, RefreshOfOld
<1>8. RefreshKept(f, g) /\ QuoteKept(f, g)
  BY <1>2, <1>3, <1>4, <1>7 DEF RefreshKept, QuoteKept
<1> QED
  BY <1>2, <1>4, <1>8 DEF g

LEMMA DeskAsk ==
    ASSUME NEW f \in Seq(DeskStateRequests), NEW what \in {"quote", "paper", "scanner", "baseline"}, NEW of,
           [what |-> what, of |-> of, current |-> TRUE] \in DeskStateRequests
    PROVE  /\ Ask(f, what, of) \in Seq(DeskStateRequests) /\ AtMostOne(Ask(f, what, of), what)
           /\ Owned(Ask(f, what, of), what, of)
           /\ what # "paper" => RefreshKept(f, Ask(f, what, of))
           /\ what # "quote" => QuoteKept(f, Ask(f, what, of))
<1> DEFINE g == Ask(f, what, of)
           new == [what |-> what, of |-> of, current |-> TRUE]
           W == {"quote", "paper", "scanner", "baseline"}
           O == Stocks \cup PaperVersions \cup {None}
<1>0. new.what = what /\ new.of = of /\ new \in Requests(W, O) /\ Len(f) \in Nat
  <2>1. new \in DeskStateRequests /\ new.what = what /\ new.of = of /\ Len(f) \in Nat
    OBVIOUS
  <2> HIDE DEF new
  <2> QED
    BY <2>1, DeskStateRequestIs
<1>1. f \in Seq(Requests(W, O)) /\ what \in W /\ of \in O
  <2>1. f \in Seq(Requests(W, O))
    BY DeskStateWider
  <2>2. of \in O
    <3> HIDE DEF W, O
    <3> QED
      BY <1>0 DEF Requests
  <2> QED
    BY <2>1, <2>2
<1> HIDE DEF W, O
<1>2. g \in Seq(DeskStateRequests)
  BY DeskStateRequestIs, AskIn
<1>3. /\ AtMostOne(g, what)
      /\ \A other : other # what /\ AtMostOne(f, other) => AtMostOne(g, other)
  BY <1>1, OneAsked
<1>4. /\ Owned(g, what, of)
      /\ \A other, o : other # what /\ Owned(f, other, o) => Owned(g, other, o)
  BY <1>1, GateAsk
<1>5. /\ DOMAIN g = 1 .. Len(f) + 1 /\ g[Len(f) + 1] = new
      /\ \A i \in DOMAIN f : g[i] = Outdated(f[i], what)
  BY AskIs
<1> HIDE DEF g, new
<1>6. ASSUME what # "paper" PROVE RefreshKept(f, g)
  <2>1. ASSUME NEW j \in DOMAIN g, g[j].what = "paper", g[j].current PROVE \E k \in DOMAIN f : g[j] = f[k]
    <3>1. j # Len(f) + 1
      BY <1>0, <1>5, <1>6, <2>1
    <3>2. j \in DOMAIN f /\ g[j] = Outdated(f[j], what)
      BY <1>0, <1>5, <3>1
    <3>3. f[j] \in Requests(W, O)
      BY <1>1, <3>2
    <3>4. g[j].current <=> f[j].current /\ f[j].what # what
      BY <3>2, <3>3, OutdatedIs
    <3>5. g[j] = f[j]
      BY <2>1, <3>2, <3>4 DEF Outdated
    <3> QED
      BY <3>2, <3>5
  <2>2. /\ \A version : AuditAsked(f, version) => AuditAsked(g, version)
        /\ Waiting(g, "paper") => Waiting(f, "paper")
    BY <2>1, RefreshOfOld
  <2> QED
    BY <1>2, <1>3, <1>6, <2>2 DEF RefreshKept
<1>7. what # "quote" => QuoteKept(f, g)
  BY <1>4 DEF QuoteKept
<1> QED
  BY <1>2, <1>3, <1>4, <1>6, <1>7 DEF g

\* A new refresh asks for the orders first.
LEMMA DeskRefreshAsk ==
    ASSUME NEW f \in Seq(DeskStateRequests), NEW of \in PaperVersions, of.stage = "orders"
    PROVE  /\ Ask(f, "paper", of) \in Seq(DeskStateRequests) /\ AtMostOne(Ask(f, "paper", of), "paper")
           /\ QuoteKept(f, Ask(f, "paper", of))
           /\ \A version : AuditAsked(Ask(f, "paper", of), version)
<1> DEFINE g == Ask(f, "paper", of)
<1>1. [what |-> "paper", of |-> of, current |-> TRUE] \in DeskStateRequests
  BY DeskStateRequestIs
<1>2. "paper" \in {"quote", "paper", "scanner", "baseline"} /\ "paper" # "quote"
  OBVIOUS
<1>3. g \in Seq(DeskStateRequests) /\ AtMostOne(g, "paper") /\ Owned(g, "paper", of) /\ QuoteKept(f, g)
  BY <1>1, <1>2, DeskAsk
<1>4. \A version : AuditAsked(g, version)
  <2> HIDE DEF g
  <2> QED
    BY <1>3 DEF Owned, AuditAsked
<1> QED
  BY <1>3, <1>4

LEMMA DeskAnswered ==
    ASSUME NEW f \in Seq(DeskStateRequests), NEW i \in DOMAIN f
    PROVE  /\ f[i] \in DeskStateRequests
           /\ RefreshKept(f, Answered(f, i)) /\ QuoteKept(f, Answered(f, i))
           /\ AtMostOne(f, f[i].what) /\ f[i].current => ~Waiting(Answered(f, i), f[i].what)
<1> DEFINE g == Answered(f, i)
<1>1. /\ g \in Seq(DeskStateRequests)
      /\ \A other, of : Owned(f, other, of) => Owned(g, other, of)
  BY GateAnswered
<1>2. /\ AtMostOne(f, "paper") => AtMostOne(g, "paper")
      /\ AtMostOne(f, f[i].what) /\ f[i].current => ~Waiting(g, f[i].what)
  BY OneAnswered
<1>3. \A j \in DOMAIN g : \E k \in DOMAIN f \ {i} : g[j] = f[k]
  BY OthersStay
<1> HIDE DEF g
<1>4. /\ \A version : AuditAsked(f, version) => AuditAsked(g, version)
      /\ Waiting(g, "paper") => Waiting(f, "paper")
  BY <1>3, RefreshOfOld
<1>5. RefreshKept(f, g) /\ QuoteKept(f, g)
  BY <1>1, <1>2, <1>4 DEF RefreshKept, QuoteKept
<1> QED
  BY <1>2, <1>5 DEF g

LEMMA PollQuoteKeeps ==
    ASSUME NEW s \in DeskStateType, RefreshWaits(s), AuditOwn(s)
    PROVE  DeskStateOK(PollQuote(s))
<1> DEFINE f == s.flying
           g == Ask(f, "quote", s.ticker)
           t == PollQuote(s)
<1>1. /\ f \in Seq(DeskStateRequests) /\ "quote" \in {"quote", "paper", "scanner", "baseline"} /\ "quote" # "paper"
      /\ s.ticker \in Stocks
  BY DEF DeskStateType
<1>2. [what |-> "quote", of |-> s.ticker, current |-> TRUE] \in DeskStateRequests
  BY <1>1, DeskStateRequestIs
<1>3. g \in Seq(DeskStateRequests) /\ RefreshKept(f, g) /\ Owned(g, "quote", s.ticker)
  <2> HIDE DEF f
  <2> QED
    BY <1>1, <1>2, DeskAsk
<1>4. t = [s EXCEPT !.loading = TRUE, !.flying = g]
  BY DEF PollQuote
<1> HIDE DEF g, t
<1>5. /\ t \in DeskStateType /\ t.flying = g /\ t.ticker = s.ticker /\ t.loading = TRUE /\ t.ordersOf = s.ordersOf
      /\ t.auditOf = s.auditOf /\ t.loadError = s.loadError /\ t.refreshing = s.refreshing
  BY <1>3, <1>4 DEF DeskStateType
<1>6. DeskStateOK(t)
  BY <1>3, <1>5 DEF DeskStateOK, QuoteOwn, RefreshWaits, AuditOwn, RefreshKept
<1> QED
  BY <1>6 DEF t

LEMMA RefreshPaperKeeps ==
    ASSUME NEW s \in DeskStateType, NEW authorized \in BOOLEAN, NEW baseline \in BOOLEAN, QuoteOwn(s), RefreshWaits(s)
    PROVE  /\ DeskStateOK(RefreshPaper(s, authorized, baseline))
           /\ RefreshPaper(s, authorized, baseline).authorized = s.authorized
<1> DEFINE f == s.flying
           g == Superseded(f, "paper")
           of == [stage |-> "orders", version |-> s.made + 1, baseline |-> baseline]
           h == Ask(f, "paper", of)
           busy == s.busy /\ ~baseline
           made == s.made + 1
           t == RefreshPaper(s, authorized, baseline)
<1>1. f \in Seq(DeskStateRequests) /\ of \in PaperVersions /\ of.stage = "orders" /\ made \in Nat /\ busy \in BOOLEAN
  BY DEF DeskStateType, PaperVersions
<1>2. CASE ~authorized
  <2>1. t = [s EXCEPT !.loadError = TRUE, !.refreshing = FALSE, !.busy = busy, !.flying = g]
    BY <1>2 DEF RefreshPaper
  <2>2. g \in Seq(DeskStateRequests) /\ RefreshKept(f, g) /\ QuoteKept(f, g) /\ ~Waiting(g, "paper")
    <3> HIDE DEF f
    <3> QED
      BY <1>1, DeskSuperseded
  <2> HIDE DEF g, t, busy
  <2>3. /\ t \in DeskStateType /\ t.flying = g /\ t.ticker = s.ticker /\ t.loading = s.loading /\ t.quote = s.quote
        /\ t.ordersOf = s.ordersOf /\ t.loadError = TRUE /\ t.authorized = s.authorized
    BY <1>1, <2>1, <2>2 DEF DeskStateType
  <2>4. DeskStateOK(t) /\ t.authorized = s.authorized
    BY <2>2, <2>3 DEF DeskStateOK, QuoteOwn, RefreshWaits, AuditOwn, RefreshKept, QuoteKept
  <2> QED
    BY <2>4 DEF t
<1>3. CASE authorized
  <2>1. t = [s EXCEPT !.refreshing = TRUE, !.made = made, !.flying = h]
    BY <1>3 DEF RefreshPaper
  <2>2. h \in Seq(DeskStateRequests) /\ AtMostOne(h, "paper") /\ QuoteKept(f, h) /\ \A version : AuditAsked(h, version)
    <3> HIDE DEF f, of
    <3> QED
      BY <1>1, DeskRefreshAsk
  <2> HIDE DEF h, t, made
  <2>3. /\ t \in DeskStateType /\ t.flying = h /\ t.ticker = s.ticker /\ t.loading = s.loading /\ t.quote = s.quote
        /\ t.refreshing = TRUE /\ t.authorized = s.authorized
    BY <1>1, <2>1, <2>2 DEF DeskStateType
  <2>4. DeskStateOK(t) /\ t.authorized = s.authorized
    BY <2>2, <2>3 DEF DeskStateOK, QuoteOwn, RefreshWaits, AuditOwn, QuoteKept
  <2> QED
    BY <2>4 DEF t
<1> QED
  BY <1>2, <1>3

LEMMA SessionEffectsKeep ==
    ASSUME NEW s \in DeskStateType, QuoteOwn(s), RefreshWaits(s)
    PROVE  DeskStateOK(SessionEffects(s))
<1> DEFINE read == RefreshPaper(s, s.authorized, FALSE)
           f == read.flying
           g == Ask(f, "scanner", None)
           h == Superseded(f, "scanner")
           t == SessionEffects(s)
<1>1. s.authorized \in BOOLEAN /\ FALSE \in BOOLEAN
  BY DEF DeskStateType
<1>2. DeskStateOK(read)
  BY <1>1, RefreshPaperKeeps
<1> HIDE DEF read
<1>3. read \in DeskStateType /\ f \in Seq(DeskStateRequests)
  BY <1>2 DEF DeskStateOK, DeskStateType
<1>4. /\ "scanner" \in {"quote", "paper", "scanner", "baseline"} /\ "scanner" # "paper" /\ "scanner" # "quote"
      /\ [what |-> "scanner", of |-> None, current |-> TRUE] \in DeskStateRequests
  BY DeskStateRequestIs
<1>5. /\ g \in Seq(DeskStateRequests) /\ RefreshKept(f, g) /\ QuoteKept(f, g)
      /\ h \in Seq(DeskStateRequests) /\ RefreshKept(f, h) /\ QuoteKept(f, h)
  <2> HIDE DEF f
  <2> QED
    BY <1>3, <1>4, DeskAsk, DeskSuperseded
<1>6. t = [read EXCEPT !.flying = g, !.timer = FALSE] \/ t = [read EXCEPT !.flying = h, !.timer = FALSE]
  BY DEF SessionEffects, read
<1> HIDE DEF g, h, t
<1>7. ASSUME NEW k \in {g, h}, t = [read EXCEPT !.flying = k, !.timer = FALSE] PROVE DeskStateOK(t)
  <2>0. k \in Seq(DeskStateRequests) /\ RefreshKept(f, k) /\ QuoteKept(f, k)
    BY <1>5
  <2>1. /\ t \in DeskStateType /\ t.flying = k /\ t.ticker = read.ticker /\ t.loading = read.loading /\ t.quote = read.quote
        /\ t.ordersOf = read.ordersOf /\ t.auditOf = read.auditOf /\ t.loadError = read.loadError
        /\ t.refreshing = read.refreshing
    BY <1>3, <1>7, <2>0 DEF DeskStateType
  <2> QED
    BY <1>2, <2>0, <2>1 DEF DeskStateOK, QuoteOwn, RefreshWaits, AuditOwn, RefreshKept, QuoteKept
<1> QED
  BY <1>6, <1>7 DEF t

LEMMA DeskStateStarts == DeskStateInit => DeskStateOK(ui)
<1> SUFFICES ASSUME DeskStateInit PROVE DeskStateOK(ui)
  OBVIOUS
<1> DEFINE f == <<>>
           s(authorized, ticker, strategy) ==
               [authorized |-> authorized, ticker |-> ticker, strategy |-> strategy,
                quote |-> NoQuote, loading |-> TRUE,
                ordersOf |-> 0, auditOf |-> 0, baseline |-> None, loadError |-> FALSE, refreshing |-> FALSE,
                made |-> 0, scanner |-> None, timer |-> FALSE, busy |-> FALSE, flying |-> f]
<1>1. PICK authorized \in BOOLEAN, ticker \in Stocks, strategy \in {"buy", None} :
        ui = SessionEffects(PollQuote(s(authorized, ticker, strategy)))
  BY DEF DeskStateInit
<1>2. f \in Seq(DeskStateRequests) /\ AtMostOne(f, "paper") /\ AuditAsked(f, 0) /\ ~Waiting(f, "paper")
  BY DEF AtMostOne, AuditAsked, Waiting, Flying
<1>3. NoQuote \in [of : Stocks \cup {None}, state : {"live", "closed", "unusable"}]
  BY DEF NoQuote
<1> DEFINE u == s(authorized, ticker, strategy)
<1> HIDE DEF f
<1>4. u \in DeskStateType /\ RefreshWaits(u) /\ AuditOwn(u)
  BY <1>2, <1>3 DEF DeskStateType, RefreshWaits, AuditOwn
<1>5. ui = SessionEffects(PollQuote(u))
  BY <1>1
<1> HIDE DEF u, s
<1>6. DeskStateOK(PollQuote(u))
  BY <1>4, PollQuoteKeeps
<1> QED
  BY <1>5, <1>6, SessionEffectsKeep DEF DeskStateOK

\* What a step of the refresh, of the quote or of neither leaves in order.
LEMMA DeskStateHolds ==
    ASSUME NEW s, DeskStateOK(s), NEW t \in DeskStateType
    PROVE  /\ t.ticker = s.ticker /\ t.loading = s.loading /\ t.quote = s.quote /\ QuoteKept(s.flying, t.flying) => QuoteOwn(t)
           /\ t.ordersOf = s.ordersOf /\ t.refreshing = s.refreshing /\ RefreshKept(s.flying, t.flying) => RefreshWaits(t)
           /\ t.ordersOf = s.ordersOf /\ t.refreshing = s.refreshing /\ t.loadError = s.loadError /\ t.auditOf = s.auditOf
                 => AuditOwn(t)
<1>1. t.ticker = s.ticker /\ t.loading = s.loading /\ t.quote = s.quote /\ QuoteKept(s.flying, t.flying) => QuoteOwn(t)
  BY DEF DeskStateOK, QuoteOwn, QuoteKept
<1>2. t.ordersOf = s.ordersOf /\ t.refreshing = s.refreshing /\ RefreshKept(s.flying, t.flying) => RefreshWaits(t)
  BY DEF DeskStateOK, RefreshWaits, RefreshKept
<1>3. t.ordersOf = s.ordersOf /\ t.refreshing = s.refreshing /\ t.loadError = s.loadError /\ t.auditOf = s.auditOf
          => AuditOwn(t)
  BY DEF DeskStateOK, AuditOwn
<1> QED
  BY <1>1, <1>2, <1>3

LEMMA DeskStateSteps ==
    ASSUME DeskStateOK(ui), DeskStateNext
    PROVE  DeskStateOK(ui')
<1> DEFINE f == ui.flying
           h(i) == Answered(f, i)
           Same(t) == /\ t.ticker = ui.ticker /\ t.loading = ui.loading /\ t.quote = ui.quote
                      /\ t.ordersOf = ui.ordersOf /\ t.refreshing = ui.refreshing /\ t.loadError = ui.loadError
                      /\ t.auditOf = ui.auditOf
<1>0. ui \in DeskStateType /\ f \in Seq(DeskStateRequests) /\ QuoteOwn(ui) /\ RefreshWaits(ui) /\ AuditOwn(ui)
  BY DEF DeskStateOK, DeskStateType
<1>h. ASSUME NEW i \in DOMAIN f
      PROVE  /\ f[i] \in DeskStateRequests /\ h(i) \in Seq(DeskStateRequests)
             /\ RefreshKept(f, h(i)) /\ QuoteKept(f, h(i))
             /\ AtMostOne(f, f[i].what) /\ f[i].current => ~Waiting(h(i), f[i].what)
  <2>1. /\ f[i] \in DeskStateRequests
        /\ RefreshKept(f, h(i)) /\ QuoteKept(f, h(i))
        /\ AtMostOne(f, f[i].what) /\ f[i].current => ~Waiting(h(i), f[i].what)
    <3> HIDE DEF f
    <3> QED
      BY <1>0, DeskAnswered
  <2> QED
    BY <2>1 DEF RefreshKept
<1>r. RefreshKept(f, f) /\ QuoteKept(f, f)
  BY <1>0 DEF RefreshKept, QuoteKept
<1>k. ASSUME NEW t \in DeskStateType, Same(t), RefreshKept(f, t.flying), QuoteKept(f, t.flying)
      PROVE  DeskStateOK(t)
  <2>1. QuoteOwn(t) /\ RefreshWaits(t) /\ AuditOwn(t)
    BY <1>k, DeskStateHolds
  <2> QED
    BY <2>1 DEF DeskStateOK
<1>1. ASSUME NEW i \in DOMAIN ui.flying, NEW state \in {"live", "closed", "unusable"}, QuoteAnswer(i, state)
      PROVE  DeskStateOK(ui')
  <2> DEFINE quote == [of |-> f[i].of, state |-> state]
             s == [ui EXCEPT !.quote = quote, !.loading = FALSE]
             k == h(i)
  <2>1. f[i].what = "quote" /\ Heard(i, s)
    BY <1>1 DEF QuoteAnswer
  <2>2. k \in Seq(DeskStateRequests) /\ RefreshKept(f, k) /\ QuoteKept(f, k) /\ f[i].of \in Stocks
    <3>1. f[i] \in DeskStateRequests
      BY <1>h
    <3>2. f[i].of \in Stocks
      <4> HIDE DEF f
      <4> QED
        BY <2>1, <3>1, DeskStateRequestIs
    <3> QED
      BY <1>h, <3>2
  <2>3. quote \in [of : Stocks \cup {None}, state : {"live", "closed", "unusable"}] /\ quote.of = f[i].of
    BY <2>2
  <2> HIDE DEF quote, k
  <2>4. CASE ~f[i].current
    <3>1. ui' = [ui EXCEPT !.flying = k]
      BY <2>1, <2>4 DEF Heard, k
    <3>2. ui' \in DeskStateType /\ ui'.flying = k /\ Same(ui')
      BY <1>0, <2>2, <3>1 DEF DeskStateType
    <3> HIDE DEF Same
    <3> QED
      BY <1>k, <2>2, <3>2
  <2>5. CASE f[i].current
    <3>0. s.flying = f
      BY <1>0 DEF DeskStateType
    <3>1. ui' = [s EXCEPT !.flying = k]
      BY <2>1, <2>5, <3>0 DEF Heard, k
    <3>2. f[i].of = ui.ticker
      BY <1>0, <2>1, <2>5 DEF QuoteOwn, Owned
    <3>3. /\ ui' \in DeskStateType /\ ui'.flying = k /\ ui'.ticker = ui.ticker /\ ui'.quote = quote
          /\ ui'.ordersOf = ui.ordersOf /\ ui'.refreshing = ui.refreshing /\ ui'.loadError = ui.loadError
          /\ ui'.auditOf = ui.auditOf
      BY <1>0, <2>2, <2>3, <3>1 DEF DeskStateType
    <3>4. QuoteOwn(ui')
      BY <1>0, <2>2, <2>3, <3>2, <3>3 DEF QuoteOwn, QuoteKept
    <3>5. RefreshWaits(ui') /\ AuditOwn(ui')
      BY <2>2, <3>3, DeskStateHolds
    <3> QED
      BY <3>3, <3>4, <3>5 DEF DeskStateOK
  <2> QED
    BY <2>4, <2>5
<1>2. ASSUME NEW i \in DOMAIN ui.flying, NEW ok \in BOOLEAN, NEW baseline \in {"missing", "known"}, OrdersAnswer(i, ok, baseline)
      PROVE  DeskStateOK(ui')
  <2> DEFINE k == h(i)
             r == f[i]
             rest == [ui EXCEPT !.flying = k]
             failed == [rest EXCEPT !.loadError = TRUE, !.refreshing = FALSE]
             of == [r.of EXCEPT !.stage = "audit"]
             next == [r EXCEPT !.of.stage = "audit"]
             g == Append(k, next)
  <2>1. /\ r.what = "paper" /\ r.of.stage = "orders"
        /\ \/ ~r.current /\ ui' = EndsRefresh(rest, r.of)
           \/ r.current /\ ~ok /\ ui' = EndsRefresh(failed, r.of)
           \/ r.current /\ ok /\ ui' = [rest EXCEPT !.ordersOf = r.of.version, !.baseline = baseline,
                                                    !.flying = Append(@, next)]
    BY <1>2 DEF OrdersAnswer
  <2>2. /\ r \in DeskStateRequests /\ k \in Seq(DeskStateRequests) /\ RefreshKept(f, k) /\ QuoteKept(f, k)
        /\ AtMostOne(f, r.what) /\ r.current => ~Waiting(k, r.what)
    BY <1>h
  <2> HIDE DEF k, r
  <2>3. r.of \in PaperVersions
    BY <2>1, <2>2, DeskStateRequestIs
  <2>4. rest \in DeskStateType /\ rest.flying = k /\ Same(rest)
    BY <1>0, <2>2 DEF DeskStateType
  <2>5. r.current => ~Waiting(k, "paper")
    BY <1>0, <2>1, <2>2 DEF RefreshWaits
  <2>b. ASSUME NEW s \in DeskStateType
        PROVE  /\ EndsRefresh(s, r.of) \in DeskStateType /\ EndsRefresh(s, r.of).flying = s.flying
               /\ EndsRefresh(s, r.of).ticker = s.ticker /\ EndsRefresh(s, r.of).loading = s.loading
               /\ EndsRefresh(s, r.of).quote = s.quote /\ EndsRefresh(s, r.of).ordersOf = s.ordersOf
               /\ EndsRefresh(s, r.of).refreshing = s.refreshing /\ EndsRefresh(s, r.of).loadError = s.loadError
               /\ EndsRefresh(s, r.of).auditOf = s.auditOf
    <3> DEFINE busy == s.busy /\ ~r.of.baseline
               t == [s EXCEPT !.busy = busy]
    <3>1. EndsRefresh(s, r.of) = t /\ busy \in BOOLEAN
      BY DEF EndsRefresh
    <3> HIDE DEF busy
    <3>2. /\ t \in DeskStateType /\ t.flying = s.flying /\ t.ticker = s.ticker /\ t.loading = s.loading
          /\ t.quote = s.quote /\ t.ordersOf = s.ordersOf /\ t.refreshing = s.refreshing
          /\ t.loadError = s.loadError /\ t.auditOf = s.auditOf
      BY <3>1 DEF DeskStateType
    <3> HIDE DEF t
    <3> QED
      BY <3>1, <3>2
  <2>6. CASE ~r.current /\ ui' = EndsRefresh(rest, r.of)
    <3> HIDE DEF rest
    <3>1. ui' \in DeskStateType /\ ui'.flying = k /\ Same(ui')
      BY <2>4, <2>6, <2>b
    <3> HIDE DEF Same
    <3> QED
      BY <1>k, <2>2, <3>1
  <2>7. CASE r.current /\ ~ok /\ ui' = EndsRefresh(failed, r.of)
    <3> HIDE DEF rest
    <3>1. /\ failed \in DeskStateType /\ failed.flying = k /\ failed.loadError = TRUE
          /\ failed.ticker = ui.ticker /\ failed.loading = ui.loading /\ failed.quote = ui.quote
          /\ failed.ordersOf = ui.ordersOf
      BY <2>4 DEF DeskStateType
    <3> HIDE DEF failed
    <3>2. /\ ui' \in DeskStateType /\ ui'.flying = k /\ ui'.loadError = TRUE
          /\ ui'.ticker = ui.ticker /\ ui'.loading = ui.loading /\ ui'.quote = ui.quote /\ ui'.ordersOf = ui.ordersOf
      BY <2>7, <2>b, <3>1
    <3>3. QuoteOwn(ui')
      BY <2>2, <3>2, DeskStateHolds
    <3>4. RefreshWaits(ui') /\ AuditOwn(ui')
      BY <1>0, <2>2, <2>5, <2>7, <3>2 DEF RefreshWaits, AuditOwn, RefreshKept
    <3> QED
      BY <3>2, <3>3, <3>4 DEF DeskStateOK
  <2>8. CASE r.current /\ ok /\ ui' = [rest EXCEPT !.ordersOf = r.of.version, !.baseline = baseline, !.flying = Append(@, next)]
    <3>1. of \in PaperVersions /\ of.stage = "audit" /\ of.version = r.of.version
      BY <2>3 DEF PaperVersions
    <3>2. next = [what |-> "paper", of |-> of, current |-> TRUE]
      <4>1. r \in Requests({"paper"}, PaperVersions) /\ r.current = TRUE
        BY <2>1, <2>2, <2>8 DEF DeskStateRequests, Requests
      <4>2. next = [r EXCEPT !.of = of]
        BY <4>1 DEF Requests
      <4> HIDE DEF of, next
      <4> QED
        BY <4>1, <4>2 DEF Requests
    <3> HIDE DEF of, next
    <3>3. next \in DeskStateRequests /\ next.what = "paper" /\ next.of = of
      BY <3>1, <3>2, DeskStateRequestIs
    <3>4. ui' = [rest EXCEPT !.ordersOf = r.of.version, !.baseline = baseline, !.flying = g]
      BY <2>4, <2>8
    <3>5. /\ g \in Seq(DeskStateRequests) /\ QuoteKept(k, g)
      <4>1. g \in Seq(DeskStateRequests)
        BY <2>2, <3>3
      <4>2. \A of1 : Owned(k, "quote", of1) => Owned(g, "quote", of1)
        BY <2>2, <3>3, GateMore
      <4> QED
        BY <4>1, <4>2 DEF QuoteKept
    <3>6. /\ \A j \in DOMAIN g : j = Len(k) + 1 \/ (j \in DOMAIN k /\ g[j] = k[j])
          /\ g[Len(k) + 1] = next
      BY <2>2, OneMore
    <3> HIDE DEF g, rest
    <3>7. \A j \in DOMAIN g : g[j].what = "paper" /\ g[j].current => j = Len(k) + 1
      BY <2>5, <2>8, <3>6 DEF Waiting, Flying
    <3>8. AtMostOne(g, "paper")
      BY <3>7 DEF AtMostOne
    <3>9. AuditAsked(g, r.of.version)
      BY <3>1, <3>3, <3>6, <3>7 DEF AuditAsked
    <3>10. ui.refreshing
      <4>1. Waiting(f, "paper")
        BY <2>1, <2>8 DEF Waiting, Flying, r
      <4> QED
        BY <1>0, <4>1 DEF RefreshWaits
    <3>11. /\ ui' \in DeskStateType /\ ui'.flying = g /\ ui'.ordersOf = r.of.version /\ ui'.refreshing = ui.refreshing
           /\ ui'.ticker = ui.ticker /\ ui'.loading = ui.loading /\ ui'.quote = ui.quote
      <4>1. r.of.version \in Nat
        BY <2>3 DEF PaperVersions
      <4> QED
        BY <2>4, <3>4, <3>5, <4>1 DEF DeskStateType
    <3>12. QuoteKept(f, g)
      BY <2>2, <3>5 DEF QuoteKept
    <3>13. QuoteOwn(ui')
      BY <3>11, <3>12, DeskStateHolds
    <3>14. RefreshWaits(ui') /\ AuditOwn(ui')
      BY <3>8, <3>9, <3>10, <3>11 DEF RefreshWaits, AuditOwn
    <3> QED
      BY <3>11, <3>13, <3>14 DEF DeskStateOK
  <2> QED
    BY <2>1, <2>6, <2>7, <2>8
<1>3. ASSUME NEW i \in DOMAIN ui.flying, AuditAnswer(i) PROVE DeskStateOK(ui')
  <2> DEFINE k == h(i)
             r == f[i]
             rest == [ui EXCEPT !.flying = k]
             s == [rest EXCEPT !.auditOf = r.of.version, !.loadError = FALSE, !.refreshing = FALSE]
             t == IF ~r.current THEN rest ELSE s
             busy == t.busy /\ ~r.of.baseline
  <2>1. r.what = "paper" /\ r.of.stage = "audit" /\ ui' = [t EXCEPT !.busy = busy]
    BY <1>3 DEF AuditAnswer, EndsRefresh
  <2>2. /\ r \in DeskStateRequests /\ k \in Seq(DeskStateRequests) /\ RefreshKept(f, k) /\ QuoteKept(f, k)
        /\ AtMostOne(f, r.what) /\ r.current => ~Waiting(k, r.what)
    BY <1>h
  <2>7. busy \in BOOLEAN
    OBVIOUS
  <2>8. AuditAsked(f, ui.ordersOf) /\ r.current => r.of.version = ui.ordersOf
    BY <2>1 DEF AuditAsked
  <2> HIDE DEF k, r, busy
  <2>3. r.of.version \in Nat
    BY <2>1, <2>2, DeskStateRequestIs DEF PaperVersions
  <2>4. rest \in DeskStateType /\ rest.flying = k /\ Same(rest)
    BY <1>0, <2>2 DEF DeskStateType
  <2>5. CASE ~r.current
    <3>1. ui' = [rest EXCEPT !.busy = busy]
      BY <2>1, <2>5
    <3> HIDE DEF rest
    <3>2. ui' \in DeskStateType /\ ui'.flying = k /\ Same(ui')
      BY <2>4, <2>7, <3>1 DEF DeskStateType
    <3> HIDE DEF Same
    <3> QED
      BY <1>k, <2>2, <3>2
  <2>6. CASE r.current
    <3>1. ui' = [s EXCEPT !.busy = busy]
      BY <2>1, <2>6
    <3> HIDE DEF rest
    <3>2. /\ s \in DeskStateType /\ s.flying = k /\ s.auditOf = r.of.version /\ s.ordersOf = ui.ordersOf
          /\ s.ticker = ui.ticker /\ s.loading = ui.loading /\ s.quote = ui.quote
      BY <2>3, <2>4 DEF DeskStateType
    <3> HIDE DEF s
    <3>3. /\ ui' \in DeskStateType /\ ui'.flying = k /\ ui'.auditOf = r.of.version /\ ui'.ordersOf = ui.ordersOf
          /\ ui'.ticker = ui.ticker /\ ui'.loading = ui.loading /\ ui'.quote = ui.quote
      BY <2>7, <3>1, <3>2 DEF DeskStateType
    <3>4. ~Waiting(k, "paper")
      BY <1>0, <2>1, <2>2, <2>6 DEF RefreshWaits
    <3>5. QuoteOwn(ui')
      BY <2>2, <3>3, DeskStateHolds
    <3>6. RefreshWaits(ui')
      BY <1>0, <2>2, <3>3, <3>4 DEF RefreshWaits, RefreshKept
    <3>7. AuditOwn(ui')
      BY <1>0, <2>6, <2>8, <3>3 DEF AuditOwn, RefreshWaits
    <3> QED
      BY <3>3, <3>5, <3>6, <3>7 DEF DeskStateOK
  <2> QED
    BY <2>5, <2>6
<1>4. ASSUME NEW i \in DOMAIN ui.flying, NEW state \in {"running", "stopped", "error"}, ScannerAnswer(i, state)
      PROVE  DeskStateOK(ui')
  <2> DEFINE scanner == IF state = "error" THEN ui.scanner ELSE state
             s == [ui EXCEPT !.scanner = scanner, !.timer = TRUE]
             k == h(i)
  <2>1. ui' = [s EXCEPT !.flying = k] \/ ui' = [ui EXCEPT !.flying = k]
    <3>1. Heard(i, s) /\ s.flying = f
      BY <1>0, <1>4 DEF ScannerAnswer, DeskStateType
    <3> QED
      BY <3>1 DEF Heard
  <2>2. k \in Seq(DeskStateRequests) /\ RefreshKept(f, k) /\ QuoteKept(f, k)
    BY <1>h
  <2>3. scanner \in {None, "running", "stopped"}
    BY <1>0 DEF DeskStateType
  <2> HIDE DEF scanner, k
  <2>4. ui' \in DeskStateType /\ ui'.flying = k /\ Same(ui')
    BY <1>0, <2>1, <2>2, <2>3 DEF DeskStateType
  <2> HIDE DEF Same
  <2> QED
    BY <1>k, <2>2, <2>4
<1>5. ASSUME NEW i \in DOMAIN ui.flying, NEW ok \in BOOLEAN, BaselineAnswer(i, ok) PROVE DeskStateOK(ui')
  <2> DEFINE k == h(i)
             rest == [ui EXCEPT !.flying = k]
  <2>1. ui' = RefreshPaper(rest, TRUE, TRUE) \/ ui' = [rest EXCEPT !.busy = FALSE]
    BY <1>5 DEF BaselineAnswer
  <2>2. k \in Seq(DeskStateRequests) /\ RefreshKept(f, k) /\ QuoteKept(f, k)
    BY <1>h
  <2> HIDE DEF k
  <2>3. rest \in DeskStateType /\ rest.flying = k /\ Same(rest)
    BY <1>0, <2>2 DEF DeskStateType
  <2> HIDE DEF rest
  <2>4. CASE ui' = [rest EXCEPT !.busy = FALSE]
    <3>1. ui' \in DeskStateType /\ ui'.flying = k /\ Same(ui')
      BY <2>3, <2>4 DEF DeskStateType
    <3> HIDE DEF Same
    <3> QED
      BY <1>k, <2>2, <3>1
  <2>5. CASE ui' = RefreshPaper(rest, TRUE, TRUE)
    <3> HIDE DEF Same
    <3>1. DeskStateOK(rest) /\ TRUE \in BOOLEAN
      BY <1>k, <2>2, <2>3
    <3> QED
      BY <2>3, <2>5, <3>1, RefreshPaperKeeps DEF DeskStateOK
  <2> QED
    BY <2>1, <2>4, <2>5
<1>6. ASSUME NEW ticker \in Stocks, SelectTicker(ticker) PROVE DeskStateOK(ui')
  <2> DEFINE s == [ui EXCEPT !.ticker = ticker]
  <2>1. ui' = PollQuote(s)
    BY <1>6 DEF SelectTicker
  <2>2. s \in DeskStateType /\ RefreshWaits(s) /\ AuditOwn(s)
    BY <1>0 DEF DeskStateType, RefreshWaits, AuditOwn
  <2> HIDE DEF s
  <2> QED
    BY <2>1, <2>2, PollQuoteKeeps
<1>7. ASSUME NEW strategy \in {"buy", "protect"}, SelectStrategy(strategy) PROVE DeskStateOK(ui')
  <2>1. ui' \in DeskStateType /\ ui'.flying = f /\ Same(ui')
    BY <1>0, <1>7 DEF SelectStrategy, DeskStateType
  <2> HIDE DEF Same
  <2> QED
    BY <1>k, <1>r, <2>1
<1>8. ASSUME ScannerTimer PROVE DeskStateOK(ui')
  <2> DEFINE g == Ask(f, "scanner", None)
  <2>1. ui' = [ui EXCEPT !.timer = FALSE, !.flying = g]
    BY <1>8 DEF ScannerTimer
  <2>2. /\ "scanner" \in {"quote", "paper", "scanner", "baseline"} /\ "scanner" # "paper" /\ "scanner" # "quote"
        /\ [what |-> "scanner", of |-> None, current |-> TRUE] \in DeskStateRequests
    BY DeskStateRequestIs
  <2>3. g \in Seq(DeskStateRequests) /\ RefreshKept(f, g) /\ QuoteKept(f, g)
    <3> HIDE DEF f
    <3> QED
      BY <1>0, <2>2, DeskAsk
  <2> HIDE DEF g
  <2>4. ui' \in DeskStateType /\ ui'.flying = g /\ Same(ui')
    BY <1>0, <2>1, <2>3 DEF DeskStateType
  <2> HIDE DEF Same
  <2> QED
    BY <1>k, <2>3, <2>4
<1>9. ASSUME DeskQuoteTimer PROVE DeskStateOK(ui')
  BY <1>0, <1>9, PollQuoteKeeps DEF DeskQuoteTimer
<1>10. ASSUME DeskSession PROVE DeskStateOK(ui')
  <2> DEFINE authorized == ~ui.authorized
             s == [ui EXCEPT !.authorized = authorized]
  <2>1. ui' = SessionEffects(s)
    BY <1>10 DEF DeskSession
  <2>2. s \in DeskStateType /\ QuoteOwn(s) /\ RefreshWaits(s)
    BY <1>0 DEF DeskStateType, QuoteOwn, RefreshWaits
  <2> HIDE DEF s
  <2> QED
    BY <2>1, <2>2, SessionEffectsKeep
<1>11. ASSUME RefreshDesk PROVE DeskStateOK(ui')
  <2>1. ui' = RefreshPaper(ui, ui.authorized, FALSE) /\ ui.authorized \in BOOLEAN /\ FALSE \in BOOLEAN
    BY <1>0, <1>11 DEF RefreshDesk, DeskStateType
  <2> QED
    BY <1>0, <2>1, RefreshPaperKeeps
<1>12. ASSUME Establish PROVE DeskStateOK(ui')
  <2> DEFINE g == Ask(f, "baseline", None)
  <2>1. ui' = [ui EXCEPT !.busy = TRUE, !.flying = g]
    BY <1>12 DEF Establish
  <2>2. /\ "baseline" \in {"quote", "paper", "scanner", "baseline"} /\ "baseline" # "paper" /\ "baseline" # "quote"
        /\ [what |-> "baseline", of |-> None, current |-> TRUE] \in DeskStateRequests
    BY DeskStateRequestIs
  <2>3. g \in Seq(DeskStateRequests) /\ RefreshKept(f, g) /\ QuoteKept(f, g)
    <3> HIDE DEF f
    <3> QED
      BY <1>0, <2>2, DeskAsk
  <2> HIDE DEF g
  <2>4. ui' \in DeskStateType /\ ui'.flying = g /\ Same(ui')
    BY <1>0, <2>1, <2>3 DEF DeskStateType
  <2> HIDE DEF Same
  <2> QED
    BY <1>k, <2>3, <2>4
<1> QED
  BY <1>1, <1>2, <1>3, <1>4, <1>5, <1>6, <1>7, <1>8, <1>9, <1>10, <1>11, <1>12 DEF DeskStateNext

\* The call that the busy mark waits for: the daily baseline or the refresh behind it.
BusyCall(f) == \E i \in DOMAIN f : f[i].what = "baseline" \/ (f[i].what = "paper" /\ f[i].of.baseline)

\* Every mark of the desk has its call under way, or the scanner its timer.
RefreshMarked(s) == s.refreshing => Waiting(s.flying, "paper")
BusyMarked(s) == s.busy => BusyCall(s.flying)
ScannerPolled(s) == s.authorized => s.timer \/ Waiting(s.flying, "scanner")
QuoteLoading(s) == s.loading => Waiting(s.flying, "quote")

DeskWaits(s) == RefreshMarked(s) /\ BusyMarked(s) /\ ScannerPolled(s) /\ QuoteLoading(s)

LEMMA DeskSupersededWaits ==
    ASSUME NEW f \in Seq(DeskStateRequests), NEW what
    PROVE  /\ \A other : other # what /\ Waiting(f, other) => Waiting(Superseded(f, what), other)
           /\ BusyCall(f) => BusyCall(Superseded(f, what))
<1> DEFINE g == Superseded(f, what)
           W == {"quote", "paper", "scanner", "baseline"}
           O == Stocks \cup PaperVersions \cup {None}
<1>1. f \in Seq(Requests(W, O))
  BY DeskStateWider
<1> HIDE DEF W, O
<1>2. \A other : other # what /\ Waiting(f, other) => Waiting(g, other)
  BY <1>1, Gate
<1>3. DOMAIN g = 1 .. Len(f) /\ \A i \in DOMAIN f : g[i] = Outdated(f[i], what)
  BY SupersededIs
<1> HIDE DEF g
<1>4. ASSUME NEW i \in DOMAIN f PROVE i \in DOMAIN g /\ g[i].what = f[i].what /\ g[i].of = f[i].of
  <2>1. i \in DOMAIN g /\ g[i] = Outdated(f[i], what) /\ f[i] \in Requests(W, O)
    BY <1>1, <1>3
  <2> QED
    BY <2>1, OutdatedIs
<1>5. BusyCall(f) => BusyCall(g)
  BY <1>4 DEF BusyCall
<1> QED
  BY <1>2, <1>5 DEF g

LEMMA DeskAskWaits ==
    ASSUME NEW f \in Seq(DeskStateRequests), NEW what, NEW of
    PROVE  /\ Waiting(Ask(f, what, of), what)
           /\ \A other : other # what /\ Waiting(f, other) => Waiting(Ask(f, what, of), other)
           /\ BusyCall(f) \/ what = "baseline" \/ (what = "paper" /\ of.baseline) => BusyCall(Ask(f, what, of))
<1> DEFINE g == Ask(f, what, of)
           new == [what |-> what, of |-> of, current |-> TRUE]
           W == {"quote", "paper", "scanner", "baseline"}
           O == Stocks \cup PaperVersions \cup {None}
<1>0. f \in Seq(Requests(W, O))
  BY DeskStateWider
<1>l. Len(f) \in Nat
  OBVIOUS
<1> HIDE DEF W, O
<1>1. Waiting(g, what)
  BY WaitingAsk
<1>2. \A other : other # what /\ Waiting(f, other) => Waiting(g, other)
  BY WaitingAsk
<1>3. /\ DOMAIN g = 1 .. Len(f) + 1 /\ g[Len(f) + 1] = new
      /\ \A i \in DOMAIN f : g[i] = Outdated(f[i], what)
  BY AskIs
<1>4. new.what = what /\ new.of = of
  OBVIOUS
<1> HIDE DEF g, new
<1>5. ASSUME NEW i \in DOMAIN f PROVE i \in DOMAIN g /\ g[i].what = f[i].what /\ g[i].of = f[i].of
  <2>1. i \in DOMAIN g /\ g[i] = Outdated(f[i], what) /\ f[i] \in Requests(W, O)
    BY <1>0, <1>3
  <2> QED
    BY <2>1, OutdatedIs
<1>6. BusyCall(f) => BusyCall(g)
  BY <1>5 DEF BusyCall
<1>7. Len(f) + 1 \in DOMAIN g
  BY <1>l, <1>3
<1>8. what = "baseline" \/ (what = "paper" /\ of.baseline) => BusyCall(g)
  BY <1>3, <1>4, <1>7 DEF BusyCall
<1> QED
  BY <1>1, <1>2, <1>6, <1>8 DEF g

LEMMA DeskAnsweredWaits ==
    ASSUME NEW f \in Seq(DeskStateRequests), NEW i \in DOMAIN f
    PROVE  /\ \A other : Waiting(f, other) /\ (~f[i].current \/ f[i].what # other) => Waiting(Answered(f, i), other)
           /\ BusyCall(f) /\ ~(f[i].what = "baseline" \/ (f[i].what = "paper" /\ f[i].of.baseline)) => BusyCall(Answered(f, i))
<1> DEFINE g == Answered(f, i)
<1>1. \A other : Waiting(f, other) /\ (~f[i].current \/ f[i].what # other) => Waiting(g, other)
  BY WaitingAnswered
<1>2. \A k \in DOMAIN f \ {i} : \E j \in DOMAIN g : g[j] = f[k]
  BY AnsweredIs
<1> HIDE DEF g
<1>3. ASSUME BusyCall(f), ~(f[i].what = "baseline" \/ (f[i].what = "paper" /\ f[i].of.baseline)) PROVE BusyCall(g)
  <2>1. PICK k \in DOMAIN f : f[k].what = "baseline" \/ (f[k].what = "paper" /\ f[k].of.baseline)
    BY <1>3 DEF BusyCall
  <2>2. k # i
    BY <1>3, <2>1
  <2>3. PICK j \in DOMAIN g : g[j] = f[k]
    BY <1>2, <2>2
  <2> QED
    BY <2>1, <2>3 DEF BusyCall
<1> QED
  BY <1>1, <1>3 DEF g

LEMMA PollQuoteWaits ==
    ASSUME NEW s \in DeskStateType, RefreshMarked(s), BusyMarked(s), ScannerPolled(s)
    PROVE  DeskWaits(PollQuote(s)) /\ PollQuote(s) \in DeskStateType
<1> DEFINE f == s.flying
           g == Ask(f, "quote", s.ticker)
           t == PollQuote(s)
<1>1. f \in Seq(DeskStateRequests) /\ "quote" \in {"quote", "paper", "scanner", "baseline"} /\ s.ticker \in Stocks
  BY DEF DeskStateType
<1>2. [what |-> "quote", of |-> s.ticker, current |-> TRUE] \in DeskStateRequests
  BY <1>1, DeskStateRequestIs
<1>3. t = [s EXCEPT !.loading = TRUE, !.flying = g]
  BY DEF PollQuote
<1> HIDE DEF f
<1>4. g \in Seq(DeskStateRequests)
  BY <1>1, <1>2, DeskAsk
<1>5. Waiting(g, "quote")
  BY <1>1, DeskAskWaits
<1>6. \A other : other # "quote" /\ Waiting(f, other) => Waiting(g, other)
  BY <1>1, DeskAskWaits
<1>7. BusyCall(f) => BusyCall(g)
  BY <1>1, DeskAskWaits
<1> HIDE DEF g, t
<1>8. /\ t \in DeskStateType /\ t.flying = g /\ t.refreshing = s.refreshing /\ t.busy = s.busy
      /\ t.authorized = s.authorized /\ t.timer = s.timer
  BY <1>3, <1>4 DEF DeskStateType
<1>9. DeskWaits(t)
  BY <1>5, <1>6, <1>7, <1>8 DEF DeskWaits, RefreshMarked, BusyMarked, ScannerPolled, QuoteLoading, f
<1> QED
  BY <1>8, <1>9 DEF t

LEMMA RefreshPaperWaits ==
    ASSUME NEW s \in DeskStateType, NEW authorized \in BOOLEAN, NEW baseline \in BOOLEAN, QuoteLoading(s),
           baseline \/ BusyMarked(s)
    PROVE  LET t == RefreshPaper(s, authorized, baseline)
           IN  /\ t \in DeskStateType /\ t.authorized = s.authorized
               /\ RefreshMarked(t) /\ BusyMarked(t) /\ QuoteLoading(t)
               /\ ScannerPolled(s) => ScannerPolled(t)
<1> DEFINE f == s.flying
           g == Superseded(f, "paper")
           of == [stage |-> "orders", version |-> s.made + 1, baseline |-> baseline]
           h == Ask(f, "paper", of)
           busy == s.busy /\ ~baseline
           made == s.made + 1
           t == RefreshPaper(s, authorized, baseline)
<1>1. /\ f \in Seq(DeskStateRequests) /\ of \in PaperVersions /\ of.stage = "orders" /\ of.baseline = baseline
      /\ made \in Nat /\ busy \in BOOLEAN
  BY DEF DeskStateType, PaperVersions
<1>2. CASE ~authorized
  <2>1. t = [s EXCEPT !.loadError = TRUE, !.refreshing = FALSE, !.busy = busy, !.flying = g]
    BY <1>2 DEF RefreshPaper
  <2> HIDE DEF f
  <2>2. g \in Seq(DeskStateRequests)
    BY <1>1, DeskSuperseded
  <2>3. \A other : other # "paper" /\ Waiting(f, other) => Waiting(g, other)
    BY <1>1, DeskSupersededWaits
  <2>4. BusyCall(f) => BusyCall(g)
    BY <1>1, DeskSupersededWaits
  <2>b. busy => s.busy /\ ~baseline
    OBVIOUS
  <2> HIDE DEF g, t, busy
  <2>5. /\ t \in DeskStateType /\ t.flying = g /\ t.refreshing = FALSE /\ t.busy = busy
        /\ t.authorized = s.authorized /\ t.timer = s.timer /\ t.loading = s.loading
    BY <1>1, <2>1, <2>2 DEF DeskStateType
  <2>6. RefreshMarked(t) /\ BusyMarked(t) /\ QuoteLoading(t) /\ (ScannerPolled(s) => ScannerPolled(t))
    BY <2>3, <2>4, <2>5, <2>b DEF RefreshMarked, BusyMarked, ScannerPolled, QuoteLoading, f
  <2> QED
    BY <2>5, <2>6 DEF t
<1>3. CASE authorized
  <2>1. t = [s EXCEPT !.refreshing = TRUE, !.made = made, !.flying = h]
    BY <1>3 DEF RefreshPaper
  <2> HIDE DEF f, of
  <2>2. h \in Seq(DeskStateRequests)
    BY <1>1, DeskRefreshAsk
  <2>3. Waiting(h, "paper")
    BY <1>1, DeskAskWaits
  <2>4. \A other : other # "paper" /\ Waiting(f, other) => Waiting(h, other)
    BY <1>1, DeskAskWaits
  <2>5. BusyCall(f) \/ of.baseline => BusyCall(h)
    <3>1. BusyCall(f) \/ "paper" = "baseline" \/ ("paper" = "paper" /\ of.baseline) => BusyCall(h)
      BY <1>1, DeskAskWaits
    <3> QED
      BY <3>1
  <2> HIDE DEF h, t, made
  <2>6. /\ t \in DeskStateType /\ t.flying = h /\ t.busy = s.busy
        /\ t.authorized = s.authorized /\ t.timer = s.timer /\ t.loading = s.loading
    BY <1>1, <2>1, <2>2 DEF DeskStateType
  <2>7. RefreshMarked(t) /\ BusyMarked(t) /\ QuoteLoading(t) /\ (ScannerPolled(s) => ScannerPolled(t))
    BY <1>1, <2>3, <2>4, <2>5, <2>6 DEF RefreshMarked, BusyMarked, ScannerPolled, QuoteLoading, f
  <2> QED
    BY <2>6, <2>7 DEF t
<1> QED
  BY <1>2, <1>3

LEMMA SessionEffectsWait ==
    ASSUME NEW s \in DeskStateType, QuoteLoading(s), BusyMarked(s)
    PROVE  DeskWaits(SessionEffects(s))
<1> DEFINE read == RefreshPaper(s, s.authorized, FALSE)
           f == read.flying
           g == Ask(f, "scanner", None)
           h == Superseded(f, "scanner")
           t == SessionEffects(s)
<1>1. s.authorized \in BOOLEAN /\ FALSE \in BOOLEAN
  BY DEF DeskStateType
<1>2. /\ read \in DeskStateType /\ read.authorized = s.authorized
      /\ RefreshMarked(read) /\ BusyMarked(read) /\ QuoteLoading(read)
  BY <1>1, RefreshPaperWaits
<1>3. IF s.authorized THEN t = [read EXCEPT !.flying = g, !.timer = FALSE] ELSE t = [read EXCEPT !.flying = h, !.timer = FALSE]
  BY DEF SessionEffects
<1> HIDE DEF read, t
<1>4. f \in Seq(DeskStateRequests)
  BY <1>2 DEF DeskStateType
<1> HIDE DEF f
<1>5. Waiting(g, "scanner")
  BY <1>4, DeskAskWaits
<1>6. \A other : other # "scanner" /\ Waiting(f, other) => Waiting(g, other)
  BY <1>4, DeskAskWaits
<1>7. BusyCall(f) => BusyCall(g)
  BY <1>4, DeskAskWaits
<1>8. \A other : other # "scanner" /\ Waiting(f, other) => Waiting(h, other)
  BY <1>4, DeskSupersededWaits
<1>9. BusyCall(f) => BusyCall(h)
  BY <1>4, DeskSupersededWaits
<1> HIDE DEF g, h
<1>10. PICK k :
         /\ t = [read EXCEPT !.flying = k, !.timer = FALSE]
         /\ Waiting(f, "paper") => Waiting(k, "paper")
         /\ Waiting(f, "quote") => Waiting(k, "quote")
         /\ BusyCall(f) => BusyCall(k)
         /\ s.authorized => Waiting(k, "scanner")
  <2>1. CASE s.authorized
    <3>1. t = [read EXCEPT !.flying = g, !.timer = FALSE]
      BY <1>3, <2>1
    <3> QED
      BY <1>5, <1>6, <1>7, <3>1
  <2>2. CASE ~s.authorized
    <3>1. t = [read EXCEPT !.flying = h, !.timer = FALSE]
      BY <1>3, <2>2
    <3> QED
      BY <1>8, <1>9, <2>2, <3>1
  <2> QED
    BY <2>1, <2>2
<1>11. /\ t.flying = k /\ t.refreshing = read.refreshing /\ t.busy = read.busy /\ t.loading = read.loading
       /\ t.authorized = s.authorized
  BY <1>2, <1>10 DEF DeskStateType
<1>12. DeskWaits(t)
  BY <1>2, <1>10, <1>11 DEF DeskWaits, RefreshMarked, BusyMarked, ScannerPolled, QuoteLoading, f
<1> QED
  BY <1>12 DEF t

LEMMA DeskWaitsStart == DeskStateInit => DeskWaits(ui)
<1> SUFFICES ASSUME DeskStateInit PROVE DeskWaits(ui)
  OBVIOUS
<1> DEFINE f == <<>>
           s(authorized, ticker, strategy) ==
               [authorized |-> authorized, ticker |-> ticker, strategy |-> strategy,
                quote |-> NoQuote, loading |-> TRUE,
                ordersOf |-> 0, auditOf |-> 0, baseline |-> None, loadError |-> FALSE, refreshing |-> FALSE,
                made |-> 0, scanner |-> None, timer |-> FALSE, busy |-> FALSE, flying |-> f]
<1>1. PICK authorized \in BOOLEAN, ticker \in Stocks, strategy \in {"buy", None} :
        ui = SessionEffects(PollQuote(s(authorized, ticker, strategy)))
  BY DEF DeskStateInit
<1>2. f \in Seq(DeskStateRequests)
  OBVIOUS
<1>3. NoQuote \in [of : Stocks \cup {None}, state : {"live", "closed", "unusable"}]
  BY DEF NoQuote
<1> HIDE DEF f
\* The session, the ticker and the strategy at the start are of no matter:
\* the quote is asked for first, and the session then finds nothing busy.
<1> DEFINE u == s(authorized, ticker, strategy)
           g == Ask(f, "quote", ticker)
           p == PollQuote(u)
<1>4. u \in DeskStateType /\ u.busy = FALSE /\ u.flying = f /\ u.ticker = ticker
  BY <1>2, <1>3 DEF DeskStateType
<1>5. ui = SessionEffects(p)
  BY <1>1
<1> HIDE DEF u, s
<1>6. p = [u EXCEPT !.loading = TRUE, !.flying = g]
  BY <1>4 DEF PollQuote
<1>7. [what |-> "quote", of |-> ticker, current |-> TRUE] \in DeskStateRequests
  BY DeskStateRequestIs
<1>8. "quote" \in {"quote", "paper", "scanner", "baseline"}
  OBVIOUS
<1>9. g \in Seq(DeskStateRequests)
  BY <1>2, <1>7, <1>8, DeskAsk
<1>10. Waiting(g, "quote")
  BY <1>2, DeskAskWaits
<1> HIDE DEF g, p
<1>11. p \in DeskStateType /\ p.flying = g /\ p.busy = FALSE
  BY <1>4, <1>6, <1>9 DEF DeskStateType
<1>12. QuoteLoading(p) /\ BusyMarked(p)
  BY <1>10, <1>11 DEF QuoteLoading, BusyMarked
<1> QED
  BY <1>5, <1>11, <1>12, SessionEffectsWait

LEMMA DeskWaitsSteps ==
    ASSUME DeskStateOK(ui), DeskWaits(ui), DeskStateNext
    PROVE  DeskWaits(ui')
<1> DEFINE f == ui.flying
           h(i) == Answered(f, i)
           SameMarks(t) == /\ t.refreshing = ui.refreshing /\ t.busy = ui.busy /\ t.authorized = ui.authorized
                       /\ t.timer = ui.timer /\ t.loading = ui.loading
           Kept(g) == /\ \A other : Waiting(f, other) => Waiting(g, other)
                      /\ BusyCall(f) => BusyCall(g)
<1>0. ui \in DeskStateType /\ f \in Seq(DeskStateRequests)
  BY DEF DeskStateOK, DeskStateType
<1>w. RefreshMarked(ui) /\ BusyMarked(ui) /\ ScannerPolled(ui) /\ QuoteLoading(ui)
  BY DEF DeskWaits
<1>h. ASSUME NEW i \in DOMAIN f
      PROVE  /\ h(i) \in Seq(DeskStateRequests)
             /\ \A other : Waiting(f, other) /\ (~f[i].current \/ f[i].what # other) => Waiting(h(i), other)
             /\ BusyCall(f) /\ ~(f[i].what = "baseline" \/ (f[i].what = "paper" /\ f[i].of.baseline)) => BusyCall(h(i))
  <2> HIDE DEF f
  <2>1. h(i) \in Seq(DeskStateRequests)
    BY <1>0, AnsweredIn
  <2>2. \A other : Waiting(f, other) /\ (~f[i].current \/ f[i].what # other) => Waiting(h(i), other)
    BY <1>0, DeskAnsweredWaits
  <2>3. BusyCall(f) /\ ~(f[i].what = "baseline" \/ (f[i].what = "paper" /\ f[i].of.baseline)) => BusyCall(h(i))
    BY <1>0, DeskAnsweredWaits
  <2> HIDE DEF h
  <2> QED
    BY <2>1, <2>2, <2>3
<1>1. ASSUME NEW i \in DOMAIN ui.flying, NEW state \in {"live", "closed", "unusable"}, QuoteAnswer(i, state)
      PROVE  DeskWaits(ui')
  <2> DEFINE quote == [of |-> f[i].of, state |-> state]
             s == [ui EXCEPT !.quote = quote, !.loading = FALSE]
             k == h(i)
  <2>1. f[i].what = "quote" /\ Heard(i, s)
    BY <1>1 DEF QuoteAnswer
  <2>2. /\ \A other : Waiting(f, other) /\ (~f[i].current \/ other # "quote") => Waiting(k, other)
        /\ BusyCall(f) => BusyCall(k)
    BY <1>h, <2>1
  <2>3. s.flying = f
    BY <1>0 DEF DeskStateType
  <2>4. \/ ~f[i].current /\ ui' = [ui EXCEPT !.flying = k]
        \/ ui' = [s EXCEPT !.flying = k]
    BY <2>1, <2>3 DEF Heard
  <2> HIDE DEF k, quote
  <2>5. /\ ui'.flying = k /\ ui'.refreshing = ui.refreshing /\ ui'.busy = ui.busy /\ ui'.authorized = ui.authorized
        /\ ui'.timer = ui.timer
        /\ ui'.loading = FALSE \/ (~f[i].current /\ ui'.loading = ui.loading)
    BY <1>0, <2>4 DEF DeskStateType
  <2> QED
    BY <1>w, <2>2, <2>5 DEF DeskWaits, RefreshMarked, BusyMarked, ScannerPolled, QuoteLoading
\* What is left of a call of the paper state after its answer.
<1>b. ASSUME NEW s \in DeskStateType, NEW r \in DeskStateRequests, r.what = "paper"
      PROVE  /\ EndsRefresh(s, r.of).flying = s.flying /\ EndsRefresh(s, r.of).refreshing = s.refreshing
             /\ EndsRefresh(s, r.of).authorized = s.authorized /\ EndsRefresh(s, r.of).timer = s.timer
             /\ EndsRefresh(s, r.of).loading = s.loading
             /\ EndsRefresh(s, r.of).busy => s.busy /\ ~r.of.baseline
  <2> DEFINE busy == s.busy /\ ~r.of.baseline
             t == [s EXCEPT !.busy = busy]
  <2>1. EndsRefresh(s, r.of) = t
    BY DEF EndsRefresh
  <2>2. busy => s.busy /\ ~r.of.baseline
    OBVIOUS
  <2> HIDE DEF busy
  <2>3. /\ t.flying = s.flying /\ t.refreshing = s.refreshing /\ t.authorized = s.authorized /\ t.timer = s.timer
        /\ t.loading = s.loading /\ t.busy = busy
    BY DEF DeskStateType
  <2> HIDE DEF t
  <2> QED
    BY <2>1, <2>2, <2>3
\* An answer that ends its call, and with it the marks.
<1>e. ASSUME NEW i \in DOMAIN f, f[i].what = "paper", NEW s \in DeskStateType, s.flying = h(i),
             s.busy = ui.busy, s.authorized = ui.authorized, s.timer = ui.timer, s.loading = ui.loading,
             s.refreshing = FALSE \/ (~f[i].current /\ s.refreshing = ui.refreshing),
             ui' = EndsRefresh(s, f[i].of)
      PROVE  DeskWaits(ui')
  <2> DEFINE k == h(i)
             r == f[i]
  <2>1. /\ \A other : Waiting(f, other) /\ (~r.current \/ other # "paper") => Waiting(k, other)
        /\ BusyCall(f) /\ ~r.of.baseline => BusyCall(k)
    BY <1>h, <1>e
  <2>2. r \in DeskStateRequests /\ r.what = "paper"
    BY <1>0, <1>e
  <2>3. ui' = EndsRefresh(s, r.of) /\ s.flying = k /\ (s.refreshing = FALSE \/ (~r.current /\ s.refreshing = ui.refreshing))
    BY <1>e
  <2> HIDE DEF k, r
  <2>4. /\ ui'.flying = k /\ ui'.refreshing = s.refreshing /\ ui'.authorized = ui.authorized /\ ui'.timer = ui.timer
        /\ ui'.loading = ui.loading /\ (ui'.busy => ui.busy /\ ~r.of.baseline)
    BY <1>b, <1>e, <2>2, <2>3
  <2> QED
    BY <1>w, <2>1, <2>3, <2>4 DEF DeskWaits, RefreshMarked, BusyMarked, ScannerPolled, QuoteLoading
<1>2. ASSUME NEW i \in DOMAIN ui.flying, NEW ok \in BOOLEAN, NEW baseline \in {"missing", "known"}, OrdersAnswer(i, ok, baseline)
      PROVE  DeskWaits(ui')
  <2> DEFINE k == h(i)
             r == f[i]
             rest == [ui EXCEPT !.flying = k]
             failed == [rest EXCEPT !.loadError = TRUE, !.refreshing = FALSE]
             of == [r.of EXCEPT !.stage = "audit"]
             next == [r EXCEPT !.of.stage = "audit"]
             g == Append(k, next)
  <2>1. /\ r.what = "paper" /\ r.of.stage = "orders"
        /\ \/ ~r.current /\ ui' = EndsRefresh(rest, r.of)
           \/ r.current /\ ~ok /\ ui' = EndsRefresh(failed, r.of)
           \/ r.current /\ ok /\ ui' = [rest EXCEPT !.ordersOf = r.of.version, !.baseline = baseline,
                                                    !.flying = Append(@, next)]
    BY <1>2 DEF OrdersAnswer
  <2>2. /\ k \in Seq(DeskStateRequests)
        /\ \A other : Waiting(f, other) /\ other # "paper" => Waiting(k, other)
        /\ BusyCall(f) /\ ~r.of.baseline => BusyCall(k)
    BY <1>h, <2>1
  <2>3. r \in DeskStateRequests /\ i \in DOMAIN f
    BY <1>0
  <2>4. rest \in DeskStateType /\ rest.flying = k /\ SameMarks(rest)
    <3> HIDE DEF k
    <3> QED
      BY <1>0, <2>2 DEF DeskStateType
  <2>5. failed \in DeskStateType /\ failed.flying = k /\ failed.refreshing = FALSE /\ failed.busy = ui.busy
        /\ failed.authorized = ui.authorized /\ failed.timer = ui.timer /\ failed.loading = ui.loading
    <3> HIDE DEF rest
    <3> QED
      BY <2>4 DEF DeskStateType
  <2>6. CASE ~r.current /\ ui' = EndsRefresh(rest, r.of)
    <3> HIDE DEF rest, f
    <3> QED
      BY <1>e, <2>1, <2>3, <2>4, <2>6
  <2>7. CASE r.current /\ ~ok /\ ui' = EndsRefresh(failed, r.of)
    <3> HIDE DEF failed, f
    <3> QED
      BY <1>e, <2>1, <2>3, <2>5, <2>7
  <2>8. CASE r.current /\ ok /\ ui' = [rest EXCEPT !.ordersOf = r.of.version, !.baseline = baseline, !.flying = Append(@, next)]
    <3> HIDE DEF k, r
    <3>0. r.of \in PaperVersions
      BY <2>1, <2>3, DeskStateRequestIs
    <3>1. of.baseline = r.of.baseline /\ of \in PaperVersions
      BY <3>0 DEF PaperVersions
    <3>2. next = [what |-> "paper", of |-> of, current |-> TRUE]
      <4>1. r \in Requests({"paper"}, PaperVersions) /\ r.current = TRUE
        BY <2>1, <2>3, <2>8 DEF DeskStateRequests, Requests
      <4>2. next = [r EXCEPT !.of = of]
        BY <4>1 DEF Requests
      <4> HIDE DEF of, next
      <4> QED
        BY <4>1, <4>2 DEF Requests
    <3> HIDE DEF of, next
    <3>3. next.what = "paper" /\ next.of = of /\ next.current /\ next \in DeskStateRequests
      BY <3>1, <3>2, DeskStateRequestIs
    <3>4. ui' = [rest EXCEPT !.ordersOf = r.of.version, !.baseline = baseline, !.flying = g]
      BY <2>4, <2>8
    <3>5. /\ g[Len(k) + 1] = next /\ Len(k) + 1 \in DOMAIN g
          /\ \A j \in DOMAIN k : j \in DOMAIN g /\ g[j] = k[j]
      BY <2>2, OneMore
    <3> HIDE DEF g, rest
    <3>6. Waiting(g, "paper") /\ \A other : Waiting(k, other) => Waiting(g, other)
      BY <3>3, <3>5 DEF Waiting, Flying
    <3>7. BusyCall(f) => BusyCall(g)
      BY <2>2, <3>1, <3>3, <3>5 DEF BusyCall
    <3>8. ui'.flying = g /\ SameMarks(ui')
      BY <2>4, <3>4 DEF DeskStateType
    <3> QED
      BY <1>w, <2>2, <3>6, <3>7, <3>8 DEF DeskWaits, RefreshMarked, BusyMarked, ScannerPolled, QuoteLoading
  <2> QED
    BY <2>1, <2>6, <2>7, <2>8
<1>3. ASSUME NEW i \in DOMAIN ui.flying, AuditAnswer(i) PROVE DeskWaits(ui')
  <2> DEFINE k == h(i)
             r == f[i]
             rest == [ui EXCEPT !.flying = k]
             s == [rest EXCEPT !.auditOf = r.of.version, !.loadError = FALSE, !.refreshing = FALSE]
  <2>1. r.what = "paper" /\ ((~r.current /\ ui' = EndsRefresh(rest, r.of)) \/ (r.current /\ ui' = EndsRefresh(s, r.of)))
    BY <1>3 DEF AuditAnswer
  <2>2. k \in Seq(DeskStateRequests)
    BY <1>h
  <2>3. r \in DeskStateRequests /\ i \in DOMAIN f
    BY <1>0
  <2>4. rest \in DeskStateType /\ rest.flying = k /\ SameMarks(rest)
    <3> HIDE DEF k
    <3> QED
      BY <1>0, <2>2 DEF DeskStateType
  <2>5. s \in DeskStateType /\ s.flying = k /\ s.refreshing = FALSE /\ s.busy = ui.busy
        /\ s.authorized = ui.authorized /\ s.timer = ui.timer /\ s.loading = ui.loading
    <3>1. r.of.version \in Nat
      BY <2>1, <2>3, DeskStateRequestIs DEF PaperVersions
    <3> HIDE DEF rest, r
    <3> QED
      BY <2>4, <3>1 DEF DeskStateType
  <2> HIDE DEF rest, s, f
  <2> QED
    BY <1>e, <2>1, <2>3, <2>4, <2>5
<1>4. ASSUME NEW i \in DOMAIN ui.flying, NEW state \in {"running", "stopped", "error"}, ScannerAnswer(i, state)
      PROVE  DeskWaits(ui')
  <2> DEFINE scanner == IF state = "error" THEN ui.scanner ELSE state
             s == [ui EXCEPT !.scanner = scanner, !.timer = TRUE]
             k == h(i)
  <2>1. f[i].what = "scanner" /\ Heard(i, s)
    BY <1>4 DEF ScannerAnswer
  <2>2. /\ \A other : Waiting(f, other) /\ (~f[i].current \/ other # "scanner") => Waiting(k, other)
        /\ BusyCall(f) => BusyCall(k)
    BY <1>h, <2>1
  <2>3. s.flying = f
    BY <1>0 DEF DeskStateType
  <2>4. \/ ~f[i].current /\ ui' = [ui EXCEPT !.flying = k]
        \/ ui' = [s EXCEPT !.flying = k]
    BY <2>1, <2>3 DEF Heard
  <2> HIDE DEF k, scanner
  <2>5. /\ ui'.flying = k /\ ui'.refreshing = ui.refreshing /\ ui'.busy = ui.busy /\ ui'.authorized = ui.authorized
        /\ ui'.loading = ui.loading
        /\ ui'.timer = TRUE \/ (~f[i].current /\ ui'.timer = ui.timer)
    BY <1>0, <2>4 DEF DeskStateType
  <2> QED
    BY <1>w, <2>2, <2>5 DEF DeskWaits, RefreshMarked, BusyMarked, ScannerPolled, QuoteLoading
<1>5. ASSUME NEW i \in DOMAIN ui.flying, NEW ok \in BOOLEAN, BaselineAnswer(i, ok) PROVE DeskWaits(ui')
  <2> DEFINE k == h(i)
             rest == [ui EXCEPT !.flying = k]
  <2>1. f[i].what = "baseline" /\ (ui' = RefreshPaper(rest, TRUE, TRUE) \/ ui' = [rest EXCEPT !.busy = FALSE])
    BY <1>5 DEF BaselineAnswer
  <2>2. k \in Seq(DeskStateRequests) /\ \A other : Waiting(f, other) /\ other # "baseline" => Waiting(k, other)
    BY <1>h, <2>1
  <2> HIDE DEF k
  <2>3. rest \in DeskStateType /\ rest.flying = k /\ SameMarks(rest)
    BY <1>0, <2>2 DEF DeskStateType
  <2> HIDE DEF rest
  <2>4. RefreshMarked(rest) /\ ScannerPolled(rest) /\ QuoteLoading(rest)
    BY <1>w, <2>2, <2>3 DEF RefreshMarked, ScannerPolled, QuoteLoading
  <2>5. CASE ui' = [rest EXCEPT !.busy = FALSE]
    <3>1. /\ ui'.flying = k /\ ui'.refreshing = ui.refreshing /\ ui'.busy = FALSE /\ ui'.authorized = ui.authorized
          /\ ui'.timer = ui.timer /\ ui'.loading = ui.loading
      BY <2>3, <2>5 DEF DeskStateType
    <3> QED
      BY <2>3, <2>4, <3>1 DEF DeskWaits, RefreshMarked, BusyMarked, ScannerPolled, QuoteLoading
  <2>6. CASE ui' = RefreshPaper(rest, TRUE, TRUE)
    <3>1. TRUE \in BOOLEAN
      OBVIOUS
    <3>2. /\ RefreshMarked(ui') /\ BusyMarked(ui') /\ QuoteLoading(ui')
          /\ ScannerPolled(rest) => ScannerPolled(ui')
      BY <2>3, <2>4, <2>6, <3>1, RefreshPaperWaits
    <3> QED
      BY <2>4, <3>2 DEF DeskWaits
  <2> QED
    BY <2>1, <2>5, <2>6
<1>6. ASSUME NEW ticker \in Stocks, SelectTicker(ticker) PROVE DeskWaits(ui')
  <2> DEFINE s == [ui EXCEPT !.ticker = ticker]
  <2>1. ui' = PollQuote(s)
    BY <1>6 DEF SelectTicker
  <2>2. s \in DeskStateType /\ s.flying = f /\ SameMarks(s)
    BY <1>0 DEF DeskStateType
  <2> HIDE DEF s
  <2>3. RefreshMarked(s) /\ BusyMarked(s) /\ ScannerPolled(s)
    BY <1>w, <2>2 DEF RefreshMarked, BusyMarked, ScannerPolled
  <2> QED
    BY <2>1, <2>2, <2>3, PollQuoteWaits
<1>7. ASSUME NEW strategy \in {"buy", "protect"}, SelectStrategy(strategy) PROVE DeskWaits(ui')
  <2>1. ui'.flying = f /\ SameMarks(ui')
    BY <1>0, <1>7 DEF SelectStrategy, DeskStateType
  <2> QED
    BY <1>w, <2>1 DEF DeskWaits, RefreshMarked, BusyMarked, ScannerPolled, QuoteLoading
<1>8. ASSUME ScannerTimer PROVE DeskWaits(ui')
  <2> DEFINE g == Ask(f, "scanner", None)
  <2>1. ui' = [ui EXCEPT !.timer = FALSE, !.flying = g]
    BY <1>8 DEF ScannerTimer
  <2>2. Waiting(g, "scanner") /\ Kept(g)
    <3> HIDE DEF f
    <3>1. Waiting(g, "scanner")
      BY <1>0, DeskAskWaits
    <3>2. \A other : other # "scanner" /\ Waiting(f, other) => Waiting(g, other)
      BY <1>0, DeskAskWaits
    <3>3. BusyCall(f) => BusyCall(g)
      BY <1>0, DeskAskWaits
    <3> HIDE DEF g
    <3> QED
      BY <3>1, <3>2, <3>3
  <2> HIDE DEF g
  <2>3. /\ ui'.flying = g /\ ui'.refreshing = ui.refreshing /\ ui'.busy = ui.busy /\ ui'.loading = ui.loading
    BY <1>0, <2>1 DEF DeskStateType
  <2> QED
    BY <1>w, <2>2, <2>3 DEF DeskWaits, RefreshMarked, BusyMarked, ScannerPolled, QuoteLoading
<1>9. ASSUME DeskQuoteTimer PROVE DeskWaits(ui')
  BY <1>0, <1>w, <1>9, PollQuoteWaits DEF DeskQuoteTimer
<1>10. ASSUME DeskSession PROVE DeskWaits(ui')
  <2> DEFINE authorized == ~ui.authorized
             s == [ui EXCEPT !.authorized = authorized]
  <2>1. ui' = SessionEffects(s)
    BY <1>10 DEF DeskSession
  <2>2. s \in DeskStateType /\ s.flying = f /\ s.loading = ui.loading /\ s.busy = ui.busy
    BY <1>0 DEF DeskStateType
  <2> HIDE DEF s
  <2>3. QuoteLoading(s) /\ BusyMarked(s)
    BY <1>w, <2>2 DEF QuoteLoading, BusyMarked
  <2> QED
    BY <2>1, <2>2, <2>3, SessionEffectsWait
<1>11. ASSUME RefreshDesk PROVE DeskWaits(ui')
  <2>1. ui' = RefreshPaper(ui, ui.authorized, FALSE) /\ ui.authorized \in BOOLEAN /\ FALSE \in BOOLEAN
    BY <1>0, <1>11 DEF RefreshDesk, DeskStateType
  <2>2. RefreshMarked(ui') /\ BusyMarked(ui') /\ QuoteLoading(ui') /\ (ScannerPolled(ui) => ScannerPolled(ui'))
    BY <1>0, <1>w, <2>1, RefreshPaperWaits
  <2> QED
    BY <1>w, <2>2 DEF DeskWaits
<1>12. ASSUME Establish PROVE DeskWaits(ui')
  <2> DEFINE g == Ask(f, "baseline", None)
  <2>1. ui' = [ui EXCEPT !.busy = TRUE, !.flying = g]
    BY <1>12 DEF Establish
  <2>2. BusyCall(g) /\ \A other : other # "baseline" /\ Waiting(f, other) => Waiting(g, other)
    <3> HIDE DEF f
    <3>1. BusyCall(g)
      BY <1>0, DeskAskWaits
    <3>2. \A other : other # "baseline" /\ Waiting(f, other) => Waiting(g, other)
      BY <1>0, DeskAskWaits
    <3> HIDE DEF g
    <3> QED
      BY <3>1, <3>2
  <2> HIDE DEF g
  <2>3. /\ ui'.flying = g /\ ui'.refreshing = ui.refreshing /\ ui'.loading = ui.loading
        /\ ui'.authorized = ui.authorized /\ ui'.timer = ui.timer
    BY <1>0, <2>1 DEF DeskStateType
  <2> QED
    BY <1>w, <2>2, <2>3 DEF DeskWaits, RefreshMarked, BusyMarked, ScannerPolled, QuoteLoading
<1> QED
  BY <1>1, <1>2, <1>3, <1>4, <1>5, <1>6, <1>7, <1>8, <1>9, <1>10, <1>11, <1>12 DEF DeskStateNext

LEMMA DeskWaitsTold == ASSUME DeskWaits(ui) PROVE DeskNeverStuck
<1>1. "refreshing" \in PaperPanels(ui) => ui.refreshing
  BY DEF PaperPanels
<1> QED
  BY <1>1 DEF DeskNeverStuck, DeskWaits, RefreshMarked, BusyMarked, ScannerPolled, QuoteLoading, BusyCall

LEMMA DeskStateTold ==
    ASSUME DeskStateOK(ui)
    PROVE  DeskQuoteOwn /\ DeskAuditOfOrders
<1>1. DeskQuoteOwn
  BY DEF DeskStateOK, QuoteOwn, DeskQuoteOwn
<1>2. "audit" \in PaperPanels(ui) => ui.auditOf # 0
  BY DEF PaperPanels
<1>3. PaperPanels(ui) \cap {"load error", "refreshing"} = {} => ~ui.loadError /\ ~ui.refreshing
  BY DEF PaperPanels
<1>4. DeskAuditOfOrders
  BY <1>2, <1>3 DEF DeskStateOK, AuditOwn, DeskAuditOfOrders
<1> QED
  BY <1>1, <1>4

=============================================================================
