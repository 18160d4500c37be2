-------------------------------- MODULE Screen --------------------------------
(***************************************************************************)
(* What the pages of app/frontend/src/pages and their panels share.  The   *)
(* router mounts one page at a time: page names it and ui is its state.    *)
(* The effects and handlers of a page send requests, which are answered in *)
(* any order; a step is what runs without a break between two answers, the *)
(* effects that a change of state triggers included.                       *)
(*                                                                         *)
(* A request in flight is [what |-> the code that sent it, of |-> the      *)
(* question it asks, current |-> whether that code still waits for it].    *)
(***************************************************************************)
EXTENDS Naturals, FiniteSets, Sequences, SequencesExt

CONSTANT MaxFlying     \* bound on the requests in flight

ASSUME ScreenConstants == MaxFlying \in Nat

VARIABLES page, ui

screen == <<page, ui>>

None == "none"

Requests(whats, ofs) == [what : whats, of : ofs, current : BOOLEAN]

\* createLatestRequestGate: begin makes every earlier request outdated, and so
\* does invalidate.  A `cancelled` flag that the cleanup of an effect sets and
\* a sequence number kept in a ref do the same.
Superseded(flying, what) ==
    [i \in DOMAIN flying |->
        IF flying[i].what = what THEN [flying[i] EXCEPT !.current = FALSE] ELSE flying[i]]

Ask(flying, what, of) ==
    Append(Superseded(flying, what), [what |-> what, of |-> of, current |-> TRUE])

\* The requests of one piece of code, by their place.
Flying(flying, what) == {i \in DOMAIN flying : flying[i].what = what}

Answered(flying, i) == RemoveAt(flying, i)

\* Where the answers of outdated requests are known to change nothing, a model
\* may let them go at once; then no more than one of them is in flight.
Dropped(flying, what) ==
    IF Flying(flying, what) = {} THEN flying ELSE Answered(flying, CHOOSE i \in Flying(flying, what) : TRUE)

AskAnew(flying, what, of) ==
    Append(Dropped(flying, what), [what |-> what, of |-> of, current |-> TRUE])

\* Where no answer tells two requests apart, one of them stands for both.
AskOnce(flying, what) ==
    IF \E i \in DOMAIN flying : flying[i].what = what THEN flying
    ELSE Append(flying, [what |-> what, of |-> None, current |-> TRUE])

Room(flying) == Len(flying) < MaxFlying

\* The answer to a request that is still waited for makes the page next; an
\* outdated one changes nothing (isCurrent, or `if (cancelled) return`).
Heard(i, next) == ui' = [IF ui.flying[i].current THEN next ELSE ui EXCEPT !.flying = Answered(@, i)]

\* Code without such a gate takes every answer.
Taken(i, next) == ui' = [next EXCEPT !.flying = Answered(@, i)]

Waiting(flying, what) == \E i \in Flying(flying, what) : flying[i].current
=============================================================================
