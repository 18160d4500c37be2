----------------------------- MODULE QuoteFlight -----------------------------
(***************************************************************************)
(* The calls of boundedQuotesWithMeta for one set of symbols               *)
(* (app/backend/internal/api/quote_timeout.go).  The first call leads a    *)
(* flight: it asks the primary and the secondary source at once and takes  *)
(* what comes first, with a grace period for the primary.  Calls that come *)
(* while the flight holds the key follow it.  When the request times out   *)
(* before the primary source has answered, the leader returns but the      *)
(* flight keeps the key until that answer, so that a hung source is not    *)
(* asked again.                                                            *)
(*                                                                         *)
(* A candidate is a source and the worth of its quotes.                    *)
(***************************************************************************)
EXTENDS Integers, FiniteSets

CONSTANTS
    Askers    \* calls for the same symbols

ASSUME QuoteConstants == IsFiniteSet(Askers)

VARIABLES
    flight,   \* the flights, in the order they start
    key,      \* the flight registered in quoteFlights, 0 for none
    asker     \* the calls

quoteVars == <<flight, key, asker>>

Flights == 1..Cardinality(Askers)
Sources == {"primary", "secondary"}

\* completeTrustedQuoteResult and quoteResultFreshness.
Worths == {"fresh", "stale", "untrusted"}
Candidate(source, worth) == [source |-> source, worth |-> worth]
Candidates == [source : Sources, worth : Worths]

\* What snapshotQuoteFetchResult returns.
Snapshot == Candidate("snapshot", "stale")

NoFlight == [step |-> "unused", got |-> {}, late |-> FALSE, result |-> Snapshot]

\* preferredQuoteFallback and the snapshot that stands in for no result.
Preferred(got) ==
    IF Candidate("secondary", "fresh") \in got THEN Candidate("secondary", "fresh")
    ELSE IF Candidate("primary", "stale") \in got THEN Candidate("primary", "stale")
    ELSE IF Candidate("secondary", "stale") \in got THEN Candidate("secondary", "stale")
    ELSE Snapshot

Answered(got, source) == \E c \in got : c.source = source

QuoteInit ==
    /\ flight = [f \in Flights |-> NoFlight]
    /\ key = 0
    /\ asker = [a \in Askers |-> [step |-> "idle", flight |-> 0, answer |-> Snapshot]]

Lead(a) ==
    /\ asker[a].step = "idle"
    /\ key = 0
    /\ \E f \in Flights :
        /\ flight[f].step = "unused"
        /\ \A g \in 1..(f - 1) : flight[g].step # "unused"
        /\ flight' = [flight EXCEPT ![f].step = "collecting"]
        /\ key' = f
        /\ asker' = [asker EXCEPT ![a].step = "leading", ![a].flight = f]

Follow(a) ==
    /\ asker[a].step = "idle"
    /\ key # 0
    /\ asker' = [asker EXCEPT ![a].step = "following", ![a].flight = key]
    /\ UNCHANGED <<flight, key>>

\* The result is set and done is closed.
Decide(f, got, result) ==
    flight' = [flight EXCEPT ![f].step = "closed", ![f].got = got, ![f].result = result]

\* The leader takes a candidate from the channel.
Receive(f, source, worth) ==
    LET got == flight[f].got \union {Candidate(source, worth)}
        best == Candidate("primary", "fresh")
        all == \A s \in Sources : Answered(got, s)
    IN /\ flight[f].step = "collecting"
       /\ ~Answered(flight[f].got, source)
       /\ \/ best \in got /\ Decide(f, got, best)
          \/ best \notin got /\ all /\ Decide(f, got, Preferred(got))
          \/ /\ best \notin got /\ ~all
             /\ flight' = [flight EXCEPT ![f].got = got]
       /\ UNCHANGED <<key, asker>>

\* The grace timer runs from the first fresh answer, which was the secondary's.
GraceEnds(f) ==
    /\ flight[f].step = "collecting"
    /\ Candidate("secondary", "fresh") \in flight[f].got
    /\ Decide(f, flight[f].got, Candidate("secondary", "fresh"))
    /\ UNCHANGED <<key, asker>>

PrimaryDone(f) == Answered(flight[f].got, "primary")

\* Faulty: a flight that timed out always gives the key back.
ExpireUnretained(f) ==
    /\ flight[f].step = "collecting"
    /\ Decide(f, flight[f].got, Preferred(flight[f].got))
    /\ UNCHANGED <<key, asker>>

\* Faulty: a flight that timed out always waits for the primary source.
ExpireRetained(f) ==
    /\ flight[f].step = "collecting"
    /\ flight' = [flight EXCEPT ![f].step = "retained", ![f].result = Preferred(flight[f].got)]
    /\ asker' = [a \in Askers |->
            IF asker[a].step = "leading" /\ asker[a].flight = f
            THEN [asker[a] EXCEPT !.step = "answered", !.answer = Preferred(flight[f].got)]
            ELSE asker[a]]
    /\ UNCHANGED key

\* The request timeout; a retained flight has a leader that no longer waits.
Expire(f) ==
    /\ flight[f].step = "collecting"
    /\ \/ /\ PrimaryDone(f)
          /\ Decide(f, flight[f].got, Preferred(flight[f].got))
          /\ UNCHANGED asker
       \/ /\ ~PrimaryDone(f)
          /\ flight' = [flight EXCEPT ![f].step = "retained",
                                      ![f].result = Preferred(flight[f].got)]
          /\ asker' = [a \in Askers |->
                IF asker[a].step = "leading" /\ asker[a].flight = f
                THEN [asker[a] EXCEPT !.step = "answered", !.answer = Preferred(flight[f].got)]
                ELSE asker[a]]
    /\ UNCHANGED key

\* The goroutine behind a retained flight waits for the primary source, whose
\* answer has not been taken from the channel before.
LateAnswer(f) ==
    /\ flight[f].step = "retained"
    /\ ~PrimaryDone(f)
    /\ flight' = [flight EXCEPT ![f].step = "closed", ![f].late = TRUE]
    /\ UNCHANGED <<key, asker>>

\* The end of cleanup, after done was closed; a leader that waited returns.
Release(f) ==
    /\ flight[f].step = "closed"
    /\ flight' = [flight EXCEPT ![f].step = "released"]
    /\ key' = IF key = f THEN 0 ELSE key
    /\ asker' = [a \in Askers |->
            IF asker[a].step = "leading" /\ asker[a].flight = f
            THEN [asker[a] EXCEPT !.step = "answered", !.answer = flight[f].result]
            ELSE asker[a]]

FollowerAnswered(a) ==
    /\ asker[a].step = "following"
    /\ flight[asker[a].flight].step \in {"closed", "released"}
    /\ asker' = [asker EXCEPT ![a].step = "answered",
                              ![a].answer = flight[asker[a].flight].result]
    /\ UNCHANGED <<flight, key>>

\* A follower's own timer; when done is closed too, select may take either.
FollowerExpires(a) ==
    /\ asker[a].step = "following"
    /\ asker' = [asker EXCEPT ![a].step = "answered", ![a].answer = Snapshot]
    /\ UNCHANGED <<flight, key>>

QuoteNext ==
    \/ \E a \in Askers : Lead(a) \/ Follow(a) \/ FollowerAnswered(a) \/ FollowerExpires(a)
    \/ \E f \in Flights : GraceEnds(f) \/ Expire(f) \/ LateAnswer(f) \/ Release(f)
    \/ \E f \in Flights, s \in Sources, w \in Worths : Receive(f, s, w)

\* Timers fire, cleanups run, and the primary source answers in the end: every
\* client that Quotes uses has a timeout.
QuoteFairness ==
    /\ \A f \in Flights :
        WF_quoteVars(Expire(f)) /\ WF_quoteVars(LateAnswer(f)) /\ WF_quoteVars(Release(f))
    /\ \A a \in Askers : WF_quoteVars(FollowerAnswered(a) \/ FollowerExpires(a))

QuoteSpec == QuoteInit /\ [][QuoteNext]_quoteVars /\ QuoteFairness

------------------------------------------------------------------------------
Served == Candidates \union {Snapshot}

FlightRecords ==
    [step : {"unused", "collecting", "retained", "closed", "released"},
     got : SUBSET Candidates, late : BOOLEAN, result : Served]

AskerRecords ==
    [step : {"idle", "leading", "following", "answered"},
     flight : Flights \union {0}, answer : Served]

\* The domains of the flights and calls.
QuoteTypeOK ==
    /\ flight \in [Flights -> FlightRecords]
    /\ key \in Flights \union {0}
    /\ asker \in [Askers -> AskerRecords]

\* How good quotes are: live ones first, of two equal ones the primary's.
Rank(c) ==
    CASE c = Candidate("primary", "fresh") -> 5
      [] c = Candidate("secondary", "fresh") -> 4
      [] c = Candidate("primary", "stale") -> 3
      [] c = Candidate("secondary", "stale") -> 2
      [] c = Snapshot -> 1
      [] OTHER -> 0

KeyHeld ==
    \A f \in Flights : key = f <=> flight[f].step \in {"collecting", "retained", "closed"}

Led ==
    \A f \in Flights : flight[f].step = "collecting" =>
        \E a \in Askers : asker[a].step = "leading" /\ asker[a].flight = f

Best(r) == Rank(r.result) >= 1 /\ \A c \in r.got : Rank(r.result) >= Rank(c)

\* The primary source has answered or was not needed.
Settled(r) ==
    \/ Answered(r.got, "primary")
    \/ r.late
    \/ r.result = Candidate("secondary", "fresh")

\* Untrusted quotes are never served and nothing better that came in time is
\* thrown away; the key names the one flight that is still at work, somebody
\* leads a flight that collects, and the key is given back before the primary
\* source has answered only when fresh quotes of the other source were served.
QuotesTrusted ==
    /\ KeyHeld
    /\ Led
    /\ \A f \in Flights :
        /\ flight[f].step \in {"retained", "closed", "released"} => Best(flight[f])
        /\ flight[f].step = "released" => Settled(flight[f])
    /\ \A a \in Askers : Rank(asker[a].answer) >= 1

\* Every caller is answered and the key is given back.
QuotesAnswered ==
    /\ \A a \in Askers :
        asker[a].step \in {"leading", "following"} ~> asker[a].step = "answered"
    /\ \A f \in Flights : key = f ~> key # f
==============================================================================
