------------------------------ MODULE MCServices ------------------------------
(* The services that the backend's handlers share, one at a time, for TLC. *)
EXTENDS QuoteFlight, WebSocketHub, ETFRefresh, ProviderBreaker

VARIABLE service   \* the service of this behaviour

Init ==
    /\ service \in {"quotes", "hub", "etf", "breaker"}
    /\ QuoteInit
    /\ HubInit
    /\ ETFInit
    /\ BreakerInit

Next ==
    \/ /\ service = "quotes" /\ QuoteNext
       /\ UNCHANGED <<service, hubVars, etfVars, breakerVars>>
    \/ /\ service = "hub" /\ HubNext
       /\ UNCHANGED <<service, quoteVars, etfVars, breakerVars>>
    \/ /\ service = "etf" /\ ETFNext
       /\ UNCHANGED <<service, quoteVars, hubVars, breakerVars>>
    \/ /\ service = "breaker" /\ BreakerNext
       /\ UNCHANGED <<service, quoteVars, hubVars, etfVars>>

Spec ==
    /\ Init
    /\ [][Next]_<<service, quoteVars, hubVars, etfVars, breakerVars>>
    /\ QuoteFairness
    /\ HubFairness
    /\ ETFFairness
    /\ BreakerFairness

\* Every service keeps its state in its domain.
ServicesTypeOK == QuoteTypeOK /\ HubTypeOK /\ ETFTypeOK /\ BreakerTypeOK

\* Callers of the quote gateway are answered and the key is given back;
\* broadcasts end and removed clients leave nothing behind; an accepted ETF
\* trigger is taken; an open breaker gets to a probe.
NothingWaitsForever ==
    QuotesAnswered /\ HubNeverStuck /\ TriggersTaken /\ BreakerProbes
===============================================================================
