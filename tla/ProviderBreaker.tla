---------------------------- MODULE ProviderBreaker ----------------------------
(***************************************************************************)
(* The circuit breaker of one quote provider                               *)
(* (providerAllowed and providerResult in                                  *)
(* app/backend/internal/market/live.go).  The workers of a refresh ask it  *)
(* before each batch and report each batch's result, so answers of batches *)
(* sent before the breaker opened arrive while it is open.                 *)
(***************************************************************************)
EXTENDS Integers

CONSTANTS
    Threshold,    \* failures that open the breaker (3)
    Cooldown,     \* ticks of the cooldown (2 minutes)
    MaxBatches    \* bound on the batches in flight, the workers of the refreshes

ASSUME BreakerConstants == {Threshold, Cooldown, MaxBatches} \subseteq Nat \ {0}

VARIABLES
    breaker,   \* failures in a row, whether openUntil is set, the ticks left to it
    batches,   \* batches sent and not yet answered
    quiet      \* ticks since the last probe or failure while open, at most Cooldown

breakerVars == <<breaker, batches, quiet>>

Lower(a, b) == IF a < b THEN a ELSE b

BreakerInit ==
    /\ breaker = [failures |-> 0, open |-> FALSE, left |-> 0]
    /\ batches = 0
    /\ quiet = Cooldown

\* Faulty: a half-open breaker lets every batch through until one is answered.
AdmitUnreserved ==
    /\ batches < MaxBatches
    /\ batches' = batches + 1
    /\ breaker.open => breaker.left = 0
    /\ quiet' = IF breaker.open THEN 0 ELSE quiet
    /\ UNCHANGED breaker

\* providerAllowed answers TRUE: a probe reserves the next cooldown window.
Admit ==
    /\ batches < MaxBatches
    /\ batches' = batches + 1
    /\ \/ ~breaker.open /\ UNCHANGED <<breaker, quiet>>
       \/ /\ breaker.open
          /\ breaker.left = 0
          /\ breaker' = [breaker EXCEPT !.left = Cooldown]
          /\ quiet' = 0

\* Faulty: a success closes the breaker but the count goes on.
SucceededKeepsCount ==
    /\ batches > 0
    /\ batches' = batches - 1
    /\ breaker' = [breaker EXCEPT !.open = FALSE, !.left = 0]
    /\ UNCHANGED quiet

Succeeded ==
    /\ batches > 0
    /\ batches' = batches - 1
    /\ breaker' = [failures |-> 0, open |-> FALSE, left |-> 0]
    /\ UNCHANGED quiet

\* Failures beyond the threshold make no difference and are not counted.
Failed ==
    /\ batches > 0
    /\ batches' = batches - 1
    /\ breaker' = IF breaker.failures + 1 >= Threshold
                  THEN [failures |-> Threshold, open |-> TRUE, left |-> Cooldown]
                  ELSE [breaker EXCEPT !.failures = @ + 1]
    /\ quiet' = IF breaker'.open THEN 0 ELSE quiet

Passes ==
    /\ breaker.left > 0 \/ quiet < Cooldown
    /\ breaker' = [breaker EXCEPT !.left = IF @ > 0 THEN @ - 1 ELSE 0]
    /\ quiet' = Lower(quiet + 1, Cooldown)
    /\ UNCHANGED batches

BreakerNext == Admit \/ Succeeded \/ Failed \/ Passes

\* Time passes.
BreakerFairness == WF_breakerVars(Passes)

BreakerSpec == BreakerInit /\ [][BreakerNext]_breakerVars /\ BreakerFairness

------------------------------------------------------------------------------
\* The domains of the breaker; it is open exactly when Threshold batches in a
\* row have failed, and never waits longer than a cooldown.
BreakerTypeOK ==
    /\ breaker \in [failures : 0..Threshold, open : BOOLEAN, left : 0..Cooldown]
    /\ breaker.open <=> breaker.failures = Threshold
    /\ batches \in 0..MaxBatches
    /\ quiet \in 0..Cooldown

\* A provider that keeps failing is left alone: while the breaker is open no
\* batch is sent within a cooldown of the last probe or the last failure, even
\* when batches sent earlier are answered in between.
BreakerSpares ==
    batches' > batches /\ breaker.open => quiet = Cooldown

BreakerSpared == [][BreakerSpares]_breakerVars

\* An open breaker lets a probe through in the end.
BreakerProbes == breaker.open ~> ~breaker.open \/ breaker.left = 0
================================================================================
