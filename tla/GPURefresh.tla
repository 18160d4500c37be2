------------------------------ MODULE GPURefresh ------------------------------
(***************************************************************************)
(* The GPU price service of app/backend/internal/gpupricing/service.go:    *)
(* refreshes asked for by the scheduler and by HTTP requests fan out to    *)
(* the providers, store their quotes, publish them and prune the history,  *)
(* while an administrator may replace the provider set and the process may *)
(* restart.                                                                *)
(*                                                                         *)
(* A step ends where the service's mutex is released or a provider or the  *)
(* database answers.  The quotes of one provider and refresh are           *)
(* represented by the instant they were observed at; 0 is none.            *)
(***************************************************************************)
EXTENDS Integers, FiniteSetsExt

CONSTANTS
    Providers,       \* the providers, as numbers in the order they are asked
    Requests,        \* HTTP requests that may refresh at the same time
    MaxGeneration,   \* bound on the replacements of the provider set
    MaxTime,         \* bound on the clock
    MaxRestarts,     \* bound on the restarts
    Retentions,      \* how long a configuration may ask to keep observations
    StaleFor         \* how long an observation counts as live

ASSUME RefreshConstants ==
    /\ Providers \subseteq Nat
    /\ Retentions \subseteq Nat \ {0} /\ Retentions # {}
    /\ {MaxGeneration, MaxTime} \subseteq Nat \ {0}
    /\ {MaxRestarts, StaleFor} \subseteq Nat

VARIABLES
    time,        \* the clock, from 1
    refreshing,  \* the flag that admits one refresh
    generation,  \* which provider set is installed
    configured,  \* the providers of that set that have credentials
    retention,   \* how long that configuration keeps observations
    status,      \* statuses, and the generation that was last asked
    current,     \* the observation readers see of each provider
    history,     \* the stored observations
    runs,        \* the refresh calls in flight
    scheduler,   \* the scheduler's loop
    restarts     \* restarts so far

vars == <<time, refreshing, generation, configured, retention, status, current, history,
          runs, scheduler, restarts>>

Scheduler == "scheduler"
Refreshers == Requests \cup {Scheduler}

NoRun == [step |-> "idle", retryOnly |-> FALSE, at |-> 0, generation |-> 0,
          configured |-> {}, todo |-> {}, fetching |-> {}, stored |-> {}, updated |-> FALSE]

\* A scheduler that has just started; full is set when nextFullRefresh is.
NewLoop == [step |-> "deciding", failing |-> FALSE, full |-> FALSE, wake |-> FALSE]

\* Statuses from the configuration and the observations loaded at start.
LoadedStatus(set, observed) ==
    [p \in Providers |->
        [state |-> IF p \notin set THEN "unconfigured"
                   ELSE IF observed[p] # 0 THEN "stale" ELSE "unavailable",
         error |-> FALSE, asked |-> 0]]

Newest(S) == IF S = {} THEN 0 ELSE Max(S)

Init ==
    /\ time = 1
    /\ refreshing = FALSE
    /\ generation = 1
    /\ configured \in SUBSET Providers /\ retention \in Retentions
    /\ history = [p \in Providers |-> {}]
    /\ current = [p \in Providers |-> 0]
    /\ status = LoadedStatus(configured, current)
    /\ runs = [r \in Refreshers |-> NoRun]
    /\ scheduler = NewLoop
    /\ restarts = 0
-----------------------------------------------------------------------------
(* One refresh *)

\* refresh: a second one is refused while the flag is set.
Admit(r, retryOnly) ==
    /\ ~refreshing
    /\ refreshing' = TRUE
    /\ runs' = [runs EXCEPT ![r] = [NoRun EXCEPT !.step = "starting", !.retryOnly = retryOnly]]

\* It reads the clock and the provider set.
Snapshot(r) ==
    /\ runs[r].step = "starting"
    /\ runs' = [runs EXCEPT ![r] = [@ EXCEPT !.step = "fetching", !.at = time,
                   !.generation = generation, !.configured = configured, !.todo = Providers]]
    /\ UNCHANGED <<time, refreshing, generation, configured, retention, status, current, history, scheduler, restarts>>

NeedsRetry(p) == status[p].error \/ status[p].state = "unavailable"

\* Faulty: providers without credentials are asked too.
LaunchAll(r) ==
    LET run == runs[r]
        p == Min(run.todo)
        ask == run.retryOnly => NeedsRetry(p)
    IN  /\ run.step = "fetching" /\ run.todo # {}
        /\ runs' = [runs EXCEPT ![r].todo = @ \ {p},
                                ![r].fetching = IF ask THEN @ \cup {p} ELSE @]
        /\ status' = [status EXCEPT ![p] =
               IF ask THEN [state |-> "refreshing", error |-> FALSE, asked |-> run.generation] ELSE @]
        /\ UNCHANGED <<time, refreshing, generation, configured, retention, current, history, scheduler, restarts>>

\* Faulty: every refresh asks failed providers only.
LaunchFailedOnly(r) ==
    LET run == runs[r]
        p == Min(run.todo)
        ask == p \in run.configured /\ NeedsRetry(p)
    IN  /\ run.step = "fetching" /\ run.todo # {}
        /\ runs' = [runs EXCEPT ![r].todo = @ \ {p},
                                ![r].fetching = IF ask THEN @ \cup {p} ELSE @]
        /\ status' = [status EXCEPT ![p] =
               IF p \notin run.configured THEN [@ EXCEPT !.state = "unconfigured", !.error = FALSE]
               ELSE IF ask THEN [state |-> "refreshing", error |-> FALSE, asked |-> run.generation]
               ELSE @]
        /\ UNCHANGED <<time, refreshing, generation, configured, retention, current, history, scheduler, restarts>>

\* The next provider is marked and asked, unless it has no credentials or a
\* retry need not ask it.
Launch(r) ==
    LET run == runs[r]
        p == Min(run.todo)
        ask == p \in run.configured /\ (run.retryOnly => NeedsRetry(p))
    IN  /\ run.step = "fetching" /\ run.todo # {}
        /\ runs' = [runs EXCEPT ![r].todo = @ \ {p},
                                ![r].fetching = IF ask THEN @ \cup {p} ELSE @]
        /\ status' = [status EXCEPT ![p] =
               IF p \notin run.configured THEN [@ EXCEPT !.state = "unconfigured", !.error = FALSE]
               ELSE IF ask THEN [state |-> "refreshing", error |-> FALSE, asked |-> run.generation]
               ELSE @]
        /\ UNCHANGED <<time, refreshing, generation, configured, retention, current, history, scheduler, restarts>>

Collecting(r) == runs[r].step = "fetching" /\ runs[r].todo = {} /\ runs[r].stored = {}

\* Faulty: an answer the database refuses counts as stored.
StoreUnchecked(r, p) ==
    /\ Collecting(r)
    /\ p \in runs[r].fetching
    /\ history' \in {history, [history EXCEPT ![p] = @ \cup {runs[r].at}]}
    /\ runs' = [runs EXCEPT ![r].fetching = @ \ {p}, ![r].stored = {p}]
    /\ UNCHANGED <<time, refreshing, generation, configured, retention, status, current, scheduler, restarts>>

\* An answer arrives and is stored.
Store(r, p) ==
    /\ Collecting(r)
    /\ p \in runs[r].fetching
    /\ history' = [history EXCEPT ![p] = @ \cup {runs[r].at}]
    /\ runs' = [runs EXCEPT ![r].fetching = @ \ {p}, ![r].stored = {p}]
    /\ UNCHANGED <<time, refreshing, generation, configured, retention, status, current, scheduler, restarts>>

\* The stored answer becomes what readers see.
Publish(r, p) ==
    /\ p \in runs[r].stored
    /\ current' = [current EXCEPT ![p] = runs[r].at]
    /\ status' = [status EXCEPT ![p] = [@ EXCEPT !.state = "live", !.error = FALSE]]
    /\ runs' = [runs EXCEPT ![r].stored = {}, ![r].updated = TRUE]
    /\ UNCHANGED <<time, refreshing, generation, configured, retention, history, scheduler, restarts>>

\* A provider fails, times out, sends nothing valid or cannot be stored: the
\* previous observation stays and is marked stale.
Fail(r, p) ==
    /\ Collecting(r)
    /\ p \in runs[r].fetching
    /\ status' = [status EXCEPT ![p] =
           [@ EXCEPT !.error = TRUE, !.state = IF current[p] # 0 THEN "stale" ELSE "unavailable"]]
    /\ runs' = [runs EXCEPT ![r].fetching = @ \ {p}]
    /\ UNCHANGED <<time, refreshing, generation, configured, retention, current, history, scheduler, restarts>>

\* All answers are in: the flag is cleared.
Finish(r) ==
    /\ Collecting(r) /\ runs[r].fetching = {}
    /\ refreshing' = FALSE
    /\ runs' = [runs EXCEPT ![r].step = "finished"]
    /\ UNCHANGED <<time, generation, configured, retention, status, current, history, scheduler, restarts>>

\* Current: another refresh may be asking the provider again by now.
ShownLive(p) ==
    /\ current[p] # 0 /\ time - current[p] <= StaleFor
    /\ ~status[p].error /\ ~(refreshing /\ status[p].state = "refreshing")

\* The refresh counts as updated when it got answers and all providers with
\* credentials are shown live.
Look(r) ==
    /\ runs[r].step = "finished"
    /\ runs' = [runs EXCEPT ![r].step = "pruning",
                   ![r].updated = @ /\ configured # {} /\ \A p \in configured : ShownLive(p)]
    /\ UNCHANGED <<time, refreshing, generation, configured, retention, status, current, history, scheduler, restarts>>

Kept(S) == {at \in S : at >= time - retention}

\* Old observations are deleted, or the deletion fails; the call returns, and
\* its deferred function clears the flag again.
Return(r) ==
    /\ runs[r].step = "pruning"
    /\ refreshing' = FALSE
    /\ \E pruned \in BOOLEAN :
          /\ history' = IF pruned THEN [p \in Providers |-> Kept(history[p])] ELSE history
          /\ scheduler' = IF r # Scheduler THEN scheduler
                          ELSE [scheduler EXCEPT !.step = "waiting",
                                   !.full = runs[r].retryOnly => @,
                                   !.failing = ~(pruned /\ runs[r].updated)]
    /\ runs' = [runs EXCEPT ![r] = NoRun]
    /\ UNCHANGED <<time, generation, configured, retention, status, current, restarts>>
-----------------------------------------------------------------------------
(* The scheduler, the administrator, the process *)

\* A round of the scheduler: failed providers only while a retry is due before
\* the next full refresh.  Without credentials it only waits; refused because
\* another refresh is running, it counts a failure.
Decide(beforeFull) ==
    LET retryOnly == scheduler.failing /\ scheduler.full /\ beforeFull
    IN  /\ scheduler.step = "deciding"
        /\ \/ /\ configured = {}
              /\ scheduler' = [scheduler EXCEPT !.step = "waiting", !.failing = FALSE, !.full = FALSE]
              /\ UNCHANGED <<refreshing, runs>>
           \/ /\ configured # {} /\ refreshing
              /\ scheduler' = [scheduler EXCEPT !.step = "waiting", !.failing = TRUE,
                                                !.full = retryOnly => @]
              /\ UNCHANGED <<refreshing, runs>>
           \/ /\ configured # {}
              /\ Admit(Scheduler, retryOnly)
              /\ scheduler' = [scheduler EXCEPT !.step = "refreshing"]
        /\ UNCHANGED <<time, generation, configured, retention, status, current, history, restarts>>

\* The wait ends by its timer, or because the providers were replaced.
Wake ==
    /\ scheduler.step = "waiting"
    /\ \/ scheduler.wake /\ scheduler' = NewLoop
       \/ scheduler' = [scheduler EXCEPT !.step = "deciding"]
    /\ UNCHANGED <<time, refreshing, generation, configured, retention, status, current, history, runs, restarts>>

Request(r) ==
    /\ runs[r].step = "idle"
    /\ Admit(r, FALSE)
    /\ UNCHANGED <<time, generation, configured, retention, status, current, history, scheduler, restarts>>

\* Reconfigure: new credentials and perhaps another retention, refused while the
\* flag is set.
Reconfigure(set, kept) ==
    /\ ~refreshing
    /\ generation < MaxGeneration
    /\ generation' = generation + 1
    /\ configured' = set /\ retention' = kept
    /\ status' = [p \in Providers |->
                     [LoadedStatus(set, current)[p] EXCEPT !.asked = status[p].asked]]
    /\ scheduler' = [scheduler EXCEPT !.wake = TRUE]
    /\ UNCHANGED <<time, refreshing, current, history, runs, restarts>>

Tick ==
    /\ time < MaxTime
    /\ time' = time + 1
    /\ UNCHANGED <<refreshing, generation, configured, retention, status, current, history, runs, scheduler, restarts>>

\* The process stops anywhere and starts again from the stored observations,
\* perhaps with another retention in its environment.
Restart ==
    /\ restarts < MaxRestarts
    /\ restarts' = restarts + 1
    /\ refreshing' = FALSE
    /\ current' = [p \in Providers |-> Newest(history[p])]
    /\ status' = LoadedStatus(configured, current')
    /\ runs' = [r \in Refreshers |-> NoRun]
    /\ scheduler' = NewLoop
    /\ retention' \in Retentions
    /\ UNCHANGED <<time, generation, configured, history>>

Step(r) == Snapshot(r) \/ Launch(r) \/ Finish(r) \/ Look(r) \/ Return(r)
           \/ \E p \in Providers : Store(r, p) \/ Publish(r, p) \/ Fail(r, p)

Next ==
    \/ \E r \in Refreshers : Step(r)
    \/ \E r \in Requests : Request(r)
    \/ (\E beforeFull \in BOOLEAN : Decide(beforeFull)) \/ Wake
    \/ \E set \in SUBSET Providers, kept \in Retentions : Reconfigure(set, kept)
    \/ Tick \/ Restart

\* Every refresh goes on (providers and the database answer or time out), the
\* scheduler's timer fires, and the time of a full refresh comes.
Fairness ==
    /\ \A r \in Refreshers : WF_vars(Step(r))
    /\ WF_vars(\E beforeFull \in BOOLEAN : Decide(beforeFull)) /\ WF_vars(Wake)
    /\ SF_vars(Decide(FALSE))

Spec == Init /\ [][Next]_vars /\ Fairness
-----------------------------------------------------------------------------
(* Properties *)

\* The columns have their domains, and only providers with credentials are asked.
TypeOK ==
    /\ time \in 1..MaxTime /\ generation \in 1..MaxGeneration /\ restarts \in 0..MaxRestarts
    /\ refreshing \in BOOLEAN /\ configured \subseteq Providers /\ retention \in Retentions
    /\ status \in [Providers -> [state : {"unconfigured", "unavailable", "refreshing", "stale", "live"},
                                 error : BOOLEAN, asked : 0..MaxGeneration]]
    /\ current \in [Providers -> 0..MaxTime]
    /\ history \in [Providers -> SUBSET (1..MaxTime)]
    /\ runs \in [Refreshers -> [step : {"idle", "starting", "fetching", "finished", "pruning"},
                    retryOnly : BOOLEAN, at : 0..MaxTime, generation : 0..MaxGeneration,
                    configured : SUBSET Providers, todo : SUBSET Providers,
                    fetching : SUBSET Providers, stored : SUBSET Providers, updated : BOOLEAN]]
    /\ \A r \in Refreshers : runs[r].fetching \cup runs[r].stored \subseteq runs[r].configured
    /\ scheduler \in [step : {"deciding", "refreshing", "waiting"}, failing : BOOLEAN,
                      full : BOOLEAN, wake : BOOLEAN]

\* What readers see survives a crash: every published observation is in the
\* history a restart loads, unless it has outlived a retention that is or was in
\* force, at least the shortest one, whatever other refreshes and prunings do.
CurrentIsStored == \A p \in Providers :
    current[p] # 0 => current[p] \in history[p] \/ current[p] < time - Min(Retentions)

\* "It is intentionally rejected while a refresh is using the old set": the
\* comment of Reconfigure promises that a refresh works with the installed set.
RefreshUsesInstalledSet == \A r \in Refreshers :
    runs[r].step = "fetching" => runs[r].generation = generation

\* New credentials are used: after a replacement every provider of the set is
\* asked with it, unless the set is replaced again.
NewSetAsked == \A g \in 1..MaxGeneration :
    generation = g ~> generation # g \/ \A p \in configured : status[p].asked = g
=============================================================================
