-------------------------- MODULE GPURefresh_proofs --------------------------
(***************************************************************************)
(* What the GPU price service guarantees for any set of providers and any  *)
(* number of requests, replacements and restarts, although neither its     *)
(* flag nor its mutex keeps two refreshes apart: a refresh asks only the   *)
(* providers it found configured, and an observation that was published    *)
(* is in the history that a restart loads until it has outlived the        *)
(* shortest retention of a configuration.                                  *)
(***************************************************************************)
EXTENDS GPURefresh, Aggregates

StatusRecords ==
    [state : {"unconfigured", "unavailable", "refreshing", "stale", "live"},
     error : BOOLEAN, asked : 0..MaxGeneration]
RunRecords ==
    [step : {"idle", "starting", "fetching", "finished", "pruning"},
     retryOnly : BOOLEAN, at : 0..MaxTime, generation : 0..MaxGeneration,
     configured : SUBSET Providers, todo : SUBSET Providers,
     fetching : SUBSET Providers, stored : SUBSET Providers, updated : BOOLEAN]
LoopRecords ==
    [step : {"deciding", "refreshing", "waiting"}, failing : BOOLEAN,
     full : BOOLEAN, wake : BOOLEAN]

\* What every configuration keeps.
Shortest == Min(Retentions)

\* An observation that is stored, or was old enough to be pruned.
StoredOrOld(p, at) == at \in history[p] \/ at < time - Shortest

\* A run that may still store an answer has read the clock; it asks only
\* providers it found configured; what it has stored and not yet published has
\* not been pruned before its time.
RunOK(run) ==
    /\ run.fetching \cup run.stored \subseteq run.configured
    /\ run.step = "fetching" => run.at \in 1..MaxTime
    /\ run.fetching \cup run.stored # {} => run.step = "fetching"
    /\ \A p \in run.stored : StoredOrOld(p, run.at)

\* The inductive invariant.
RefreshInv == TypeOK /\ CurrentIsStored /\ \A r \in Refreshers : RunOK(runs[r])

\* The bounds, one by one.
LEMMA Bounds ==
    /\ MaxTime \in Nat /\ MaxTime >= 1 /\ MaxGeneration \in Nat /\ MaxGeneration >= 1
    /\ MaxRestarts \in Nat /\ Retentions \subseteq Nat
BY RefreshConstants

\* No configuration keeps observations for less than the shortest retention.
LEMMA ShortestLeast == Shortest \in Nat /\ \A kept \in Retentions : kept \in Nat /\ Shortest <= kept
<1>1. Retentions \in SUBSET Nat /\ Retentions # {}
  BY RefreshConstants
<1> QED BY <1>1, MinIsMember DEF Shortest

\* The types as the proofs use them.
LEMMA Types ==
    TypeOK <=>
        /\ time \in 1..MaxTime /\ generation \in 1..MaxGeneration /\ restarts \in 0..MaxRestarts
        /\ refreshing \in BOOLEAN /\ configured \subseteq Providers /\ retention \in Retentions
        /\ status \in [Providers -> StatusRecords]
        /\ current \in [Providers -> 0..MaxTime]
        /\ history \in [Providers -> SUBSET (1..MaxTime)]
        /\ runs \in [Refreshers -> RunRecords]
        /\ \A r \in Refreshers : runs[r].fetching \cup runs[r].stored \subseteq runs[r].configured
        /\ scheduler \in LoopRecords
BY DEF TypeOK, StatusRecords, RunRecords, LoopRecords
-----------------------------------------------------------------------------
(* The start *)

\* A call that does not run, and a scheduler that has just started.
LEMMA IdleTypes == NoRun \in RunRecords /\ NewLoop \in LoopRecords /\ RunOK(NoRun)
BY Bounds DEF NoRun, NewLoop, RunRecords, LoopRecords, RunOK

\* Statuses from a configuration and observations.
LEMMA LoadedTypes ==
    ASSUME NEW set \in SUBSET Providers, NEW observed \in [Providers -> 0..MaxTime]
    PROVE  LoadedStatus(set, observed) \in [Providers -> StatusRecords]
BY Bounds DEF LoadedStatus, StatusRecords

\* The service starts without observations and without calls.
LEMMA RefreshStarts == Init => RefreshInv
<1> SUFFICES ASSUME Init PROVE RefreshInv
  OBVIOUS
<1>1. current \in [Providers -> 0..MaxTime] /\ \A p \in Providers : current[p] = 0
  BY Bounds DEF Init
<1>2. status \in [Providers -> StatusRecords]
  BY <1>1, LoadedTypes DEF Init
<1>3. runs \in [Refreshers -> RunRecords] /\ \A r \in Refreshers : runs[r] = NoRun
  BY IdleTypes DEF Init
<1>4. TypeOK
  <2>1. \A r \in Refreshers : runs[r].fetching \cup runs[r].stored \subseteq runs[r].configured
    BY <1>3 DEF NoRun
  <2>2. history \in [Providers -> SUBSET (1..MaxTime)] /\ scheduler \in LoopRecords
    BY IdleTypes DEF Init
  <2>3. time \in 1..MaxTime /\ generation \in 1..MaxGeneration /\ restarts \in 0..MaxRestarts
    <3>1. time = 1 /\ generation = 1 /\ restarts = 0
      BY DEF Init
    <3> QED BY <3>1, Bounds
  <2>4. refreshing \in BOOLEAN /\ configured \subseteq Providers /\ retention \in Retentions
    BY DEF Init
  <2> QED BY <1>1, <1>2, <1>3, <2>1, <2>2, <2>3, <2>4, Types
<1>5. CurrentIsStored
  BY <1>1 DEF CurrentIsStored
<1> QED BY <1>3, <1>4, <1>5, IdleTypes DEF RefreshInv
-----------------------------------------------------------------------------
(* The steps *)

\* A step keeps the invariant when the calls that move are left as they may be,
\* observations are only pruned when they are old, and only stored ones are
\* published.
LEMMA StepKeeps ==
    ASSUME RefreshInv,
           runs' \in [Refreshers -> RunRecords],
           \A q \in Refreshers : runs'[q] = runs[q] \/ RunOK(runs[q])',
           status' \in [Providers -> StatusRecords],
           history' \in [Providers -> SUBSET (1..MaxTime)],
           \A p \in Providers : \A at \in history[p] :
               at \in history'[p] \/ at < time' - Shortest,
           current' \in [Providers -> 0..MaxTime],
           \A p \in Providers :
               current'[p] = current[p] \/ current'[p] = 0 \/ StoredOrOld(p, current[p])',
           time' \in 1..MaxTime, time <= time',
           generation' \in 1..MaxGeneration, restarts' \in 0..MaxRestarts,
           refreshing' \in BOOLEAN, configured' \subseteq Providers, retention' \in Retentions,
           scheduler' \in LoopRecords
    PROVE  RefreshInv'
<1>1. time \in Nat /\ time' \in Nat /\ Shortest \in Nat
  BY Types, Bounds, ShortestLeast DEF RefreshInv
<1>2. ASSUME NEW p \in Providers, NEW at \in Nat, StoredOrOld(p, at)
      PROVE  at \in history'[p] \/ at < time' - Shortest
  BY <1>1, <1>2 DEF StoredOrOld
<1>3. \A q \in Refreshers : RunOK(runs[q])'
  <2> SUFFICES ASSUME NEW q \in Refreshers, runs'[q] = runs[q] PROVE RunOK(runs[q])'
    OBVIOUS
  <2>1. RunOK(runs[q]) /\ runs[q] \in RunRecords
    BY Types DEF RefreshInv
  <2>2. \A p \in runs[q].stored : p \in Providers /\ runs[q].at \in Nat
    BY <2>1, Bounds DEF RunRecords
  <2> QED BY <1>2, <2>1, <2>2 DEF RunOK, StoredOrOld
<1>4. TypeOK'
  <2>1. \A q \in Refreshers : runs'[q].fetching \cup runs'[q].stored \subseteq runs'[q].configured
    BY <1>3 DEF RunOK
  <2> QED BY <2>1 DEF TypeOK, StatusRecords, RunRecords, LoopRecords
<1>5. CurrentIsStored'
  <2> SUFFICES ASSUME NEW p \in Providers, current'[p] # 0
               PROVE  current'[p] \in history'[p] \/ current'[p] < time' - Shortest
    BY DEF CurrentIsStored, Shortest
  <2>1. CASE current'[p] = current[p]
    <3>1. current[p] \in Nat
      BY Types, Bounds DEF RefreshInv
    <3> QED BY <1>2, <2>1, <3>1 DEF RefreshInv, CurrentIsStored, StoredOrOld, Shortest
  <2>2. CASE StoredOrOld(p, current[p])'
    BY <2>2 DEF StoredOrOld
  <2> QED BY <2>1, <2>2
<1> QED BY <1>3, <1>4, <1>5 DEF RefreshInv

\* When one call moves and no observation is pruned or published, it is enough
\* to look at that call.
LEMMA OneRunMoves ==
    ASSUME RefreshInv, NEW r \in Refreshers, NEW run \in RunRecords,
           runs' = [runs EXCEPT ![r] = run],
           RunOK(run)',
           status' \in [Providers -> StatusRecords],
           history' \in [Providers -> SUBSET (1..MaxTime)],
           \A p \in Providers : history[p] \subseteq history'[p],
           refreshing' \in BOOLEAN, scheduler' \in LoopRecords,
           UNCHANGED <<time, generation, configured, retention, current, restarts>>
    PROVE  RefreshInv'
<1>1. /\ runs' \in [Refreshers -> RunRecords] /\ runs'[r] = run
      /\ \A q \in Refreshers \ {r} : runs'[q] = runs[q]
  BY Types DEF RefreshInv
<1>2. \A q \in Refreshers : runs'[q] = runs[q] \/ RunOK(runs[q])'
  BY <1>1 DEF RunOK, StoredOrOld
<1>3. /\ time \in 1..MaxTime /\ generation \in 1..MaxGeneration /\ restarts \in 0..MaxRestarts
      /\ configured \subseteq Providers /\ current \in [Providers -> 0..MaxTime]
      /\ retention \in Retentions
  BY Types DEF RefreshInv
<1>4. time <= time'
  BY <1>3
<1> QED BY <1>1, <1>2, <1>3, <1>4, StepKeeps

\* What is known of a call and of the service before a step.
LEMMA Known ==
    ASSUME RefreshInv, NEW r \in Refreshers
    PROVE  /\ runs[r] \in RunRecords /\ RunOK(runs[r])
           /\ time \in 1..MaxTime /\ time \in Nat /\ retention \in Retentions
           /\ status \in [Providers -> StatusRecords]
           /\ history \in [Providers -> SUBSET (1..MaxTime)]
           /\ scheduler \in LoopRecords /\ refreshing \in BOOLEAN
           /\ configured \subseteq Providers /\ generation \in 1..MaxGeneration
BY Types, Bounds DEF RefreshInv

\* A call that was idle and is admitted.
LEMMA AdmitKeeps ==
    ASSUME RefreshInv, NEW r \in Refreshers, NEW retryOnly \in BOOLEAN, Admit(r, retryOnly),
           scheduler' \in LoopRecords,
           UNCHANGED <<time, generation, configured, retention, status, current, history, restarts>>
    PROVE  RefreshInv'
<1> DEFINE run == [NoRun EXCEPT !.step = "starting", !.retryOnly = retryOnly]
<1>1. run \in RunRecords /\ run.stored = {} /\ run.fetching = {} /\ run.step = "starting"
  <2>1. NoRun \in RunRecords
    BY IdleTypes
  <2>2. NoRun.stored = {} /\ NoRun.fetching = {}
    BY DEF NoRun
  <2> QED BY <2>1, <2>2 DEF RunRecords
<1>2. runs' = [runs EXCEPT ![r] = run] /\ refreshing' = TRUE
  BY DEF Admit
<1> HIDE DEF run
<1>3. RunOK(run)'
  BY <1>1 DEF RunOK, RunRecords
<1> QED BY <1>1, <1>2, <1>3, Known, OneRunMoves

\* The clock and the provider set are read.
LEMMA SnapshotKeeps ==
    ASSUME RefreshInv, NEW r \in Refreshers, Snapshot(r)
    PROVE  RefreshInv'
<1>1. PICK run :
        run = [runs[r] EXCEPT !.step = "fetching", !.at = time, !.generation = generation,
                              !.configured = configured, !.todo = Providers]
  OBVIOUS
<1>2. runs[r].step = "starting" /\ runs' = [runs EXCEPT ![r] = run]
  BY <1>1 DEF Snapshot
<1>3. run \in RunRecords /\ run.at \in 1..MaxTime
  <2>1. /\ runs[r] \in RunRecords /\ time \in 0..MaxTime /\ generation \in 0..MaxGeneration
        /\ configured \subseteq Providers /\ time \in 1..MaxTime
    BY Known
  <2> QED BY <1>1, <2>1 DEF RunRecords
<1>4. RunOK(run)'
  BY <1>1, <1>2, <1>3, Known DEF RunOK, StoredOrOld, Snapshot, RunRecords
<1>5. UNCHANGED <<time, refreshing, generation, configured, retention, status, current, history, scheduler, restarts>>
  BY DEF Snapshot
<1> QED BY <1>2, <1>3, <1>4, <1>5, Known, OneRunMoves

\* The next provider is asked only if it was configured.
LEMMA LaunchKeeps ==
    ASSUME RefreshInv, NEW r \in Refreshers, Launch(r)
    PROVE  RefreshInv'
<1>1. PICK p \in Providers : p = Min(runs[r].todo)
  <2>1. runs[r].todo \in SUBSET Nat /\ runs[r].todo # {} /\ runs[r].todo \subseteq Providers
    BY Known, RefreshConstants DEF Launch, RunRecords
  <2> QED BY <2>1, MinIsMember
<1>2. PICK ask \in BOOLEAN :
        ask <=> p \in runs[r].configured /\ (runs[r].retryOnly => NeedsRetry(p))
  OBVIOUS
<1>3. PICK run :
        run = [runs[r] EXCEPT !.todo = @ \ {p},
                              !.fetching = IF ask THEN @ \cup {p} ELSE @]
  OBVIOUS
<1>4. /\ runs[r].step = "fetching"
      /\ runs' = [runs EXCEPT ![r].todo = @ \ {p},
                              ![r].fetching = IF ask THEN @ \cup {p} ELSE @]
      /\ status' = [status EXCEPT ![p] =
             IF p \notin runs[r].configured THEN [@ EXCEPT !.state = "unconfigured", !.error = FALSE]
             ELSE IF ask THEN [state |-> "refreshing", error |-> FALSE, asked |-> runs[r].generation]
             ELSE @]
      /\ UNCHANGED <<time, refreshing, generation, configured, retention, current, history, scheduler, restarts>>
  BY <1>1, <1>2 DEF Launch
<1>5. runs' = [runs EXCEPT ![r] = run]
  BY <1>3, <1>4
<1>6. run \in RunRecords
  BY <1>3, Known DEF RunRecords
<1>7. RunOK(run)'
  <2>1. /\ run.fetching \cup run.stored \subseteq run.configured
        /\ run.step = "fetching" /\ run.at = runs[r].at /\ run.stored = runs[r].stored
    BY <1>2, <1>3, <1>4, Known DEF RunOK, RunRecords
  <2> QED BY <1>4, <2>1, Known DEF RunOK, StoredOrOld
<1>8. status' \in [Providers -> StatusRecords]
  <2>1. status[p] \in StatusRecords /\ runs[r].generation \in 0..MaxGeneration
    BY Known DEF RunRecords
  <2> QED BY <1>4, <2>1, Known DEF StatusRecords
<1> QED BY <1>4, <1>5, <1>6, <1>7, <1>8, Known, OneRunMoves

\* An answer is stored: it is in the history, until it is old.
LEMMA StoreKeeps ==
    ASSUME RefreshInv, NEW r \in Refreshers, NEW p \in Providers, Store(r, p)
    PROVE  RefreshInv'
<1>1. PICK run : run = [runs[r] EXCEPT !.fetching = @ \ {p}, !.stored = {p}]
  OBVIOUS
<1>2. PICK at : at = runs[r].at
  OBVIOUS
<1>3. /\ runs[r].step = "fetching" /\ p \in runs[r].fetching
      /\ runs' = [runs EXCEPT ![r] = run]
      /\ history' = [history EXCEPT ![p] = @ \cup {at}]
      /\ UNCHANGED <<time, refreshing, generation, configured, retention, status, current, scheduler, restarts>>
  BY <1>1, <1>2 DEF Store, Collecting
<1>4. at \in 1..MaxTime /\ run.at = at /\ run \in RunRecords
  BY <1>1, <1>2, <1>3, Known DEF RunOK, RunRecords
<1>5. /\ history' \in [Providers -> SUBSET (1..MaxTime)] /\ at \in history'[p]
      /\ \A q \in Providers : history[q] \subseteq history'[q]
  BY <1>3, <1>4, Known
<1>6. RunOK(run)'
  <2>1. /\ run.fetching \cup run.stored \subseteq run.configured
        /\ run.step = "fetching" /\ run.stored = {p}
    BY <1>1, <1>3, Known DEF RunOK, RunRecords
  <2> QED BY <1>4, <1>5, <2>1 DEF RunOK, StoredOrOld
<1> QED BY <1>3, <1>4, <1>5, <1>6, Known, OneRunMoves

\* A provider fails.
LEMMA FailKeeps ==
    ASSUME RefreshInv, NEW r \in Refreshers, NEW p \in Providers, Fail(r, p)
    PROVE  RefreshInv'
<1>1. PICK run : run = [runs[r] EXCEPT !.fetching = @ \ {p}]
  OBVIOUS
<1>2. /\ runs[r].step = "fetching" /\ p \in runs[r].fetching
      /\ runs' = [runs EXCEPT ![r] = run]
      /\ UNCHANGED <<time, refreshing, generation, configured, retention, current, history, scheduler, restarts>>
  BY <1>1 DEF Fail, Collecting
<1>3. run \in RunRecords
  BY <1>1, Known DEF RunRecords
<1>4. RunOK(run)'
  <2>1. /\ run.fetching \cup run.stored \subseteq run.configured
        /\ run.step = "fetching" /\ run.at = runs[r].at /\ run.stored = runs[r].stored
    BY <1>1, <1>2, Known DEF RunOK, RunRecords
  <2> QED BY <1>2, <2>1, Known DEF RunOK, StoredOrOld
<1>5. status' \in [Providers -> StatusRecords]
  <2>1. status[p] \in StatusRecords
    BY Known
  <2>2. [status[p] EXCEPT !.error = TRUE, !.state = IF current[p] # 0 THEN "stale" ELSE "unavailable"]
            \in StatusRecords
    BY <2>1 DEF StatusRecords
  <2> QED BY <2>2, Known DEF Fail
<1> QED BY <1>2, <1>3, <1>4, <1>5, Known, OneRunMoves

\* The flag is cleared, and the statuses are looked at.
LEMMA FinishKeeps ==
    ASSUME RefreshInv, NEW r \in Refreshers, Finish(r) \/ Look(r)
    PROVE  RefreshInv'
<1>1. PICK step \in {"finished", "pruning"}, updated \in BOOLEAN :
        /\ runs' = [runs EXCEPT ![r].step = step, ![r].updated = updated]
        /\ refreshing' \in BOOLEAN
        /\ runs[r].fetching = {} /\ runs[r].stored = {}
        /\ UNCHANGED <<time, generation, configured, retention, status, current, history, scheduler, restarts>>
  <2>1. CASE Finish(r)
    <3>1. runs' = [runs EXCEPT ![r].step = "finished", ![r].updated = runs[r].updated]
      BY <2>1, Types DEF Finish, RefreshInv, RunRecords
    <3>2. runs[r].updated \in BOOLEAN
      BY Known DEF RunRecords
    <3> QED BY <2>1, <3>1, <3>2 DEF Finish, Collecting
  <2>2. CASE Look(r)
    <3>1. runs[r].fetching = {} /\ runs[r].stored = {}
      BY <2>2, Known DEF RunOK, Look
    <3>2. PICK updated \in BOOLEAN :
            updated = (runs[r].updated /\ configured # {} /\ \A p \in configured : ShownLive(p))
      OBVIOUS
    <3> QED BY <2>2, <3>1, <3>2, Known DEF Look
  <2> QED BY <2>1, <2>2
<1>2. PICK run : run = [runs[r] EXCEPT !.step = step, !.updated = updated]
  OBVIOUS
<1>3. run \in RunRecords /\ run.fetching = {} /\ run.stored = {} /\ run.step = step
  BY <1>1, <1>2, Known DEF RunRecords
<1>4. runs' = [runs EXCEPT ![r] = run]
  BY <1>1, <1>2
<1>5. RunOK(run)'
  BY <1>1, <1>3 DEF RunOK, RunRecords
<1> QED BY <1>1, <1>3, <1>4, <1>5, Known, OneRunMoves

\* What is published has been stored.
LEMMA PublishKeeps ==
    ASSUME RefreshInv, NEW r \in Refreshers, NEW p \in Providers, Publish(r, p)
    PROVE  RefreshInv'
<1>1. PICK run : run = [runs[r] EXCEPT !.stored = {}, !.updated = TRUE]
  OBVIOUS
<1>2. PICK at : at = runs[r].at
  OBVIOUS
<1>3. /\ p \in runs[r].stored
      /\ runs' = [runs EXCEPT ![r] = run]
      /\ current' = [current EXCEPT ![p] = at]
      /\ UNCHANGED <<time, refreshing, generation, configured, retention, history, scheduler, restarts>>
  BY <1>1, <1>2 DEF Publish
<1>4. at \in 0..MaxTime /\ StoredOrOld(p, at)
  BY <1>2, <1>3, Known DEF RunOK, RunRecords
<1>5. run \in RunRecords
  BY <1>1, Known DEF RunRecords
<1>6. RunOK(run)'
  BY <1>1, <1>3, Known DEF RunOK, RunRecords
<1>7. /\ runs' \in [Refreshers -> RunRecords]
      /\ \A q \in Refreshers : runs'[q] = runs[q] \/ RunOK(runs[q])'
  <2>1. /\ runs' \in [Refreshers -> RunRecords] /\ runs'[r] = run
        /\ \A q \in Refreshers \ {r} : runs'[q] = runs[q]
    BY <1>3, <1>5, Types DEF RefreshInv
  <2> QED BY <1>6, <2>1 DEF RunOK, StoredOrOld
<1>8. status' \in [Providers -> StatusRecords]
  <2>1. [status[p] EXCEPT !.state = "live", !.error = FALSE] \in StatusRecords
    BY Known DEF StatusRecords
  <2> QED BY <2>1, Known DEF Publish
<1>9. /\ current' \in [Providers -> 0..MaxTime]
      /\ \A q \in Providers :
            current'[q] = current[q] \/ current'[q] = 0 \/ StoredOrOld(q, current[q])'
  <2>1. /\ current' \in [Providers -> 0..MaxTime] /\ current'[p] = at
        /\ \A q \in Providers \ {p} : current'[q] = current[q]
    BY <1>3, <1>4, Types DEF RefreshInv
  <2> QED BY <1>3, <1>4, <2>1 DEF StoredOrOld
<1>10. time <= time' /\ restarts' \in 0..MaxRestarts
  BY <1>3, Types DEF RefreshInv
<1> QED BY <1>3, <1>7, <1>8, <1>9, <1>10, Known, StepKeeps

\* Only observations that have outlived their retention are pruned.
LEMMA ReturnKeeps ==
    ASSUME RefreshInv, NEW r \in Refreshers, Return(r)
    PROVE  RefreshInv'
<1>1. PICK pruned \in BOOLEAN :
        /\ history' = IF pruned THEN [p \in Providers |-> Kept(history[p])] ELSE history
        /\ scheduler' = IF r # Scheduler THEN scheduler
                        ELSE [scheduler EXCEPT !.step = "waiting",
                                 !.full = runs[r].retryOnly => @,
                                 !.failing = ~(pruned /\ runs[r].updated)]
  BY DEF Return
<1>2. /\ refreshing' = FALSE
      /\ runs' = [runs EXCEPT ![r] = NoRun]
      /\ UNCHANGED <<time, generation, configured, retention, status, current, restarts>>
  BY DEF Return
<1>3. /\ runs' \in [Refreshers -> RunRecords]
      /\ \A q \in Refreshers : runs'[q] = runs[q] \/ RunOK(runs[q])'
  <2>1. /\ runs' \in [Refreshers -> RunRecords] /\ runs'[r] = NoRun
        /\ \A q \in Refreshers \ {r} : runs'[q] = runs[q]
    BY <1>2, IdleTypes, Types DEF RefreshInv
  <2>2. RunOK(NoRun)'
    BY DEF RunOK, NoRun
  <2> QED BY <2>1, <2>2 DEF RunOK, StoredOrOld
<1>4. \A p \in Providers : history[p] \in SUBSET (1..MaxTime)
  BY Known
<1>5. \A p \in Providers : \A at \in history[p] : at \in Kept(history[p]) \/ at < time - Shortest
  <2> SUFFICES ASSUME NEW p \in Providers, NEW at \in history[p]
               PROVE  at >= time - retention \/ at < time - Shortest
    BY DEF Kept
  <2>1. at \in Nat /\ time \in Nat
    BY <1>4, Known
  <2>2. retention \in Nat /\ Shortest \in Nat /\ Shortest <= retention
    BY Known, ShortestLeast
  <2> QED BY <2>1, <2>2
<1>6. /\ history' \in [Providers -> SUBSET (1..MaxTime)]
      /\ \A p \in Providers : \A at \in history[p] : at \in history'[p] \/ at < time' - Shortest
  <2>1. CASE pruned
    BY <1>1, <1>2, <1>4, <1>5, <2>1 DEF Kept
  <2>2. CASE ~pruned
    BY <1>1, <2>2, Known
  <2> QED BY <2>1, <2>2
<1>7. scheduler' \in LoopRecords
  <2>1. PICK full \in BOOLEAN, failing \in BOOLEAN :
          /\ full = (runs[r].retryOnly => scheduler.full)
          /\ failing = ~(pruned /\ runs[r].updated)
    OBVIOUS
  <2>2. scheduler \in LoopRecords
    BY Known
  <2>3. scheduler' \in {scheduler, [scheduler EXCEPT !.step = "waiting", !.full = full, !.failing = failing]}
    BY <1>1, <2>1, <2>2 DEF LoopRecords
  <2> QED BY <2>2, <2>3 DEF LoopRecords
<1>8. time <= time' /\ restarts' \in 0..MaxRestarts /\ current' \in [Providers -> 0..MaxTime]
  BY <1>2, Types DEF RefreshInv
<1> QED BY <1>2, <1>3, <1>6, <1>7, <1>8, Known, StepKeeps

\* What is known of the rest of the service before a step.
LEMMA KnownToo ==
    ASSUME RefreshInv
    PROVE  /\ time \in 1..MaxTime /\ time <= time /\ refreshing \in BOOLEAN
           /\ configured \subseteq Providers /\ retention \in Retentions
           /\ generation \in 1..MaxGeneration
           /\ restarts \in 0..MaxRestarts
           /\ status \in [Providers -> StatusRecords]
           /\ current \in [Providers -> 0..MaxTime]
           /\ history \in [Providers -> SUBSET (1..MaxTime)]
           /\ runs \in [Refreshers -> RunRecords]
           /\ scheduler \in LoopRecords
BY Types DEF RefreshInv

\* The scheduler decides.
LEMMA DecideKeeps ==
    ASSUME RefreshInv, NEW beforeFull \in BOOLEAN, Decide(beforeFull)
    PROVE  RefreshInv'
<1>1. PICK retryOnly \in BOOLEAN :
        retryOnly = (scheduler.failing /\ scheduler.full /\ beforeFull)
  OBVIOUS
<1>2. UNCHANGED <<time, generation, configured, retention, status, current, history, restarts>>
  BY DEF Decide
<1>3. CASE UNCHANGED <<refreshing, runs>> /\ scheduler' \in LoopRecords
  BY <1>2, <1>3, KnownToo, StepKeeps
<1>4. CASE Admit(Scheduler, retryOnly) /\ scheduler' = [scheduler EXCEPT !.step = "refreshing"]
  <2>1. scheduler' \in LoopRecords
    BY <1>4, KnownToo DEF LoopRecords
  <2>2. Scheduler \in Refreshers
    BY DEF Refreshers
  <2> QED BY <1>2, <1>4, <2>1, <2>2, AdmitKeeps
<1>5. PICK full \in BOOLEAN : full = (retryOnly => scheduler.full)
  OBVIOUS
<1>6. \/ /\ scheduler' = [scheduler EXCEPT !.step = "waiting", !.failing = FALSE, !.full = FALSE]
         /\ UNCHANGED <<refreshing, runs>>
      \/ /\ scheduler' = [scheduler EXCEPT !.step = "waiting", !.failing = TRUE, !.full = full]
         /\ UNCHANGED <<refreshing, runs>>
      \/ Admit(Scheduler, retryOnly) /\ scheduler' = [scheduler EXCEPT !.step = "refreshing"]
  <2>1. scheduler \in LoopRecords
    BY KnownToo
  <2> QED BY <1>1, <1>5, <2>1 DEF Decide, LoopRecords
<1>7. \/ UNCHANGED <<refreshing, runs>> /\ scheduler' \in LoopRecords
      \/ Admit(Scheduler, retryOnly) /\ scheduler' = [scheduler EXCEPT !.step = "refreshing"]
  BY <1>6, KnownToo DEF LoopRecords
<1> QED BY <1>3, <1>4, <1>7

\* A restart shows the newest observation of the history.
LEMMA RestartKeeps ==
    ASSUME RefreshInv, Restart
    PROVE  RefreshInv'
<1>1. \A p \in Providers : history[p] \in SUBSET (1..MaxTime)
  BY KnownToo
<1>2. ASSUME NEW p \in Providers
      PROVE  Newest(history[p]) = 0 \/ Newest(history[p]) \in history[p]
  <2>1. history[p] \in SUBSET (0..MaxTime)
    BY <1>1, Bounds
  <2> QED BY <2>1, Bounds, MaxIsMember DEF Newest
<1>3. /\ current' = [p \in Providers |-> Newest(history[p])]
      /\ status' = LoadedStatus(configured, current')
      /\ runs' = [r \in Refreshers |-> NoRun]
      /\ scheduler' = NewLoop /\ refreshing' = FALSE /\ restarts' \in 0..MaxRestarts
      /\ retention' \in Retentions /\ UNCHANGED <<time, generation, configured, history>>
  BY KnownToo, Bounds DEF Restart
<1>4. /\ current' \in [Providers -> 0..MaxTime]
      /\ \A p \in Providers :
            current'[p] = current[p] \/ current'[p] = 0 \/ StoredOrOld(p, current[p])'
  <2>1. \A p \in Providers : Newest(history[p]) \in 0..MaxTime
    BY <1>1, <1>2, Bounds
  <2> HIDE DEF Newest
  <2> QED BY <1>2, <1>3, <2>1 DEF StoredOrOld
<1>5. status' \in [Providers -> StatusRecords]
  <2>1. PICK set \in SUBSET Providers, observed \in [Providers -> 0..MaxTime] :
          set = configured /\ observed = current'
    BY <1>4, KnownToo
  <2>2. LoadedStatus(set, observed) \in [Providers -> StatusRecords]
    BY LoadedTypes
  <2> QED BY <1>3, <2>1, <2>2
<1>6. /\ runs' \in [Refreshers -> RunRecords] /\ scheduler' \in LoopRecords
      /\ \A q \in Refreshers : runs'[q] = runs[q] \/ RunOK(runs[q])'
  <2>1. RunOK(NoRun)'
    BY DEF RunOK, NoRun
  <2>2. \A q \in Refreshers : runs'[q] = NoRun
    BY <1>3
  <2> QED BY <1>3, <2>1, <2>2, IdleTypes DEF RunOK, StoredOrOld
<1> QED BY <1>3, <1>4, <1>5, <1>6, KnownToo, StepKeeps

\* Every step keeps the invariant.
LEMMA RefreshKeeps == RefreshInv /\ [Next]_vars => RefreshInv'
<1> SUFFICES ASSUME RefreshInv, [Next]_vars PROVE RefreshInv'
  OBVIOUS
<1>1. ASSUME NEW r \in Refreshers, Step(r) PROVE RefreshInv'
  BY <1>1, SnapshotKeeps, LaunchKeeps, FinishKeeps, ReturnKeeps, StoreKeeps, PublishKeeps,
     FailKeeps DEF Step
<1>2. ASSUME NEW r \in Requests, Request(r) PROVE RefreshInv'
  <2>1. r \in Refreshers /\ Admit(r, FALSE) /\ scheduler' \in LoopRecords
    BY <1>2, KnownToo DEF Request, Refreshers
  <2> QED BY <1>2, <2>1, AdmitKeeps DEF Request
<1>3. ASSUME NEW beforeFull \in BOOLEAN, Decide(beforeFull) PROVE RefreshInv'
  BY <1>3, DecideKeeps
<1>4. CASE Wake
  <2>1. scheduler' \in LoopRecords
    BY <1>4, KnownToo, IdleTypes DEF Wake, LoopRecords
  <2> QED BY <1>4, <2>1, KnownToo, StepKeeps DEF Wake
<1>5. ASSUME NEW set \in SUBSET Providers, NEW kept \in Retentions, Reconfigure(set, kept)
      PROVE RefreshInv'
  <2>1. PICK observed \in [Providers -> 0..MaxTime] : observed = current
    BY KnownToo
  <2>2. \A p \in Providers : LoadedStatus(set, observed)[p] \in StatusRecords
    BY LoadedTypes
  <2>3. \A p \in Providers : status[p].asked \in 0..MaxGeneration
    BY KnownToo DEF StatusRecords
  <2>4. \A p \in Providers :
          [LoadedStatus(set, observed)[p] EXCEPT !.asked = status[p].asked] \in StatusRecords
    BY <2>2, <2>3 DEF StatusRecords
  <2>5. status' = [p \in Providers |->
                      [LoadedStatus(set, observed)[p] EXCEPT !.asked = status[p].asked]]
    BY <1>5, <2>1 DEF Reconfigure
  <2>6. status' \in [Providers -> StatusRecords]
    BY <2>4, <2>5
  <2>7. scheduler' \in LoopRecords /\ generation' \in 1..MaxGeneration
    <3>1. scheduler' = [scheduler EXCEPT !.wake = TRUE] /\ generation' = generation + 1
          /\ generation < MaxGeneration
      BY <1>5 DEF Reconfigure
    <3>2. scheduler \in LoopRecords /\ generation \in 1..MaxGeneration
      BY KnownToo
    <3>3. scheduler' \in LoopRecords
      BY <3>1, <3>2 DEF LoopRecords
    <3> QED BY <3>1, <3>2, <3>3, Bounds
  <2> QED BY <1>5, <2>6, <2>7, KnownToo, StepKeeps DEF Reconfigure
<1>6. CASE Tick
  <2>1. time' \in 1..MaxTime /\ time <= time' /\ time' = time + 1
    BY <1>6, KnownToo, Bounds DEF Tick
  <2>2. \A p \in Providers : \A at \in history[p] : at \in history'[p] \/ at < time' - Shortest
    BY <1>6 DEF Tick
  <2> QED BY <1>6, <2>1, <2>2, KnownToo, StepKeeps DEF Tick
<1>7. CASE Restart
  BY <1>7, RestartKeeps
<1>8. CASE UNCHANGED vars
  BY <1>8, KnownToo, StepKeeps DEF vars
<1> QED BY <1>1, <1>2, <1>3, <1>4, <1>5, <1>6, <1>7, <1>8 DEF Next
-----------------------------------------------------------------------------
(* What holds at every point of every refresh *)

\* Calls, statuses, observations and the scheduler keep their domains, and a
\* refresh asks only providers it found configured.
THEOREM RefreshTypeCorrect == Spec => []TypeOK
<1>1. RefreshInv => TypeOK
  BY DEF RefreshInv
<1> QED BY <1>1, RefreshStarts, RefreshKeeps, PTL DEF Spec

\* What readers see of a provider survives a crash: it is in the history that a
\* restart loads, or has outlived the shortest retention, although refreshes may overlap
\* and prune what another has just stored.
THEOREM PublishedIsStored == Spec => []CurrentIsStored
<1>1. RefreshInv => CurrentIsStored
  BY DEF RefreshInv
<1> QED BY <1>1, RefreshStarts, RefreshKeeps, PTL DEF Spec
=============================================================================
