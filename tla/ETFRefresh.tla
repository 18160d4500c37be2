------------------------------ MODULE ETFRefresh ------------------------------
(***************************************************************************)
(* The ETF refresh of app/backend/internal/etfrefresh/service.go.  An      *)
(* attempt writes its status, collects the histories of the whole scope,   *)
(* archives the result under its date, promotes it to the current file and *)
(* writes its status again.  Each write replaces a file atomically, may    *)
(* fail, and the process may stop between any two.  The server runs an     *)
(* attempt at its start, every interval and when asked to; the tool of     *)
(* cmd/regenetf runs one in a process of its own on the same files.        *)
(***************************************************************************)
EXTENDS Integers

CONSTANTS
    Observed    \* dates of the latest observation, numbers

ASSUME ETFConstants == Observed \subseteq Nat /\ 0 \in Observed

VARIABLES
    files,      \* status, current file and archive
    runner,     \* the processes that attempt a refresh: server and tool
    queued,     \* the trigger channel holds a request
    cancelled   \* the context of the server is cancelled

etfVars == <<files, runner, queued, cancelled>>

Runners == {"server", "tool"}

\* promoted: the attempt has replaced the current file.
NoAttempt == [step |-> "off", date |-> 0, promoted |-> FALSE]

\* The repository ships the files of a complete attempt.
ETFInit ==
    /\ files = [status |-> [state |-> "complete", promoted |-> TRUE],
                current |-> 0, archive |-> {0}]
    /\ runner = [r \in Runners |-> NoAttempt]
    /\ queued = FALSE
    /\ cancelled = FALSE

Goes(r, step) == runner' = [runner EXCEPT ![r].step = step]

\* A write of the status whose error is ignored or only logged; promoted is not
\* written, it says what the attempt had done when it wrote.
WriteStatus(r, state) ==
    \/ files' = [files EXCEPT !.status = [state |-> state, promoted |-> runner[r].promoted]]
    \/ UNCHANGED files

\* Start runs an attempt at once; the tool runs only one.
Boot(r) ==
    /\ runner[r].step = "off"
    /\ Goes(r, "starting")
    /\ queued' = (queued /\ r # "server")
    /\ cancelled' = (cancelled /\ r # "server")
    /\ UNCHANGED files

Trigger ==
    /\ runner["server"].step # "off"
    /\ ~queued
    /\ queued' = TRUE
    /\ UNCHANGED <<files, runner, cancelled>>

Ticker ==
    /\ runner["server"].step = "waiting"
    /\ Goes("server", "starting")
    /\ UNCHANGED <<files, queued, cancelled>>

TakeTrigger ==
    /\ runner["server"].step = "waiting"
    /\ queued
    /\ queued' = FALSE
    /\ Goes("server", "starting")
    /\ UNCHANGED <<files, cancelled>>

Cancel ==
    /\ runner["server"].step # "off"
    /\ cancelled' = TRUE
    /\ UNCHANGED <<files, runner, queued>>

LoopEnds ==
    /\ runner["server"].step = "waiting"
    /\ cancelled
    /\ Goes("server", "ended")
    /\ UNCHANGED <<files, queued, cancelled>>

Begin(r) ==
    /\ runner[r].step = "starting"
    /\ Goes(r, "collecting")
    /\ WriteStatus(r, "running")
    /\ UNCHANGED <<queued, cancelled>>

\* Metadata, history, date and metrics of every fund in scope must be good; a
\* cancelled context fails it, though maybe not if the last fund was fetched.
Collect(r) ==
    /\ runner[r].step = "collecting"
    /\ \/ Goes(r, "failing")
       \/ \E d \in Observed :
            runner' = [runner EXCEPT ![r].step = "archiving", ![r].date = d]
    /\ UNCHANGED <<files, queued, cancelled>>

Archive(r) ==
    /\ runner[r].step = "archiving"
    /\ \/ Goes(r, "failing") /\ UNCHANGED files
       \/ /\ Goes(r, "promoting")
          /\ files' = [files EXCEPT !.archive = @ \union {runner[r].date}]
    /\ UNCHANGED <<queued, cancelled>>

Promoted(r) ==
    /\ runner' = [runner EXCEPT ![r].step = "reporting", ![r].promoted = TRUE]
    /\ files' = [files EXCEPT !.current = runner[r].date]

\* Faulty: the error of the rename is not looked at.
PromoteUnchecked(r) ==
    /\ runner[r].step = "promoting"
    /\ \/ Goes(r, "reporting") /\ UNCHANGED files
       \/ Promoted(r)
    /\ UNCHANGED <<queued, cancelled>>

Promote(r) ==
    /\ runner[r].step = "promoting"
    /\ \/ Goes(r, "failing") /\ UNCHANGED files
       \/ Promoted(r)
    /\ UNCHANGED <<queued, cancelled>>

\* RunOnce returns: the server waits for its next attempt, the tool exits.
Report(r) ==
    /\ runner[r].step \in {"reporting", "failing"}
    /\ runner' = [runner EXCEPT ![r] =
            [NoAttempt EXCEPT !.step = IF r = "server" THEN "waiting" ELSE "off"]]
    /\ WriteStatus(r, IF runner[r].step = "reporting" THEN "complete" ELSE "failed")
    /\ UNCHANGED <<queued, cancelled>>

\* The process exits or is killed between any two steps.
Stop(r) ==
    /\ runner[r].step # "off"
    /\ runner' = [runner EXCEPT ![r] = NoAttempt]
    /\ queued' = (queued /\ r # "server")
    /\ cancelled' = (cancelled /\ r # "server")
    /\ UNCHANGED files

ETFNext ==
    \/ Trigger \/ Ticker \/ TakeTrigger \/ Cancel \/ LoopEnds
    \/ \E r \in Runners :
        Boot(r) \/ Begin(r) \/ Collect(r) \/ Archive(r) \/ Promote(r) \/ Report(r) \/ Stop(r)

\* Attempts end, since fetches have timeouts; a select that keeps finding a
\* request in the channel takes it in the end.
ETFFairness ==
    /\ WF_etfVars(Begin("server"))
    /\ WF_etfVars(Collect("server"))
    /\ WF_etfVars(Archive("server"))
    /\ WF_etfVars(Promote("server"))
    /\ WF_etfVars(Report("server"))
    /\ SF_etfVars(TakeTrigger)

ETFSpec == ETFInit /\ [][ETFNext]_etfVars /\ ETFFairness

------------------------------------------------------------------------------
FileRecords ==
    [status : [state : {"running", "complete", "failed"}, promoted : BOOLEAN],
     current : Observed, archive : SUBSET Observed]

RunnerRecords ==
    [step : {"off", "waiting", "starting", "collecting", "archiving", "promoting",
             "reporting", "failing", "ended"},
     date : Observed, promoted : BOOLEAN]

\* The domains of the files and of the processes.
ETFTypeOK ==
    /\ files \in FileRecords
    /\ runner \in [Runners -> RunnerRecords]
    /\ queued \in BOOLEAN
    /\ cancelled \in BOOLEAN

\* Whatever failed or stopped, and with both processes at work: the current file
\* is one that was archived, the status calls an attempt complete only if its
\* result was promoted, and one that it calls failed has replaced nothing.
EtfFilesTrue ==
    /\ files.current \in files.archive
    /\ files.status.state = "complete" => files.status.promoted
    /\ files.status.state = "failed" => ~files.status.promoted

\* A queued request is taken by a server that stays up.
TriggersTaken ==
    queued ~> ~queued \/ runner["server"].step = "ended"
===============================================================================
