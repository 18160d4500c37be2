------------------------------- MODULE AnalysisLab -------------------------------
(***************************************************************************)
(* pages/ResearchLab.tsx with stores/analysisStore.ts: a run of the agents *)
(* is started and stopped by requests and told about by events, which come *)
(* over the socket (LabSocket) in their order as long as it is open.  The  *)
(* server of internal/api/handlers.go has one run at a time; a batch or    *)
(* another window may have started it.                                     *)
(***************************************************************************)
EXTENDS Screen

CONSTANTS Researched,   \* the symbols that are researched
          MaxWire,      \* bound on the events under way
          MaxRequests   \* bound on the requests whose answers are under way

ASSUME LabConstants == None \notin Researched

Decisions == {"BUY", "OBSERVE"}
Results == {"analysis_unavailable"} \cup Decisions
Endings == {"analysis_error"} \cup Results

\* The run of the server: ended says that it is over but the server not free yet,
\* batch that it is one of several for which the server is taken as a whole.
Run(of, batch) == [of |-> of, ended |-> FALSE, batch |-> batch]
NoRun == Run(None, FALSE)

\* Hub.Broadcast: an event for which no socket is open is lost.
Broadcast(s, type) ==
    IF s.connected THEN [s EXCEPT !.wire = Append(@, [type |-> type, of |-> s.run.of])]
    ELSE [s EXCEPT !.lost = TRUE, !.missed = @ \/ type \in Results]

\* There are results on the wire.
ResultTold(wire) == \E k \in DOMAIN wire : wire[k].type \in Results

\* A request reaches the server at once and its answer is late: [what |-> the
\* request, of |-> what the server answers, current |-> whether it is heard].
Send(s, what, answer) == [s EXCEPT !.flying = Append(@, [what |-> what, of |-> answer, current |-> TRUE])]

Going(s) == s.run.of # None /\ ~s.run.ended

SendStatus(s) == Send(s, "status", IF s.run.of = None THEN "idle" ELSE "busy")

\* The store outlives the page: decision is the symbol it has advice for.  Of the
\* server, advised is the symbol the last result advises to trade.  lost says that
\* the page was not told of a start or an end, or that a status was outdated when
\* it arrived, and missed that the last result was not told.
LabInit ==
    /\ page = "lab"
    /\ \E of \in Researched \cup {None}, batch \in BOOLEAN :
          /\ batch => of # None
          /\ ui = SendStatus([run |-> Run(of, batch), connected |-> FALSE, wire |-> <<>>, lost |-> of # None,
                              missed |-> FALSE, advised |-> None, decision |-> None, running |-> FALSE,
                              error |-> FALSE, flying |-> <<>>])

MayAsk == Len(ui.flying) < MaxRequests

\* handleStart and startAnalysis: what is known of runs before is put away; the
\* server refuses a second run.
StartAnalysis(symbol) ==
    /\ ~ui.running /\ MayAsk
    /\ LET s == [ui EXCEPT !.running = TRUE, !.error = FALSE, !.decision = None, !.missed = FALSE]
       IN  ui' = IF ui.run.of # None THEN Send(s, "start", "refused")
                 ELSE Send([s EXCEPT !.run = Run(symbol, FALSE)], "start", "accepted")

StopAnalysis ==
    /\ ui.running /\ MayAsk
    /\ ui' = Send([ui EXCEPT !.error = FALSE], "stop", IF ui.run.of = None THEN "refused" ELSE "accepted")

\* syncAnalysisStatus, when the page is opened and by the button under an error.
SyncStatus == ui.error /\ MayAsk /\ ui' = SendStatus(ui)

Disconnected(s) ==
    [s EXCEPT !.connected = FALSE, !.wire = <<>>,
              !.lost = @ \/ s.wire # <<>>, !.missed = @ \/ ResultTold(s.wire)]

\* The page is left and opened again: its socket and its error are gone.
RevisitLab == MayAsk /\ ui' = SendStatus([Disconnected(ui) EXCEPT !.error = FALSE])

SocketUp == ~ui.connected /\ ui' = [ui EXCEPT !.connected = TRUE]
SocketDown == ui.connected /\ ui' = Disconnected(ui)

\* Another window starts a run, or a batch its first one.
RunElsewhere(of, batch) == ui.run.of = None /\ ui' = [ui EXCEPT !.run = Run(of, batch)]

\* The run tells of its start and then of its end, and only after that the
\* server is free for the next.
RunTells(type) ==
    /\ Going(ui) /\ Len(ui.wire) < MaxWire
    /\ type = "analysis_error" => ~ui.run.batch
    /\ ui' = [Broadcast(ui, type) EXCEPT
                 !.run.ended = type \in Endings,
                 !.advised = IF type = "BUY" THEN ui.run.of ELSE IF type \in Results THEN None ELSE @]

\* A run of a batch that fails or is cancelled ends with an event of another type
\* or with none, and the page has a case for neither.
BatchRunFails == Going(ui) /\ ui.run.batch /\ ui' = [ui EXCEPT !.run.ended = TRUE, !.lost = TRUE]

\* The batch goes on without the server having been free.
NextOfBatch(of) == ui.run.ended /\ ui.run.batch /\ ui' = [ui EXCEPT !.run = Run(of, TRUE)]

RunPutAway == ui.run.ended /\ ui' = [ui EXCEPT !.run = NoRun]

\* handleWsEvent, at the end of a run without a result.
HeardUnavailable(s) == [s EXCEPT !.running = FALSE, !.decision = None, !.missed = FALSE]

\* A decision other than to buy, hold or sell is no advice.
HeardDecision(s, event) ==
    [s EXCEPT !.running = FALSE, !.missed = FALSE,
              !.decision = IF event.type = "OBSERVE" THEN None ELSE event.of]

HandleWsEvent ==
    /\ ui.wire # <<>>
    /\ LET event == Head(ui.wire)
           s == [ui EXCEPT !.wire = Tail(@)]
       IN  \/ event.type = "analysis_start" /\ ui' = [s EXCEPT !.running = TRUE]
           \/ event.type = "analysis_unavailable" /\ ui' = HeardUnavailable(s)
           \/ event.type = "analysis_error" /\ ui' = [s EXCEPT !.running = FALSE]
           \/ event.type \in Decisions /\ ui' = HeardDecision(s, event)

\* The answers, or failures on their way: an accepted start changes nothing, a
\* failed one ends it.
StartAnswer(i, ok) ==
    /\ ui.flying[i].what = "start" /\ (ok => ui.flying[i].of = "accepted")
    /\ Taken(i, IF ok THEN ui ELSE [ui EXCEPT !.running = FALSE, !.error = TRUE])

StopAnswer(i, ok) ==
    /\ ui.flying[i].what = "stop" /\ (ok => ui.flying[i].of = "accepted")
    /\ Taken(i, IF ok THEN [ui EXCEPT !.running = FALSE] ELSE [ui EXCEPT !.error = TRUE])

\* A status that is not outdated makes up for what was lost before, unless older
\* events are still on the wire.
StatusOfRun(i, ok) ==
    /\ ui.flying[i].what = "status"
    /\ LET busy == ui.flying[i].of = "busy"
       IN  Taken(i, IF ~ok THEN [ui EXCEPT !.error = TRUE]
                    ELSE [ui EXCEPT !.running = busy, !.error = FALSE,
                                    !.lost = busy # Going(ui) \/ (@ /\ ui.wire # <<>>)])

LabNext ==
    /\ page = "lab" /\ UNCHANGED page
    /\ \/ \E i \in DOMAIN ui.flying, ok \in BOOLEAN : StartAnswer(i, ok) \/ StopAnswer(i, ok) \/ StatusOfRun(i, ok)
       \/ \E type \in {"analysis_start"} \cup Endings : RunTells(type)
       \/ \E symbol \in Researched, batch \in BOOLEAN : RunElsewhere(symbol, batch)
       \/ \E symbol \in Researched : StartAnalysis(symbol) \/ NextOfBatch(symbol)
       \/ StopAnalysis \/ SyncStatus \/ RevisitLab \/ SocketUp \/ SocketDown
       \/ BatchRunFails \/ RunPutAway \/ HandleWsEvent

\* The gauge of the decision, and the button: a run is stopped or started.
GaugeShows(s) == s.decision
ButtonShows(s) == IF s.running THEN "stop" ELSE "start"
-----------------------------------------------------------------------------
\* Advice on the gauge is that of the run, of whatever window or batch, that
\* ended last with a result or without one, once the page was told of it: each
\* later end takes the advice of the former away, also where no start clears the
\* page.  A run that failed is none that ended so, and leaves the gauge.
LabAdvicePublished ==
    page = "lab" /\ ~ui.missed /\ ~ResultTold(ui.wire) => GaugeShows(ui) \in {None, ui.advised}

\* Unless a start or an end was not told or a status came too late, the page that
\* offers to stop has a run to stop or a start, a status or an end on its way.
LabNeverStuck ==
    page = "lab" /\ ButtonShows(ui) = "stop" /\ ~ui.lost =>
        \/ Going(ui) \/ Flying(ui.flying, "start") # {}
        \/ \E k \in DOMAIN ui.wire : ui.wire[k].type \in Endings
=============================================================================
