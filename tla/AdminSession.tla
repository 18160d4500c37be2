----------------------------- MODULE AdminSession -----------------------------
(***************************************************************************)
(* utils/api.ts and hooks/useAdminSession.ts: how a call of the admin API  *)
(* comes by its credentials, and what the pages are told of the session.   *)
(* The browser holds a cookie and a token that the user entered; the       *)
(* server (backend/internal/api/admin_session.go) may grant local sessions *)
(* or not, and forgets the ones it granted when it restarts.               *)
(***************************************************************************)
EXTENDS Screen

CONSTANT Calls     \* the calls of the admin API a page makes at a time

NoCall == [stage |-> "idle", token |-> None, entered |-> FALSE, denied |-> FALSE, lost |-> FALSE]

\* POST /api/admin/session/local: one at a time, which everyone shares.
Establishing(s) == [s EXCEPT !.recovery = TRUE]

\* publishAdminSessionState, and the hook, which hears of it.
Published(s, authorized) ==
    [s EXCEPT !.established = authorized, !.hook = IF authorized THEN "authorized" ELSE "unavailable"]

\* bootstrapLocalAdminSession, by the hook of a page that is mounted, or `retry`.
Bootstrap(s) ==
    IF s.token # None THEN [s EXCEPT !.hook = "authorized"]
    ELSE IF s.boot THEN s ELSE Establishing([s EXCEPT !.boot = TRUE, !.hook = "checking"])

AdminInit ==
    /\ page = "admin"
    /\ \E grants \in BOOLEAN, token \in {None, "good", "bad"}, cookie \in {None, "alive", "lost"} :
          ui = Bootstrap([grants |-> grants, token |-> token, cookie |-> cookie, established |-> FALSE,
                          hook |-> "checking", boot |-> FALSE, recovery |-> FALSE, ending |-> FALSE,
                          calls |-> [c \in Calls |-> NoCall]])

\* The request of a call goes out with what the browser holds by then.
Sent(s, call, stage) == [call EXCEPT !.stage = stage, !.token = s.token]

\* authorizedFetch up to its first request; without a token, and while no
\* session is known, it waits for one.
StartCall(c) ==
    /\ ui.calls[c] = NoCall
    /\ IF ui.token = None /\ ~ui.established
       THEN ui' = Establishing([ui EXCEPT !.calls[c].stage = "preparing"])
       ELSE ui' = [ui EXCEPT !.calls[c] = Sent(ui, @, "sent")]

\* Faulty: a call that waits for its second request gives up with the first
\* answer that is not a session of its own.
EstablishedOnce(s, outcome) ==
    [s EXCEPT !.calls = [c \in Calls |->
        LET call == s.calls[c]
        IN  IF call.stage = "preparing" THEN [Sent(s, call, "sent") EXCEPT !.entered = s.token # None]
            ELSE IF call.stage = "renewing" THEN [call EXCEPT !.stage = "refused"]
            ELSE call]]

\* Everyone who waits for the session goes on: the first request is sent in any
\* case, the second one only with a session.  A first request takes a token up
\* that was entered meanwhile, without knowing that it has one.
Established(s, outcome) ==
    [s EXCEPT !.calls = [c \in Calls |->
        LET call == s.calls[c]
        IN  IF call.stage = "preparing" THEN [Sent(s, call, "sent") EXCEPT !.entered = s.token # None]
            ELSE IF call.stage = "renewing" /\ outcome = "granted" THEN Sent(s, call, "again")
            ELSE IF call.stage = "renewing" THEN [call EXCEPT !.stage = "refused", !.denied = TRUE]
            ELSE call]]

\* The answer of the server, which sets the cookie; without one nothing is
\* published but by bootstrap, which says what it makes of it.
EstablishAnswer(outcome) ==
    /\ ui.recovery
    /\ outcome = "granted" => ui.grants
    /\ outcome = "denied" => ~ui.grants
    /\ LET known == [ui EXCEPT !.recovery = FALSE, !.boot = FALSE,
                               !.cookie = IF outcome = "granted" THEN "alive" ELSE @]
           told == IF outcome = "failed" THEN known ELSE Published(known, outcome = "granted")
           booted == IF ~ui.boot THEN told
                     ELSE [told EXCEPT !.hook = IF outcome = "granted" \/ ui.token # None
                                                THEN "authorized" ELSE "unavailable"]
       IN  ui' = Established(booted, outcome)

\* What the server makes of a request: a token counts before a cookie.
Accepted(s, call) == call.token = "good" \/ (call.token = None /\ s.cookie = "alive")

\* The answer to the first request.  A refused token is removed and a session
\* takes its place; a refused session is renewed.
CallAnswer(c) ==
    /\ ui.calls[c].stage = "sent"
    /\ LET call == ui.calls[c]
           renewing == [ui EXCEPT !.calls[c].stage = "renewing"]
       IN  ui' = CASE Accepted(ui, call) -> [ui EXCEPT !.calls[c].stage = "served"]
                   [] ~Accepted(ui, call) /\ call.token = None -> Establishing(Published(renewing, FALSE))
                   [] ~Accepted(ui, call) /\ call.token # None /\ ~call.entered ->
                         Establishing(Published([renewing EXCEPT !.token = None], FALSE))
                   [] OTHER -> [ui EXCEPT !.calls[c].stage = "refused"]

\* The answer to the second request is the answer of the call.
SecondAnswer(c) ==
    /\ ui.calls[c].stage = "again"
    /\ ui' = [ui EXCEPT !.calls[c].stage = IF Accepted(ui, ui.calls[c]) THEN "served" ELSE "refused"]

CallFails(c) == ui.calls[c].stage \in {"sent", "again"} /\ ui' = [ui EXCEPT !.calls[c] = NoCall]

CallDone(c) == ui.calls[c].stage \in {"served", "refused"} /\ ui' = [ui EXCEPT !.calls[c] = NoCall]

\* setAdminToken and clearAdminToken.
EnterToken(token) ==
    /\ token # ui.token
    /\ ui' = [ui EXCEPT !.token = token,
                        !.calls = [c \in Calls |->
                            [ui.calls[c] EXCEPT !.lost = @ \/ ui.calls[c] # NoCall]]]

Retry == ui' = Bootstrap(ui)

\* endLocalAdminSession, which leaves established as it is: the calls that
\* follow find out by their first answer.
EndSession == ~ui.ending /\ ui' = [ui EXCEPT !.ending = TRUE]

\* A second request on its way may have lost its session.
Lost(s, cookie) ==
    [s EXCEPT !.cookie = cookie,
              !.calls = [c \in Calls |-> [s.calls[c] EXCEPT !.lost = @ \/ s.calls[c].stage = "again"]]]

EndAnswer(ok) ==
    /\ ui.ending
    /\ ui' = [(IF ok THEN Lost(ui, None) ELSE ui) EXCEPT !.ending = FALSE, !.hook = "unavailable"]

\* External: the server restarts, or the hour of the session is over.
SessionLost == ui.cookie = "alive" /\ ui' = Lost(ui, "lost")

AdminNext ==
    /\ page = "admin" /\ UNCHANGED page
    /\ \/ \E outcome \in {"granted", "denied", "failed"} : EstablishAnswer(outcome)
       \/ \E c \in Calls : StartCall(c) \/ CallAnswer(c) \/ SecondAnswer(c) \/ CallFails(c) \/ CallDone(c)
       \/ \E token \in {None, "good", "bad"} : EnterToken(token)
       \/ Retry \/ EndSession \/ SessionLost
       \/ \E ok \in BOOLEAN : EndAnswer(ok)
-----------------------------------------------------------------------------
\* A call is only refused after a new session was asked for in vain, or if the
\* session was lost under its second request, or if the token changed while it
\* was under way: no order of other calls, of the start of the page or of a
\* restart of the server makes it give up before.
AdminCallsRenewed ==
    page = "admin" => \A c \in Calls : ui.calls[c].stage = "refused" =>
        ui.calls[c].denied \/ ui.calls[c].lost

\* Who waits for a session has asked for one, and the pages are not left with
\* a check that nobody makes.
AdminNeverStuck ==
    page = "admin" =>
        /\ ui.hook = "checking" => ui.boot \/ ui.recovery
        /\ ui.boot => ui.recovery
        /\ \A c \in Calls : ui.calls[c].stage \in {"preparing", "renewing"} => ui.recovery
=============================================================================
