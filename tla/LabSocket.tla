------------------------------- MODULE LabSocket -------------------------------
(***************************************************************************)
(* hooks/useWebSocket.ts: the connection over which the research lab hears *)
(* of a run.  The hook stays mounted and is enabled on the page of the lab *)
(* only.                                                                   *)
(***************************************************************************)
EXTENDS Screen

\* socketRef and what becomes of the socket in it; others counts the sockets
\* that live on without it.  timerRef is what reconnectTimeoutRef holds: nothing,
\* a timer that is to fire, or one that was cleared.
SocketInit ==
    /\ page = "socket"
    /\ ui = [enabled |-> FALSE, connecting |-> FALSE, asked |-> 0, socket |-> None, others |-> 0,
             timerRef |-> None, status |-> "disconnected"]

\* connect up to its wait for the session of the administrator.
Connect(s) ==
    IF ~s.enabled \/ s.socket # None \/ s.connecting THEN s
    ELSE [s EXCEPT !.connecting = TRUE, !.asked = @ + 1, !.status = "connecting"]

\* The timer is set unless the ref holds one.
ScheduleReconnect(s) ==
    IF ~s.enabled \/ s.timerRef # None THEN s ELSE [s EXCEPT !.timerRef = "pending"]

\* The effect: the lab is entered, or left, which closes the socket and clears
\* the timer and keeps both refs.
\* (asked < 2 bounds a Connect that would not ask its flag.)
EnterLab == ~ui.enabled /\ ui.asked < 2 /\ ui' = Connect([ui EXCEPT !.enabled = TRUE])

LeaveLab ==
    /\ ui.enabled
    /\ ui' = [ui EXCEPT !.enabled = FALSE, !.status = "disconnected",
                        !.socket = IF @ = None THEN None ELSE "closing",
                        !.timerRef = IF @ = None THEN None ELSE "cleared"]

\* The rest of connect, once the session is known.
Authorized(authorized) ==
    /\ ui.asked > 0
    /\ LET s == [ui EXCEPT !.connecting = FALSE, !.asked = @ - 1]
       IN  ui' = IF ~s.enabled THEN s
                 ELSE IF ~authorized THEN ScheduleReconnect([s EXCEPT !.status = "disconnected"])
                 ELSE [s EXCEPT !.socket = "opening", !.others = IF s.socket = None THEN @ ELSE @ + 1]

\* onopen also clears a timer that the ref holds.
Opened ==
    /\ ui.socket = "opening"
    /\ ui' = [ui EXCEPT !.socket = "open", !.status = "connected", !.timerRef = None]

\* onclose, which onerror leads to as well.
Closed ==
    /\ ui.socket # None
    /\ ui' = ScheduleReconnect([ui EXCEPT !.socket = None, !.status = "disconnected"])

ReconnectTimer ==
    /\ ui.timerRef = "pending"
    /\ ui' = Connect([ui EXCEPT !.timerRef = None])

SocketNext ==
    /\ page = "socket" /\ UNCHANGED page
    /\ \/ EnterLab \/ LeaveLab \/ Opened \/ Closed \/ ReconnectTimer
       \/ \E authorized \in BOOLEAN : Authorized(authorized)

SocketSpec == SocketInit /\ [][SocketNext]_screen
-----------------------------------------------------------------------------
\* However often the lab is left and entered while a connection is being made
\* or closed, no event can arrive twice: no socket lives beside the one of the
\* ref, and "connected" is said of an open one only.
SocketSingle ==
    page = "socket" =>
        /\ ui.others = 0 /\ ui.asked <= 1
        /\ ui.status = "connected" => ui.socket = "open" /\ ui.enabled

\* "Auto-reconnect after 3 seconds": in the lab a connection that is down has a
\* timer that will try again.
SocketReconnects ==
    page = "socket" /\ ui.enabled /\ ui.socket = None /\ ~ui.connecting => ui.timerRef = "pending"
=============================================================================
