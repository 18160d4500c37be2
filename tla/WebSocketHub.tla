---------------------------- MODULE WebSocketHub ----------------------------
(***************************************************************************)
(* The hub of app/backend/internal/api/websocket.go: broadcasts put each   *)
(* message in the bounded queue of every connection, one goroutine writes  *)
(* a connection's queue, another reads until the connection fails, and any *)
(* of the three may remove the connection.  closeOnce lets one of them do  *)
(* it while the others wait.                                               *)
(***************************************************************************)
EXTENDS Integers, Sequences

CONSTANTS
    Sockets,     \* connections
    Senders,     \* goroutines that broadcast
    QueueSize,   \* messages that a queue holds (32)
    MaxSent      \* bound on the broadcasts of each sender

NoOne == "no one"

ASSUME HubConstants ==
    /\ QueueSize \in Nat \ {0}
    /\ MaxSent \in Nat
    /\ NoOne \notin Sockets

VARIABLES
    socket,   \* the connections
    sender    \* the goroutines that broadcast

hubVars == <<socket, sender>>

\* missed: the senders of a message that the connection should have got and did not.
NoSocket ==
    [state |-> "absent", queue |-> <<>>, writer |-> "off", reader |-> "off", missed |-> {}]

HubInit ==
    /\ socket = [c \in Sockets |-> NoSocket]
    /\ sender = [b \in Senders |-> [sent |-> 0, todo |-> {}, removing |-> NoOne]]

\* h.clients: a connection is deleted from it some time after done was closed.
Registered(c) == socket[c].state \in {"open", "closing"}

DoneClosed(c) == socket[c].state \in {"closing", "deleted", "closed"}

Connect(c) ==
    /\ socket[c].state = "absent"
    /\ socket' = [socket EXCEPT ![c] =
            [NoSocket EXCEPT !.state = "open", !.writer = "idle", !.reader = "reading"]]
    /\ UNCHANGED sender

Broadcast(b) ==
    /\ sender[b].todo = {}
    /\ sender[b].sent < MaxSent
    /\ sender' = [sender EXCEPT ![b].sent = @ + 1, ![b].todo = {c \in Sockets : Registered(c)}]
    /\ UNCHANGED socket

Offering(b, c) == c \in sender[b].todo /\ sender[b].removing = NoOne

Enqueue(b, c) ==
    /\ Offering(b, c)
    /\ Len(socket[c].queue) < QueueSize
    /\ socket' = [socket EXCEPT ![c].queue = Append(@, b)]
    /\ sender' = [sender EXCEPT ![b].todo = @ \ {c}]

Skip(b, c) ==
    /\ Offering(b, c)
    /\ DoneClosed(c)
    /\ socket' = [socket EXCEPT ![c].missed = @ \union {b}]
    /\ sender' = [sender EXCEPT ![b].todo = @ \ {c}]

\* Faulty: a message that does not fit is dropped and the client kept.
OverflowDrops(b, c) ==
    /\ Offering(b, c)
    /\ Len(socket[c].queue) = QueueSize
    /\ ~DoneClosed(c)
    /\ socket' = [socket EXCEPT ![c].missed = @ \union {b}]
    /\ sender' = [sender EXCEPT ![b].todo = @ \ {c}]

\* The default branch: the sender goes into removeClient.
Overflow(b, c) ==
    /\ Offering(b, c)
    /\ Len(socket[c].queue) = QueueSize
    /\ ~DoneClosed(c)
    /\ socket' = [socket EXCEPT ![c].missed = @ \union {b}]
    /\ sender' = [sender EXCEPT ![b].removing = c]

Removing(c) ==
    \/ socket[c].writer = "removing"
    \/ socket[c].reader = "removing"
    \/ \E b \in Senders : sender[b].removing = c

\* closeOnce.Do: close(done), delete from the map, close the connection.
CloseDone(c) ==
    /\ Removing(c)
    /\ socket[c].state = "open"
    /\ socket' = [socket EXCEPT ![c].state = "closing"]
    /\ UNCHANGED sender

Delete(c) ==
    /\ socket[c].state = "closing"
    /\ socket' = [socket EXCEPT ![c].state = "deleted"]
    /\ UNCHANGED sender

CloseConn(c) ==
    /\ socket[c].state = "deleted"
    /\ socket' = [socket EXCEPT ![c].state = "closed"]
    /\ UNCHANGED sender

\* Everybody who called removeClient returns when the removal is over.
SenderReturns(b) ==
    /\ sender[b].removing # NoOne
    /\ socket[sender[b].removing].state = "closed"
    /\ sender' = [sender EXCEPT ![b].todo = @ \ {sender[b].removing}, ![b].removing = NoOne]
    /\ UNCHANGED socket

WriterReturns(c) ==
    /\ socket[c].writer = "removing"
    /\ socket[c].state = "closed"
    /\ socket' = [socket EXCEPT ![c].writer = "ended"]
    /\ UNCHANGED sender

ReaderReturns(c) ==
    /\ socket[c].reader = "removing"
    /\ socket[c].state = "closed"
    /\ socket' = [socket EXCEPT ![c].reader = "ended"]
    /\ UNCHANGED sender

\* The write loop takes a message although done may be closed: select chooses.
Take(c) ==
    /\ socket[c].writer = "idle"
    /\ socket[c].queue # <<>>
    /\ socket' = [socket EXCEPT ![c].writer = "writing", ![c].queue = Tail(@)]
    /\ UNCHANGED sender

StopWriter(c) ==
    /\ socket[c].writer = "idle"
    /\ DoneClosed(c)
    /\ socket' = [socket EXCEPT ![c].writer = "ended"]
    /\ UNCHANGED sender

Written(c) ==
    /\ socket[c].writer = "writing"
    /\ socket[c].state # "closed"
    /\ socket' = [socket EXCEPT ![c].writer = "idle"]
    /\ UNCHANGED sender

\* The peer is gone, does not read for five seconds, or the connection is closed.
WriteFails(c) ==
    /\ socket[c].writer = "writing"
    /\ socket' = [socket EXCEPT ![c].writer = "removing"]
    /\ UNCHANGED sender

ReadFails(c) ==
    /\ socket[c].reader = "reading"
    /\ socket' = [socket EXCEPT ![c].reader = "removing"]
    /\ UNCHANGED sender

HubNext ==
    \/ \E b \in Senders : Broadcast(b) \/ SenderReturns(b)
    \/ \E b \in Senders, c \in Sockets : Enqueue(b, c) \/ Skip(b, c) \/ Overflow(b, c)
    \/ \E c \in Sockets :
        \/ Connect(c) \/ CloseDone(c) \/ Delete(c) \/ CloseConn(c)
        \/ WriterReturns(c) \/ ReaderReturns(c) \/ ReadFails(c)
        \/ Take(c) \/ StopWriter(c) \/ Written(c) \/ WriteFails(c)

\* Goroutines run; a write ends by its deadline; reading a closed connection fails.
HubFairness ==
    /\ \A b \in Senders : WF_hubVars(SenderReturns(b))
    /\ \A b \in Senders, c \in Sockets :
        WF_hubVars(Enqueue(b, c) \/ Skip(b, c) \/ Overflow(b, c))
    /\ \A c \in Sockets :
        /\ WF_hubVars(CloseDone(c))
        /\ WF_hubVars(Delete(c))
        /\ WF_hubVars(CloseConn(c))
        /\ WF_hubVars(WriterReturns(c))
        /\ WF_hubVars(ReaderReturns(c))
        /\ WF_hubVars(Take(c) \/ StopWriter(c))
        /\ WF_hubVars(Written(c) \/ WriteFails(c))
        /\ WF_hubVars(socket[c].state = "closed" /\ ReadFails(c))

HubSpec == HubInit /\ [][HubNext]_hubVars /\ HubFairness

------------------------------------------------------------------------------
SocketRecords ==
    [state : {"absent", "open", "closing", "deleted", "closed"},
     queue : Seq(Senders),
     writer : {"off", "idle", "writing", "removing", "ended"},
     reader : {"off", "reading", "removing", "ended"},
     missed : SUBSET Senders]

SenderRecords ==
    [sent : 0..MaxSent, todo : SUBSET Sockets, removing : Sockets \union {NoOne}]

QueuesBounded == \A c \in Sockets : Len(socket[c].queue) <= QueueSize

\* The domains of connections and senders; no queue holds more than it may.
HubTypeOK ==
    /\ socket \in [Sockets -> SocketRecords]
    /\ sender \in [Senders -> SenderRecords]
    /\ QueuesBounded

\* A client never sees a gap in what one run reports and goes on unaware of it:
\* while a connection that missed a message is still open, the sender of that
\* message is busy removing it and sends nothing in between.
NoSilentGap ==
    \A c \in Sockets :
        socket[c].state = "open" => \A b \in socket[c].missed : sender[b].removing = c

\* Broadcasts end whatever the clients do, and nothing of a removed client stays.
HubNeverStuck ==
    /\ \A b \in Senders : sender[b].todo # {} ~> sender[b].todo = {}
    /\ \A c \in Sockets :
        DoneClosed(c) ~> /\ ~Registered(c)
                         /\ socket[c].writer = "ended" /\ socket[c].reader = "ended"
=============================================================================
