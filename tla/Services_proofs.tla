---------------------------- MODULE Services_proofs ----------------------------
(***************************************************************************)
(* What the shared services of the backend guarantee whatever the number   *)
(* of calls, connections, senders, dates and batches: each service has an  *)
(* inductive invariant, and the properties follow from it.                 *)
(***************************************************************************)
EXTENDS MCServices, FiniteSetTheorems, TLAPS

------------------------------------------------------------------------------
(* The circuit breaker. *)

\* The ticks that an open breaker has been quiet and those it still waits make
\* up at least a cooldown.
BreakerInv ==
    /\ BreakerTypeOK
    /\ breaker.open => quiet + breaker.left >= Cooldown

\* The breaker starts closed, with nothing in flight.
LEMMA BreakerStarts == BreakerInit => BreakerInv
BY BreakerConstants DEF BreakerInit, BreakerInv, BreakerTypeOK

\* No admission, answer or tick breaks the invariant of the breaker.
LEMMA BreakerKeeps == BreakerInv /\ [BreakerNext]_breakerVars => BreakerInv'
<1> SUFFICES ASSUME BreakerInv, [BreakerNext]_breakerVars PROVE BreakerInv'
  OBVIOUS
<1> USE BreakerConstants DEF BreakerInv, BreakerTypeOK
<1>1. CASE Admit
  BY <1>1 DEF Admit
<1>2. CASE Succeeded
  BY <1>2 DEF Succeeded
<1>3. CASE Failed
  BY <1>3 DEF Failed
<1>4. CASE Passes
  BY <1>4 DEF Passes, Lower
<1>5. CASE UNCHANGED breakerVars
  BY <1>5 DEF breakerVars
<1> QED BY <1>1, <1>2, <1>3, <1>4, <1>5 DEF BreakerNext

\* While the breaker of providerAllowed is open, no batch is sent within a
\* cooldown of the last probe or failure, for every threshold and cooldown.
THEOREM BreakerSparesAlways == BreakerSpec => BreakerSpared
<1>1. BreakerInv /\ [BreakerNext]_breakerVars => [BreakerSpares]_breakerVars
  <2> SUFFICES ASSUME BreakerInv, BreakerNext PROVE BreakerSpares
    OBVIOUS
  <2> USE BreakerConstants DEF BreakerInv, BreakerTypeOK, BreakerSpares
  <2>1. CASE Admit
    BY <2>1 DEF Admit
  <2>2. CASE Succeeded
    BY <2>2 DEF Succeeded
  <2>3. CASE Failed
    BY <2>3 DEF Failed
  <2>4. CASE Passes
    BY <2>4 DEF Passes
  <2> QED BY <2>1, <2>2, <2>3, <2>4 DEF BreakerNext
<1> QED BY <1>1, BreakerStarts, BreakerKeeps, PTL DEF BreakerSpec, BreakerSpared

------------------------------------------------------------------------------
(* The ETF refresh. *)

\* An attempt has replaced the current file only when it is about to report it,
\* and promotes only what it has archived.
ETFInv ==
    /\ ETFTypeOK
    /\ EtfFilesTrue
    /\ \A r \in Runners :
        /\ runner[r].promoted <=> runner[r].step = "reporting"
        /\ runner[r].step = "promoting" => runner[r].date \in files.archive

\* The shipped files are those of a complete attempt.
LEMMA ETFStarts == ETFInit => ETFInv
<1> SUFFICES ASSUME ETFInit PROVE ETFInv
  OBVIOUS
<1>1. ETFTypeOK
  BY ETFConstants DEF ETFInit, ETFTypeOK, NoAttempt, FileRecords, RunnerRecords
<1>2. EtfFilesTrue
  BY DEF ETFInit, EtfFilesTrue
<1> QED BY <1>1, <1>2 DEF ETFInit, ETFInv, NoAttempt

\* No step of an attempt, of the loop, or of a stopping process breaks the
\* invariant of the files.
LEMMA ETFKeeps == ETFInv /\ [ETFNext]_etfVars => ETFInv'
<1> SUFFICES ASSUME ETFInv, [ETFNext]_etfVars PROVE ETFInv'
  OBVIOUS
<1> USE ETFConstants DEF ETFInv, ETFTypeOK, EtfFilesTrue, Runners, FileRecords, RunnerRecords
<1>1. CASE Trigger
  BY <1>1 DEF Trigger
<1>2. CASE Ticker
  BY <1>2 DEF Ticker, Goes
<1>3. CASE TakeTrigger
  BY <1>3 DEF TakeTrigger, Goes
<1>4. CASE Cancel
  BY <1>4 DEF Cancel
<1>5. CASE LoopEnds
  BY <1>5 DEF LoopEnds, Goes
<1>6. ASSUME NEW r \in Runners, Boot(r) PROVE ETFInv'
  BY <1>6 DEF Boot, Goes
<1>7. ASSUME NEW r \in Runners, Begin(r) PROVE ETFInv'
  BY <1>7 DEF Begin, Goes, WriteStatus
<1>8. ASSUME NEW r \in Runners, Collect(r) PROVE ETFInv'
  BY <1>8 DEF Collect, Goes
<1>9. ASSUME NEW r \in Runners, Archive(r) PROVE ETFInv'
  BY <1>9 DEF Archive, Goes
<1>10. ASSUME NEW r \in Runners, Promote(r) PROVE ETFInv'
  BY <1>10 DEF Promote, Promoted, Goes
<1>11. ASSUME NEW r \in Runners, Report(r) PROVE ETFInv'
  <2>1. runner' = [runner EXCEPT ![r] =
            [NoAttempt EXCEPT !.step = IF r = "server" THEN "waiting" ELSE "off"]]
    BY <1>11 DEF Report
  <2>2. queued' \in BOOLEAN /\ cancelled' \in BOOLEAN
    BY <1>11 DEF Report
  <2>3. [NoAttempt EXCEPT !.step = IF r = "server" THEN "waiting" ELSE "off"] \in RunnerRecords
    BY DEF NoAttempt
  <2>4. runner' \in [Runners -> RunnerRecords]
    BY <2>1, <2>3
  <2>5. files' \in FileRecords
    BY <1>11 DEF Report, WriteStatus
  <2>6. EtfFilesTrue'
    BY <1>11 DEF Report, WriteStatus
  <2>7. files'.archive = files.archive
    BY <1>11 DEF Report, WriteStatus
  <2> QED BY <2>1, <2>2, <2>4, <2>5, <2>6, <2>7 DEF NoAttempt
<1>12. ASSUME NEW r \in Runners, Stop(r) PROVE ETFInv'
  BY <1>12 DEF Stop, NoAttempt
<1>13. CASE UNCHANGED etfVars
  BY <1>13 DEF etfVars
<1> QED BY <1>1, <1>2, <1>3, <1>4, <1>5, <1>6, <1>7, <1>8, <1>9, <1>10, <1>11, <1>12, <1>13
        DEF ETFNext

\* The status file of RunOnce tells the truth and the current file is archived,
\* through failing writes, crashes and a second process, for every set of dates.
THEOREM ETFFilesStayTrue == ETFSpec => []EtfFilesTrue
<1>1. ETFInv => EtfFilesTrue
  BY DEF ETFInv
<1> QED BY <1>1, ETFStarts, ETFKeeps, PTL DEF ETFSpec

------------------------------------------------------------------------------
(* The WebSocket hub. *)

HubInv == HubTypeOK /\ NoSilentGap

\* The hub starts without connections.
LEMMA HubStarts == HubInit => HubInv
<1> SUFFICES ASSUME HubInit PROVE HubInv
  OBVIOUS
<1>1. socket \in [Sockets -> SocketRecords] /\ sender \in [Senders -> SenderRecords]
  BY HubConstants DEF HubInit, NoSocket, SocketRecords, SenderRecords
<1>2. QueuesBounded
  <2>1. \A c \in Sockets : socket[c].queue = <<>>
    BY DEF HubInit, NoSocket
  <2> QED BY <2>1, HubConstants DEF QueuesBounded
<1>3. NoSilentGap
  BY DEF HubInit, NoSocket, NoSilentGap
<1> QED BY <1>1, <1>2, <1>3 DEF HubInv, HubTypeOK

\* Every step of the hub keeps the records of the connections in their domain.
LEMMA HubSockets ==
    ASSUME socket \in [Sockets -> SocketRecords], [HubNext]_hubVars
    PROVE  socket' \in [Sockets -> SocketRecords]
<1> USE DEF SocketRecords
<1>1. ASSUME NEW b \in Senders, Broadcast(b)
      PROVE  socket' \in [Sockets -> SocketRecords]
  BY <1>1 DEF Broadcast, Registered
<1>2. ASSUME NEW b \in Senders, SenderReturns(b)
      PROVE  socket' \in [Sockets -> SocketRecords]
  BY <1>2 DEF SenderReturns
<1>3. ASSUME NEW b \in Senders, NEW c \in Sockets, Enqueue(b, c)
      PROVE  socket' \in [Sockets -> SocketRecords]
  <2>1. Append(socket[c].queue, b) \in Seq(Senders)
    OBVIOUS
  <2> QED BY <1>3, <2>1 DEF Enqueue
<1>4. ASSUME NEW b \in Senders, NEW c \in Sockets, Skip(b, c)
      PROVE  socket' \in [Sockets -> SocketRecords]
  BY <1>4 DEF Skip, Offering, DoneClosed
<1>5. ASSUME NEW b \in Senders, NEW c \in Sockets, Overflow(b, c)
      PROVE  socket' \in [Sockets -> SocketRecords]
  BY <1>5 DEF Overflow, Offering, DoneClosed
<1>6. ASSUME NEW c \in Sockets, Connect(c)
      PROVE  socket' \in [Sockets -> SocketRecords]
  <2>1. NoSocket \in SocketRecords
    BY DEF NoSocket
  <2>2. [NoSocket EXCEPT !.state = "open", !.writer = "idle", !.reader = "reading"]
            \in SocketRecords
    BY <2>1
  <2> QED BY <1>6, <2>2 DEF Connect
<1>7. ASSUME NEW c \in Sockets, CloseDone(c) \/ Delete(c) \/ CloseConn(c)
      PROVE  socket' \in [Sockets -> SocketRecords]
  <2>1. CASE CloseDone(c)
    BY <2>1 DEF CloseDone
  <2>2. CASE Delete(c)
    BY <2>2 DEF Delete
  <2>3. CASE CloseConn(c)
    BY <2>3 DEF CloseConn
  <2> QED BY <1>7, <2>1, <2>2, <2>3
<1>8. ASSUME NEW c \in Sockets, WriterReturns(c) \/ ReaderReturns(c) \/ ReadFails(c)
      PROVE  socket' \in [Sockets -> SocketRecords]
  <2>1. CASE WriterReturns(c)
    BY <2>1 DEF WriterReturns
  <2>2. CASE ReaderReturns(c)
    BY <2>2 DEF ReaderReturns
  <2>3. CASE ReadFails(c)
    BY <2>3 DEF ReadFails
  <2> QED BY <1>8, <2>1, <2>2, <2>3
<1>9. ASSUME NEW c \in Sockets, Take(c)
      PROVE  socket' \in [Sockets -> SocketRecords]
  BY <1>9 DEF Take
<1>10. ASSUME NEW c \in Sockets, StopWriter(c) \/ Written(c) \/ WriteFails(c)
      PROVE  socket' \in [Sockets -> SocketRecords]
  <2>1. CASE StopWriter(c)
    BY <2>1 DEF StopWriter, DoneClosed
  <2>2. CASE Written(c)
    BY <2>2 DEF Written
  <2>3. CASE WriteFails(c)
    BY <2>3 DEF WriteFails
  <2> QED BY <1>10, <2>1, <2>2, <2>3
<1>11. CASE UNCHANGED hubVars
  BY <1>11 DEF hubVars
<1> QED BY <1>1, <1>2, <1>3, <1>4, <1>5, <1>6, <1>7, <1>8, <1>9, <1>10, <1>11 DEF HubNext

\* Every step of the hub keeps the records of the senders in their domain.
LEMMA HubSenders ==
    ASSUME sender \in [Senders -> SenderRecords], [HubNext]_hubVars
    PROVE  sender' \in [Senders -> SenderRecords]
<1> USE DEF SenderRecords
<1>1. ASSUME NEW b \in Senders, Broadcast(b)
      PROVE  sender' \in [Senders -> SenderRecords]
  <2>1. {c \in Sockets : Registered(c)} \in SUBSET Sockets
    OBVIOUS
  <2>2. sender[b].sent + 1 \in 0..MaxSent
    BY <1>1, HubConstants DEF Broadcast
  <2> DEFINE known == {c \in Sockets : Registered(c)}
  <2>3. known \in SUBSET Sockets
    BY <2>1
  <2>4. sender' = [sender EXCEPT ![b].sent = @ + 1, ![b].todo = known]
    BY <1>1 DEF Broadcast
  <2> HIDE DEF known
  <2> QED BY <2>2, <2>3, <2>4
<1>2. ASSUME NEW b \in Senders, SenderReturns(b)
      PROVE  sender' \in [Senders -> SenderRecords]
  BY <1>2 DEF SenderReturns
<1>3. ASSUME NEW b \in Senders, NEW c \in Sockets, Enqueue(b, c)
      PROVE  sender' \in [Senders -> SenderRecords]
  BY <1>3 DEF Enqueue, Offering
<1>4. ASSUME NEW b \in Senders, NEW c \in Sockets, Skip(b, c)
      PROVE  sender' \in [Senders -> SenderRecords]
  BY <1>4 DEF Skip, Offering, DoneClosed
<1>5. ASSUME NEW b \in Senders, NEW c \in Sockets, Overflow(b, c)
      PROVE  sender' \in [Senders -> SenderRecords]
  BY <1>5 DEF Overflow, Offering, DoneClosed
<1>6. ASSUME NEW c \in Sockets, Connect(c)
      PROVE  sender' \in [Senders -> SenderRecords]
  BY <1>6 DEF Connect, NoSocket
<1>7. ASSUME NEW c \in Sockets, CloseDone(c) \/ Delete(c) \/ CloseConn(c)
      PROVE  sender' \in [Senders -> SenderRecords]
  BY <1>7 DEF CloseDone, Delete, CloseConn
<1>8. ASSUME NEW c \in Sockets, WriterReturns(c) \/ ReaderReturns(c) \/ ReadFails(c)
      PROVE  sender' \in [Senders -> SenderRecords]
  BY <1>8 DEF WriterReturns, ReaderReturns, ReadFails
<1>9. ASSUME NEW c \in Sockets, Take(c)
      PROVE  sender' \in [Senders -> SenderRecords]
  BY <1>9 DEF Take
<1>10. ASSUME NEW c \in Sockets, StopWriter(c) \/ Written(c) \/ WriteFails(c)
      PROVE  sender' \in [Senders -> SenderRecords]
  BY <1>10 DEF StopWriter, Written, WriteFails, DoneClosed
<1>11. CASE UNCHANGED hubVars
  BY <1>11 DEF hubVars
<1> QED BY <1>1, <1>2, <1>3, <1>4, <1>5, <1>6, <1>7, <1>8, <1>9, <1>10, <1>11 DEF HubNext

\* A queue grows only while it has room.
LEMMA HubQueues ==
    ASSUME socket \in [Sockets -> SocketRecords], QueuesBounded, [HubNext]_hubVars
    PROVE  QueuesBounded'
<1> USE DEF SocketRecords, QueuesBounded
<1>1. ASSUME NEW b \in Senders, Broadcast(b)
      PROVE  QueuesBounded'
  BY <1>1 DEF Broadcast, Registered
<1>2. ASSUME NEW b \in Senders, SenderReturns(b)
      PROVE  QueuesBounded'
  BY <1>2 DEF SenderReturns
<1>3. ASSUME NEW b \in Senders, NEW c \in Sockets, Enqueue(b, c)
      PROVE  QueuesBounded'
  <2>1. Len(Append(socket[c].queue, b)) = Len(socket[c].queue) + 1
    OBVIOUS
  <2>2. Len(socket[c].queue) \in Nat /\ Len(socket[c].queue) + 1 <= QueueSize
    BY <1>3, HubConstants DEF Enqueue
  <2>3. socket'[c].queue = Append(socket[c].queue, b)
    BY <1>3 DEF Enqueue
  <2>4. \A d \in Sockets \ {c} : socket'[d].queue = socket[d].queue
    BY <1>3 DEF Enqueue
  <2> QED BY <2>1, <2>2, <2>3, <2>4
<1>4. ASSUME NEW b \in Senders, NEW c \in Sockets, Skip(b, c)
      PROVE  QueuesBounded'
  BY <1>4 DEF Skip, Offering, DoneClosed
<1>5. ASSUME NEW b \in Senders, NEW c \in Sockets, Overflow(b, c)
      PROVE  QueuesBounded'
  BY <1>5 DEF Overflow, Offering, DoneClosed
<1>6. ASSUME NEW c \in Sockets, Connect(c)
      PROVE  QueuesBounded'
  <2>1. socket'[c].queue = <<>>
    BY <1>6 DEF Connect, NoSocket
  <2>2. \A d \in Sockets \ {c} : socket'[d].queue = socket[d].queue
    BY <1>6 DEF Connect
  <2>3. Len(<<>>) <= QueueSize
    BY HubConstants
  <2> QED BY <2>1, <2>2, <2>3
<1>7. ASSUME NEW c \in Sockets, CloseDone(c) \/ Delete(c) \/ CloseConn(c)
      PROVE  QueuesBounded'
  BY <1>7 DEF CloseDone, Delete, CloseConn
<1>8. ASSUME NEW c \in Sockets, WriterReturns(c) \/ ReaderReturns(c) \/ ReadFails(c)
      PROVE  QueuesBounded'
  BY <1>8 DEF WriterReturns, ReaderReturns, ReadFails
<1>9. ASSUME NEW c \in Sockets, Take(c)
      PROVE  QueuesBounded'
  BY <1>9 DEF Take
<1>10. ASSUME NEW c \in Sockets, StopWriter(c) \/ Written(c) \/ WriteFails(c)
      PROVE  QueuesBounded'
  BY <1>10 DEF StopWriter, Written, WriteFails, DoneClosed
<1>11. CASE UNCHANGED hubVars
  BY <1>11 DEF hubVars
<1> QED BY <1>1, <1>2, <1>3, <1>4, <1>5, <1>6, <1>7, <1>8, <1>9, <1>10, <1>11 DEF HubNext

\* A message is missed only by a connection whose removal has begun or is what
\* its sender does next.
LEMMA HubGaps ==
    ASSUME socket \in [Sockets -> SocketRecords], sender \in [Senders -> SenderRecords],
           NoSilentGap, [HubNext]_hubVars
    PROVE  NoSilentGap'
<1> USE DEF SocketRecords, SenderRecords, NoSilentGap
<1>1. ASSUME NEW b \in Senders, Broadcast(b)
      PROVE  NoSilentGap'
  BY <1>1 DEF Broadcast, Registered
<1>2. ASSUME NEW b \in Senders, SenderReturns(b)
      PROVE  NoSilentGap'
  BY <1>2 DEF SenderReturns
<1>3. ASSUME NEW b \in Senders, NEW c \in Sockets, Enqueue(b, c)
      PROVE  NoSilentGap'
  BY <1>3 DEF Enqueue, Offering
<1>4. ASSUME NEW b \in Senders, NEW c \in Sockets, Skip(b, c)
      PROVE  NoSilentGap'
  BY <1>4 DEF Skip, Offering, DoneClosed
<1>5. ASSUME NEW b \in Senders, NEW c \in Sockets, Overflow(b, c)
      PROVE  NoSilentGap'
  <2>1. /\ sender'[b].removing = c
        /\ \A a \in Senders \ {b} : sender'[a] = sender[a]
    BY <1>5 DEF Overflow
  <2>2. /\ socket'[c].missed = socket[c].missed \union {b}
        /\ \A d \in Sockets : socket'[d].state = socket[d].state
        /\ \A d \in Sockets \ {c} : socket'[d] = socket[d]
    BY <1>5 DEF Overflow
  <2>3. sender[b].removing = NoOne
    BY <1>5 DEF Overflow, Offering
  <2>4. ASSUME NEW d \in Sockets, NEW a \in socket'[d].missed, socket'[d].state = "open"
        PROVE  sender'[a].removing = d
    <3>1. CASE d = c /\ a = b
      BY <3>1, <2>1
    <3>2. CASE d = c /\ a # b
      BY <3>2, <2>1, <2>2, <2>4
    <3>3. CASE d # c
      <4>1. a \in socket[d].missed /\ sender[a].removing = d
        BY <3>3, <2>2, <2>4
      <4>2. a # b
        BY <4>1, <2>3, HubConstants
      <4> QED BY <4>1, <4>2, <2>1
    <3> QED BY <3>1, <3>2, <3>3
  <2> QED BY <2>4
<1>6. ASSUME NEW c \in Sockets, Connect(c)
      PROVE  NoSilentGap'
  BY <1>6 DEF Connect, NoSocket
<1>7. ASSUME NEW c \in Sockets, CloseDone(c) \/ Delete(c) \/ CloseConn(c)
      PROVE  NoSilentGap'
  BY <1>7 DEF CloseDone, Delete, CloseConn
<1>8. ASSUME NEW c \in Sockets, WriterReturns(c) \/ ReaderReturns(c) \/ ReadFails(c)
      PROVE  NoSilentGap'
  <2>1. CASE WriterReturns(c)
    BY <2>1 DEF WriterReturns
  <2>2. CASE ReaderReturns(c)
    BY <2>2 DEF ReaderReturns
  <2>3. CASE ReadFails(c)
    BY <2>3 DEF ReadFails
  <2> QED BY <1>8, <2>1, <2>2, <2>3
<1>9. ASSUME NEW c \in Sockets, Take(c)
      PROVE  NoSilentGap'
  BY <1>9 DEF Take
<1>10. ASSUME NEW c \in Sockets, StopWriter(c) \/ Written(c) \/ WriteFails(c)
      PROVE  NoSilentGap'
  <2>1. CASE StopWriter(c)
    BY <2>1 DEF StopWriter, DoneClosed
  <2>2. CASE Written(c)
    BY <2>2 DEF Written
  <2>3. CASE WriteFails(c)
    BY <2>3 DEF WriteFails
  <2> QED BY <1>10, <2>1, <2>2, <2>3
<1>11. CASE UNCHANGED hubVars
  BY <1>11 DEF hubVars
<1> QED BY <1>1, <1>2, <1>3, <1>4, <1>5, <1>6, <1>7, <1>8, <1>9, <1>10, <1>11 DEF HubNext

\* No step of a sender or of a goroutine of a connection breaks the invariant of
\* the hub.
LEMMA HubKeeps == HubInv /\ [HubNext]_hubVars => HubInv'
BY HubSockets, HubSenders, HubQueues, HubGaps DEF HubInv, HubTypeOK

\* A connection that missed a message is being removed by its sender or is no
\* longer open, for every number of connections, senders and queue size.
THEOREM HubHasNoGap == HubSpec => []NoSilentGap
<1>1. HubInv => NoSilentGap
  BY DEF HubInv
<1> QED BY <1>1, HubStarts, HubKeeps, PTL DEF HubSpec

------------------------------------------------------------------------------
(* The quote gateway. *)

\* A flight that has not decided has no fresh quotes of the primary source.
FlightOK(r) ==
    /\ r.step \in {"unused", "collecting"} => Candidate("primary", "fresh") \notin r.got
    /\ r.step \in {"retained", "closed", "released"} => Best(r)
    /\ r.step \in {"closed", "released"} => Settled(r)

FlightsOK == \A f \in Flights : FlightOK(flight[f])
AnswersOK == \A a \in Askers : Rank(asker[a].answer) >= 1

Followed == \A a \in Askers : asker[a].step = "following" => asker[a].flight # 0

QuoteInv == QuoteTypeOK /\ KeyHeld /\ Led /\ FlightsOK /\ AnswersOK /\ Followed

\* Flights are numbered from 1; 0 is no flight.
LEMMA FlightsArePositive == Flights \subseteq Nat \ {0}
<1>1. Cardinality(Askers) \in Nat
  BY QuoteConstants, FS_CardinalityType
<1> QED BY <1>1 DEF Flights

\* The rank of whatever is served is a number.
LEMMA RankType == \A c : Rank(c) \in 0..5
BY DEF Rank

\* The best quotes of all are those of the primary source, fresh.
LEMMA FreshServed ==
    /\ Candidate("primary", "fresh") \in Served /\ Rank(Candidate("primary", "fresh")) = 5
    /\ Candidate("secondary", "fresh") \in Served /\ Rank(Candidate("secondary", "fresh")) = 4
    /\ Snapshot \in Served /\ Rank(Snapshot) = 1
<1>1. /\ Candidate("primary", "fresh") \in Candidates
      /\ Candidate("secondary", "fresh") \in Candidates
  BY DEF Candidate, Candidates, Sources, Worths
<1>2. Rank(Candidate("primary", "fresh")) = 5
  BY DEF Rank, Candidate, Snapshot
<1>3. Rank(Candidate("secondary", "fresh")) = 4
  BY DEF Rank, Candidate, Snapshot
<1>4. Rank(Snapshot) = 1
  BY DEF Rank, Candidate, Snapshot
<1> QED BY <1>1, <1>2, <1>3, <1>4 DEF Served

\* preferredQuoteFallback returns the best of the candidates it may choose from.
LEMMA PreferredIsBest ==
    ASSUME NEW got \in SUBSET Candidates, Candidate("primary", "fresh") \notin got
    PROVE  /\ Preferred(got) \in Served
           /\ Rank(Preferred(got)) >= 1
           /\ \A c \in got : Rank(Preferred(got)) >= Rank(c)
           /\ Preferred(got) # Candidate("primary", "fresh")
<1> USE DEF Candidate, Snapshot
<1>1. /\ Rank(Candidate("secondary", "fresh")) = 4
      /\ Rank(Candidate("primary", "stale")) = 3
      /\ Rank(Candidate("secondary", "stale")) = 2
      /\ Rank(Snapshot) = 1
      /\ Rank(Candidate("primary", "untrusted")) = 0
      /\ Rank(Candidate("secondary", "untrusted")) = 0
  BY DEF Rank
<1>2. \A c \in got : c \in {Candidate("secondary", "fresh"), Candidate("primary", "stale"),
                           Candidate("secondary", "stale"), Candidate("primary", "untrusted"),
                           Candidate("secondary", "untrusted")}
  BY DEF Candidates, Sources, Worths
<1>3. Preferred(got) \in Served /\ Preferred(got) # Candidate("primary", "fresh")
  BY DEF Preferred, Served, Candidates, Sources, Worths
<1> HIDE DEF Candidate, Snapshot
<1>4. \/ Preferred(got) = Candidate("secondary", "fresh")
      \/ Preferred(got) = Candidate("primary", "stale")
            /\ Candidate("secondary", "fresh") \notin got
      \/ Preferred(got) = Candidate("secondary", "stale")
            /\ Candidate("secondary", "fresh") \notin got
            /\ Candidate("primary", "stale") \notin got
      \/ Preferred(got) = Snapshot
            /\ Candidate("secondary", "fresh") \notin got
            /\ Candidate("primary", "stale") \notin got
            /\ Candidate("secondary", "stale") \notin got
  BY DEF Preferred
<1> QED BY <1>1, <1>2, <1>3, <1>4

\* The gateway starts without flights.
LEMMA QuotesStart == QuoteInit => QuoteInv
<1> SUFFICES ASSUME QuoteInit PROVE QuoteInv
  OBVIOUS
<1>1. Rank(Snapshot) = 1
  BY FreshServed
<1>2. NoFlight \in FlightRecords /\ FlightOK(NoFlight)
  BY DEF NoFlight, FlightRecords, FlightOK, Served
<1>3. QuoteTypeOK
  BY <1>2 DEF QuoteInit, QuoteTypeOK, AskerRecords, Served
<1>4. KeyHeld /\ Led
  BY FlightsArePositive DEF QuoteInit, KeyHeld, Led, NoFlight
<1>5. FlightsOK /\ AnswersOK /\ Followed
  BY <1>1, <1>2 DEF QuoteInit, FlightsOK, AnswersOK, Followed
<1> QED BY <1>3, <1>4, <1>5 DEF QuoteInv

\* One flight changes: the others stay as they are.
LEMMA FlightChanges ==
    ASSUME flight \in [Flights -> FlightRecords], FlightsOK,
           NEW f \in Flights, NEW r \in FlightRecords, FlightOK(r),
           flight' = [flight EXCEPT ![f] = r]
    PROVE  /\ flight' \in [Flights -> FlightRecords]
           /\ FlightsOK'
           /\ flight'[f] = r
           /\ \A g \in Flights \ {f} : flight'[g] = flight[g]
BY DEF FlightsOK

\* A leader that waits for flight f returns with its result, the others wait on.
Returned(f, answer) ==
    [a \in Askers |->
        IF asker[a].step = "leading" /\ asker[a].flight = f
        THEN [asker[a] EXCEPT !.step = "answered", !.answer = answer]
        ELSE asker[a]]

\* The leader of a flight that gives the key back, or is retained, returns with
\* its result; the other calls stay as they are.
LEMMA LeaderReturns ==
    ASSUME asker \in [Askers -> AskerRecords], AnswersOK, Followed,
           NEW f \in Flights, NEW answer \in Served, Rank(answer) >= 1,
           asker' = Returned(f, answer)
    PROVE  /\ asker' \in [Askers -> AskerRecords]
           /\ AnswersOK' /\ Followed'
           /\ \A a \in Askers :
                asker[a].step = "leading" /\ asker[a].flight # f => asker'[a] = asker[a]
BY DEF AskerRecords, AnswersOK, Followed, Returned

\* A flight that is decided gives the key back later.
LEMMA Decides ==
    ASSUME QuoteInv, NEW f \in Flights, flight[f].step = "collecting",
           NEW got \in SUBSET Candidates, NEW result \in Served,
           Rank(result) >= 1, \A c \in got : Rank(result) >= Rank(c),
           Answered(got, "primary") \/ result = Candidate("secondary", "fresh"),
           Decide(f, got, result), UNCHANGED <<key, asker>>
    PROVE  QuoteInv'
<1> DEFINE r == [flight[f] EXCEPT !.step = "closed", !.got = got, !.result = result]
<1>1. r \in FlightRecords /\ r.step = "closed"
  BY DEF QuoteInv, QuoteTypeOK, FlightRecords
<1>2. FlightOK(r)
  BY <1>1 DEF FlightOK, Best, Settled, QuoteInv, QuoteTypeOK, FlightRecords
<1>3. flight' = [flight EXCEPT ![f] = r]
  BY DEF Decide
<1> HIDE DEF r
<1>4. /\ flight' \in [Flights -> FlightRecords]
      /\ FlightsOK'
      /\ flight'[f] = r
      /\ \A g \in Flights \ {f} : flight'[g] = flight[g]
  BY <1>1, <1>2, <1>3, FlightChanges DEF QuoteInv, QuoteTypeOK
<1>5. KeyHeld' /\ Led'
  BY <1>1, <1>4 DEF QuoteInv, KeyHeld, Led
<1>6. AnswersOK' /\ QuoteTypeOK' /\ Followed'
  BY <1>4 DEF QuoteInv, QuoteTypeOK, AnswersOK, Followed
<1> QED BY <1>4, <1>5, <1>6 DEF QuoteInv

\* The best candidate that a flight without fresh primary quotes can serve.
LEMMA Fallback ==
    ASSUME QuoteInv, NEW f \in Flights, flight[f].step = "collecting"
    PROVE  /\ flight[f].got \in SUBSET Candidates
           /\ Candidate("primary", "fresh") \notin flight[f].got
           /\ Preferred(flight[f].got) \in Served
           /\ Rank(Preferred(flight[f].got)) >= 1
           /\ \A c \in flight[f].got : Rank(Preferred(flight[f].got)) >= Rank(c)
<1>1. /\ flight[f].got \in SUBSET Candidates
      /\ Candidate("primary", "fresh") \notin flight[f].got
  BY DEF QuoteInv, QuoteTypeOK, FlightRecords, FlightsOK, FlightOK
<1> QED BY <1>1, PreferredIsBest

\* A call that finds no flight registered starts one and leads it.
LEMMA LeadKeeps ==
    ASSUME QuoteInv, NEW a \in Askers, Lead(a)
    PROVE  QuoteInv'
<1>1. PICK f \in Flights :
        /\ flight[f].step = "unused"
        /\ flight' = [flight EXCEPT ![f].step = "collecting"]
        /\ key' = f
        /\ asker' = [asker EXCEPT ![a].step = "leading", ![a].flight = f]
  BY DEF Lead
<1> DEFINE r == [flight[f] EXCEPT !.step = "collecting"]
<1>2. r \in FlightRecords /\ r.step = "collecting"
  BY DEF QuoteInv, QuoteTypeOK, FlightRecords
<1>3. FlightOK(r)
  BY <1>1, <1>2 DEF FlightOK, QuoteInv, FlightsOK, QuoteTypeOK, FlightRecords
<1>4. flight' = [flight EXCEPT ![f] = r]
  BY <1>1
<1> HIDE DEF r
<1>5. /\ flight' \in [Flights -> FlightRecords]
      /\ FlightsOK'
      /\ flight'[f] = r
      /\ \A g \in Flights \ {f} : flight'[g] = flight[g]
  BY <1>2, <1>3, <1>4, FlightChanges DEF QuoteInv, QuoteTypeOK
<1>6. /\ asker' \in [Askers -> AskerRecords]
      /\ AnswersOK' /\ Followed'
      /\ asker'[a].step = "leading" /\ asker'[a].flight = f
  BY <1>1 DEF QuoteInv, QuoteTypeOK, AskerRecords, AnswersOK, Followed
<1>7. key = 0 /\ \A g \in Flights : g # 0
  BY FlightsArePositive DEF Lead
<1>8. KeyHeld'
  BY <1>1, <1>2, <1>5, <1>7 DEF QuoteInv, KeyHeld
<1>9. Led'
  <2>1. \A g \in Flights \ {f} : flight[g].step # "collecting"
    BY <1>7 DEF QuoteInv, KeyHeld
  <2> QED BY <2>1, <1>5, <1>6 DEF Led
<1> QED BY <1>1, <1>5, <1>6, <1>8, <1>9 DEF QuoteInv, QuoteTypeOK

\* A call that waits for nobody changes nothing that the flights depend on.
LEMMA CallKeeps ==
    ASSUME QuoteInv, NEW a \in Askers, NEW r \in AskerRecords, Rank(r.answer) >= 1,
           r.step = "following" => r.flight # 0,
           asker[a].step # "leading", asker' = [asker EXCEPT ![a] = r],
           UNCHANGED <<flight, key>>
    PROVE  QuoteInv'
<1>1. asker' \in [Askers -> AskerRecords] /\ AnswersOK' /\ Followed'
  BY DEF QuoteInv, QuoteTypeOK, AnswersOK, Followed
<1>2. \A b \in Askers : asker[b].step = "leading" => asker'[b] = asker[b]
  BY DEF QuoteInv, QuoteTypeOK
<1>3. KeyHeld' /\ Led' /\ FlightsOK'
  BY <1>2 DEF QuoteInv, KeyHeld, Led, FlightsOK
<1> QED BY <1>1, <1>3 DEF QuoteInv, QuoteTypeOK

\* The answer of a source is collected, or decides the flight.
LEMMA ReceiveKeeps ==
    ASSUME QuoteInv, NEW f \in Flights, NEW source \in Sources, NEW worth \in Worths,
           Receive(f, source, worth)
    PROVE  QuoteInv'
<1> DEFINE got == flight[f].got \union {Candidate(source, worth)}
           best == Candidate("primary", "fresh")
<1>1. flight[f].step = "collecting"
  BY DEF Receive
<1>2. got \in SUBSET Candidates
  BY <1>1, Fallback DEF Candidates, Candidate
<1>3. CASE best \in got /\ Decide(f, got, best) /\ UNCHANGED <<key, asker>>
  <2>1. Rank(best) = 5 /\ best \in Served
    BY FreshServed
  <2>2. Answered(got, "primary")
    BY <1>3 DEF Answered, Candidate
  <2>3. \A c \in got : Rank(best) >= Rank(c)
    BY <2>1, RankType
  <2> HIDE DEF got, best
  <2> QED BY <1>1, <1>2, <1>3, <2>1, <2>2, <2>3, Decides
<1>4. CASE /\ best \notin got
           /\ \A s \in Sources : Answered(got, s)
           /\ Decide(f, got, Preferred(got))
           /\ UNCHANGED <<key, asker>>
  <2>1. Answered(got, "primary")
    BY <1>4 DEF Sources
  <2> HIDE DEF got
  <2> QED BY <1>1, <1>2, <1>4, <2>1, PreferredIsBest, Decides
<1>5. CASE /\ best \notin got
           /\ flight' = [flight EXCEPT ![f].got = got]
           /\ UNCHANGED <<key, asker>>
  <2> DEFINE r == [flight[f] EXCEPT !.got = got]
  <2> HIDE DEF got
  <2>1. r \in FlightRecords /\ r.step = "collecting" /\ r.got = got
    BY <1>1, <1>2 DEF QuoteInv, QuoteTypeOK, FlightRecords
  <2>2. FlightOK(r)
    BY <2>1, <1>5 DEF FlightOK
  <2>3. flight' = [flight EXCEPT ![f] = r]
    BY <1>5
  <2> HIDE DEF r
  <2>4. /\ flight' \in [Flights -> FlightRecords]
        /\ FlightsOK'
        /\ flight'[f] = r
        /\ \A g \in Flights \ {f} : flight'[g] = flight[g]
    BY <2>1, <2>2, <2>3, FlightChanges DEF QuoteInv, QuoteTypeOK
  <2>5. KeyHeld' /\ Led' /\ AnswersOK' /\ Followed'
    BY <1>1, <1>5, <2>1, <2>4 DEF QuoteInv, KeyHeld, Led, AnswersOK, Followed
  <2> QED BY <1>5, <2>4, <2>5 DEF QuoteInv, QuoteTypeOK
<1> QED BY <1>3, <1>4, <1>5 DEF Receive

\* The end of the grace period decides for the secondary source's fresh quotes.
LEMMA GraceKeeps ==
    ASSUME QuoteInv, NEW f \in Flights, GraceEnds(f)
    PROVE  QuoteInv'
<1> DEFINE held == Candidate("secondary", "fresh")
<1>1. Rank(held) = 4 /\ held \in Served
  BY FreshServed
<1>2. flight[f].step = "collecting"
  BY DEF GraceEnds
<1>3. ASSUME NEW c \in Candidates, c # Candidate("primary", "fresh")
      PROVE  Rank(c) <= 4
  <2>1. Rank(c) # 5
    BY <1>3 DEF Rank, Candidate, Snapshot
  <2> QED BY <2>1, RankType
<1>4. \A c \in flight[f].got : Rank(held) >= Rank(c)
  BY <1>1, <1>2, <1>3, Fallback
<1> QED BY <1>1, <1>2, <1>4, Fallback, Decides DEF GraceEnds

\* A timeout decides the flight, or retains it when the primary source is late.
LEMMA ExpireKeeps ==
    ASSUME QuoteInv, NEW f \in Flights, Expire(f)
    PROVE  QuoteInv'
<1> DEFINE best == Preferred(flight[f].got)
           r == [flight[f] EXCEPT !.step = "retained", !.result = best]
<1>1. flight[f].step = "collecting"
  BY DEF Expire
<1>2. CASE PrimaryDone(f) /\ Decide(f, flight[f].got, best) /\ UNCHANGED <<key, asker>>
  BY <1>1, <1>2, Fallback, Decides DEF PrimaryDone
<1>3. CASE /\ flight' = [flight EXCEPT ![f].step = "retained", ![f].result = best]
           /\ asker' = Returned(f, best)
           /\ UNCHANGED key
  <2>1. r \in FlightRecords /\ r.step = "retained" /\ r.got = flight[f].got /\ r.result = best
    BY <1>1, Fallback DEF QuoteInv, QuoteTypeOK, FlightRecords
  <2>2. FlightOK(r)
    BY <1>1, <2>1, Fallback DEF FlightOK, Best
  <2>3. flight' = [flight EXCEPT ![f] = r]
    BY <1>3
  <2> HIDE DEF r
  <2>4. /\ flight' \in [Flights -> FlightRecords]
        /\ FlightsOK'
        /\ flight'[f] = r
        /\ \A g \in Flights \ {f} : flight'[g] = flight[g]
    BY <2>1, <2>2, <2>3, FlightChanges DEF QuoteInv, QuoteTypeOK
  <2>5. /\ asker' \in [Askers -> AskerRecords]
        /\ AnswersOK' /\ Followed'
        /\ \A a \in Askers :
            asker[a].step = "leading" /\ asker[a].flight # f => asker'[a] = asker[a]
    BY <1>1, <1>3, Fallback, LeaderReturns DEF QuoteInv, QuoteTypeOK
  <2>6. KeyHeld' /\ Led'
    BY <1>1, <1>3, <2>1, <2>4, <2>5 DEF QuoteInv, KeyHeld, Led
  <2> QED BY <1>3, <2>4, <2>5, <2>6 DEF QuoteInv, QuoteTypeOK
<1> QED BY <1>2, <1>3 DEF Expire, Returned

\* The late answer of the primary source closes a retained flight.
LEMMA LateKeeps ==
    ASSUME QuoteInv, NEW f \in Flights, LateAnswer(f)
    PROVE  QuoteInv'
<1> DEFINE r == [flight[f] EXCEPT !.step = "closed", !.late = TRUE]
<1>1. /\ r \in FlightRecords
      /\ r.step = "closed" /\ r.late /\ r.got = flight[f].got /\ r.result = flight[f].result
  BY DEF QuoteInv, QuoteTypeOK, FlightRecords
<1>2. FlightOK(r)
  BY <1>1 DEF LateAnswer, QuoteInv, FlightsOK, FlightOK, Best, Settled
<1>3. flight' = [flight EXCEPT ![f] = r]
  BY DEF LateAnswer
<1> HIDE DEF r
<1>4. /\ flight' \in [Flights -> FlightRecords]
      /\ FlightsOK'
      /\ flight'[f] = r
      /\ \A g \in Flights \ {f} : flight'[g] = flight[g]
  BY <1>1, <1>2, <1>3, FlightChanges DEF QuoteInv, QuoteTypeOK
<1>5. KeyHeld' /\ Led' /\ AnswersOK' /\ Followed'
  BY <1>1, <1>4 DEF LateAnswer, QuoteInv, KeyHeld, Led, AnswersOK, Followed
<1> QED BY <1>4, <1>5 DEF LateAnswer, QuoteInv, QuoteTypeOK

\* A closed flight gives the key back, and its leader returns.
LEMMA ReleaseKeeps ==
    ASSUME QuoteInv, NEW f \in Flights, Release(f)
    PROVE  QuoteInv'
<1> DEFINE r == [flight[f] EXCEPT !.step = "released"]
<1>1. /\ r \in FlightRecords
      /\ r.step = "released" /\ r.late = flight[f].late
      /\ r.got = flight[f].got /\ r.result = flight[f].result
  BY DEF QuoteInv, QuoteTypeOK, FlightRecords
<1>2. FlightOK(flight[f]) /\ flight[f].step = "closed"
  BY DEF Release, QuoteInv, FlightsOK
<1>3. FlightOK(r)
  BY <1>1, <1>2 DEF FlightOK, Best, Settled
<1>4. flight' = [flight EXCEPT ![f] = r]
  BY DEF Release
<1> HIDE DEF r
<1>5. /\ flight' \in [Flights -> FlightRecords]
      /\ FlightsOK'
      /\ flight'[f] = r
      /\ \A g \in Flights \ {f} : flight'[g] = flight[g]
  BY <1>1, <1>3, <1>4, FlightChanges DEF QuoteInv, QuoteTypeOK
<1>6. flight[f].result \in Served /\ Rank(flight[f].result) >= 1
  BY <1>2 DEF FlightOK, Best, QuoteInv, QuoteTypeOK, FlightRecords
<1>7. /\ asker' \in [Askers -> AskerRecords]
      /\ AnswersOK' /\ Followed'
      /\ \A a \in Askers :
            asker[a].step = "leading" /\ asker[a].flight # f => asker'[a] = asker[a]
  BY <1>6, LeaderReturns DEF Release, Returned, QuoteInv, QuoteTypeOK
<1>8. key = f /\ key' = 0 /\ \A g \in Flights : g # 0
  BY <1>2, FlightsArePositive DEF Release, QuoteInv, KeyHeld
<1>9. KeyHeld' /\ Led'
  BY <1>1, <1>2, <1>5, <1>7, <1>8 DEF QuoteInv, KeyHeld, Led
<1> QED BY <1>5, <1>7, <1>8, <1>9 DEF QuoteInv, QuoteTypeOK

\* No step of a flight or of a call breaks the invariant of the gateway.
LEMMA QuotesKeep == QuoteInv /\ [QuoteNext]_quoteVars => QuoteInv'
<1> SUFFICES ASSUME QuoteInv, [QuoteNext]_quoteVars PROVE QuoteInv'
  OBVIOUS
<1>1. ASSUME NEW a \in Askers, Follow(a) PROVE QuoteInv'
  <2> DEFINE r == [asker[a] EXCEPT !.step = "following", !.flight = key]
  <2>1. r \in AskerRecords /\ Rank(r.answer) >= 1 /\ r.flight # 0
    BY <1>1 DEF Follow, QuoteInv, QuoteTypeOK, AskerRecords, AnswersOK
  <2>2. asker' = [asker EXCEPT ![a] = r]
    BY <1>1 DEF Follow
  <2> HIDE DEF r
  <2> QED BY <1>1, <2>1, <2>2, CallKeeps DEF Follow
<1>2. ASSUME NEW a \in Askers, FollowerAnswered(a) PROVE QuoteInv'
  <2> DEFINE f == asker[a].flight
             r == [asker[a] EXCEPT !.step = "answered", !.answer = flight[f].result]
  <2>1. f \in Flights
    BY <1>2 DEF FollowerAnswered, QuoteInv, QuoteTypeOK, AskerRecords, Followed
  <2>2. flight[f].result \in Served /\ Rank(flight[f].result) >= 1
    BY <1>2, <2>1 DEF FollowerAnswered, QuoteInv, QuoteTypeOK, FlightRecords, FlightsOK,
                      FlightOK, Best
  <2>3. r \in AskerRecords /\ Rank(r.answer) >= 1 /\ r.step = "answered"
    BY <2>2 DEF QuoteInv, QuoteTypeOK, AskerRecords
  <2>4. asker' = [asker EXCEPT ![a] = r]
    BY <1>2 DEF FollowerAnswered
  <2> HIDE DEF r
  <2> QED BY <1>2, <2>3, <2>4, CallKeeps DEF FollowerAnswered
<1>3. ASSUME NEW a \in Askers, FollowerExpires(a) PROVE QuoteInv'
  <2> DEFINE r == [asker[a] EXCEPT !.step = "answered", !.answer = Snapshot]
  <2>1. Snapshot \in Served /\ Rank(Snapshot) = 1
    BY FreshServed
  <2>2. asker[a] \in AskerRecords
    BY DEF QuoteInv, QuoteTypeOK
  <2>3. r \in AskerRecords /\ r.answer = Snapshot /\ r.step = "answered"
    BY <2>1, <2>2 DEF AskerRecords
  <2>4. asker' = [asker EXCEPT ![a] = r]
    BY <1>3 DEF FollowerExpires
  <2> HIDE DEF r
  <2>5. Rank(r.answer) >= 1
    BY <2>1, <2>3
  <2>6. asker[a].step # "leading" /\ UNCHANGED <<flight, key>>
    BY <1>3 DEF FollowerExpires
  <2> QED BY <2>3, <2>4, <2>5, <2>6, CallKeeps
<1>4. CASE UNCHANGED quoteVars
  BY <1>4 DEF quoteVars, QuoteInv, QuoteTypeOK, KeyHeld, Led, FlightsOK, AnswersOK,
                 Followed
<1> QED BY <1>1, <1>2, <1>3, <1>4, LeadKeeps, ReceiveKeeps, GraceKeeps, ExpireKeeps,
           LateKeeps, ReleaseKeeps DEF QuoteNext

\* Callers of boundedQuotesWithMeta get the best trusted quotes that came in time
\* and a key is never left to a second primary request after a timeout, for every
\* number of calls.
THEOREM QuotesStayTrusted == QuoteSpec => []QuotesTrusted
<1>1. QuoteInv => QuotesTrusted
  BY DEF QuoteInv, QuotesTrusted, FlightsOK, FlightOK, AnswersOK
<1> QED BY <1>1, QuotesStart, QuotesKeep, PTL DEF QuoteSpec

------------------------------------------------------------------------------
(* The services beside each other. *)

\* The state of a service that does not move stays as its invariant has it.
LEMMA ServicesRest ==
    /\ QuoteInv /\ UNCHANGED quoteVars => QuoteInv'
    /\ HubInv /\ UNCHANGED hubVars => HubInv'
    /\ ETFInv /\ UNCHANGED etfVars => ETFInv'
    /\ BreakerInv /\ UNCHANGED breakerVars => BreakerInv'
BY QuotesKeep, HubKeeps, ETFKeeps, BreakerKeeps

\* Whatever the number of calls, connections, senders, dates and batches, every
\* service keeps its state in its domain: flights and keys of the gateway,
\* queues of the hub, files and attempts of the ETF refresh, counts of the
\* breaker.
THEOREM ServicesTypeCorrect == Spec => []ServicesTypeOK
<1> DEFINE Inv == QuoteInv /\ HubInv /\ ETFInv /\ BreakerInv
<1>1. Init => Inv
  BY QuotesStart, HubStarts, ETFStarts, BreakerStarts DEF Init
<1>2. Inv /\ [Next]_<<service, quoteVars, hubVars, etfVars, breakerVars>> => Inv'
  <2> SUFFICES ASSUME Inv, [Next]_<<service, quoteVars, hubVars, etfVars, breakerVars>>
               PROVE  Inv'
    OBVIOUS
  <2>1. CASE QuoteNext /\ UNCHANGED <<service, hubVars, etfVars, breakerVars>>
    BY <2>1, QuotesKeep, ServicesRest
  <2>2. CASE HubNext /\ UNCHANGED <<service, quoteVars, etfVars, breakerVars>>
    BY <2>2, HubKeeps, ServicesRest
  <2>3. CASE ETFNext /\ UNCHANGED <<service, quoteVars, hubVars, breakerVars>>
    BY <2>3, ETFKeeps, ServicesRest
  <2>4. CASE BreakerNext /\ UNCHANGED <<service, quoteVars, hubVars, etfVars>>
    BY <2>4, BreakerKeeps, ServicesRest
  <2>5. CASE UNCHANGED <<service, quoteVars, hubVars, etfVars, breakerVars>>
    BY <2>5, ServicesRest
  <2> QED BY <2>1, <2>2, <2>3, <2>4, <2>5 DEF Next
<1>3. Inv => ServicesTypeOK
  BY DEF QuoteInv, HubInv, ETFInv, BreakerInv, ServicesTypeOK
<1> HIDE DEF Inv
<1> QED BY <1>1, <1>2, <1>3, PTL DEF Spec
==============================================================================
