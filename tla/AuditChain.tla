------------------------------ MODULE AuditChain ------------------------------
(***************************************************************************)
(* The audit chain of app/backend/internal/api/admin_audit.go: a guarded   *)
(* call first stores a PENDING row, linked to the row before it by hashes, *)
(* then runs its handler, records the outcome in the row and only then     *)
(* lets the buffered response out.  The Paper ledger appends completed     *)
(* rows to the same chain.  A server process closes the rows it finds      *)
(* pending when it starts (app/backend/main.go:57).  Several processes may *)
(* share the database, which is why OpenSQLite makes transactions exclude  *)
(* each other; every action below contains at most one transaction.        *)
(*                                                                         *)
(* A hash is represented by what it binds: its predecessor followed by the *)
(* hashed fields.                                                          *)
(***************************************************************************)
EXTENDS Integers, Sequences, FiniteSets

CONSTANTS
    Processes,    \* server processes that share the database
    Calls,        \* guarded HTTP calls, retries included
    Ids,          \* the values of their X-Request-ID headers
    MaxSystem,    \* bound on the rows the Paper ledger appends
    MaxBoots      \* bound on the starts of each process

ASSUME AuditConstants == {MaxSystem, MaxBoots} \subseteq Nat

VARIABLES
    chain,     \* the rows of audit_events in the order of their ids
    process,   \* the processes
    calls,     \* the calls in flight and answered
    ran        \* the calls whose business handler has run

vars == <<chain, process, calls, ran>>

\* What outcomeForHTTPStatus makes of the response that a handler has buffered.
HandlerOutcomes == {"SUCCEEDED", "REJECTED", "FAILED"}
Denied == "DENIED"

\* What ReconcilePendingAuditOutcomes records for a request that was interrupted.
Interrupted == "FAILED"

NoOutcome == [hash |-> <<>>, status |-> "none"]

LastHash == IF chain = <<>> THEN <<>> ELSE chain[Len(chain)].hash

\* Faulty: every row binds its status.
HashAll(row) ==
    Append(row.prev, [kind |-> row.kind, id |-> row.id, actor |-> row.actor,
                      status |-> row.status])

\* calculateAuditHash: only system rows, complete from the start, bind their status.
HashOf(row) ==
    Append(row.prev, [kind |-> row.kind, id |-> row.id, actor |-> row.actor,
                      status |-> IF row.kind = "system" THEN row.status ELSE "unbound"])

OutcomeHash(row, status) == [hash |-> row.hash, status |-> status]

Linked(row) == [row EXCEPT !.prev = LastHash, !.hash = HashOf([row EXCEPT !.prev = LastHash])]

Unlinked(kind, id, actor, status) ==
    [kind |-> kind, id |-> id, actor |-> actor, status |-> status,
     outcome |-> NoOutcome, prev |-> <<>>, hash |-> <<>>]

Pending(row) == row.kind # "system" /\ row.status = "PENDING"

\* Faulty: the status is not looked at.
FinalizableAgain(i) == i \in DOMAIN chain /\ chain[i].kind # "system"

\* Rows that finalizeAuditOutcome accepts.
Finalizable(i) == i \in DOMAIN chain /\ Pending(chain[i])

Finalized(i, status) ==
    [chain EXCEPT ![i].status = status, ![i].outcome = OutcomeHash(chain[i], status)]

\* seen only records how long the chain was when the process looked for pending rows.
NoProcess == [state |-> "down", boots |-> 0, todo |-> {}, seen |-> 0]
NoCall == [step |-> "idle", at |-> "none", id |-> "none",
           row |-> 0, result |-> "none", answer |-> "none"]

Legacy(id) == [Unlinked("legacy", id, "admin", "PENDING") EXCEPT
                  !.hash = HashOf(Unlinked("legacy", id, "admin", "PENDING"))]

\* The database may hold a row that an earlier version left pending.
Init ==
    /\ \E id \in Ids : chain \in {<<>>, <<Legacy(id)>>}
    /\ process = [p \in Processes |-> NoProcess]
    /\ calls = [c \in Calls |-> NoCall]
    /\ ran = {}
-----------------------------------------------------------------------------
(* Guarded calls *)

\* Faulty: only requests in flight count.
UsedNow(id) == \E i \in DOMAIN chain : chain[i].id = id /\ Pending(chain[i])

Used(id) == \E i \in DOMAIN chain : chain[i].id = id

Arrives(c, p, id) ==
    [NoCall EXCEPT !.at = p, !.id = id]

\* The body is too large, or the pending row cannot be stored: the call ends.
Refuse(c, p, id) ==
    /\ calls' = [calls EXCEPT ![c] =
           [Arrives(c, p, id) EXCEPT !.step = "done", !.answer = "UNAVAILABLE"]]
    /\ UNCHANGED chain

Duplicate(c, p, id) ==
    /\ Used(id)
    /\ calls' = [calls EXCEPT ![c] =
           [Arrives(c, p, id) EXCEPT !.step = "done", !.answer = "DUPLICATE"]]
    /\ UNCHANGED chain

\* The row is stored for authorised and for denied calls; denied ones skip the handler.
CreatePending(c, p, id) ==
    /\ ~Used(id)
    /\ \E allowed \in BOOLEAN :
         /\ chain' = Append(chain, Linked(Unlinked("guarded", id,
                                IF allowed THEN "admin" ELSE "anonymous", "PENDING")))
         /\ calls' = [calls EXCEPT ![c] = [Arrives(c, p, id) EXCEPT
                !.step = IF allowed THEN "admitted" ELSE "ran",
                !.result = IF allowed THEN "none" ELSE Denied,
                !.row = Len(chain) + 1]]

Arrive(c, p, id) ==
    /\ calls[c].step = "idle"
    /\ process[p].state = "up"
    /\ \/ Refuse(c, p, id)
       \/ Duplicate(c, p, id)
       \/ CreatePending(c, p, id)
    /\ UNCHANGED <<process, ran>>

\* The handler writes into the buffer.
Handle(c) ==
    /\ calls[c].step = "admitted"
    /\ ran' = ran \cup {c}
    /\ \E result \in HandlerOutcomes :
         calls' = [calls EXCEPT ![c].step = "ran", ![c].result = result]
    /\ UNCHANGED <<chain, process>>

\* The handler panics: gin's Recovery writes its 500 into the buffer, which nobody
\* commits, and the client gets the status and body that were never set.
Panic(c) ==
    /\ calls[c].step = "admitted"
    /\ ran' = ran \cup {c}
    /\ calls' = [calls EXCEPT ![c].step = "done", ![c].answer = "EMPTY"]
    /\ UNCHANGED <<chain, process>>

Withhold(c) ==
    /\ calls' = [calls EXCEPT ![c].step = "done", ![c].answer = "PENDING"]
    /\ UNCHANGED chain

\* Faulty: a failure to record is only logged.
RecordOrLog(c) ==
    LET call == calls[c]
    IN  /\ call.step = "ran"
        /\ calls' = [calls EXCEPT ![c].step = "recorded"]
        /\ \/ Finalizable(call.row) /\ chain' = Finalized(call.row, call.result)
           \/ UNCHANGED chain
        /\ UNCHANGED <<process, ran>>

\* finalizeAuditOutcome, and auditFinalizeFailure when it fails or the row is closed.
Record(c) ==
    LET call == calls[c]
    IN  /\ call.step = "ran"
        /\ \/ /\ Finalizable(call.row)
              /\ chain' = Finalized(call.row, call.result)
              /\ calls' = [calls EXCEPT ![c].step = "recorded"]
           \/ Withhold(c)
        /\ UNCHANGED <<process, ran>>

Reply(c) ==
    /\ calls[c].step = "recorded"
    /\ calls' = [calls EXCEPT ![c].step = "done", ![c].answer = calls[c].result]
    /\ UNCHANGED <<chain, process, ran>>
-----------------------------------------------------------------------------
(* The Paper ledger *)

SystemRows == {i \in DOMAIN chain : chain[i].kind = "system"}

\* appendCompletedSystemAuditActorTx, within the transaction of the ledger.
AppendSystem(p) ==
    /\ process[p].state = "up"
    /\ Cardinality(SystemRows) < MaxSystem
    /\ LET row == Unlinked("system", "paper", "scanner", "SUCCEEDED")
       IN  chain' = Append(chain, [Linked(row) EXCEPT
                        !.outcome = [hash |-> <<>>, status |-> "SUCCEEDED"]])
    /\ UNCHANGED <<process, calls, ran>>
-----------------------------------------------------------------------------
(* Processes *)

\* Faulty: rows of earlier versions are not looked for.
LeftPendingNow == {i \in DOMAIN chain : Pending(chain[i]) /\ chain[i].kind = "guarded"}

\* The rows ReconcilePendingAuditOutcomes finds.
LeftPending == {i \in DOMAIN chain : Pending(chain[i])}

Boot(p) ==
    /\ process[p].state = "down" /\ process[p].boots < MaxBoots
    /\ process' = [process EXCEPT ![p] =
           [state |-> "booting", boots |-> @.boots + 1, todo |-> LeftPending,
            seen |-> Len(chain)]]
    /\ UNCHANGED <<chain, calls, ran>>

\* They are closed in their order, each by its own transaction.
Reconcile(p) ==
    /\ process[p].state = "booting"
    /\ \E i \in process[p].todo :
         /\ \A j \in process[p].todo : i <= j
         /\ Finalizable(i)
         /\ chain' = Finalized(i, Interrupted)
         /\ process' = [process EXCEPT ![p].todo = @ \ {i}]
    /\ UNCHANGED <<calls, ran>>

Serve(p) ==
    /\ process[p].state = "booting" /\ process[p].todo = {}
    /\ process' = [process EXCEPT ![p].state = "up"]
    /\ UNCHANGED <<chain, calls, ran>>

\* A crash, a start that log.Fatalf ends because a row could not be closed, or a
\* shutdown whose five seconds are over.
Stop(p) ==
    /\ process[p].state # "down"
    /\ process' = [process EXCEPT ![p].state = "down", ![p].todo = {}, ![p].seen = 0]
    /\ calls' = [c \in Calls |->
           IF calls[c].at = p /\ calls[c].step # "done"
           THEN [calls[c] EXCEPT !.step = "done"] ELSE calls[c]]
    /\ UNCHANGED <<chain, ran>>

Next ==
    \/ \E c \in Calls, p \in Processes, id \in Ids : Arrive(c, p, id)
    \/ \E c \in Calls : Handle(c) \/ Panic(c) \/ Record(c) \/ Reply(c)
    \/ \E p \in Processes : AppendSystem(p) \/ Boot(p) \/ Reconcile(p) \/ Serve(p) \/ Stop(p)

Spec == Init /\ [][Next]_vars
-----------------------------------------------------------------------------
(* Properties *)

Outcomes == HandlerOutcomes \cup {Denied}

Hashes == Seq([kind : {"guarded", "legacy", "system"}, id : Ids \cup {"paper"},
               actor : {"admin", "anonymous", "scanner"},
               status : Outcomes \cup {"PENDING", "unbound"}])

Rows == [kind : {"guarded", "legacy", "system"}, id : Ids \cup {"paper"},
         actor : {"admin", "anonymous", "scanner"}, status : Outcomes \cup {"PENDING"},
         outcome : [hash : Hashes, status : Outcomes \cup {"none"}],
         prev : Hashes, hash : Hashes]

ProcessRecords == [state : {"down", "booting", "up"}, boots : 0..MaxBoots, todo : SUBSET Nat, seen : Nat]

CallRecords == [step : {"idle", "admitted", "ran", "recorded", "done"},
                at : Processes \cup {"none"}, id : Ids \cup {"none"}, row : Nat, result : Outcomes \cup {"none"},
                answer : Outcomes \cup {"none", "PENDING", "UNAVAILABLE", "DUPLICATE", "EMPTY"}]

\* Rows, calls and processes keep their domains, and calls and processes refer to
\* stored rows.
TypeOK ==
    /\ chain \in Seq(Rows)
    /\ process \in [Processes -> ProcessRecords]
    /\ \A p \in Processes : process[p].todo \subseteq DOMAIN chain /\ process[p].seen <= Len(chain)
    /\ calls \in [Calls -> CallRecords]
    /\ \A c \in Calls : calls[c].row <= Len(chain)
    /\ ran \subseteq Calls

\* verifyAuditEvents, what GET /api/audit/verify runs over the whole chain, finds no
\* fault: links and hashes agree, and a row is either wholly pending or wholly closed.
RowVerifies(row, previous) ==
    /\ row.prev = previous
    /\ row.hash = HashOf(row)
    /\ IF row.kind = "system" THEN row.outcome # NoOutcome
       ELSE row.outcome = IF Pending(row) THEN NoOutcome ELSE OutcomeHash(row, row.status)

ChainVerifies ==
    \A i \in DOMAIN chain : RowVerifies(chain[i], IF i = 1 THEN <<>> ELSE chain[i - 1].hash)

\* An outcome that a client was told stands in the chain, whatever failed, crashed or
\* was reconciled since: adminWriteGuard records it before the response leaves.
AnswersAreRecorded ==
    \A c \in Calls : calls[c].answer \in Outcomes => chain[calls[c].row].status = calls[c].answer

\* The business handler of a request id runs once, over retries of answers that were
\* lost or withheld, restarts and several processes: createPending refuses used ids.
HandlerRunsOnce ==
    \A c, d \in ran : calls[c].id = calls[d].id => c = d

\* A row says that the handler answered only when it ran, and that the request was
\* denied only when it did not.
RecordsAreTrue ==
    \A c \in Calls : calls[c].row # 0 =>
        LET status == chain[calls[c].row].status
        IN  /\ status \in {"SUCCEEDED", "REJECTED"} => c \in ran
            /\ status = Denied => c \notin ran

\* Request ids are not stored twice, and each stored id is one call's.
IdsUnique ==
    \A i, j \in DOMAIN chain :
        chain[i].kind # "system" /\ chain[j].kind # "system" /\ chain[i].id = chain[j].id => i = j

RowsOwned == \A c, d \in Calls : calls[c].row # 0 /\ calls[c].row = calls[d].row => c = d

\* Where a call stands in adminWriteGuard, its row and its handler agree; until its
\* outcome is recorded, its row is pending or was closed by a reconciliation.
CallAgrees(c) ==
    LET call == calls[c]
        row == chain[call.row]
    IN  /\ call.row = 0 => /\ call.step \in {"idle", "done"}
                           /\ c \notin ran
                           /\ call.answer \in {"none", "UNAVAILABLE", "DUPLICATE"}
        /\ call.row # 0 => call.step # "idle" /\ row.kind = "guarded" /\ row.id = call.id
        /\ call.step \in {"admitted", "ran"} => row.status \in {"PENDING", Interrupted}
        /\ call.step = "admitted" => c \notin ran
        /\ call.step = "ran" => call.result \in Outcomes /\ (call.result = Denied <=> c \notin ran)
        /\ call.step = "recorded" => call.result \in Outcomes /\ call.result = row.status
        /\ call.step # "done" => call.answer = "none"

\* A process knows the leftovers that are still pending, and serves when there are none.
StartsAgree ==
    \A p \in Processes :
        /\ process[p].state # "down" =>
               \A i \in 1..process[p].seen : Pending(chain[i]) => i \in process[p].todo
        /\ process[p].state = "up" => process[p].todo = {}

\* The inductive invariant of the guard: the chain verifies, and rows, handlers and
\* answers agree at every point a call, a crash or a reconciliation can be at.
AuditInv ==
    /\ TypeOK
    /\ ChainVerifies
    /\ IdsUnique
    /\ RowsOwned
    /\ StartsAgree
    /\ \A c \in Calls : CallAgrees(c)
    /\ AnswersAreRecorded
    /\ RecordsAreTrue

\* Rows are never removed, and a closed one never changes again (finalizeAuditOutcome
\* updates PENDING rows only), also when two processes close the same row.
ClosedIsFinal ==
    [][\A i \in DOMAIN chain : i \in DOMAIN chain' /\ (~Pending(chain[i]) => chain'[i] = chain[i])]_vars

\* While a process serves, no row that was there when it started is pending: what
\* ended processes, and earlier versions, left open has been closed, by this process
\* or by another one (ReconcilePendingAuditOutcomes).
LeftoversClosed ==
    \A p \in Processes : process[p].state = "up" =>
        \A i \in 1..process[p].seen : ~Pending(chain[i])

\* Reconciliation closes rows of ended processes only: while a call is between its
\* pending row and its outcome, nobody but the call itself closes the row.
OnlyEndedReconciled ==
    [][\A c \in Calls :
           calls[c].step \in {"admitted", "ran"} /\ calls'[c] = calls[c]
           => chain'[calls[c].row] = chain[calls[c].row]]_vars
=============================================================================
