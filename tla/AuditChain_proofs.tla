--------------------------- MODULE AuditChain_proofs ---------------------------
(***************************************************************************)
(* AuditInv is an invariant of AuditChain, for every set of processes,     *)
(* calls and request ids; the guard's safety properties follow from it.    *)
(*                                                                         *)
(* The chain changes in two ways, a row appended and a row finalised; a    *)
(* lemma on each says what it keeps.  Then one lemma per action shows that *)
(* it preserves AuditInv.                                                  *)
(***************************************************************************)
EXTENDS AuditChain, TLAPS

\* What is hashed of a row is its kind, id and actor, its predecessor's hash and, of
\* system rows only, its status.
LEMMA HashType ==
    ASSUME NEW row \in Rows
    PROVE  HashOf(row) \in Hashes
BY DEF Rows, Hashes, HashOf, Outcomes, HandlerOutcomes, Denied

\* A row of another status hashes the same unless it is a system row
\* (calculateAuditHash leaves the status out of version 4).
LEMMA HashKept ==
    ASSUME NEW row \in Rows, NEW s, NEW o, row.kind # "system"
    PROVE  HashOf([row EXCEPT !.status = s, !.outcome = o]) = HashOf(row)
BY DEF Rows, HashOf

\* A linked row is well formed and verifies after the rows it is linked to.
LEMMA LinkedVerifies ==
    ASSUME chain \in Seq(Rows),
           NEW kind \in {"guarded", "legacy", "system"}, NEW id \in Ids \cup {"paper"},
           NEW actor \in {"admin", "anonymous", "scanner"}, NEW s \in Outcomes \cup {"PENDING"}
    PROVE  LET row == Linked(Unlinked(kind, id, actor, s))
           IN  /\ row \in Rows
               /\ row.kind = kind /\ row.id = id /\ row.actor = actor /\ row.status = s
               /\ row.outcome = NoOutcome /\ row.prev = LastHash /\ row.hash = HashOf(row)
<1> DEFINE raw == Unlinked(kind, id, actor, s)
           row == Linked(raw)
<1>1. LastHash \in Hashes
  <2>1. \A r \in Rows : r.hash \in Hashes
    BY DEF Rows
  <2>2. <<>> \in Hashes
    BY DEF Hashes
  <2>3. chain # <<>> => chain[Len(chain)] \in Rows
    OBVIOUS
  <2> QED BY <2>1, <2>2, <2>3 DEF LastHash
<1>2. /\ raw \in Rows
      /\ raw.kind = kind /\ raw.id = id /\ raw.actor = actor /\ raw.status = s
      /\ raw.outcome = NoOutcome
  BY DEF Unlinked, Rows, Hashes, NoOutcome, Outcomes
<1> HIDE DEF raw
<1> DEFINE mid == [raw EXCEPT !.prev = LastHash]
<1>3. /\ mid \in Rows
      /\ mid.kind = kind /\ mid.id = id /\ mid.actor = actor /\ mid.status = s
      /\ mid.outcome = NoOutcome /\ mid.prev = LastHash
  BY <1>1, <1>2 DEF Rows
<1>4. HashOf(mid) \in Hashes
  BY <1>3, HashType
<1>5. row = [mid EXCEPT !.hash = HashOf(mid)]
  BY <1>2 DEF Linked, Rows
<1> HIDE DEF mid
<1>6. /\ row \in Rows
      /\ row.kind = kind /\ row.id = id /\ row.actor = actor /\ row.status = s
      /\ row.outcome = NoOutcome /\ row.prev = LastHash /\ row.hash = HashOf(mid)
  <2> HIDE DEF row
  <2> QED BY <1>3, <1>4, <1>5 DEF Rows
<1>7. HashOf(row) = HashOf(mid)
  <2> HIDE DEF row
  <2> QED BY <1>3, <1>6 DEF HashOf
<1> QED BY <1>6, <1>7 DEF row, raw

\* Appending a row that verifies after the last one keeps the chain verified.
LEMMA AppendVerifies ==
    ASSUME chain \in Seq(Rows), ChainVerifies,
           NEW row \in Rows, RowVerifies(row, LastHash), chain' = Append(chain, row)
    PROVE  /\ chain' \in Seq(Rows)
           /\ Len(chain') = Len(chain) + 1
           /\ \A i \in DOMAIN chain : i \in DOMAIN chain' /\ chain'[i] = chain[i]
           /\ chain'[Len(chain) + 1] = row
           /\ ChainVerifies'
<1>1. /\ chain' \in Seq(Rows)
      /\ Len(chain') = Len(chain) + 1
      /\ DOMAIN chain = 1..Len(chain) /\ DOMAIN chain' = 1..(Len(chain) + 1)
      /\ \A i \in DOMAIN chain : chain'[i] = chain[i]
      /\ chain'[Len(chain) + 1] = row
  OBVIOUS
<1>2. ASSUME NEW i \in DOMAIN chain'
      PROVE  RowVerifies(chain'[i], IF i = 1 THEN <<>> ELSE chain'[i - 1].hash)
  <2>1. CASE i = Len(chain) + 1
    <3>1. LastHash = IF i = 1 THEN <<>> ELSE chain'[i - 1].hash
      <4>1. CASE chain = <<>>
        BY <1>1, <2>1, <4>1 DEF LastHash
      <4>2. CASE chain # <<>>
        <5>1. Len(chain) \in DOMAIN chain /\ i # 1 /\ i - 1 = Len(chain)
          BY <2>1, <4>2
        <5> QED BY <1>1, <4>2, <5>1 DEF LastHash
      <4> QED BY <4>1, <4>2
    <3> QED BY <1>1, <2>1, <3>1
  <2>2. CASE i # Len(chain) + 1
    <3>1. /\ i \in DOMAIN chain
          /\ i # 1 => i - 1 \in DOMAIN chain
      BY <1>1, <2>2
    <3> QED BY <1>1, <3>1 DEF ChainVerifies
  <2> QED BY <2>1, <2>2
<1>3. ChainVerifies'
  BY <1>2 DEF ChainVerifies, RowVerifies, HashOf, Pending, NoOutcome, OutcomeHash
<1> QED BY <1>1, <1>3

\* Finalising a pending row changes its status and outcome only, and keeps every hash
\* and so the chain verified.
LEMMA FinalizeVerifies ==
    ASSUME chain \in Seq(Rows), ChainVerifies, NEW i, Finalizable(i),
           NEW s \in Outcomes, chain' = Finalized(i, s)
    PROVE  /\ chain' \in Seq(Rows)
           /\ Len(chain') = Len(chain) /\ DOMAIN chain' = DOMAIN chain
           /\ \A j \in DOMAIN chain : chain'[j].kind = chain[j].kind /\ chain'[j].id = chain[j].id
           /\ \A j \in DOMAIN chain : j # i => chain'[j] = chain[j]
           /\ chain'[i].status = s
           /\ ChainVerifies'
<1> DEFINE new == [chain[i] EXCEPT !.status = s, !.outcome = OutcomeHash(chain[i], s)]
<1>1. i \in DOMAIN chain /\ chain[i] \in Rows /\ chain[i].kind # "system" /\ s # "PENDING"
  BY DEF Finalizable, Pending, Outcomes, HandlerOutcomes, Denied
<1>2. chain' = [chain EXCEPT ![i] = new]
  BY <1>1 DEF Finalized, Rows
<1>3. /\ new \in Rows
      /\ new.kind = chain[i].kind /\ new.id = chain[i].id /\ new.status = s
      /\ new.prev = chain[i].prev /\ new.hash = chain[i].hash
      /\ new.outcome = OutcomeHash(chain[i], s)
  BY <1>1 DEF Rows, OutcomeHash
<1>4. HashOf(new) = HashOf(chain[i])
  BY <1>1, HashKept
<1> HIDE DEF new
<1>5. /\ chain' \in Seq(Rows)
      /\ Len(chain') = Len(chain) /\ DOMAIN chain' = DOMAIN chain
      /\ \A j \in DOMAIN chain : j # i => chain'[j] = chain[j]
      /\ chain'[i] = new
  BY <1>1, <1>2, <1>3
<1>6. \A j \in DOMAIN chain : chain'[j].hash = chain[j].hash
  BY <1>3, <1>5
<1>7. ASSUME NEW j \in DOMAIN chain
      PROVE  RowVerifies(chain'[j], IF j = 1 THEN <<>> ELSE chain'[j - 1].hash)
  <2>1. RowVerifies(chain[j], IF j = 1 THEN <<>> ELSE chain[j - 1].hash)
    BY DEF ChainVerifies
  <2>2. j # 1 => chain'[j - 1].hash = chain[j - 1].hash
    <3>1. j # 1 => j - 1 \in DOMAIN chain
      OBVIOUS
    <3> QED BY <1>6, <3>1
  <2>3. CASE j = i
    BY <1>1, <1>3, <1>4, <1>5, <2>1, <2>2, <2>3 DEF RowVerifies, Pending, OutcomeHash
  <2>4. CASE j # i
    BY <1>5, <2>1, <2>2, <2>4
  <2> QED BY <2>3, <2>4
<1>8. ChainVerifies'
  BY <1>5, <1>7 DEF ChainVerifies, RowVerifies, HashOf, Pending, NoOutcome, OutcomeHash
<1> QED BY <1>3, <1>5, <1>8
-----------------------------------------------------------------------------
\* Everything the invariant says of one call.
CallFine(c) ==
    /\ CallAgrees(c)
    /\ calls[c].answer \in Outcomes => chain[calls[c].row].status = calls[c].answer
    /\ calls[c].row # 0 =>
        /\ chain[calls[c].row].status \in {"SUCCEEDED", "REJECTED"} => c \in ran
        /\ chain[calls[c].row].status = Denied => c \notin ran

LEMMA InvByCall == (\A c \in Calls : CallFine(c)) <=>
                   ((\A c \in Calls : CallAgrees(c)) /\ AnswersAreRecorded /\ RecordsAreTrue)
BY DEF CallFine, AnswersAreRecorded, RecordsAreTrue

LEMMA InvByCallNext ==
    ASSUME \A c \in Calls : CallFine(c)'
    PROVE  (\A c \in Calls : CallAgrees(c))' /\ AnswersAreRecorded' /\ RecordsAreTrue'
BY DEF CallFine, AnswersAreRecorded, RecordsAreTrue

\* A call that arrives starts from scratch.
LEMMA Arrival ==
    ASSUME TypeOK, NEW c \in Calls, NEW p \in Processes, NEW id \in Ids
    PROVE  /\ Arrives(c, p, id) \in CallRecords
           /\ Arrives(c, p, id).row = 0 /\ Arrives(c, p, id).id = id
           /\ Arrives(c, p, id).answer = "none"
BY DEF Arrives, NoCall, CallRecords

\* A call is not disturbed by a step that leaves it, its handler and its row alone.
LEMMA CallKept ==
    ASSUME NEW c \in Calls, CallFine(c), calls'[c] = calls[c], c \in ran' <=> c \in ran,
           calls[c].row # 0 => /\ chain'[calls[c].row].kind = chain[calls[c].row].kind
                               /\ chain'[calls[c].row].id = chain[calls[c].row].id
                               /\ chain'[calls[c].row].status = chain[calls[c].row].status
    PROVE  CallFine(c)'
<1>1. CASE calls[c].row = 0
  BY <1>1 DEF CallFine, CallAgrees, Outcomes, HandlerOutcomes, Denied
<1>2. CASE calls[c].row # 0
  BY <1>2 DEF CallFine, CallAgrees, Interrupted
<1> QED BY <1>1, <1>2

\* A call in flight, or one whose answer was withheld, tolerates that another process
\* closes its pending row.
LEMMA CallReconciled ==
    ASSUME NEW c \in Calls, CallFine(c), calls'[c] = calls[c], ran' = ran,
           calls[c].row # 0, chain[calls[c].row].status = "PENDING",
           chain'[calls[c].row].kind = chain[calls[c].row].kind,
           chain'[calls[c].row].id = chain[calls[c].row].id,
           chain'[calls[c].row].status = Interrupted
    PROVE  CallFine(c)'
BY DEF CallFine, CallAgrees, Interrupted, Outcomes, HandlerOutcomes, Denied

\* The identities of rows stay unique when a row with a new id, or a system row, comes.
LEMMA UniqueAfterAppend ==
    ASSUME chain \in Seq(Rows), IdsUnique, NEW row, chain' = Append(chain, row),
           row.kind = "system" \/ ~Used(row.id)
    PROVE  IdsUnique'
<1>1. /\ DOMAIN chain' = DOMAIN chain \cup {Len(chain) + 1}
      /\ \A i \in DOMAIN chain : chain'[i] = chain[i]
      /\ chain'[Len(chain) + 1] = row
  OBVIOUS
<1> QED BY <1>1 DEF IdsUnique, Used

\* What an unchanged chain gives for the next state.
LEMMA ChainSame ==
    ASSUME chain' = chain, chain \in Seq(Rows), ChainVerifies, IdsUnique
    PROVE  chain' \in Seq(Rows) /\ ChainVerifies' /\ IdsUnique'
BY DEF ChainVerifies, IdsUnique, RowVerifies, HashOf, Pending, NoOutcome, OutcomeHash

\* What processes know of leftovers stays right while no leftover is added.
LEMMA StartsKept ==
    ASSUME AuditInv, process' = process,
           \A i \in DOMAIN chain : Pending(chain'[i]) => Pending(chain[i])
    PROVE  StartsAgree'
<1>1. ASSUME NEW p \in Processes, NEW i \in 1..process[p].seen
      PROVE  i \in DOMAIN chain
  BY DEF AuditInv, TypeOK, ProcessRecords
<1> QED BY <1>1 DEF AuditInv, StartsAgree, Pending

-----------------------------------------------------------------------------
LEMMA InitInv == Init => AuditInv
<1> SUFFICES ASSUME Init PROVE AuditInv
  OBVIOUS
<1>1. PICK id \in Ids : chain \in {<<>>, <<Legacy(id)>>}
  BY DEF Init
<1>2. /\ Legacy(id) \in Rows /\ Legacy(id).kind = "legacy"
      /\ RowVerifies(Legacy(id), <<>>)
  <2> DEFINE raw == Unlinked("legacy", id, "admin", "PENDING")
  <2>1. /\ raw \in Rows /\ raw.kind = "legacy" /\ raw.status = "PENDING"
        /\ raw.outcome = NoOutcome /\ raw.prev = <<>>
    BY DEF Unlinked, Rows, Hashes, NoOutcome, Outcomes
  <2> HIDE DEF raw
  <2>2. HashOf(raw) \in Hashes
    BY <2>1, HashType
  <2> DEFINE row == [raw EXCEPT !.hash = HashOf(raw)]
  <2>3. Legacy(id) = row
    BY DEF Legacy, raw
  <2>4. /\ row \in Rows /\ row.kind = "legacy" /\ row.status = "PENDING"
        /\ row.outcome = NoOutcome /\ row.prev = <<>> /\ row.hash = HashOf(raw)
        /\ row.id = raw.id /\ row.actor = raw.actor
    BY <2>1, <2>2 DEF Rows
  <2> HIDE DEF row
  <2>5. HashOf(row) = HashOf(raw)
    BY <2>1, <2>4 DEF HashOf
  <2> QED BY <2>3, <2>4, <2>5 DEF RowVerifies, Pending
<1> HIDE DEF Legacy
<1>3. chain \in Seq(Rows) /\ Len(chain) \in {0, 1} /\ (DOMAIN chain # {} => chain = <<Legacy(id)>>)
  <2>1. CASE chain = <<>>
    BY <2>1
  <2>2. CASE chain = <<Legacy(id)>>
    <3> DEFINE row == Legacy(id)
    <3> HIDE DEF row
    <3>1. row \in Rows /\ chain = <<row>>
      BY <1>2, <2>2 DEF row
    <3> QED BY <3>1 DEF row
  <2> QED BY <1>1, <2>1, <2>2
<1>4. ChainVerifies
  BY <1>2, <1>3 DEF ChainVerifies
<1>5. IdsUnique
  BY <1>3 DEF IdsUnique
<1>6. TypeOK
  BY <1>3, AuditConstants DEF TypeOK, Init, NoProcess, NoCall, ProcessRecords, CallRecords
<1>7. RowsOwned /\ StartsAgree /\ \A c \in Calls : CallFine(c)
  BY DEF Init, NoCall, NoProcess, RowsOwned, StartsAgree, CallFine, CallAgrees, Outcomes, HandlerOutcomes, Denied
<1> QED BY <1>4, <1>5, <1>6, <1>7, InvByCall DEF AuditInv
-----------------------------------------------------------------------------
(* One lemma per action.                                                   *)

\* A refused call and a retry of a used id leave nothing behind.
LEMMA RefusedInv ==
    ASSUME AuditInv, NEW c \in Calls, NEW p \in Processes, NEW id \in Ids,
           calls[c].step = "idle", Refuse(c, p, id) \/ Duplicate(c, p, id),
           UNCHANGED <<process, ran>>
    PROVE  AuditInv'
<1>1. PICK answer \in {"UNAVAILABLE", "DUPLICATE"} :
        calls' = [calls EXCEPT ![c] = [Arrives(c, p, id) EXCEPT !.step = "done", !.answer = answer]]
  BY DEF Refuse, Duplicate
<1>2. chain' = chain /\ process' = process /\ ran' = ran
  BY DEF Refuse, Duplicate
<1> DEFINE new == [Arrives(c, p, id) EXCEPT !.step = "done", !.answer = answer]
<1>3. new \in CallRecords /\ new.step = "done" /\ new.row = 0 /\ new.answer = answer
  <2>1. Arrives(c, p, id) \in CallRecords /\ Arrives(c, p, id).row = 0
    BY Arrival DEF AuditInv
  <2> QED BY <2>1 DEF CallRecords
<1> HIDE DEF new
<1>4. calls' = [calls EXCEPT ![c] = new] /\ calls \in [Calls -> CallRecords]
  BY <1>1 DEF new, AuditInv, TypeOK
<1>5. TypeOK'
  BY <1>2, <1>3, <1>4 DEF AuditInv, TypeOK
<1>6. RowsOwned'
  BY <1>3, <1>4 DEF AuditInv, RowsOwned
<1>7. ASSUME NEW d \in Calls PROVE CallFine(d)'
  <2>1. CallFine(d)
    BY InvByCall DEF AuditInv
  <2>2. CASE d # c
    BY <1>2, <1>4, <2>1, <2>2, CallKept
  <2>3. CASE d = c
    <3>1. c \notin ran
      BY <2>1, <2>3 DEF CallFine, CallAgrees
    <3> QED BY <1>2, <1>3, <1>4, <2>3, <3>1 DEF CallFine, CallAgrees, Outcomes, HandlerOutcomes, Denied
  <2> QED BY <2>2, <2>3
<1>8. StartsAgree'
  BY <1>2, StartsKept
<1> QED BY <1>2, <1>5, <1>6, <1>7, <1>8, InvByCallNext, ChainSame DEF AuditInv, TypeOK

\* A longer chain still holds every row a process refers to.
LEMMA ProcessesFineGrown ==
    ASSUME TypeOK, process' = process,
           chain' \in Seq(Rows), Len(chain') = Len(chain) + 1,
           \A i \in DOMAIN chain : i \in DOMAIN chain'
    PROVE  \A p \in Processes : process'[p].todo \subseteq DOMAIN chain' /\ process'[p].seen <= Len(chain')
<1> SUFFICES ASSUME NEW p \in Processes
             PROVE  process[p].todo \subseteq DOMAIN chain' /\ process[p].seen <= Len(chain')
  OBVIOUS
<1>1. process[p].seen \in Nat /\ process[p].seen <= Len(chain) /\ process[p].todo \subseteq DOMAIN chain
  BY DEF TypeOK, ProcessRecords
<1>2. Len(chain) \in Nat
  BY DEF TypeOK
<1> QED BY <1>1, <1>2

\* A stored pending row is new, linked and owned by the call that stored it.
LEMMA CreateInv ==
    ASSUME AuditInv, NEW c \in Calls, NEW p \in Processes, NEW id \in Ids,
           calls[c].step = "idle", CreatePending(c, p, id), UNCHANGED <<process, ran>>
    PROVE  AuditInv'
<1>1. PICK allowed \in BOOLEAN :
        /\ chain' = Append(chain, Linked(Unlinked("guarded", id,
                                IF allowed THEN "admin" ELSE "anonymous", "PENDING")))
        /\ calls' = [calls EXCEPT ![c] = [Arrives(c, p, id) EXCEPT
                !.step = IF allowed THEN "admitted" ELSE "ran",
                !.result = IF allowed THEN "none" ELSE Denied,
                !.row = Len(chain) + 1]]
  BY DEF CreatePending
<1> DEFINE row == Linked(Unlinked("guarded", id, IF allowed THEN "admin" ELSE "anonymous", "PENDING"))
           new == [Arrives(c, p, id) EXCEPT
                !.step = IF allowed THEN "admitted" ELSE "ran",
                !.result = IF allowed THEN "none" ELSE Denied,
                !.row = Len(chain) + 1]
<1>2. chain \in Seq(Rows) /\ calls \in [Calls -> CallRecords] /\ ~Used(id)
  BY DEF AuditInv, TypeOK, CreatePending
<1>3. /\ row \in Rows /\ row.kind = "guarded" /\ row.id = id /\ row.status = "PENDING"
      /\ row.outcome = NoOutcome /\ row.prev = LastHash /\ row.hash = HashOf(row)
  BY <1>2, LinkedVerifies
<1>4. /\ new \in CallRecords /\ new.row = Len(chain) + 1 /\ new.answer = "none" /\ new.id = id
      /\ new.step = IF allowed THEN "admitted" ELSE "ran"
      /\ new.result = IF allowed THEN "none" ELSE Denied
  <2>1. /\ Arrives(c, p, id) \in CallRecords /\ Arrives(c, p, id).id = id
        /\ Arrives(c, p, id).answer = "none"
    BY Arrival DEF AuditInv
  <2>2. Len(chain) + 1 \in Nat
    BY <1>2
  <2> QED BY <2>1, <2>2 DEF CallRecords, Outcomes
<1>5. calls' = [calls EXCEPT ![c] = new] /\ chain' = Append(chain, row)
  BY <1>1
<1> HIDE DEF row, new
<1>6. RowVerifies(row, LastHash)
  BY <1>3 DEF RowVerifies, Pending
<1>7. /\ chain' \in Seq(Rows) /\ Len(chain') = Len(chain) + 1 /\ ChainVerifies'
      /\ \A i \in DOMAIN chain : i \in DOMAIN chain' /\ chain'[i] = chain[i]
      /\ chain'[Len(chain) + 1] = row
  BY <1>2, <1>3, <1>5, <1>6, AppendVerifies DEF AuditInv
<1>8. IdsUnique'
  BY <1>2, <1>3, <1>5, UniqueAfterAppend DEF AuditInv
<1>9. TypeOK'
  <2>1. \A q \in Processes : process'[q].todo \subseteq DOMAIN chain' /\ process'[q].seen <= Len(chain')
    BY <1>2, <1>7, ProcessesFineGrown DEF AuditInv
  <2>2. /\ calls' \in [Calls -> CallRecords]
        /\ \A d \in Calls : calls'[d].row <= Len(chain')
    BY <1>2, <1>4, <1>5, <1>7 DEF AuditInv, TypeOK, CallRecords
  <2> QED BY <1>2, <1>7, <2>1, <2>2 DEF AuditInv, TypeOK
<1>10. RowsOwned'
  BY <1>2, <1>4, <1>5 DEF AuditInv, TypeOK, RowsOwned, CallRecords
<1>11. ASSUME NEW d \in Calls PROVE CallFine(d)'
  <2>1. CallFine(d) /\ calls[d].row \in Nat /\ calls[d].row <= Len(chain)
    BY InvByCall DEF AuditInv, TypeOK, CallRecords
  <2>2. CASE d # c
    <3>1. calls[d].row # 0 => chain'[calls[d].row] = chain[calls[d].row]
      BY <1>2, <1>7, <2>1
    <3> QED BY <1>2, <1>5, <2>1, <2>2, <3>1, CallKept
  <2>3. CASE d = c
    <3>1. c \notin ran
      BY <2>1, <2>3 DEF CallFine, CallAgrees
    <3>2. calls'[c] = new /\ chain'[calls'[c].row] = row /\ new.row # 0
      BY <1>2, <1>4, <1>5, <1>7
    <3> QED BY <1>3, <1>4, <2>3, <3>1, <3>2
            DEF CallFine, CallAgrees, Outcomes, HandlerOutcomes, Denied
  <2> QED BY <2>2, <2>3
<1>12. StartsAgree'
  BY <1>7, StartsKept
<1> QED BY <1>7, <1>8, <1>9, <1>10, <1>11, <1>12, InvByCallNext DEF AuditInv

\* A handler runs for an admitted call only, whether it answers or panics.
LEMMA HandleInv ==
    ASSUME AuditInv, NEW c \in Calls, Handle(c) \/ Panic(c)
    PROVE  AuditInv'
<1>1. PICK new \in CallRecords :
        /\ calls' = [calls EXCEPT ![c] = new]
        /\ new.row = calls[c].row /\ new.id = calls[c].id
        /\ \/ new.step = "ran" /\ new.answer = "none" /\ new.result \in HandlerOutcomes
           \/ new.step = "done" /\ new.answer = "EMPTY"
  <2> USE DEF AuditInv, TypeOK
  <2>1. CASE Handle(c)
    <3>1. PICK result \in HandlerOutcomes :
            calls' = [calls EXCEPT ![c].step = "ran", ![c].result = result]
      BY <2>1 DEF Handle
    <3>2. CallAgrees(c) /\ calls[c].step = "admitted"
      BY <2>1 DEF Handle
    <3> DEFINE new == [calls[c] EXCEPT !.step = "ran", !.result = result]
    <3>3. /\ new \in CallRecords /\ new.row = calls[c].row /\ new.id = calls[c].id
          /\ new.step = "ran" /\ new.answer = "none" /\ new.result = result
      BY <3>1, <3>2 DEF CallAgrees, CallRecords, Outcomes
    <3>4. calls' = [calls EXCEPT ![c] = new]
      BY <3>1
    <3> HIDE DEF new
    <3> QED BY <3>1, <3>3, <3>4
  <2>2. CASE Panic(c)
    <3> DEFINE new == [calls[c] EXCEPT !.step = "done", !.answer = "EMPTY"]
    <3>1. /\ new \in CallRecords /\ new.row = calls[c].row /\ new.id = calls[c].id
          /\ new.step = "done" /\ new.answer = "EMPTY"
      BY DEF CallRecords
    <3>2. calls' = [calls EXCEPT ![c] = new]
      BY <2>2 DEF Panic
    <3> HIDE DEF new
    <3> QED BY <3>1, <3>2
  <2> QED BY <2>1, <2>2
<1>2. calls[c].step = "admitted" /\ ran' = ran \cup {c} /\ chain' = chain /\ process' = process
  BY DEF Handle, Panic
<1>3. calls \in [Calls -> CallRecords] /\ chain \in Seq(Rows)
  BY DEF AuditInv, TypeOK
<1>4. TypeOK'
  BY <1>1, <1>2, <1>3 DEF AuditInv, TypeOK
<1>5. RowsOwned'
  BY <1>1, <1>3 DEF AuditInv, RowsOwned
<1>6. ASSUME NEW d \in Calls PROVE CallFine(d)'
  <2>1. CallFine(d)
    BY InvByCall DEF AuditInv
  <2>2. CASE d # c
    BY <1>1, <1>2, <1>3, <2>1, <2>2, CallKept
  <2>3. CASE d = c
    <3>1. /\ calls[c].row # 0 /\ chain[calls[c].row].status \in {"PENDING", Interrupted}
          /\ chain[calls[c].row].kind = "guarded" /\ chain[calls[c].row].id = calls[c].id
      BY <1>2, <2>1, <2>3 DEF CallFine, CallAgrees
    <3> QED BY <1>1, <1>2, <1>3, <2>3, <3>1
            DEF CallFine, CallAgrees, Outcomes, HandlerOutcomes, Denied, Interrupted
  <2> QED BY <2>2, <2>3
<1>7. StartsAgree'
  BY <1>2, StartsKept
<1> QED BY <1>2, <1>4, <1>5, <1>6, <1>7, InvByCallNext, ChainSame DEF AuditInv, TypeOK

\* A row that is finalised belongs to one call at most; the others keep theirs.
LEMMA OthersKeepRow ==
    ASSUME AuditInv, NEW c \in Calls, NEW d \in Calls, d # c,
           calls[c].row # 0, calls[d].row # 0,
           \A j \in DOMAIN chain : j # calls[c].row => chain'[j] = chain[j]
    PROVE  chain'[calls[d].row] = chain[calls[d].row]
<1>1. calls[d].row \in DOMAIN chain /\ calls[d].row # calls[c].row
  BY DEF AuditInv, TypeOK, CallRecords, RowsOwned
<1> QED BY <1>1

\* A withheld response leaves the row as it is.
LEMMA WithholdInv ==
    ASSUME AuditInv, NEW c \in Calls, calls[c].step = "ran", Withhold(c), UNCHANGED <<process, ran>>
    PROVE  AuditInv'
<1> DEFINE new == [calls[c] EXCEPT !.step = "done", !.answer = "PENDING"]
<1>1. calls \in [Calls -> CallRecords] /\ chain \in Seq(Rows) /\ chain' = chain
  BY DEF AuditInv, TypeOK, Withhold
<1>2. /\ new \in CallRecords /\ new.row = calls[c].row /\ new.id = calls[c].id
      /\ new.step = "done" /\ new.answer = "PENDING"
  BY <1>1 DEF CallRecords
<1>3. calls' = [calls EXCEPT ![c] = new]
  BY DEF Withhold
<1> HIDE DEF new
<1>4. TypeOK' /\ RowsOwned'
  BY <1>1, <1>2, <1>3 DEF AuditInv, TypeOK, RowsOwned
<1>5. ASSUME NEW d \in Calls PROVE CallFine(d)'
  <2>1. CallFine(d)
    BY InvByCall DEF AuditInv
  <2>2. CASE d # c
    BY <1>1, <1>3, <2>1, <2>2, CallKept
  <2>3. CASE d = c
    BY <1>1, <1>2, <1>3, <2>1, <2>3 DEF CallFine, CallAgrees, Outcomes, HandlerOutcomes, Denied
  <2> QED BY <2>2, <2>3
<1>6. StartsAgree'
  BY <1>1, StartsKept
<1> QED BY <1>1, <1>4, <1>5, <1>6, InvByCallNext, ChainSame DEF AuditInv

\* The outcome that is recorded is the handler's, or the denial's.
LEMMA RecordInv ==
    ASSUME AuditInv, NEW c \in Calls, Record(c)
    PROVE  AuditInv'
<1>1. CASE Withhold(c)
  BY <1>1, WithholdInv DEF Record
<1>2. CASE /\ Finalizable(calls[c].row)
           /\ chain' = Finalized(calls[c].row, calls[c].result)
           /\ calls' = [calls EXCEPT ![c].step = "recorded"]
  <2> DEFINE new == [calls[c] EXCEPT !.step = "recorded"]
             i == calls[c].row
             s == calls[c].result
  <2>1. /\ calls \in [Calls -> CallRecords] /\ chain \in Seq(Rows)
        /\ process' = process /\ ran' = ran /\ calls[c].step = "ran"
    BY DEF AuditInv, TypeOK, Record
  <2>2. CallFine(c) /\ i # 0 /\ s \in Outcomes /\ (s = Denied <=> c \notin ran)
    BY <2>1, InvByCall DEF AuditInv, CallFine, CallAgrees
  <2>3. /\ new \in CallRecords /\ new.row = i /\ new.id = calls[c].id /\ new.result = s
        /\ new.step = "recorded" /\ new.answer = calls[c].answer
    BY <2>1 DEF CallRecords
  <2>4. calls' = [calls EXCEPT ![c] = new]
    BY <1>2
  <2> HIDE DEF new
  <2>5. /\ chain' \in Seq(Rows) /\ ChainVerifies'
        /\ Len(chain') = Len(chain) /\ DOMAIN chain' = DOMAIN chain
        /\ \A j \in DOMAIN chain : chain'[j].kind = chain[j].kind /\ chain'[j].id = chain[j].id
        /\ \A j \in DOMAIN chain : j # i => chain'[j] = chain[j]
        /\ chain'[i].status = s
    BY <1>2, <2>2, FinalizeVerifies DEF AuditInv, TypeOK
  <2>6. IdsUnique'
    BY <2>5 DEF AuditInv, IdsUnique
  <2>7. TypeOK' /\ RowsOwned'
    BY <2>1, <2>3, <2>4, <2>5 DEF AuditInv, TypeOK, RowsOwned
  <2>8. ASSUME NEW d \in Calls PROVE CallFine(d)'
    <3>1. CallFine(d)
      BY InvByCall DEF AuditInv
    <3>2. CASE d # c
      <4>1. calls[d].row # 0 => chain'[calls[d].row] = chain[calls[d].row]
        BY <2>2, <2>5, <3>2, OthersKeepRow
      <4> QED BY <2>1, <2>4, <3>1, <3>2, <4>1, CallKept
    <3>3. CASE d = c
      <4>1. i \in DOMAIN chain /\ chain[i].kind = "guarded" /\ chain[i].id = calls[c].id /\ calls[c].answer = "none"
        BY <1>2, <2>1, <2>2 DEF Finalizable, CallFine, CallAgrees
      <4> QED BY <2>1, <2>2, <2>3, <2>4, <2>5, <3>3, <4>1
              DEF CallFine, CallAgrees, Outcomes, HandlerOutcomes, Denied
    <3> QED BY <3>2, <3>3
  <2>9. StartsAgree'
    <3>1. \A j \in DOMAIN chain : Pending(chain'[j]) => Pending(chain[j])
      BY <1>2, <2>5 DEF Finalizable
    <3> QED BY <2>1, <3>1, StartsKept
  <2> QED BY <2>5, <2>6, <2>7, <2>8, <2>9, InvByCallNext DEF AuditInv
<1> QED BY <1>1, <1>2 DEF Record

\* The answer that leaves is the recorded outcome.
LEMMA ReplyInv ==
    ASSUME AuditInv, NEW c \in Calls, Reply(c)
    PROVE  AuditInv'
<1> DEFINE new == [calls[c] EXCEPT !.step = "done", !.answer = calls[c].result]
<1>1. /\ calls \in [Calls -> CallRecords] /\ chain \in Seq(Rows) /\ chain' = chain
      /\ process' = process /\ ran' = ran /\ calls[c].step = "recorded"
  BY DEF AuditInv, TypeOK, Reply
<1>2. CallFine(c) /\ calls[c].result \in Outcomes /\ calls[c].row # 0
  BY <1>1, InvByCall DEF AuditInv, CallFine, CallAgrees
<1>3. /\ new \in CallRecords /\ new.row = calls[c].row /\ new.id = calls[c].id
      /\ new.step = "done" /\ new.answer = calls[c].result
  BY <1>1, <1>2 DEF CallRecords
<1>4. calls' = [calls EXCEPT ![c] = new]
  BY DEF Reply
<1> HIDE DEF new
<1>5. TypeOK' /\ RowsOwned'
  BY <1>1, <1>3, <1>4 DEF AuditInv, TypeOK, RowsOwned
<1>6. ASSUME NEW d \in Calls PROVE CallFine(d)'
  <2>1. CallFine(d)
    BY InvByCall DEF AuditInv
  <2>2. CASE d # c
    BY <1>1, <1>4, <2>1, <2>2, CallKept
  <2>3. CASE d = c
    BY <1>1, <1>2, <1>3, <1>4, <2>1, <2>3 DEF CallFine, CallAgrees
  <2> QED BY <2>2, <2>3
<1>7. StartsAgree'
  BY <1>1, StartsKept
<1> QED BY <1>1, <1>5, <1>6, <1>7, InvByCallNext, ChainSame DEF AuditInv

\* The ledger's rows join the chain like any other and concern no call.
LEMMA AppendSystemInv ==
    ASSUME AuditInv, NEW p \in Processes, AppendSystem(p)
    PROVE  AuditInv'
<1> DEFINE linked == Linked(Unlinked("system", "paper", "scanner", "SUCCEEDED"))
           row == [linked EXCEPT !.outcome = [hash |-> <<>>, status |-> "SUCCEEDED"]]
<1>1. /\ chain \in Seq(Rows) /\ chain' = Append(chain, row)
      /\ process' = process /\ calls' = calls /\ ran' = ran
  BY DEF AuditInv, TypeOK, AppendSystem
<1>2. /\ linked \in Rows /\ linked.kind = "system" /\ linked.prev = LastHash
      /\ linked.hash = HashOf(linked)
  BY <1>1, LinkedVerifies DEF Outcomes, HandlerOutcomes
<1> HIDE DEF linked
<1>3. /\ row \in Rows /\ row.kind = "system" /\ row.prev = LastHash /\ row.hash = linked.hash
      /\ row.id = linked.id /\ row.actor = linked.actor /\ row.status = linked.status
      /\ row.outcome.status = "SUCCEEDED"
  <2> DEFINE outcome == [hash |-> <<>>, status |-> "SUCCEEDED"]
  <2>1. outcome \in [hash : Hashes, status : Outcomes \cup {"none"}] /\ outcome.status = "SUCCEEDED"
    BY DEF Hashes, Outcomes, HandlerOutcomes
  <2> HIDE DEF outcome
  <2>2. row = [linked EXCEPT !.outcome = outcome]
    BY DEF outcome
  <2> QED BY <1>2, <2>1, <2>2 DEF Rows
<1> HIDE DEF row
<1>4. HashOf(row) = HashOf(linked)
  BY <1>2, <1>3 DEF HashOf
<1>5. RowVerifies(row, LastHash)
  BY <1>2, <1>3, <1>4 DEF RowVerifies, NoOutcome
<1>6. /\ chain' \in Seq(Rows) /\ Len(chain') = Len(chain) + 1 /\ ChainVerifies'
      /\ \A i \in DOMAIN chain : i \in DOMAIN chain' /\ chain'[i] = chain[i]
  BY <1>1, <1>3, <1>5, AppendVerifies DEF AuditInv
<1>7. IdsUnique'
  BY <1>1, <1>3, UniqueAfterAppend DEF AuditInv
<1>8. TypeOK' /\ RowsOwned'
  <2>1. \A q \in Processes : process'[q].todo \subseteq DOMAIN chain' /\ process'[q].seen <= Len(chain')
    BY <1>1, <1>6, ProcessesFineGrown DEF AuditInv
  <2>2. \A d \in Calls : calls[d].row <= Len(chain')
    BY <1>1, <1>6 DEF AuditInv, TypeOK, CallRecords
  <2> QED BY <1>1, <1>6, <2>1, <2>2 DEF AuditInv, TypeOK, RowsOwned
<1>9. ASSUME NEW d \in Calls PROVE CallFine(d)'
  <2>1. CallFine(d) /\ calls[d].row \in Nat /\ calls[d].row <= Len(chain)
    BY InvByCall DEF AuditInv, TypeOK, CallRecords
  <2>2. calls[d].row # 0 => chain'[calls[d].row] = chain[calls[d].row]
    BY <1>1, <1>6, <2>1
  <2> QED BY <1>1, <2>1, <2>2, CallKept
<1>10. StartsAgree'
  BY <1>1, <1>6, StartsKept
<1> QED BY <1>6, <1>7, <1>8, <1>9, <1>10, InvByCallNext DEF AuditInv

\* A start changes the process only.
LEMMA StartInv ==
    ASSUME AuditInv, NEW p \in Processes, Boot(p) \/ Serve(p)
    PROVE  AuditInv'
<1>1. chain' = chain /\ calls' = calls /\ ran' = ran
  BY DEF Boot, Serve
<1>2. /\ process' \in [Processes -> ProcessRecords]
      /\ \A q \in Processes : process'[q].todo \subseteq DOMAIN chain /\ process'[q].seen <= Len(chain)
      /\ StartsAgree'
  <2>1. CASE Boot(p)
    <3>1. LeftPending \subseteq DOMAIN chain /\ DOMAIN chain = 1..Len(chain) /\ Len(chain) \in Nat
      BY DEF LeftPending, AuditInv, TypeOK
    <3> DEFINE new == [state |-> "booting", boots |-> process[p].boots + 1, todo |-> LeftPending,
                       seen |-> Len(chain)]
    <3>2. process[p].boots + 1 \in 0..MaxBoots
      BY <2>1, AuditConstants DEF Boot, AuditInv, TypeOK, ProcessRecords
    <3>3. new \in ProcessRecords /\ new.todo = LeftPending /\ new.seen = Len(chain) /\ new.state = "booting"
      BY <3>1, <3>2 DEF ProcessRecords
    <3>4. process' = [process EXCEPT ![p] = new]
      BY <2>1 DEF Boot
    <3> HIDE DEF new
    <3>5. /\ process' \in [Processes -> ProcessRecords]
          /\ \A q \in Processes : process'[q] = IF q = p THEN new ELSE process[q]
      BY <3>3, <3>4 DEF AuditInv, TypeOK
    <3>6. \A i \in 1..new.seen : Pending(chain[i]) => i \in new.todo
      BY <3>1, <3>3 DEF LeftPending
    <3>7. \A q \in Processes : process'[q].todo \subseteq DOMAIN chain /\ process'[q].seen <= Len(chain)
      BY <3>1, <3>3, <3>5 DEF AuditInv, TypeOK
    <3>8. StartsAgree'
      BY <1>1, <3>3, <3>5, <3>6 DEF AuditInv, StartsAgree, Pending
    <3> QED BY <3>5, <3>7, <3>8
  <2>2. CASE Serve(p)
    <3> DEFINE new == [process[p] EXCEPT !.state = "up"]
    <3>1. /\ new \in ProcessRecords /\ new.state = "up" /\ new.todo = {}
          /\ new.seen = process[p].seen /\ process[p].todo = {} /\ process[p].state = "booting"
      BY <2>2 DEF Serve, AuditInv, TypeOK, ProcessRecords
    <3>2. process' = [process EXCEPT ![p] = new]
      BY <2>2 DEF Serve
    <3> HIDE DEF new
    <3>3. /\ process' \in [Processes -> ProcessRecords]
          /\ \A q \in Processes : process'[q] = IF q = p THEN new ELSE process[q]
      BY <3>1, <3>2 DEF AuditInv, TypeOK
    <3>4. \A q \in Processes : process'[q].todo \subseteq DOMAIN chain /\ process'[q].seen <= Len(chain)
      BY <3>1, <3>3 DEF AuditInv, TypeOK
    <3>5. StartsAgree'
      BY <1>1, <3>1, <3>3 DEF AuditInv, StartsAgree, Pending
    <3> QED BY <3>3, <3>4, <3>5
  <2> QED BY <2>1, <2>2
<1>3. TypeOK' /\ RowsOwned'
  BY <1>1, <1>2 DEF AuditInv, TypeOK, RowsOwned
<1>4. ASSUME NEW d \in Calls PROVE CallFine(d)'
  BY <1>1, InvByCall, CallKept DEF AuditInv
<1> QED BY <1>1, <1>2, <1>3, <1>4, InvByCallNext, ChainSame DEF AuditInv, TypeOK

\* A reconciliation closes a pending row: its call, if one is left, is interrupted or
\* in flight in another process.
LEMMA ReconcileInv ==
    ASSUME AuditInv, NEW p \in Processes, Reconcile(p)
    PROVE  AuditInv'
<1>1. PICK i \in process[p].todo :
        /\ Finalizable(i)
        /\ chain' = Finalized(i, Interrupted)
        /\ process' = [process EXCEPT ![p].todo = @ \ {i}]
  BY DEF Reconcile
<1>2. calls' = calls /\ ran' = ran /\ chain \in Seq(Rows) /\ Interrupted \in Outcomes
  BY DEF Reconcile, AuditInv, TypeOK, Interrupted, Outcomes, HandlerOutcomes
<1>3. /\ chain' \in Seq(Rows) /\ ChainVerifies'
      /\ Len(chain') = Len(chain) /\ DOMAIN chain' = DOMAIN chain
      /\ \A j \in DOMAIN chain : chain'[j].kind = chain[j].kind /\ chain'[j].id = chain[j].id
      /\ \A j \in DOMAIN chain : j # i => chain'[j] = chain[j]
      /\ chain'[i].status = Interrupted
  BY <1>1, <1>2, FinalizeVerifies DEF AuditInv
<1>4. IdsUnique'
  BY <1>3 DEF AuditInv, IdsUnique
<1>5. TypeOK' /\ RowsOwned'
  BY <1>1, <1>2, <1>3 DEF AuditInv, TypeOK, RowsOwned, ProcessRecords
<1>6. ASSUME NEW d \in Calls PROVE CallFine(d)'
  <2>1. CallFine(d) /\ calls[d].row \in Nat /\ calls[d].row <= Len(chain)
    BY InvByCall DEF AuditInv, TypeOK, CallRecords
  <2>2. CASE calls[d].row = i /\ calls[d].row # 0
    <3>1. i \in DOMAIN chain /\ chain[i].status = "PENDING"
      BY <1>1 DEF Finalizable, Pending
    <3> QED BY <1>2, <1>3, <2>1, <2>2, <3>1, CallReconciled
  <2>3. CASE calls[d].row # i \/ calls[d].row = 0
    <3>1. calls[d].row # 0 => chain'[calls[d].row] = chain[calls[d].row]
      BY <1>2, <1>3, <2>1, <2>3
    <3> QED BY <1>2, <2>1, <3>1, CallKept
  <2> QED BY <2>2, <2>3
<1>7. StartsAgree'
  <2>1. \A j \in DOMAIN chain : Pending(chain'[j]) => Pending(chain[j]) /\ j # i
    BY <1>3 DEF Pending, Interrupted
  <2>2. \A q \in Processes : /\ process'[q].seen = process[q].seen
                             /\ process'[q].state = process[q].state
                             /\ process'[q].todo \subseteq process[q].todo
                             /\ process[q].todo \subseteq process'[q].todo \cup {i}
    BY <1>1 DEF AuditInv, TypeOK, ProcessRecords
  <2>3. ASSUME NEW q \in Processes, NEW j \in 1..process[q].seen
        PROVE  j \in DOMAIN chain
    BY DEF AuditInv, TypeOK, ProcessRecords
  <2>4. ASSUME NEW q \in Processes, process'[q].state # "down",
               NEW j \in 1..process'[q].seen, Pending(chain'[j])
        PROVE  j \in process'[q].todo
    <3>1. j \in DOMAIN chain /\ Pending(chain[j]) /\ j # i
      BY <2>1, <2>2, <2>3, <2>4
    <3> QED BY <2>2, <2>4, <3>1 DEF AuditInv, StartsAgree
  <2>5. \A q \in Processes : process'[q].state = "up" => process'[q].todo = {}
    BY <2>2 DEF AuditInv, StartsAgree
  <2> QED BY <2>4, <2>5 DEF StartsAgree, Pending
<1> QED BY <1>3, <1>4, <1>5, <1>6, <1>7, InvByCallNext DEF AuditInv

\* A process that ends takes its calls with it and leaves their rows.
LEMMA StopInv ==
    ASSUME AuditInv, NEW p \in Processes, Stop(p)
    PROVE  AuditInv'
<1>1. chain' = chain /\ ran' = ran /\ calls \in [Calls -> CallRecords]
  BY DEF Stop, AuditInv, TypeOK
<1>2. \A d \in Calls : /\ calls'[d] \in CallRecords
                       /\ calls'[d].row = calls[d].row /\ calls'[d].id = calls[d].id
                       /\ calls'[d].answer = calls[d].answer
                       /\ calls'[d] = calls[d] \/ calls'[d].step = "done"
  BY <1>1 DEF Stop, CallRecords
<1>3. calls' \in [Calls -> CallRecords]
  BY <1>2 DEF Stop
<1>4. /\ process' \in [Processes -> ProcessRecords]
      /\ \A q \in Processes : process'[q].todo \subseteq DOMAIN chain /\ process'[q].seen <= Len(chain)
      /\ \A q \in Processes : process'[q].state = "down" \/ process'[q] = process[q]
  <2> DEFINE new == [process[p] EXCEPT !.state = "down", !.todo = {}, !.seen = 0]
  <2>1. /\ process \in [Processes -> ProcessRecords] /\ Len(chain) \in Nat
        /\ \A q \in Processes : process[q].todo \subseteq DOMAIN chain /\ process[q].seen <= Len(chain)
    BY DEF AuditInv, TypeOK
  <2>2. new \in ProcessRecords /\ new.state = "down" /\ new.todo = {} /\ new.seen = 0
    BY <2>1 DEF ProcessRecords
  <2>3. process' = [process EXCEPT ![p] = new]
    BY DEF Stop
  <2> HIDE DEF new
  <2>4. /\ process' \in [Processes -> ProcessRecords]
        /\ \A q \in Processes : process'[q] = IF q = p THEN new ELSE process[q]
    BY <2>1, <2>2, <2>3
  <2> QED BY <2>1, <2>2, <2>4
<1>5. TypeOK' /\ RowsOwned'
  BY <1>1, <1>2, <1>3, <1>4 DEF AuditInv, TypeOK, RowsOwned
<1>6. ASSUME NEW d \in Calls PROVE CallFine(d)'
  <2>1. CallFine(d)
    BY InvByCall DEF AuditInv
  <2>2. CASE calls'[d] = calls[d]
    BY <1>1, <2>1, <2>2, CallKept
  <2>3. CASE calls'[d].step = "done"
    <3>1. calls[d].row = 0 => calls[d].answer \in {"none", "UNAVAILABLE", "DUPLICATE"} /\ d \notin ran
      BY <2>1 DEF CallFine, CallAgrees
    <3> QED BY <1>1, <1>2, <2>1, <2>3, <3>1 DEF CallFine, CallAgrees
  <2> QED BY <1>2, <2>2, <2>3
<1>7. StartsAgree'
  BY <1>1, <1>4 DEF AuditInv, StartsAgree, Pending
<1> QED BY <1>1, <1>5, <1>6, <1>7, InvByCallNext, ChainSame DEF AuditInv, TypeOK
-----------------------------------------------------------------------------
LEMMA NextInv ==
    ASSUME AuditInv, [Next]_vars
    PROVE  AuditInv'
<1>1. ASSUME NEW c \in Calls, NEW p \in Processes, NEW id \in Ids, Arrive(c, p, id)
      PROVE  AuditInv'
  BY <1>1, RefusedInv, CreateInv DEF Arrive
<1>2. ASSUME NEW c \in Calls, Handle(c) \/ Panic(c) \/ Record(c) \/ Reply(c)
      PROVE  AuditInv'
  BY <1>2, HandleInv, RecordInv, ReplyInv
<1>3. ASSUME NEW p \in Processes,
             AppendSystem(p) \/ Boot(p) \/ Reconcile(p) \/ Serve(p) \/ Stop(p)
      PROVE  AuditInv'
  BY <1>3, AppendSystemInv, StartInv, ReconcileInv, StopInv
<1>4. CASE UNCHANGED vars
  <2>1. chain' = chain /\ process' = process /\ calls' = calls /\ ran' = ran
    BY <1>4 DEF vars
  <2>2. TypeOK' /\ RowsOwned'
    BY <2>1 DEF AuditInv, TypeOK, RowsOwned
  <2>3. ASSUME NEW d \in Calls PROVE CallFine(d)'
    BY <2>1, InvByCall, CallKept DEF AuditInv
  <2>4. StartsAgree'
    BY <2>1, StartsKept
  <2> QED BY <2>1, <2>2, <2>3, <2>4, InvByCallNext, ChainSame DEF AuditInv, TypeOK
<1> QED BY <1>1, <1>2, <1>3, <1>4 DEF Next

\* The chain, the calls and their handlers agree in every reachable state.
THEOREM AuditInvHolds == Spec => []AuditInv
<1>1. Init => AuditInv
  BY InitInv
<1>2. AuditInv /\ [Next]_vars => AuditInv'
  BY NextInv
<1> QED BY <1>1, <1>2, PTL DEF Spec

\* The verifier accepts the chain at any moment, whatever was interrupted
\* (verifyAuditEvents).
THEOREM ChainAlwaysVerifies == Spec => []ChainVerifies
<1>1. AuditInv => ChainVerifies
  BY DEF AuditInv
<1> QED BY <1>1, AuditInvHolds, PTL

\* The rows that calls and processes hold on to are there (createPendingAuditOutcomeWithPayload,
\* finalizeAuditOutcome).
THEOREM AuditTypeCorrect == Spec => []TypeOK
<1>1. AuditInv => TypeOK
  BY DEF AuditInv
<1> QED BY <1>1, AuditInvHolds, PTL

\* No outcome is recorded for a handler that did not run, nor a refusal for one that
\* did, whatever was interrupted or closed by a start (outcomeForHTTPStatus).
THEOREM RecordsStayTrue == Spec => []RecordsAreTrue
<1>1. AuditInv => RecordsAreTrue
  BY DEF AuditInv
<1> QED BY <1>1, AuditInvHolds, PTL

\* What a client was told stands in the chain for good (adminWriteGuard).
THEOREM AnswersStand == Spec => []AnswersAreRecorded
<1>1. AuditInv => AnswersAreRecorded
  BY DEF AuditInv
<1> QED BY <1>1, AuditInvHolds, PTL

\* A request id is worth one run of the handler, however often it is sent and whichever
\* process it reaches (createPendingAuditOutcomeWithPayload).
THEOREM OneRunPerId == Spec => []HandlerRunsOnce
<1>1. AuditInv => HandlerRunsOnce
  <2> SUFFICES ASSUME AuditInv, NEW c \in ran, NEW d \in ran, calls[c].id = calls[d].id
               PROVE  c = d
    BY DEF HandlerRunsOnce
  <2>1. c \in Calls /\ d \in Calls /\ CallAgrees(c) /\ CallAgrees(d)
    BY DEF AuditInv, TypeOK
  <2>2. /\ calls[c].row # 0 /\ calls[d].row # 0
        /\ chain[calls[c].row].kind = "guarded" /\ chain[calls[d].row].kind = "guarded"
        /\ chain[calls[c].row].id = chain[calls[d].row].id
    BY <2>1 DEF CallAgrees
  <2>3. calls[c].row \in DOMAIN chain /\ calls[d].row \in DOMAIN chain
    BY <2>1, <2>2 DEF AuditInv, TypeOK, CallRecords
  <2>4. calls[c].row = calls[d].row
    BY <2>2, <2>3 DEF AuditInv, IdsUnique
  <2> QED BY <2>1, <2>2, <2>4 DEF AuditInv, RowsOwned
<1> QED BY <1>1, AuditInvHolds, PTL

\* A process that serves has left nothing open that was there when it started
\* (ReconcilePendingAuditOutcomes).
THEOREM NothingLeftOpen == Spec => []LeftoversClosed
<1>1. AuditInv => LeftoversClosed
  BY DEF AuditInv, StartsAgree, LeftoversClosed
<1> QED BY <1>1, AuditInvHolds, PTL

\* A closed row is never rewritten and no row disappears (finalizeAuditOutcome).
THEOREM ClosedStaysClosed == Spec => ClosedIsFinal
<1> DEFINE Step == \A i \in DOMAIN chain :
                       i \in DOMAIN chain' /\ (~Pending(chain[i]) => chain'[i] = chain[i])
<1>1. AuditInv /\ [Next]_vars => [Step]_vars
  <2> SUFFICES ASSUME AuditInv, Next PROVE Step
    OBVIOUS
  <2>1. chain \in Seq(Rows)
    BY DEF AuditInv, TypeOK
  <2>2. ASSUME chain' = chain PROVE Step
    BY <2>2
  <2>3. ASSUME NEW row, chain' = Append(chain, row) PROVE Step
    BY <2>1, <2>3
  <2>4. ASSUME NEW i, NEW s, Finalizable(i), chain' = Finalized(i, s) PROVE Step
    BY <2>1, <2>4 DEF Finalizable, Finalized
  <2>5. ASSUME NEW c \in Calls, NEW p \in Processes, NEW id \in Ids, Arrive(c, p, id) PROVE Step
    BY <2>2, <2>3, <2>5 DEF Arrive, Refuse, Duplicate, CreatePending
  <2>6. ASSUME NEW c \in Calls, Handle(c) \/ Panic(c) \/ Record(c) \/ Reply(c) PROVE Step
    BY <2>2, <2>4, <2>6 DEF Handle, Panic, Record, Withhold, Reply
  <2>7. ASSUME NEW p \in Processes,
               AppendSystem(p) \/ Boot(p) \/ Reconcile(p) \/ Serve(p) \/ Stop(p)
        PROVE  Step
    BY <2>2, <2>3, <2>4, <2>7 DEF AppendSystem, Boot, Reconcile, Serve, Stop
  <2> QED BY <2>5, <2>6, <2>7 DEF Next
<1> QED BY <1>1, AuditInvHolds, PTL DEF Spec, ClosedIsFinal
=============================================================================
