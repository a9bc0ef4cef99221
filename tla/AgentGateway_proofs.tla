------------------------- MODULE AgentGateway_proofs -------------------------
(***************************************************************************)
(* Proofs about the memory system and the gateway that opens it to agents, *)
(* for any agents, callers, memory ids, permission sets and number of      *)
(* writes.                                                                 *)
(***************************************************************************)
EXTENDS AgentGateway, SequenceTheorems, TLAPS

-----------------------------------------------------------------------------
(* What a request to the database does to the table and to the counters.   *)
Effect ==
  \/ UNCHANGED <<storage, writes>>
  \/ \E i \in Ids, record \in MemoryRecord :
       /\ writes[i] < MaxWrites
       /\ storage' = [storage EXCEPT ![i] = record]
       /\ writes' = [writes EXCEPT ![i] = @ + 1]
  \/ \E i \in Ids : storage' = [storage EXCEPT ![i] = NoRecord] /\ UNCHANGED writes

(* Safe(k, record, n): what the call k may rely on while the row it is at  *)
(* holds record and has been written n times.  As long as the count is the *)
(* one of its read, the row holds what was read, or nothing; before its    *)
(* deletion a call has removed nothing.                                    *)
Safe(k, record, n) ==
  /\ k.pc # "idle" => k.gone = NoRecord
  /\ k.pc = "deleting" =>
       /\ k.judgedAt <= n
       /\ n = k.judgedAt /\ record # NoRecord =>
            ForgettingAllowed(record.memory_type, k.explicit, k.automatic)
  /\ k.pc \in {"retrieving", "deleting"} /\ k.swept =>
       /\ k.sweptAt <= n
       /\ n = k.sweptAt => record.memory_type \in {"working", "none"}

Guarded(c) == Safe(call[c], storage[call[c].id], writes[call[c].id])

MemoryInv == MemoryTypeOK /\ DeletedAtMostOnce /\ \A c \in Callers : Guarded(c)

-----------------------------------------------------------------------------
LEMMA EffectTypes ==
  ASSUME MemoryTypeOK, Effect
  PROVE  storage' \in [Ids -> MemoryRecord \cup {NoRecord}] /\ writes' \in [Ids -> 0 .. MaxWrites]
  <1>1. CASE UNCHANGED <<storage, writes>>
    BY <1>1 DEF MemoryTypeOK
  <1>2. CASE \E i \in Ids, record \in MemoryRecord :
               /\ writes[i] < MaxWrites
               /\ storage' = [storage EXCEPT ![i] = record]
               /\ writes' = [writes EXCEPT ![i] = @ + 1]
    <2>1. PICK i \in Ids, record \in MemoryRecord :
            /\ writes[i] < MaxWrites
            /\ storage' = [storage EXCEPT ![i] = record]
            /\ writes' = [writes EXCEPT ![i] = @ + 1]
      BY <1>2
    <2>2. writes[i] + 1 \in 0 .. MaxWrites
      BY <2>1, MaxWritesAssumption DEF MemoryTypeOK
    <2>3. QED
      BY <2>1, <2>2 DEF MemoryTypeOK
  <1>3. CASE \E i \in Ids : storage' = [storage EXCEPT ![i] = NoRecord] /\ UNCHANGED writes
    BY <1>3 DEF MemoryTypeOK
  <1>4. QED
    BY <1>1, <1>2, <1>3 DEF Effect

LEMMA NoRecordIsNone ==
  /\ NoRecord.memory_type = "none"
  /\ \A r \in MemoryRecord : r # NoRecord /\ r.memory_type \in MemoryType /\ r.memory_type # "none"
  BY DEF NoRecord, MemoryRecord, MemoryType

(* No request disturbs a call of somebody else: a write raises the count   *)
(* above that of any earlier read, and a deletion leaves no record.        *)
LEMMA EffectIsSafe ==
  ASSUME MemoryTypeOK, Effect, NEW k \in Call, Safe(k, storage[k.id], writes[k.id])
  PROVE  Safe(k, storage'[k.id], writes'[k.id])
  <1>0. k.id \in Ids
    BY DEF Call
  <1>1. writes[k.id] \in Nat /\ k.judgedAt \in Nat /\ k.sweptAt \in Nat
    BY <1>0, MaxWritesAssumption DEF MemoryTypeOK, Call
  <1>2. \/ storage'[k.id] = storage[k.id] /\ writes'[k.id] = writes[k.id]
        \/ storage'[k.id] = NoRecord /\ writes'[k.id] = writes[k.id]
        \/ writes'[k.id] = writes[k.id] + 1
    BY <1>0 DEF Effect, MemoryTypeOK
  <1>3. CASE storage'[k.id] = storage[k.id] /\ writes'[k.id] = writes[k.id]
    BY <1>3
  <1>4. CASE storage'[k.id] = NoRecord /\ writes'[k.id] = writes[k.id]
    BY <1>4, NoRecordIsNone DEF Safe
  <1>5. CASE writes'[k.id] = writes[k.id] + 1
    <2>1. /\ k.judgedAt <= writes[k.id] => k.judgedAt <= writes'[k.id] /\ writes'[k.id] # k.judgedAt
          /\ k.sweptAt <= writes[k.id] => k.sweptAt <= writes'[k.id] /\ writes'[k.id] # k.sweptAt
      BY <1>1, <1>5
    <2>2. QED
      BY <2>1 DEF Safe
  <1>6. QED
    BY <1>2, <1>3, <1>4, <1>5

LEMMA EffectCounts ==
  ASSUME MemoryTypeOK, DeletedAtMostOnce, Effect, UNCHANGED forgotten
  PROVE  DeletedAtMostOnce'
  <1>. SUFFICES ASSUME NEW id \in Ids
                PROVE  forgotten[id] + (IF storage'[id] = NoRecord THEN 0 ELSE 1) <= writes'[id]
    BY DEF DeletedAtMostOnce
  <1>1. /\ writes[id] \in Nat /\ forgotten[id] \in Nat
        /\ forgotten[id] + (IF storage[id] = NoRecord THEN 0 ELSE 1) <= writes[id]
    BY MaxWritesAssumption DEF MemoryTypeOK, DeletedAtMostOnce
  <1>2. \/ storage'[id] = storage[id] /\ writes'[id] = writes[id]
        \/ storage'[id] = NoRecord /\ writes'[id] = writes[id]
        \/ writes'[id] = writes[id] + 1
    BY DEF Effect, MemoryTypeOK
  <1>3. QED
    BY <1>1, <1>2

(* The step of one caller, whose call becomes k.                           *)
LEMMA CallerSteps ==
  ASSUME MemoryInv, NEW c \in Callers, NEW k \in Call, Effect,
         call' = [call EXCEPT ![c] = k], Safe(k, storage'[k.id], writes'[k.id]),
         forgotten' \in [Ids -> Nat], DeletedAtMostOnce'
  PROVE  MemoryInv'
  <1>1. call \in [Callers -> Call] /\ call' \in [Callers -> Call]
    BY DEF MemoryInv, MemoryTypeOK
  <1>2. MemoryTypeOK'
    BY <1>1, EffectTypes DEF MemoryInv, MemoryTypeOK
  <1>3. ASSUME NEW d \in Callers PROVE Guarded(d)'
    <2>1. CASE d = c
      BY <1>1, <2>1 DEF Guarded
    <2>2. CASE d # c
      <3>1. call'[d] = call[d] /\ call[d] \in Call
        BY <1>1, <2>2
      <3>2. Safe(call[d], storage[call[d].id], writes[call[d].id])
        BY DEF MemoryInv, Guarded
      <3>3. Safe(call[d], storage'[call[d].id], writes'[call[d].id])
        BY <3>1, <3>2, EffectIsSafe DEF MemoryInv
      <3>4. QED
        BY <3>1, <3>3 DEF Guarded
    <2>3. QED
      BY <2>1, <2>2
  <1>4. QED
    BY <1>2, <1>3 DEF MemoryInv

(* A call that ends without a removal, or that begins.                     *)
LEMMA HarmlessStep ==
  ASSUME MemoryInv, NEW c \in Callers, NEW k \in Call, Effect,
         call' = [call EXCEPT ![c] = k], k.gone = NoRecord,
         k.pc \in {"idle", "expiring"} \/ (k.pc = "retrieving" /\ ~k.swept),
         UNCHANGED forgotten
  PROVE  MemoryInv'
  <1>1. forgotten' \in [Ids -> Nat] /\ DeletedAtMostOnce'
    BY EffectCounts DEF MemoryInv, MemoryTypeOK
  <1>2. Safe(k, storage'[k.id], writes'[k.id])
    BY NoRecordIsNone DEF Safe
  <1>3. QED
    BY <1>1, <1>2, CallerSteps
-----------------------------------------------------------------------------
(* The calls an operation starts or ends with.                             *)
LEMMA CallOf ==
  ASSUME NEW id \in Ids, NEW pc \in {"idle", "expiring", "retrieving", "deleting"},
         NEW swept \in BOOLEAN, NEW explicit \in BOOLEAN, NEW automatic \in BOOLEAN,
         NEW trail \in Seq(AuditRecord), NEW stored \in BOOLEAN
  PROVE  /\ [NoCall(id) EXCEPT !.pc = pc, !.explicit = explicit, !.automatic = automatic,
                               !.trail = trail] \in Call
         /\ [NoCall(id) EXCEPT !.pc = pc, !.swept = swept] \in Call
         /\ [NoCall(id) EXCEPT !.stored = stored, !.trail = trail] \in Call
         /\ [NoCall(id) EXCEPT !.trail = trail] \in Call
         /\ NoCall(id) \in Call
  <1>1. <<>> \in Seq(AuditRecord) /\ 0 \in 0 .. MaxWrites
    BY MaxWritesAssumption
  <1>2. QED
    BY <1>1 DEF NoCall, Call

LEMMA Trails ==
  /\ \A a \in {"requested", "completed", "failed"}, r \in {"success", "failure"} :
       Audited(a, r) \in AuditRecord
  /\ <<>> \in Seq(AuditRecord)
  /\ \A x \in AuditRecord : <<x>> \in Seq(AuditRecord)
  /\ \A x, y \in AuditRecord : <<x, y>> \in Seq(AuditRecord)
  /\ \A t \in Seq(AuditRecord), x \in AuditRecord : Append(t, x) \in Seq(AuditRecord)
  <1>1. \A a \in {"requested", "completed", "failed"}, r \in {"success", "failure"} :
          Audited(a, r) \in AuditRecord
    BY DEF Audited, AuditRecord
  <1>2. QED
    BY <1>1, AppendProperties

LEMMA SecondRecord ==
  ASSUME NEW r \in AuditRecord, NEW x \in AuditRecord
  PROVE  LET s == Append(<<r>>, x) IN Len(s) = 2 /\ s[1] = r /\ s[2] = x
  OBVIOUS

LEMMA UpsertEffect ==
  ASSUME NEW id \in Ids, NEW record \in MemoryRecord, Upsert(id, record)
  PROVE  Effect
  BY DEF Upsert, Effect

(* Every operation that uses the memory system directly.                   *)
LEMMA DirectStep ==
  ASSUME MemoryInv, NEW c \in Callers, DirectCall(c)
  PROVE  MemoryInv'
  <1>1. PICK id \in Ids :
          \/ \E record \in MemoryRecord, status \in ValidationStatus :
               Store(c, id, record, status) \/ Consolidate(c, id, record, status)
          \/ Capture(c, id)
          \/ \E explicit, automatic \in BOOLEAN : Forget(c, id, explicit, automatic)
          \/ ForgetIfExpired(c, id)
    BY DEF DirectCall
  <1>2. ASSUME NEW record \in MemoryRecord, NEW status \in ValidationStatus, Store(c, id, record, status)
        PROVE  MemoryInv'
    <2>1. Effect /\ call' = [call EXCEPT ![c] = NoCall(id)] /\ UNCHANGED forgotten
      BY <1>2, UpsertEffect DEF Store
    <2>2. NoCall(id) \in Call /\ NoCall(id).gone = NoRecord /\ NoCall(id).pc = "idle"
      BY CallOf, Trails DEF NoCall
    <2>3. QED
      BY <2>1, <2>2, HarmlessStep
  <1>3. ASSUME NEW record \in MemoryRecord, NEW status \in ValidationStatus, Consolidate(c, id, record, status)
        PROVE  MemoryInv'
    <2>. DEFINE derived == [id EXCEPT !.semantic = TRUE]
                semantic == [memory_type |-> "semantic", expires_at |-> "absent"]
    <2>1. derived \in Ids /\ semantic \in MemoryRecord
      BY DEF Ids, MemoryRecord, MemoryType, Expiry
    <2>2. Upsert(derived, semantic) /\ call' = [call EXCEPT ![c] = NoCall(derived)] /\ UNCHANGED forgotten
      BY <1>3 DEF Consolidate
    <2>. HIDE DEF derived, semantic
    <2>3. NoCall(derived) \in Call /\ NoCall(derived).gone = NoRecord /\ NoCall(derived).pc = "idle"
      BY <2>1, CallOf, Trails DEF NoCall
    <2>4. Effect
      BY <2>1, <2>2, UpsertEffect
    <2>5. QED
      BY <2>2, <2>3, <2>4, HarmlessStep
  <1>4. ASSUME Capture(c, id) PROVE MemoryInv'
    <2>. DEFINE episodic == [memory_type |-> "episodic", expires_at |-> "absent"]
                trail == <<Audited("completed", "success")>>
                k == [NoCall(id) EXCEPT !.stored = Took(id), !.trail = trail]
    <2>1. episodic \in MemoryRecord /\ trail \in Seq(AuditRecord) /\ Took(id) \in BOOLEAN
      BY Trails DEF MemoryRecord, MemoryType, Expiry, Took
    <2>2. Upsert(id, episodic) /\ call' = [call EXCEPT ![c] = k] /\ UNCHANGED forgotten
      BY <1>4 DEF Capture
    <2>3. k \in Call
      BY <2>1, CallOf
    <2>4. k.gone = NoRecord /\ k.pc = "idle"
      BY DEF NoCall
    <2>. HIDE DEF episodic, k
    <2>5. Effect
      BY <2>1, <2>2, UpsertEffect
    <2>6. QED
      BY <2>2, <2>3, <2>4, <2>5, HarmlessStep
  <1>5. ASSUME NEW explicit \in BOOLEAN, NEW automatic \in BOOLEAN, Forget(c, id, explicit, automatic)
        PROVE  MemoryInv'
    <2>. DEFINE k == [NoCall(id) EXCEPT !.pc = "retrieving", !.explicit = explicit,
                                        !.automatic = automatic, !.trail = <<>>]
    <2>1. Effect /\ call' = [call EXCEPT ![c] = k] /\ UNCHANGED forgotten
      BY <1>5 DEF Forget, BeginForget, Effect
    <2>2. k \in Call
      BY Trails, CallOf
    <2>3. k.gone = NoRecord /\ k.pc = "retrieving" /\ ~k.swept
      BY DEF NoCall
    <2>. HIDE DEF k
    <2>4. QED
      BY <2>1, <2>2, <2>3, HarmlessStep
  <1>6. ASSUME ForgetIfExpired(c, id) PROVE MemoryInv'
    <2>. DEFINE k == [NoCall(id) EXCEPT !.pc = "expiring", !.swept = TRUE]
    <2>1. Effect /\ call' = [call EXCEPT ![c] = k] /\ UNCHANGED forgotten
      BY <1>6 DEF ForgetIfExpired, Effect
    <2>2. k \in Call
      BY Trails, CallOf
    <2>3. k.gone = NoRecord /\ k.pc = "expiring"
      BY DEF NoCall
    <2>. HIDE DEF k
    <2>4. QED
      BY <2>1, <2>2, <2>3, HarmlessStep
  <1>7. QED
    BY <1>1, <1>2, <1>3, <1>4, <1>5, <1>6

(* The steps of a forget call that is under way.                           *)
LEMMA CheckExpiryStep ==
  ASSUME MemoryInv, NEW c \in Callers, CheckExpiry(c)
  PROVE  MemoryInv'
  <1>. DEFINE id == call[c].id
  <1>1. id \in Ids /\ call[c] \in Call /\ writes[id] \in 0 .. MaxWrites /\ writes[id] \in Nat
    BY MaxWritesAssumption DEF MemoryInv, MemoryTypeOK, Call
  <1>2. Effect /\ UNCHANGED <<storage, writes, forgotten>> /\ call[c].pc = "expiring"
    BY DEF CheckExpiry, Effect
  <1>3. PICK record \in Select(id) :
          \/ call' = [call EXCEPT ![c] = Ended(c, <<>>)]
          \/ call' = [call EXCEPT ![c] = Ended(c, <<Audited("requested", "failure")>>)]
          \/ /\ record.memory_type = "working"
             /\ call' = [call EXCEPT ![c].pc = "retrieving",
                                     ![c].explicit = TRUE, ![c].automatic = TRUE,
                                     ![c].sweptAt = writes[id]]
    BY DEF CheckExpiry
  <1>4. ASSUME NEW trail \in Seq(AuditRecord), call' = [call EXCEPT ![c] = Ended(c, trail)]
        PROVE  MemoryInv'
    <2>. DEFINE k == [NoCall(id) EXCEPT !.trail = trail]
    <2>1. k \in Call
      BY <1>1, CallOf
    <2>2. k.gone = NoRecord /\ k.pc = "idle" /\ call' = [call EXCEPT ![c] = k]
      BY <1>4 DEF NoCall, Ended
    <2>. HIDE DEF k
    <2>3. QED
      BY <1>2, <2>1, <2>2, HarmlessStep
  <1>5. ASSUME record.memory_type = "working",
               call' = [call EXCEPT ![c].pc = "retrieving",
                                    ![c].explicit = TRUE, ![c].automatic = TRUE,
                                    ![c].sweptAt = writes[id]]
        PROVE  MemoryInv'
    <2>. DEFINE k == [call[c] EXCEPT !.pc = "retrieving", !.explicit = TRUE, !.automatic = TRUE,
                                     !.sweptAt = writes[id]]
    <2>1. call' = [call EXCEPT ![c] = k]
      BY <1>5 DEF MemoryInv, MemoryTypeOK
    <2>2. k \in Call
      BY <1>1 DEF Call
    <2>3. k.id = id /\ k.pc = "retrieving" /\ k.gone = NoRecord /\ k.sweptAt = writes[id]
      <3>1. call[c].gone = NoRecord
        BY <1>2 DEF MemoryInv, Guarded, Safe
      <3>2. QED
        BY <1>1, <3>1 DEF Call
    <2>4. storage[id] # NoRecord /\ storage[id].memory_type = "working"
      BY <1>3, <1>5, NoRecordIsNone DEF Select
    <2>. HIDE DEF k
    <2>6. Safe(k, storage'[k.id], writes'[k.id])
      BY <1>1, <1>2, <2>3, <2>4, NoRecordIsNone DEF Safe
    <2>7. forgotten' \in [Ids -> Nat] /\ DeletedAtMostOnce'
      BY <1>2, EffectCounts DEF MemoryInv, MemoryTypeOK
    <2>8. QED
      BY <1>2, <2>1, <2>2, <2>6, <2>7, CallerSteps
  <1>6. QED
    BY <1>3, <1>4, <1>5, Trails
LEMMA JudgeStep ==
  ASSUME MemoryInv, NEW c \in Callers, Judge(c)
  PROVE  MemoryInv'
  <1>. DEFINE id == call[c].id
  <1>1. /\ id \in Ids /\ call[c] \in Call /\ call[c].trail \in Seq(AuditRecord)
        /\ writes[id] \in 0 .. MaxWrites /\ writes[id] \in Nat
    BY MaxWritesAssumption DEF MemoryInv, MemoryTypeOK, Call
  <1>2. Effect /\ UNCHANGED <<storage, writes, forgotten>> /\ call[c].pc = "retrieving"
    BY DEF Judge, Effect
  <1>3. PICK record \in Select(id) :
          IF ForgettingAllowed(record.memory_type, call[c].explicit, call[c].automatic)
          THEN call' = [call EXCEPT ![c].pc = "deleting", ![c].judgedAt = writes[id]]
          ELSE call' = [call EXCEPT
                 ![c] = Ended(c, Append(call[c].trail, Audited("requested", "failure")))]
    BY DEF Judge
  <1>4. ASSUME call' = [call EXCEPT
                 ![c] = Ended(c, Append(call[c].trail, Audited("requested", "failure")))]
        PROVE  MemoryInv'
    <2>. DEFINE trail == Append(call[c].trail, Audited("requested", "failure"))
                k == [NoCall(id) EXCEPT !.trail = trail]
    <2>1. trail \in Seq(AuditRecord)
      BY <1>1, Trails
    <2>. HIDE DEF trail
    <2>2. k \in Call
      BY <1>1, <2>1, CallOf
    <2>3. k.gone = NoRecord /\ k.pc = "idle" /\ call' = [call EXCEPT ![c] = k]
      BY <1>4 DEF NoCall, Ended, trail
    <2>. HIDE DEF k
    <2>4. QED
      BY <1>2, <2>2, <2>3, HarmlessStep
  <1>5. ASSUME ForgettingAllowed(record.memory_type, call[c].explicit, call[c].automatic),
               call' = [call EXCEPT ![c].pc = "deleting", ![c].judgedAt = writes[id]]
        PROVE  MemoryInv'
    <2>. DEFINE k == [call[c] EXCEPT !.pc = "deleting", !.judgedAt = writes[id]]
    <2>1. call' = [call EXCEPT ![c] = k]
      BY <1>5
    <2>2. k \in Call
      BY <1>1 DEF Call
    <2>3. /\ k.id = id /\ k.pc = "deleting" /\ k.gone = call[c].gone /\ k.swept = call[c].swept
          /\ k.judgedAt = writes[id] /\ k.sweptAt = call[c].sweptAt
          /\ k.explicit = call[c].explicit /\ k.automatic = call[c].automatic
      BY <1>1 DEF Call
    <2>4. storage[id] # NoRecord /\ record = storage[id]
      BY <1>3, <1>5, NoRecordIsNone DEF Select, ForgettingAllowed
    <2>. HIDE DEF k
    <2>6. Safe(k, storage'[k.id], writes'[k.id])
      <3>1. Safe(call[c], storage[id], writes[id])
        BY DEF MemoryInv, Guarded
      <3>2. QED
        BY <1>1, <1>2, <1>5, <2>3, <2>4, <3>1 DEF Safe
    <2>7. forgotten' \in [Ids -> Nat] /\ DeletedAtMostOnce'
      BY <1>2, EffectCounts DEF MemoryInv, MemoryTypeOK
    <2>8. QED
      BY <1>2, <2>1, <2>2, <2>6, <2>7, CallerSteps
  <1>6. QED
    BY <1>3, <1>4, <1>5

(* What Remove leaves behind: the trail says success exactly when forget() *)
(* returned TRUE, and then only of a row that was there.                   *)
Removal(c, k) ==
  /\ k \in Call /\ k.id = call[c].id /\ k.pc = "idle"
  /\ call' = [call EXCEPT ![c] = k]
  /\ k.returned => k.gone # NoRecord
  /\ \E x \in AuditRecord : /\ k.trail = Append(call[c].trail, x)
                            /\ x.result = "success" <=> k.returned

LEMMA RemovalHappens ==
  ASSUME MemoryInv, NEW c \in Callers, Remove(c)
  PROVE  (\E k \in Call : Removal(c, k)) /\ Effect /\ DeletedAtMostOnce' /\ forgotten' \in [Ids -> Nat]
  <1>. DEFINE id == call[c].id
              x(deleted) == Audited("requested", IF deleted THEN "success" ELSE "failure")
              trail(deleted) == Append(call[c].trail, x(deleted))
  <1>1. id \in Ids /\ call[c] \in Call /\ call[c].trail \in Seq(AuditRecord)
    BY DEF MemoryInv, MemoryTypeOK, Call
  <1>2. PICK deleted \in BOOLEAN :
          /\ Delete(id, deleted)
          /\ IF storage' = storage
             THEN call' = [call EXCEPT ![c] = Ended(c, trail(deleted))]
             ELSE call' = [call EXCEPT ![c].pc = "idle", ![c].trail = trail(deleted),
                                       ![c].returned = deleted,
                                       ![c].sweptAt = 0, ![c].judgedAt = 0,
                                       ![c].gone = storage[id]]
          /\ forgotten' = [forgotten EXCEPT ![id] = @ + IF deleted THEN 1 ELSE 0]
          /\ UNCHANGED writes
    BY DEF Remove
  <1>3. x(deleted) \in AuditRecord /\ (x(deleted).result = "success" <=> deleted)
    BY <1>2 DEF Audited, AuditRecord
  <1>4. trail(deleted) \in Seq(AuditRecord)
    BY <1>1, <1>3, Trails
  <1>5. Effect
    BY <1>1, <1>2 DEF Delete, Effect
  <1>6. deleted => storage[id] # NoRecord /\ storage' # storage
    BY <1>1, <1>2 DEF Delete, MemoryInv, MemoryTypeOK
  <1>7. DeletedAtMostOnce' /\ forgotten' \in [Ids -> Nat]
    <2>1. CASE deleted
      <3>1. storage[id] # NoRecord /\ storage' = [storage EXCEPT ![id] = NoRecord]
        BY <1>2, <2>1 DEF Delete
      <3>2. forgotten' = [forgotten EXCEPT ![id] = @ + 1]
        BY <1>2, <2>1
      <3>3. forgotten' \in [Ids -> Nat]
        BY <1>1, <3>2 DEF MemoryInv, MemoryTypeOK
      <3>4. ASSUME NEW i \in Ids
            PROVE  forgotten'[i] + (IF storage'[i] = NoRecord THEN 0 ELSE 1) <= writes'[i]
        <4>1. /\ forgotten[i] + (IF storage[i] = NoRecord THEN 0 ELSE 1) <= writes[i]
              /\ forgotten[i] \in Nat /\ writes'[i] = writes[i]
          BY <1>2 DEF MemoryInv, MemoryTypeOK, DeletedAtMostOnce
        <4>2. CASE i = id
          BY <3>1, <3>2, <4>1, <4>2 DEF MemoryInv, MemoryTypeOK
        <4>3. CASE i # id
          BY <3>1, <3>2, <4>1, <4>3 DEF MemoryInv, MemoryTypeOK
        <4>4. QED
          BY <4>2, <4>3
      <3>5. QED
        BY <3>3, <3>4 DEF DeletedAtMostOnce
    <2>2. CASE ~deleted
      <3>1. forgotten' = forgotten
        BY <1>1, <1>2, <2>2 DEF MemoryInv, MemoryTypeOK
      <3>2. QED
        BY <1>5, <3>1, EffectCounts DEF MemoryInv, MemoryTypeOK
    <2>3. QED
      BY <2>1, <2>2
  <1>. HIDE DEF x
  <1>8. CASE storage' = storage
    <2>. DEFINE k == [NoCall(id) EXCEPT !.trail = trail(deleted)]
    <2>1. call' = [call EXCEPT ![c] = k]
      BY <1>2, <1>8 DEF Ended
    <2>2. k \in Call
      BY <1>1, <1>4, CallOf
    <2>3. k.id = id /\ k.pc = "idle" /\ ~k.returned /\ k.trail = trail(deleted)
      BY DEF NoCall
    <2>. HIDE DEF k
    <2>4. x(deleted).result # "success"
      BY <1>3, <1>6, <1>8
    <2>5. Removal(c, k)
      BY <1>3, <2>1, <2>2, <2>3, <2>4 DEF Removal
    <2>6. QED
      BY <1>5, <1>7, <2>2, <2>5
  <1>9. CASE storage' # storage
    <2>. DEFINE k == [call[c] EXCEPT !.pc = "idle", !.trail = trail(deleted), !.returned = deleted,
                                     !.sweptAt = 0, !.judgedAt = 0, !.gone = storage[id]]
    <2>1. call' = [call EXCEPT ![c] = k]
      BY <1>2, <1>9 DEF MemoryInv, MemoryTypeOK
    <2>2. storage[id] \in MemoryRecord \cup {NoRecord} /\ 0 \in 0 .. MaxWrites /\ deleted \in BOOLEAN
      BY <1>1, <1>2, MaxWritesAssumption DEF MemoryInv, MemoryTypeOK
    <2>. HIDE DEF trail
    <2>3. k \in Call
      BY <1>1, <1>4, <2>2 DEF Call
    <2>4. /\ k.id = id /\ k.pc = "idle" /\ k.gone = storage[id] /\ k.trail = trail(deleted)
          /\ k.returned = deleted
      BY <1>1 DEF Call
    <2>5. k.returned => k.gone # NoRecord
      BY <1>6, <2>4
    <2>. HIDE DEF k
    <2>6. Removal(c, k)
      <3>1. \E y \in AuditRecord : /\ k.trail = Append(call[c].trail, y)
                                   /\ y.result = "success" <=> k.returned
        BY <1>3, <2>4 DEF trail
      <3>2. QED
        BY <2>1, <2>3, <2>4, <2>5, <3>1 DEF Removal
    <2>7. QED
      BY <1>5, <1>7, <2>3, <2>6
  <1>10. QED
    BY <1>8, <1>9

LEMMA RemoveStep ==
  ASSUME MemoryInv, NEW c \in Callers, Remove(c)
  PROVE  MemoryInv'
  <1>1. PICK k \in Call : Removal(c, k)
    BY RemovalHappens
  <1>2. Safe(k, storage'[k.id], writes'[k.id])
    BY <1>1 DEF Removal, Safe
  <1>3. QED
    BY <1>1, <1>2, RemovalHappens, CallerSteps DEF Removal

LEMMA ForgettingSteps ==
  ASSUME MemoryInv, NEW c \in Callers, ForgettingStep(c)
  PROVE  MemoryInv'
  BY CheckExpiryStep, JudgeStep, RemoveStep DEF ForgettingStep

(* A caller's step leaves the calls of the others alone.                   *)
LEMMA OthersWait ==
  ASSUME NEW c, NEW d, d # c, DirectCall(c) \/ ForgettingStep(c)
  PROVE  call'[d] = call[d] \/ d \notin DOMAIN call
  BY DEF DirectCall, Store, Consolidate, Capture, Forget, BeginForget, ForgetIfExpired,
         ForgettingStep, CheckExpiry, Judge, Remove

-----------------------------------------------------------------------------
(* The gateway's own state: the trail of its forget call grows as the      *)
(* forgetting engine works, whose record and answer agree.                 *)
HostInv ==
  /\ ~Free(Host) => request.forgetting
  /\ request.forgetting =>
       /\ request.agent \in Agents /\ request.capability = "memory.forget"
       /\ call[Host].pc # "expiring"
       /\ ~Free(Host) => call[Host].trail = <<Requested>>
       /\ Free(Host) =>
            /\ Len(call[Host].trail) = 2 /\ call[Host].trail[1] = Requested
            /\ call[Host].trail[2].result = "success" <=> call[Host].returned
            /\ call[Host].returned => call[Host].gone # NoRecord

GatewayInv == GatewayTypeOK /\ MemoryInv /\ HostInv /\ ForgetTrailIsTruthful

LEMMA HostTypes ==
  ASSUME GatewayTypeOK
  PROVE  /\ Host \in Callers /\ call \in [Callers -> Call] /\ call[Host] \in Call
         /\ call[Host].trail \in Seq(AuditRecord) /\ request \in Request
         /\ request.forgetting \in BOOLEAN
  BY HostAssumption DEF GatewayTypeOK, MemoryTypeOK, Call, Request

(* Registry and permissions change: no trail speaks of them.               *)
LEMMA OutsideTheCall ==
  ASSUME GatewayInv, UNCHANGED <<request, memoryVars>>,
         identity' \in [Agents -> (AgentStatus \ {"created"}) \cup {NotRegistered}],
         permissions' \in [Agents -> SUBSET Capability]
  PROVE  GatewayInv'
  <1>1. call' = call /\ request' = request
    BY DEF memoryVars
  <1>2. GatewayTypeOK'
    BY DEF GatewayInv, GatewayTypeOK, LifecycleTypeOK, MemoryTypeOK, memoryVars
  <1>3. MemoryInv'
    BY DEF GatewayInv, MemoryInv, MemoryTypeOK, DeletedAtMostOnce, Guarded, memoryVars
  <1>4. HostInv'
    BY <1>1 DEF GatewayInv, HostInv, Free
  <1>5. ForgetTrailIsTruthful'
    BY <1>1 DEF GatewayInv, ForgetTrailIsTruthful, HostFree, Free
  <1>6. QED
    BY <1>2, <1>3, <1>4, <1>5 DEF GatewayInv

(* A call that begins and ends in one step.                                *)
LEMMA ShortCall ==
  ASSUME GatewayInv, NEW a \in Agents, NEW capability \in Capability, NEW id \in Ids,
         NEW trail \in Seq(AuditRecord), Serve(a, capability, FALSE), Effect, UNCHANGED forgotten,
         call' = [call EXCEPT ![Host] = [NoCall(id) EXCEPT !.trail = trail]],
         capability # "memory.forget" \/ trail = <<Failed>>
  PROVE  GatewayInv'
  <1>. DEFINE k == [NoCall(id) EXCEPT !.trail = trail]
  <1>1. k \in Call
    BY CallOf
  <1>2. k.gone = NoRecord /\ k.pc = "idle" /\ k.trail = trail
    BY DEF NoCall
  <1>. HIDE DEF k
  <1>3. call' = [call EXCEPT ![Host] = k] /\ call'[Host] = k
    BY HostTypes DEF k, GatewayInv
  <1>4. MemoryInv'
    BY <1>1, <1>2, <1>3, HostAssumption, HarmlessStep DEF GatewayInv
  <1>5. /\ request' = [agent |-> a, capability |-> capability, forgetting |-> FALSE]
        /\ UNCHANGED <<identity, permissions>>
    BY DEF Serve
  <1>6. request'.agent = a /\ request'.capability = capability /\ ~request'.forgetting
    BY <1>5
  <1>7. GatewayTypeOK'
    BY <1>4, <1>5 DEF GatewayInv, GatewayTypeOK, MemoryInv, LifecycleTypeOK, Request
  <1>8. HostInv'
    BY <1>2, <1>3, <1>6 DEF HostInv, Free
  <1>9. ForgetTrailIsTruthful'
    BY <1>2, <1>3, <1>6 DEF ForgetTrailIsTruthful
  <1>10. QED
    BY <1>4, <1>7, <1>8, <1>9 DEF GatewayInv

LEMMA GatewayCallStep ==
  ASSUME GatewayInv, GatewayCall
  PROVE  GatewayInv'
  <1>0. /\ Requested \in AuditRecord /\ Failed \in AuditRecord /\ Completed("success") \in AuditRecord
        /\ <<Failed>> \in Seq(AuditRecord) /\ <<Requested>> \in Seq(AuditRecord)
        /\ <<Requested, Completed("success")>> \in Seq(AuditRecord)
        /\ <<Requested, Failed>> \in Seq(AuditRecord)
    BY Trails DEF Requested, Failed, Completed
  <1>1. PICK a \in Agents, id \in Ids :
          \/ \E capability \in Capability : Refuse(a, id, capability)
          \/ Retrieve(a, id)
          \/ \E record \in MemoryRecord, status \in ValidationStatus :
               GatewayStore(a, id, record, status)
          \/ \E explicit \in BOOLEAN : GatewayForget(a, id, explicit)
    BY DEF GatewayCall
  <1>2. ASSUME NEW capability \in Capability, Refuse(a, id, capability) PROVE GatewayInv'
    <2>1. /\ Serve(a, capability, FALSE) /\ UNCHANGED <<storage, writes, forgotten>>
          /\ call' = [call EXCEPT ![Host] = [NoCall(id) EXCEPT !.trail = <<Failed>>]]
      BY <1>2 DEF Refuse
    <2>2. Effect
      BY <2>1 DEF Effect
    <2>3. QED
      BY <1>0, <2>1, <2>2, ShortCall
  <1>3. ASSUME Retrieve(a, id) PROVE GatewayInv'
    <2>1. /\ Serve(a, "memory.retrieve", FALSE) /\ UNCHANGED <<storage, writes, forgotten>>
          /\ call' = [call EXCEPT ![Host] =
                        [NoCall(id) EXCEPT !.trail = <<Requested, Completed("success")>>]]
      BY <1>3 DEF Retrieve
    <2>2. Effect /\ "memory.retrieve" \in Capability
      BY <2>1 DEF Effect, Capability
    <2>3. QED
      BY <1>0, <2>1, <2>2, ShortCall
  <1>4. ASSUME NEW record \in MemoryRecord, NEW status \in ValidationStatus,
               GatewayStore(a, id, record, status)
        PROVE  GatewayInv'
    <2>0. "memory.store" \in Capability
      BY DEF Capability
    <2>1. Serve(a, "memory.store", FALSE) /\ UNCHANGED forgotten
      BY <1>4 DEF GatewayStore
    <2>2. PICK trail \in {<<Requested, Completed("success")>>, <<Requested, Failed>>} :
            call' = [call EXCEPT ![Host] = [NoCall(id) EXCEPT !.trail = trail]]
      BY <1>4 DEF GatewayStore
    <2>3. Upsert(id, record) \/ UNCHANGED <<storage, writes>>
      BY <1>4 DEF GatewayStore
    <2>4. Effect
      BY <2>3, UpsertEffect DEF Effect
    <2>5. trail \in Seq(AuditRecord)
      BY <1>0, <2>2
    <2>6. QED
      BY <2>0, <2>1, <2>2, <2>4, <2>5, ShortCall
  <1>5. ASSUME NEW explicit \in BOOLEAN, GatewayForget(a, id, explicit) PROVE GatewayInv'
    <2>. DEFINE k == [NoCall(id) EXCEPT !.pc = "retrieving", !.explicit = explicit,
                                        !.automatic = FALSE, !.trail = <<Requested>>]
    <2>1. k \in Call
      BY <1>0, CallOf
    <2>2. k.gone = NoRecord /\ k.pc = "retrieving" /\ ~k.swept /\ k.trail = <<Requested>>
      BY DEF NoCall
    <2>3. /\ UNCHANGED <<storage, writes, forgotten>>
          /\ call' = [call EXCEPT ![Host] = k]
          /\ request' = [agent |-> a, capability |-> "memory.forget", forgetting |-> TRUE]
          /\ UNCHANGED <<identity, permissions>>
      BY <1>5 DEF GatewayForget, BeginForget, Serve
    <2>. HIDE DEF k
    <2>4. call'[Host] = k
      BY <2>3, HostTypes DEF GatewayInv
    <2>5. MemoryInv'
      <3>1. Effect
        BY <2>3 DEF Effect
      <3>2. QED
        BY <2>1, <2>2, <2>3, <3>1, HostAssumption, HarmlessStep DEF GatewayInv
    <2>6. request'.agent = a /\ request'.capability = "memory.forget" /\ request'.forgetting
      BY <2>3
    <2>7. GatewayTypeOK'
      BY <2>3, <2>5 DEF GatewayInv, GatewayTypeOK, MemoryInv, LifecycleTypeOK, Request, Capability
    <2>8. HostInv'
      BY <2>2, <2>3, <2>4, <2>6 DEF HostInv, Free
    <2>9. ForgetTrailIsTruthful'
      BY <2>6 DEF ForgetTrailIsTruthful, HostFree
    <2>10. QED
      BY <2>5, <2>7, <2>8, <2>9 DEF GatewayInv
  <1>6. QED
    BY <1>1, <1>2, <1>3, <1>4, <1>5
LEMMA ReturnStep ==
  ASSUME GatewayInv, GatewayForgetReturns
  PROVE  GatewayInv'
  <1>. DEFINE t == call[Host].trail
              x == Completed(IF call[Host].returned THEN "success" ELSE "failure")
              k == [call[Host] EXCEPT !.trail = Append(t, x)]
  <1>1. /\ Host \in Callers /\ call \in [Callers -> Call] /\ call[Host] \in Call
        /\ t \in Seq(AuditRecord) /\ request \in Request
    BY HostTypes DEF GatewayInv
  <1>2. /\ request.forgetting /\ Free(Host) /\ Len(t) = 2 /\ t[1] = Requested
        /\ t[2].result = "success" <=> call[Host].returned
        /\ call[Host].returned => call[Host].gone # NoRecord
        /\ request.agent \in Agents /\ request.capability = "memory.forget"
    BY DEF GatewayForgetReturns, GatewayInv, HostInv
  <1>3. t[2] \in AuditRecord
    BY <1>1, <1>2, ElementOfSeq
  <1>4. x \in AuditRecord /\ x = Completed(t[2].result) /\ x.result = t[2].result
    BY <1>2, <1>3 DEF Completed, Audited, AuditRecord
  <1>5. /\ call' = [call EXCEPT ![Host] = k]
        /\ request' = [request EXCEPT !.forgetting = FALSE]
        /\ UNCHANGED <<identity, permissions, storage, writes, forgotten>>
    BY <1>2 DEF GatewayForgetReturns
  <1>. HIDE DEF x
  <1>6. /\ Append(t, x) \in Seq(AuditRecord) /\ Len(Append(t, x)) = 3
        /\ Append(t, x)[1] = t[1] /\ Append(t, x)[2] = t[2] /\ Append(t, x)[3] = x
    <2>. HIDE DEF t
    <2>. DEFINE u == Append(t, x)
    <2>1. /\ u \in Seq(AuditRecord) /\ Len(u) = Len(t) + 1 /\ u[Len(t) + 1] = x
          /\ \A i \in 1 .. Len(t) : u[i] = t[i]
      BY <1>1, <1>4, AppendProperties
    <2>. HIDE DEF u
    <2>2. Len(u) = 3 /\ u[3] = x /\ u[1] = t[1] /\ u[2] = t[2]
      BY <1>2, <2>1
    <2>3. QED
      BY <2>1, <2>2 DEF u
  <1>. HIDE DEF t
  <1>7. k \in Call
    BY <1>1, <1>6 DEF Call
  <1>8. /\ k.pc = call[Host].pc /\ k.gone = call[Host].gone /\ k.returned = call[Host].returned
        /\ k.trail = Append(t, x)
    BY <1>1 DEF Call
  <1>. HIDE DEF k
  <1>9. call'[Host] = k
    BY <1>1, <1>5
  <1>10. MemoryInv'
    <2>1. Effect
      BY <1>5 DEF Effect
    <2>2. Safe(k, storage'[k.id], writes'[k.id])
      BY <1>2, <1>8 DEF Safe, Free
    <2>3. forgotten' \in [Ids -> Nat] /\ DeletedAtMostOnce'
      BY <1>5, <2>1, EffectCounts DEF GatewayInv, MemoryInv, MemoryTypeOK
    <2>4. QED
      BY <1>1, <1>5, <1>7, <2>1, <2>2, <2>3, CallerSteps DEF GatewayInv
  <1>11. request' \in Request /\ ~request'.forgetting
    BY <1>1, <1>5 DEF Request
  <1>12. GatewayTypeOK'
    BY <1>5, <1>10, <1>11 DEF GatewayInv, GatewayTypeOK, MemoryInv, LifecycleTypeOK
  <1>13. HostInv'
    BY <1>2, <1>8, <1>9, <1>11 DEF HostInv, Free
  <1>14. ForgetTrailIsTruthful'
    <2>1. /\ Len(call'[Host].trail) = 3 /\ call'[Host].trail[1] = Requested
          /\ call'[Host].trail[2] = t[2] /\ call'[Host].trail[3] = x
      BY <1>2, <1>6, <1>8, <1>9
    <2>2. x = Completed(t[2].result) /\ (x.result = "success" => call'[Host].gone # NoRecord)
      BY <1>2, <1>4, <1>8, <1>9
    <2>3. QED
      BY <2>1, <2>2 DEF ForgetTrailIsTruthful
  <1>15. QED
    BY <1>10, <1>12, <1>13, <1>14 DEF GatewayInv

(* The steps of the memory system under a gateway that stands still.       *)
LEMMA OtherSteps ==
  ASSUME GatewayInv, OtherStep
  PROVE  GatewayInv'
  <1>1. UNCHANGED <<identity, permissions, request>>
    BY DEF OtherStep, gatewayVars
  <1>2. PICK c \in Callers : (c # Host /\ DirectCall(c)) \/ ForgettingStep(c)
    BY DEF OtherStep
  <1>3. MemoryInv'
    BY <1>2, DirectStep, ForgettingSteps DEF GatewayInv
  <1>4. GatewayTypeOK'
    BY <1>1, <1>3 DEF GatewayInv, GatewayTypeOK, MemoryInv, LifecycleTypeOK
  <1>5. Host \in Callers /\ call \in [Callers -> Call] /\ call[Host] \in Call
    BY HostTypes DEF GatewayInv
  <1>6. CASE c # Host
    <2>1. call'[Host] = call[Host]
      BY <1>2, <1>5, <1>6, OthersWait
    <2>2. HostInv' /\ ForgetTrailIsTruthful'
      BY <1>1, <2>1 DEF GatewayInv, HostInv, ForgetTrailIsTruthful, HostFree, Free
    <2>3. QED
      BY <1>3, <1>4, <2>2 DEF GatewayInv
  <1>7. CASE c = Host
    <2>1. ForgettingStep(Host) /\ ~Free(Host)
      BY <1>2, <1>7 DEF ForgettingStep, CheckExpiry, Judge, Remove, Free
    <2>2. /\ request.forgetting /\ call[Host].trail = <<Requested>> /\ call[Host].pc # "expiring"
          /\ request.agent \in Agents /\ request.capability = "memory.forget"
      BY <2>1 DEF GatewayInv, HostInv
    <2>3. ForgetTrailIsTruthful'
      BY <1>1, <2>2 DEF ForgetTrailIsTruthful, HostFree
    <2>4. ASSUME NEW k \in Call, call' = [call EXCEPT ![Host] = k], k.pc # "expiring",
                 \/ k.pc # "idle" /\ k.trail = <<Requested>>
                 \/ \E x \in AuditRecord : /\ k.pc = "idle" /\ k.trail = Append(<<Requested>>, x)
                                           /\ (x.result = "success" <=> k.returned) /\ (k.returned => k.gone # NoRecord)
          PROVE  HostInv'
      <3>1. call'[Host] = k
        BY <1>5, <2>4
      <3>2. CASE k.pc # "idle" /\ k.trail = <<Requested>>
        BY <1>1, <2>2, <2>4, <3>1, <3>2 DEF HostInv, Free
      <3>3. CASE \E x \in AuditRecord : /\ k.pc = "idle" /\ k.trail = Append(<<Requested>>, x)
                                        /\ (x.result = "success" <=> k.returned) /\ (k.returned => k.gone # NoRecord)
        <4>1. PICK x \in AuditRecord : /\ k.pc = "idle" /\ k.trail = Append(<<Requested>>, x)
                                       /\ (x.result = "success" <=> k.returned) /\ (k.returned => k.gone # NoRecord)
          BY <3>3
        <4>2. Requested \in AuditRecord
          BY Trails DEF Requested
        <4>3. Len(k.trail) = 2 /\ k.trail[1] = Requested /\ k.trail[2] = x
          BY <4>1, <4>2, SecondRecord
        <4>4. QED
          BY <1>1, <2>2, <3>1, <4>1, <4>3 DEF HostInv, Free
      <3>4. QED
        BY <2>4, <3>2, <3>3
    <2>5. ASSUME Judge(Host) PROVE HostInv'
      <3>1. \/ call' = [call EXCEPT ![Host].pc = "deleting",
                                    ![Host].judgedAt = writes[call[Host].id]]
            \/ call' = [call EXCEPT ![Host] =
                          Ended(Host, Append(call[Host].trail, Audited("requested", "failure")))]
        BY <2>5 DEF Judge
      <3>2. CASE call' = [call EXCEPT ![Host].pc = "deleting",
                                    ![Host].judgedAt = writes[call[Host].id]]
        <4>. DEFINE k == [call[Host] EXCEPT !.pc = "deleting", !.judgedAt = writes[call[Host].id]]
        <4>0. writes[call[Host].id] \in 0 .. MaxWrites
          BY <1>5 DEF GatewayInv, GatewayTypeOK, MemoryTypeOK, Call
        <4>1. k \in Call /\ k.pc = "deleting" /\ k.trail = <<Requested>> /\ call' = [call EXCEPT ![Host] = k]
          BY <1>5, <2>2, <3>2, <4>0 DEF Call
        <4>. HIDE DEF k
        <4>2. QED
          BY <2>4, <4>1
      <3>3. CASE call' = [call EXCEPT ![Host] =
                          Ended(Host, Append(call[Host].trail, Audited("requested", "failure")))]
        <4>. DEFINE x == Audited("requested", "failure")
                    trail == Append(<<Requested>>, x)
                    k == [NoCall(call[Host].id) EXCEPT !.trail = trail]
        <4>1. x \in AuditRecord /\ x.result # "success" /\ call[Host].id \in Ids
          BY <1>5 DEF Audited, AuditRecord, Call
        <4>2. trail \in Seq(AuditRecord)
          BY <4>1, Trails DEF Requested
        <4>3. k \in Call
          BY <4>1, <4>2, CallOf
        <4>4. k.pc = "idle" /\ ~k.returned /\ k.trail = trail /\ call' = [call EXCEPT ![Host] = k]
          BY <2>2, <3>3 DEF NoCall, Ended
        <4>. HIDE DEF k, x
        <4>5. QED
          BY <2>4, <4>1, <4>3, <4>4
      <3>4. QED
        BY <3>1, <3>2, <3>3
    <2>6. ASSUME Remove(Host) PROVE HostInv'
      <3>1. PICK k \in Call : Removal(Host, k)
        BY <1>5, <2>6, RemovalHappens DEF GatewayInv
      <3>2. call' = [call EXCEPT ![Host] = k] /\ k.pc = "idle"
        BY <3>1 DEF Removal
      <3>3. PICK x \in AuditRecord : /\ k.trail = Append(call[Host].trail, x)
                                     /\ (x.result = "success" <=> k.returned) /\ (k.returned => k.gone # NoRecord)
        BY <3>1 DEF Removal
      <3>4. k.trail = Append(<<Requested>>, x)
        BY <2>2, <3>3
      <3>5. k.pc # "expiring"
        BY <3>2
      <3>6. QED
        BY <2>4, <3>2, <3>3, <3>4, <3>5
    <2>7. HostInv'
      BY <2>1, <2>2, <2>5, <2>6 DEF ForgettingStep, CheckExpiry
    <2>8. QED
      BY <1>3, <1>4, <2>3, <2>7 DEF GatewayInv
  <1>8. QED
    BY <1>6, <1>7

-----------------------------------------------------------------------------
LEMMA LifecycleTypes ==
  ASSUME LifecycleTypeOK, LifecycleNext
  PROVE  LifecycleTypeOK'
  <1>1. PICK a \in Agents, s \in AgentStatus \ {"created"} : identity' = [identity EXCEPT ![a] = s]
    BY DEF LifecycleNext, Register, Transition, Startup, Suspend, Resume, Shutdown, AgentStatus
  <1>2. QED
    BY <1>1 DEF LifecycleTypeOK

LEMMA MemoryInitially == MemoryInit => MemoryInv
  <1>. SUFFICES ASSUME MemoryInit PROVE MemoryInv
    OBVIOUS
  <1>1. PICK id \in Ids : call = [c \in Callers |-> NoCall(id)]
    BY DEF MemoryInit
  <1>2. NoCall(id) \in Call /\ NoCall(id).pc = "idle" /\ NoCall(id).gone = NoRecord
    BY CallOf, Trails DEF NoCall
  <1>3. MemoryTypeOK
    BY <1>1, <1>2, MaxWritesAssumption DEF MemoryInit, MemoryTypeOK
  <1>4. DeletedAtMostOnce
    BY DEF MemoryInit, DeletedAtMostOnce
  <1>5. \A c \in Callers : Guarded(c)
    BY <1>1, <1>2, NoRecordIsNone DEF Guarded, Safe
  <1>6. QED
    BY <1>3, <1>4, <1>5 DEF MemoryInv

LEMMA GatewayInitially == GatewayInit => GatewayInv
  <1>. SUFFICES ASSUME GatewayInit PROVE GatewayInv
    OBVIOUS
  <1>1. MemoryInv
    BY MemoryInitially DEF GatewayInit
  <1>2. PICK id \in Ids : call = [c \in Callers |-> NoCall(id)]
    BY DEF GatewayInit, MemoryInit
  <1>3. Free(Host) /\ ~request.forgetting /\ request.capability # "memory.forget" /\ request \in Request
    BY <1>2, HostAssumption DEF Free, NoCall, GatewayInit, NoRequest, Request, Capability
  <1>4. GatewayTypeOK
    BY <1>1, <1>3 DEF GatewayInit, GatewayTypeOK, LifecycleInit, LifecycleTypeOK, MemoryInv
  <1>5. HostInv /\ ForgetTrailIsTruthful
    BY <1>3 DEF HostInv, ForgetTrailIsTruthful
  <1>6. QED
    BY <1>1, <1>4, <1>5 DEF GatewayInv

LEMMA GatewaySteps == GatewayInv /\ [GatewayNext]_vars => GatewayInv'
  <1>. SUFFICES ASSUME GatewayInv, [GatewayNext]_vars PROVE GatewayInv'
    OBVIOUS
  <1>1. CASE LifecycleNext /\ UNCHANGED <<permissions, request, memoryVars>>
    <2>1. LifecycleTypeOK'
      BY <1>1, LifecycleTypes DEF GatewayInv, GatewayTypeOK
    <2>2. QED
      BY <1>1, <2>1, OutsideTheCall DEF GatewayInv, GatewayTypeOK, LifecycleTypeOK
  <1>2. CASE \E a \in Agents, capabilities \in PermissionSets : Grant(a, capabilities)
    <2>1. permissions' \in [Agents -> SUBSET Capability]
      BY <1>2, PermissionSetsAssumption DEF Grant, GatewayInv, GatewayTypeOK
    <2>2. UNCHANGED <<identity, request, memoryVars>>
      BY <1>2 DEF Grant, memoryVars
    <2>3. QED
      BY <2>1, <2>2, OutsideTheCall DEF GatewayInv, GatewayTypeOK, LifecycleTypeOK
  <1>3. CASE GatewayCall
    BY <1>3, GatewayCallStep
  <1>4. CASE GatewayForgetReturns
    BY <1>4, ReturnStep
  <1>5. CASE OtherStep
    BY <1>5, OtherSteps
  <1>6. CASE UNCHANGED vars
    BY <1>6 DEF vars, GatewayInv, GatewayTypeOK, LifecycleTypeOK, MemoryInv, MemoryTypeOK,
                DeletedAtMostOnce, Guarded, HostInv, ForgetTrailIsTruthful, HostFree, Free
  <1>7. QED
    BY <1>1, <1>2, <1>3, <1>4, <1>5, <1>6 DEF GatewayNext

LEMMA GatewayInvariant == GatewaySpec => []GatewayInv
  <1>1. QED
    BY GatewayInitially, GatewaySteps, PTL DEF GatewaySpec

(* Any step, of the memory system or not, takes a row as the invariant     *)
(* leaves it.                                                              *)
WindowStep ==
  \A c \in Callers : Removes(c) =>
    LET k == call[c]
        type == storage[k.id].memory_type
    IN  /\ writes[k.id] = k.judgedAt =>
             /\ type \in {"semantic", "procedural"} => k.explicit
             /\ type = "procedural" => ~k.automatic
             /\ type = "episodic" /\ k.automatic => k.explicit
        /\ k.swept /\ writes[k.id] = k.sweptAt => type = "working"

LEMMA WindowOfRemoval == MemoryInv => WindowStep
  <1>. SUFFICES ASSUME MemoryInv, NEW c \in Callers, Removes(c)
                PROVE  LET k == call[c]
                           type == storage[k.id].memory_type
                       IN  /\ writes[k.id] = k.judgedAt =>
                                /\ type \in {"semantic", "procedural"} => k.explicit
                                /\ type = "procedural" => ~k.automatic
                                /\ type = "episodic" /\ k.automatic => k.explicit
                           /\ k.swept /\ writes[k.id] = k.sweptAt => type = "working"
    BY DEF WindowStep
  <1>. DEFINE id == call[c].id
  <1>1. id \in Ids /\ storage[id] \in MemoryRecord \cup {NoRecord}
    BY DEF MemoryInv, MemoryTypeOK, Call
  <1>2. call[c].pc = "deleting" /\ storage[id] # NoRecord
    BY DEF Removes
  <1>3. Safe(call[c], storage[id], writes[id])
    BY DEF MemoryInv, Guarded
  <1>4. storage[id].memory_type # "none"
    BY <1>1, <1>2, NoRecordIsNone
  <1>. HIDE DEF id
  <1>5. writes[id] = call[c].judgedAt =>
          ForgettingAllowed(storage[id].memory_type, call[c].explicit, call[c].automatic)
    BY <1>2, <1>3 DEF Safe
  <1>6. call[c].swept /\ writes[id] = call[c].sweptAt => storage[id].memory_type = "working"
    BY <1>2, <1>3, <1>4 DEF Safe
  <1>7. QED
    BY <1>5, <1>6 DEF ForgettingAllowed, id

-----------------------------------------------------------------------------
(* Registry, permissions, requests, calls and the table keep their types.  *)
THEOREM TypeCorrect == GatewaySpec => []GatewayTypeOK
  <1>1. QED
    BY GatewayInvariant, PTL DEF GatewayInv

(* However many callers forget one id at the same time, and whatever       *)
(* requests or answers of the database are lost, no write is reported      *)
(* deleted twice.                                                          *)
THEOREM NeverDeletedTwice == GatewaySpec => []DeletedAtMostOnce
  <1>1. QED
    BY GatewayInvariant, PTL DEF GatewayInv, MemoryInv

(* A call takes a row that its judgement would refuse only if the row was  *)
(* written between that judgement and the DELETE, and the sweep takes      *)
(* other than working memory only if the row was written after the sweep's *)
(* own read: no earlier write and no deletion by anybody misleads it.      *)
THEOREM WindowOnly == GatewaySpec => OnlyTheWindowMisleads
  <1>1. GatewayInv => [WindowStep]_memoryVars
    BY WindowOfRemoval DEF GatewayInv
  <1>2. QED
    BY <1>1, GatewayInvariant, PTL DEF OnlyTheWindowMisleads, WindowStep

(* The memory system keeps both whoever calls it, the gateway or not.      *)
THEOREM MemoryAlone == MemorySpec => []DeletedAtMostOnce /\ OnlyTheWindowMisleads
  <1>1. MemoryInv /\ [MemoryNext]_memoryVars => MemoryInv'
    <2>1. CASE MemoryNext
      BY <2>1, DirectStep, ForgettingSteps DEF MemoryNext
    <2>2. CASE UNCHANGED memoryVars
      BY <2>2 DEF memoryVars, MemoryInv, MemoryTypeOK, DeletedAtMostOnce, Guarded
    <2>3. QED
      BY <2>1, <2>2
  <1>2. MemoryInv => DeletedAtMostOnce /\ [WindowStep]_memoryVars
    BY WindowOfRemoval DEF MemoryInv
  <1>3. QED
    BY MemoryInitially, <1>1, <1>2, PTL DEF MemorySpec, OnlyTheWindowMisleads, WindowStep

(* The audit trail of an agent's forget call says success only of a record *)
(* that this call removed, and its COMPLETED record, made of what forget() *)
(* returned, says what the engine's own record says.                       *)
THEOREM TrailIsTruthful == GatewaySpec => []ForgetTrailIsTruthful
  <1>1. QED
    BY GatewayInvariant, PTL DEF GatewayInv

=============================================================================
