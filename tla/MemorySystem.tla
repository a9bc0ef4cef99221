---------------------------- MODULE MemorySystem ----------------------------
(***************************************************************************)
(* The memory system (intelligence/memory_system): kernel, validator,      *)
(* typed stores, consolidation, experience engine and forgetting engine,   *)
(* over the database storage (infrastructure/database/memory_storage.py)   *)
(* that several processes share.                                           *)
(*                                                                         *)
(* A caller is one process with one call at a time.  Every request to the  *)
(* database is a step of its own, so calls of different callers interleave *)
(* between requests.  A request may fail before or after it took effect;   *)
(* the storage answers a failure with nothing, None or False.  Of a record *)
(* the model keeps its type and what its metadata says of its expiry,      *)
(* which is only read of working memory.                                   *)
(***************************************************************************)
EXTENDS Integers, Sequences

CONSTANTS
  Callers,
  MemoryIds,
  MaxWrites        \* bound: upserts that take effect, per id

ASSUME MaxWritesAssumption == MaxWrites \in Nat

VARIABLES
  storage,         \* the table memory_records
  call,            \* the current or the last call of every caller
  writes,          \* upserts that took effect, per id
  forgotten        \* forget calls that reported success, per id

memoryVars == <<storage, call, writes, forgotten>>

MemoryType == {"working", "episodic", "semantic", "procedural"}
ValidationStatus == {"pending", "validated", "rejected"}
Expiry == {"absent", "invalid", "set"}

MemoryRecord ==
  { r \in [memory_type : MemoryType, expires_at : Expiry] :
      r.memory_type # "working" => r.expires_at = "absent" }

NoRecord == [memory_type |-> "none", expires_at |-> "absent"]

(* A record id, or the id "semantic:<id>" consolidation derives from it.   *)
Ids == [base : MemoryIds, semantic : BOOLEAN]

AuditRecord ==
  [action : {"requested", "completed", "failed"}, result : {"success", "failure"}]

(* _audit_forget writes a REQUESTED record that carries the result.        *)
Audited(action, result) == [action |-> action, result |-> result]

(* A call: where it stands, the arguments of forget(), the audit records   *)
(* it has written, what forget() returned, and what it did to the          *)
(* database: the record it removed, whether the record it captured was     *)
(* stored.  sweptAt and judgedAt are the upserts of the id there had been  *)
(* when the sweep and when forget() read the row.                          *)
Call ==
  [pc : {"idle", "expiring", "retrieving", "deleting"}, id : Ids,
   swept : BOOLEAN, explicit : BOOLEAN, automatic : BOOLEAN,
   sweptAt : 0 .. MaxWrites, judgedAt : 0 .. MaxWrites,
   trail : Seq(AuditRecord), returned : BOOLEAN,
   gone : MemoryRecord \cup {NoRecord}, stored : BOOLEAN]

NoCall(id) ==
  [pc |-> "idle", id |-> id, swept |-> FALSE, explicit |-> FALSE,
   automatic |-> FALSE, sweptAt |-> 0, judgedAt |-> 0, trail |-> <<>>,
   returned |-> FALSE, gone |-> NoRecord, stored |-> FALSE]

Free(c) == call[c].pc = "idle"

-----------------------------------------------------------------------------
(* DatabaseMemoryStorage.store: the upsert takes effect, or an error is    *)
(* logged and swallowed; the caller sees no difference.                    *)
Upsert(id, record) ==
  \/ /\ writes[id] < MaxWrites
     /\ storage' = [storage EXCEPT ![id] = record]
     /\ writes' = [writes EXCEPT ![id] = @ + 1]
  \/ UNCHANGED <<storage, writes>>

Took(id) == writes'[id] > writes[id]

(* DatabaseMemoryStorage.retrieve: the row, or None also on any failure.   *)
Select(id) == {storage[id], NoRecord}

(* DatabaseMemoryStorage.delete: TRUE only with the deleted row in hand;   *)
(* a lost answer, a lost request and a missing row are all FALSE.          *)
Delete_SlipAlwaysTrue(id, deleted) ==   \* the answer's rows are not looked at
  /\ deleted
  /\ storage' = [storage EXCEPT ![id] = NoRecord]

Delete(id, deleted) ==
  \/ deleted /\ storage[id] # NoRecord /\ storage' = [storage EXCEPT ![id] = NoRecord]
  \/ ~deleted /\ storage' = [storage EXCEPT ![id] = NoRecord]
  \/ ~deleted /\ UNCHANGED storage

-----------------------------------------------------------------------------
(* MemoryKernel.store behind the typed stores, whose own check compares    *)
(* the record's type with theirs: any type can be stored, no audit.        *)
Storable(status) == status = "validated"

Store(c, id, record, status) ==
  /\ Free(c)
  /\ Storable(status)
  /\ Upsert(id, record)
  /\ call' = [call EXCEPT ![c] = NoCall(id)]
  /\ UNCHANGED forgotten

(* MemoryConsolidationEngine.consolidate: the source is an object the      *)
(* caller holds; it is not looked up again.                                *)
Consolidate(c, id, source, status) ==
  /\ Free(c)
  /\ ~id.semantic
  /\ source.memory_type = "episodic" /\ status = "validated"
  /\ LET derived == [id EXCEPT !.semantic = TRUE]
     IN /\ Upsert(derived, [memory_type |-> "semantic", expires_at |-> "absent"])
        /\ call' = [call EXCEPT ![c] = NoCall(derived)]
  /\ UNCHANGED forgotten

(* ExperienceEngine.capture_* and _store_and_audit: a fresh id.            *)
Capture(c, id) ==
  /\ Free(c)
  /\ storage[id] = NoRecord
  /\ Upsert(id, [memory_type |-> "episodic", expires_at |-> "absent"])
  /\ call' = [call EXCEPT ![c] = [NoCall(id) EXCEPT !.stored = Took(id),
                                     !.trail = <<Audited("completed", "success")>>]]
  /\ UNCHANGED forgotten

-----------------------------------------------------------------------------
(* _is_forgetting_allowed.                                                 *)
ForgettingAllowed(type, explicit, automatic) ==
  \/ type = "working"
  \/ type = "episodic" /\ (automatic => explicit)
  \/ type = "semantic" /\ explicit
  \/ type = "procedural" /\ explicit /\ ~automatic

(* forget and forget_if_expired_working_memory up to their first request.  *)
BeginForget(c, id, explicit, automatic, trail) ==
  /\ Free(c)
  /\ call' = [call EXCEPT ![c] = [NoCall(id) EXCEPT !.pc = "retrieving",
                  !.explicit = explicit, !.automatic = automatic, !.trail = trail]]

Forget(c, id, explicit, automatic) ==
  /\ BeginForget(c, id, explicit, automatic, <<>>)
  /\ UNCHANGED <<storage, writes, forgotten>>

ForgetIfExpired(c, id) ==
  /\ Free(c)
  /\ call' = [call EXCEPT ![c] = [NoCall(id) EXCEPT !.pc = "expiring", !.swept = TRUE]]
  /\ UNCHANGED <<storage, writes, forgotten>>

(* What is kept of a call that ended without removing a record: it         *)
(* returned FALSE.                                                         *)
Ended(c, trail) == [NoCall(call[c].id) EXCEPT !.trail = trail]

(* The rest of forget_if_expired_working_memory: only working memory with  *)
(* a readable expiry that has passed (here: or not) goes on to forget().   *)
CheckExpiry(c) ==
  /\ call[c].pc = "expiring"
  /\ \E record \in Select(call[c].id) :
       \/ /\ record.expires_at # "invalid"
          /\ call' = [call EXCEPT ![c] = Ended(c, <<>>)]
       \/ /\ record.expires_at = "invalid"
          /\ call' = [call EXCEPT
               ![c] = Ended(c, <<Audited("requested", "failure")>>)]
       \/ /\ record.memory_type = "working" /\ record.expires_at = "set"
          /\ call' = [call EXCEPT ![c].pc = "retrieving",
                                  ![c].explicit = TRUE, ![c].automatic = TRUE,
                                  ![c].sweptAt = writes[call[c].id]]
  /\ UNCHANGED <<storage, writes, forgotten>>

(* forget: the record is retrieved and judged ...                          *)
Judge_SlipOnce(c) ==            \* what the sweep has found expired passes
  /\ call[c].pc = "retrieving"
  /\ \E record \in Select(call[c].id) :
       IF \/ call[c].swept /\ record # NoRecord
          \/ ForgettingAllowed(record.memory_type, call[c].explicit, call[c].automatic)
       THEN call' = [call EXCEPT ![c].pc = "deleting", ![c].judgedAt = writes[call[c].id]]
       ELSE call' = [call EXCEPT
              ![c] = Ended(c, Append(call[c].trail, Audited("requested", "failure")))]
  /\ UNCHANGED <<storage, writes, forgotten>>

Judge(c) ==
  /\ call[c].pc = "retrieving"
  /\ \E record \in Select(call[c].id) :
       IF ForgettingAllowed(record.memory_type, call[c].explicit, call[c].automatic)
       THEN call' = [call EXCEPT ![c].pc = "deleting", ![c].judgedAt = writes[call[c].id]]
       ELSE call' = [call EXCEPT
              ![c] = Ended(c, Append(call[c].trail, Audited("requested", "failure")))]
  /\ UNCHANGED <<storage, writes, forgotten>>

(* ... and deleted by its id alone.                                        *)
Remove(c) ==
  /\ call[c].pc = "deleting"
  /\ \E deleted \in BOOLEAN :
       LET trail == Append(call[c].trail, Audited("requested",
                             IF deleted THEN "success" ELSE "failure"))
       IN /\ Delete(call[c].id, deleted)
          /\ IF storage' = storage
             THEN call' = [call EXCEPT ![c] = Ended(c, trail)]
             ELSE call' = [call EXCEPT ![c].pc = "idle", ![c].trail = trail,
                                       ![c].returned = deleted,
                                       ![c].sweptAt = 0, ![c].judgedAt = 0,
                                       ![c].gone = storage[call[c].id]]
          /\ forgotten' = [forgotten EXCEPT ![call[c].id] = @ + IF deleted THEN 1 ELSE 0]
  /\ UNCHANGED writes

-----------------------------------------------------------------------------
MemoryInit ==
  /\ storage = [id \in Ids |-> NoRecord]
  /\ \E id \in Ids : call = [c \in Callers |-> NoCall(id)]
  /\ writes = [id \in Ids |-> 0]
  /\ forgotten = [id \in Ids |-> 0]

(* Calls that do not pass the gateway.                                     *)
DirectCall(c) ==
  \E id \in Ids :
    \/ \E record \in MemoryRecord, status \in ValidationStatus :
         Store(c, id, record, status) \/ Consolidate(c, id, record, status)
    \/ Capture(c, id)
    \/ \E explicit, automatic \in BOOLEAN : Forget(c, id, explicit, automatic)
    \/ ForgetIfExpired(c, id)

ForgettingStep(c) == CheckExpiry(c) \/ Judge(c) \/ Remove(c)

MemoryNext == \E c \in Callers : DirectCall(c) \/ ForgettingStep(c)

MemorySpec == MemoryInit /\ [][MemoryNext]_memoryVars

-----------------------------------------------------------------------------
(* The types of all variables.                                             *)
MemoryTypeOK ==
  /\ storage \in [Ids -> MemoryRecord \cup {NoRecord}]
  /\ call \in [Callers -> Call]
  /\ writes \in [Ids -> 0 .. MaxWrites]
  /\ forgotten \in [Ids -> Nat]

(* Concurrent and repeated forget calls never report more deletions than   *)
(* there were records: each effective store is reported deleted at most    *)
(* once, whatever is lost between the callers and the database.            *)
DeletedAtMostOnce ==
  \A id \in Ids :
    forgotten[id] + (IF storage[id] = NoRecord THEN 0 ELSE 1) <= writes[id]

(* How far a deletion by id alone can go wrong.  Rows are written again,   *)
(* with records of other types, at any time; still a call takes a record   *)
(* forget() would refuse only if the row was written between that call's   *)
(* own judgement and its DELETE, and the sweep takes a record other than   *)
(* working memory only if the row was written after the sweep read it.     *)
(* Writes before these reads, and whatever other calls delete, do no harm. *)
Removes(c) ==
  LET id == call[c].id
  IN  /\ call[c].pc = "deleting" /\ call'[c].pc # "deleting"
      /\ storage[id] # NoRecord /\ storage'[id] = NoRecord

OnlyTheWindowMisleads ==
  [][\A c \in Callers : Removes(c) =>
       LET k == call[c]
           type == storage[k.id].memory_type
       IN  /\ writes[k.id] = k.judgedAt =>
                /\ type \in {"semantic", "procedural"} => k.explicit
                /\ type = "procedural" => ~k.automatic
                /\ type = "episodic" /\ k.automatic => k.explicit
           /\ k.swept /\ writes[k.id] = k.sweptAt => type = "working"]_memoryVars

(* What the forgetting engine says of itself, "procedural memory is never  *)
(* automatically forgotten", whoever else uses the database.               *)
ProceduralNeverAutomatic ==
  \A c \in Callers : call[c].gone.memory_type = "procedural" => ~call[c].automatic

(* What the lifecycle policy says of semantic memory: automatic forgetting *)
(* is prohibited.                                                          *)
SemanticNeverAutomatic ==
  \A c \in Callers : call[c].gone.memory_type = "semantic" => ~call[c].automatic

(* What the forgetting engine says of itself, "every attempt is audited    *)
(* with the real result": a removal is in the trail as a success.          *)
AuditedWithTheRealResult ==
  \A c \in Callers :
    call[c].gone # NoRecord =>
      \E i \in DOMAIN call[c].trail : call[c].trail[i].result = "success"

(* What the experience engine says of itself, "Audits SUCCESS on store,    *)
(* FAILURE on any error": a capture audited as a success is stored.        *)
CaptureAuditedAsStored ==
  \A c \in Callers :
    call[c].trail = <<Audited("completed", "success")>> => call[c].stored

=============================================================================
