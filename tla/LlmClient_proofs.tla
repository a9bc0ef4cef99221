-------------------------- MODULE LlmClient_proofs --------------------------
(***************************************************************************)
(* Proofs about the LLM client for any threads, prompts, models and        *)
(* limits.                                                                 *)
(***************************************************************************)
EXTENDS LlmClient, FiniteSetTheorems, SequenceTheorems, TLAPS

(* RemoveAt takes one element out of a sequence.                           *)
LEMMA RemoveAtProperties ==
  ASSUME NEW S, NEW s \in Seq(S), NEW i \in 1 .. Len(s)
  PROVE  RemoveAt(s, i) \in Seq(S) /\ Len(RemoveAt(s, i)) = Len(s) - 1
  <1> DEFINE left == SubSeq(s, 1, i - 1)
             right == SubSeq(s, i + 1, Len(s))
  <1>1. \A k \in 1 .. Len(s) : s[k] \in S
    BY LenProperties
  <1>2. left \in Seq(S) /\ Len(left) = i - 1
    BY <1>1, SubSeqProperties
  <1>3. right \in Seq(S) /\ Len(right) = Len(s) - i
    BY <1>1, SubSeqProperties
  <1>4. RemoveAt(s, i) = left \o right
    BY DEF RemoveAt
  <1> HIDE DEF left, right
  <1>5. left \o right \in Seq(S) /\ Len(left \o right) = Len(left) + Len(right)
    BY <1>2, <1>3, ConcatProperties
  <1>6. QED
    BY <1>2, <1>3, <1>4, <1>5

(* LLMCache.put keeps the type of the cache and its bound: it appends one  *)
(* entry and removes one first when the cache is full.                     *)
LEMMA StoredType ==
  ASSUME NEW c \in Seq(Entry), Len(c) <= MAX_ENTRIES, NEW entry \in Entry
  PROVE  Stored(c, entry) \in Seq(Entry) /\ Len(Stored(c, entry)) <= MAX_ENTRIES
  <1> DEFINE same == {i \in DOMAIN c : c[i].call = entry.call /\ c[i].model = entry.model}
             gone == IF same # {} THEN same
                     ELSE IF Len(c) >= MAX_ENTRIES THEN {1} ELSE {}
             i == CHOOSE k \in gone : TRUE
  <1>1. gone \subseteq 1 .. Len(c) /\ (gone = {} => Len(c) < MAX_ENTRIES)
    BY LimitsAssumption
  <1>2. CASE gone = {}
    BY <1>1, <1>2, LimitsAssumption DEF Stored
  <1>3. CASE gone # {}
    <2>1. i \in 1 .. Len(c)
      BY <1>1, <1>3
    <2>2. Stored(c, entry) = Append(RemoveAt(c, i), entry)
      BY <1>3 DEF Stored
    <2> HIDE DEF i
    <2>3. RemoveAt(c, i) \in Seq(Entry) /\ Len(RemoveAt(c, i)) = Len(c) - 1
      BY <2>1, RemoveAtProperties
    <2>4. QED
      BY <2>2, <2>3
  <1>4. QED
    BY <1>2, <1>3

-----------------------------------------------------------------------------
(* The inductive invariant.  Types is TypeOK without the upper bound of    *)
(* permits, which needs PermitsInv; the finiteness of Held gives           *)
(* Cardinality a meaning.                                                  *)
Request ==
  { r \in [stage: Stages, call: Calls, response: Range(Models) \cup {Nothing}] :
      r.stage = "store" => r.response # Nothing }

Types ==
  /\ request \in [Threads -> Request]
  /\ breaker \in [status: ProviderStatus, failures: Nat, cooled: BOOLEAN]
  /\ permits \in Nat
  /\ recent \in 0 .. RateLimit
  /\ rules \in BOOLEAN
  /\ cache \in Seq(Entry) /\ Len(cache) <= MAX_ENTRIES
  /\ file \in Seq(Entry) /\ Len(file) <= MAX_ENTRIES

Held == { t \in Threads : request[t].stage \in Holding }

PermitsInv ==
  /\ IsFiniteSet(Held)
  /\ permits + Cardinality(Held) = MaxConcurrent

IInv == Types /\ PermitsInv /\ OpenIffThresholdReached /\ WithheldNotGenerated

LEMMA Limits ==
  /\ MaxConcurrent \in Nat \ {0} /\ RateLimit \in Nat \ {0}
  /\ Threshold \in Nat \ {0} /\ MAX_ENTRIES \in Nat \ {0}
  BY LimitsAssumption

(* The model names a client is given are among the answers it can have.    *)
LEMMA ModelsInRange == Models[1] \in Range(Models) /\ Models[2] \in Range(Models)
  BY ModelsAssumption DEF Range

(* With the rules loaded RestrictionGuard lets no withheld prompt pass:    *)
(* a prompt that matches a category is allowed only as a scaffold.         *)
LEMMA AllowedIsNotWithheld ==
  ASSUME NEW p \in Prompt, check_request(p, TRUE).allowed
  PROVE  ~Withheld(p)
  <1> DEFINE hits == {i \in DOMAIN RestrictionCategory : RestrictionCategory[i] \in p.matches}
             first == CHOOSE i \in hits : \A j \in hits : i <= j
  <1>1. p.matches \subseteq Category /\ p.scaffold \in Nat /\ p.implementation \in Nat
    BY DEF Prompt
  <1>2. SUFFICES ASSUME p.matches # {} PROVE p.scaffold >= 2 /\ p.implementation = 0
    BY DEF Withheld
  <1>3. DOMAIN RestrictionCategory = 1 .. 4
    BY DEF RestrictionCategory
  <1>4. hits # {} /\ hits \subseteq 1 .. 4
    BY <1>1, <1>2, <1>3 DEF Category
  <1>5. \E i \in hits : \A j \in hits : i <= j
    <2> HIDE DEF hits
    <2>1. CASE 1 \in hits
      BY <1>4, <2>1
    <2>2. CASE 1 \notin hits /\ 2 \in hits
      BY <1>4, <2>2
    <2>3. CASE 1 \notin hits /\ 2 \notin hits /\ 3 \in hits
      BY <1>4, <2>3
    <2>4. CASE 1 \notin hits /\ 2 \notin hits /\ 3 \notin hits
      <3>1. hits \subseteq {4}
        BY <1>4, <2>4
      <3>2. 4 \in hits /\ \A j \in hits : j = 4
        BY <1>4, <3>1
      <3>3. QED
        BY <3>2
    <2>5. QED
      BY <2>1, <2>2, <2>3, <2>4
  <1>6. first \in 1 .. 4
    BY <1>4, <1>5
  <1>7. detect_category(p) = RestrictionCategory[first]
    BY <1>4 DEF detect_category
  <1> HIDE DEF first
  <1>8. detect_category(p) # NoCategory
    BY <1>6, <1>7 DEF RestrictionCategory, NoCategory
  <1>9. classify_intent(p) = "scaffold"
    BY <1>8 DEF check_request, Seen
  <1>10. QED
    BY <1>1, <1>9 DEF classify_intent

-----------------------------------------------------------------------------
(* A step that moves no thread into or out of the stages that hold a       *)
(* permit, and leaves the semaphore alone, keeps the balance.              *)
LEMMA HeldUnchanged ==
  ASSUME PermitsInv, permits' = permits,
         \A t \in Threads : request'[t].stage \in Holding <=> request[t].stage \in Holding
  PROVE  PermitsInv'
  <1>1. Held' = Held
    BY DEF Held
  <1>2. QED
    BY <1>1 DEF PermitsInv

(* The stage a thread is sent to, and what stays of its request.           *)
LEMMA Moves ==
  ASSUME Types, NEW t \in Threads, NEW stage \in Stages \ {"store"}, Go(t, stage)
  PROVE  /\ request' \in [Threads -> Request]
         /\ request'[t].stage = stage
         /\ request'[t].call = request[t].call
         /\ \A u \in Threads \ {t} : request'[u] = request[u]
  BY DEF Types, Request, Go

LEMMA IdleType == Idle \in Request /\ Idle.stage = "idle"
  BY CallsAssumption DEF Idle, Request, Stages

LEMMA EndMoves ==
  ASSUME Types, NEW t \in Threads, Raises(t) \/ Returns(t)
  PROVE  /\ request' \in [Threads -> Request]
         /\ request'[t].stage = "idle"
         /\ \A u \in Threads \ {t} : request'[u] = request[u]
  BY IdleType DEF Types, Raises, Returns

LEMMA AnswerMoves ==
  ASSUME Types, NEW t \in Threads, NEW model \in Range(Models), Answered(t, model)
  PROVE  /\ request' \in [Threads -> Request]
         /\ request'[t].stage = "store"
         /\ request'[t].call = request[t].call
         /\ \A u \in Threads \ {t} : request'[u] = request[u]
  BY NothingAssumption DEF Types, Request, Answered, Stages, Holding

(* Every step of a thread, and every other step, preserves the invariant.  *)
LEMMA StepPreserves ==
  ASSUME IInv, [Next]_vars
  PROVE  IInv'
  <1> USE DEF At
  <1>1. ASSUME NEW t \in Threads, NEW call \in Calls, AllowRequest(t, call)
        PROVE  IInv'
    <2>1. /\ request' \in [Threads -> Request]
          /\ request[t].stage = "idle"
          /\ request'[t].stage = "rate" /\ request'[t].call = call
          /\ \A u \in Threads \ {t} : request'[u] = request[u]
      BY <1>1 DEF AllowRequest, IInv, Types, Request, Stages
    <2>2. /\ UNCHANGED <<permits, recent, cache, file, rules>>
          /\ \/ UNCHANGED breaker
             \/ breaker' = [breaker EXCEPT !.status = "degraded", !.failures = 0]
      BY <1>1 DEF AllowRequest
    <2>3. Types'
      <3>1. breaker' \in [status: ProviderStatus, failures: Nat, cooled: BOOLEAN]
        <4>1. CASE UNCHANGED breaker
          BY <4>1 DEF IInv, Types
        <4>2. CASE breaker' = [breaker EXCEPT !.status = "degraded", !.failures = 0]
          BY <4>2 DEF IInv, Types, ProviderStatus
        <4>3. QED
          BY <2>2, <4>1, <4>2
      <3>2. QED
        BY <2>1, <2>2, <3>1 DEF IInv, Types
    <2>4. PermitsInv'
      BY <2>1, <2>2, HeldUnchanged DEF IInv, Holding
    <2>5. OpenIffThresholdReached'
      <3>1. CASE UNCHANGED breaker
        BY <3>1 DEF IInv, OpenIffThresholdReached
      <3>2. CASE breaker' = [breaker EXCEPT !.status = "degraded", !.failures = 0]
        BY <3>2, Limits DEF IInv, Types, OpenIffThresholdReached
      <3>3. QED
        BY <2>2, <3>1, <3>2
    <2>6. WithheldNotGenerated'
      <3>1. rules /\ call.method = "generate_code" => ~Withheld(call.prompt)
        <4>1. call.prompt \in Prompt
          BY CallsAssumption
        <4>2. rules \in BOOLEAN
          BY DEF IInv, Types
        <4>3. rules /\ call.method = "generate_code" => check_request(call.prompt, TRUE).allowed
          BY <1>1, <4>2 DEF AllowRequest
        <4>4. QED
          BY <4>1, <4>3, AllowedIsNotWithheld
      <3>2. QED
        BY <2>1, <2>2, <3>1 DEF IInv, WithheldNotGenerated
    <2>7. QED
      BY <2>3, <2>4, <2>5, <2>6 DEF IInv
  <1>2. ASSUME NEW t \in Threads, CheckRateLimit(t)
        PROVE  IInv'
    <2>1. CASE Go(t, "lookup") /\ recent' = recent + 1 /\ recent < RateLimit
      <3>1. Types'
        BY <1>2, <2>1, Moves, Limits DEF CheckRateLimit, IInv, Types, Stages
      <3>2. PermitsInv'
        BY <1>2, <2>1, Moves, HeldUnchanged DEF CheckRateLimit, IInv, Holding, Stages
      <3>3. WithheldNotGenerated'
        BY <1>2, <2>1, Moves DEF CheckRateLimit, IInv, WithheldNotGenerated, Stages
      <3>4. QED
        BY <1>2, <3>1, <3>2, <3>3 DEF CheckRateLimit, IInv, OpenIffThresholdReached
    <2>2. CASE Raises(t) /\ UNCHANGED recent
      <3>1. Types'
        BY <1>2, <2>2, EndMoves DEF CheckRateLimit, IInv, Types
      <3>2. PermitsInv'
        BY <1>2, <2>2, EndMoves, HeldUnchanged DEF CheckRateLimit, IInv, Holding
      <3>3. WithheldNotGenerated'
        BY <1>2, <2>2, EndMoves DEF CheckRateLimit, IInv, WithheldNotGenerated
      <3>4. QED
        BY <1>2, <3>1, <3>2, <3>3 DEF CheckRateLimit, IInv, OpenIffThresholdReached
    <2>3. QED
      BY <1>2, <2>1, <2>2 DEF CheckRateLimit
  <1>3. ASSUME NEW t \in Threads, Lookup(t)
        PROVE  IInv'
    <2>1. CASE Go(t, "acquire")
      <3>1. Types'
        BY <1>3, <2>1, Moves DEF Lookup, IInv, Types, Stages
      <3>2. PermitsInv'
        BY <1>3, <2>1, Moves, HeldUnchanged DEF Lookup, IInv, Holding, Stages
      <3>3. WithheldNotGenerated'
        BY <1>3, <2>1, Moves DEF Lookup, IInv, WithheldNotGenerated, Stages
      <3>4. QED
        BY <1>3, <3>1, <3>2, <3>3 DEF Lookup, IInv, OpenIffThresholdReached
    <2>2. CASE Returns(t)
      <3>1. Types'
        BY <1>3, <2>2, EndMoves DEF Lookup, IInv, Types
      <3>2. PermitsInv'
        BY <1>3, <2>2, EndMoves, HeldUnchanged DEF Lookup, IInv, Holding
      <3>3. WithheldNotGenerated'
        BY <1>3, <2>2, EndMoves DEF Lookup, IInv, WithheldNotGenerated
      <3>4. QED
        BY <1>3, <3>1, <3>2, <3>3 DEF Lookup, IInv, OpenIffThresholdReached
    <2>3. QED
      BY <1>3, <2>1, <2>2 DEF Lookup
  <1>4. ASSUME NEW t \in Threads, Acquire(t)
        PROVE  IInv'
    <2>1. Types'
      BY <1>4, Moves DEF Acquire, IInv, Types, Stages, Holding
    <2>2. PermitsInv'
      <3>1. t \notin Held /\ Held' = Held \cup {t}
        BY <1>4, Moves DEF Acquire, IInv, Held, Stages, Holding
      <3>2. IsFiniteSet(Held') /\ Cardinality(Held') = Cardinality(Held) + 1
        BY <3>1, FS_AddElement DEF IInv, PermitsInv
      <3>3. Cardinality(Held) \in Nat
        BY FS_CardinalityType DEF IInv, PermitsInv
      <3>4. QED
        BY <1>4, <3>2, <3>3 DEF Acquire, IInv, PermitsInv, Types
    <2>3. WithheldNotGenerated'
      BY <1>4, Moves DEF Acquire, IInv, WithheldNotGenerated, Stages, Holding
    <2>4. QED
      BY <1>4, <2>1, <2>2, <2>3 DEF Acquire, IInv, OpenIffThresholdReached
  <1>5. ASSUME NEW t \in Threads, AcquireTimesOut(t)
        PROVE  IInv'
    <2>1. Types'
      BY <1>5, EndMoves DEF AcquireTimesOut, IInv, Types
    <2>2. PermitsInv'
      BY <1>5, EndMoves, HeldUnchanged DEF AcquireTimesOut, IInv, Holding
    <2>3. WithheldNotGenerated'
      BY <1>5, EndMoves DEF AcquireTimesOut, IInv, WithheldNotGenerated
    <2>4. QED
      BY <1>5, <2>1, <2>2, <2>3 DEF AcquireTimesOut, IInv, OpenIffThresholdReached
  <1>6. ASSUME NEW t \in Threads, CallPrimary(t) \/ CallFallback(t) \/ CallRaises(t)
        PROVE  IInv'
    <2>1. /\ UNCHANGED <<breaker, permits, recent, cache, file, rules>>
          /\ request[t].stage \in {"primary", "fallback"}
          /\ \/ \E model \in Range(Models) : Answered(t, model)
             \/ \E stage \in {"fallback", "fail", "release"} : Go(t, stage)
      BY <1>6, ModelsInRange DEF CallPrimary, CallFallback, CallRaises
    <2>2. /\ request' \in [Threads -> Request]
          /\ request'[t].stage \in Holding /\ request[t].stage \in Holding
          /\ request'[t].call = request[t].call
          /\ \A u \in Threads \ {t} : request'[u] = request[u]
      BY <2>1, Moves, AnswerMoves DEF IInv, Stages, Holding
    <2>3. Types'
      BY <2>1, <2>2 DEF IInv, Types
    <2>4. PermitsInv'
      BY <2>1, <2>2, HeldUnchanged DEF IInv
    <2>5. WithheldNotGenerated'
      BY <2>1, <2>2 DEF IInv, WithheldNotGenerated, Holding
    <2>6. QED
      BY <2>1, <2>3, <2>4, <2>5 DEF IInv, OpenIffThresholdReached
  <1>7. ASSUME NEW t \in Threads, Put(t)
        PROVE  IInv'
    <2> DEFINE entry == [call |-> request[t].call, model |-> Models[1],
                         response |-> request[t].response]
    <2>1. entry \in Entry
      BY <1>7, ModelsInRange DEF Put, IInv, Types, Request, Entry
    <2>2. cache' \in Seq(Entry) /\ Len(cache') <= MAX_ENTRIES
      BY <1>7, <2>1, StoredType DEF Put, IInv, Types
    <2>3. Types'
      BY <1>7, <2>2, Moves DEF Put, IInv, Types, Stages, Holding
    <2>4. PermitsInv'
      BY <1>7, Moves, HeldUnchanged DEF Put, IInv, Stages, Holding
    <2>5. WithheldNotGenerated'
      BY <1>7, Moves DEF Put, IInv, WithheldNotGenerated, Stages, Holding
    <2>6. QED
      BY <1>7, <2>3, <2>4, <2>5 DEF Put, IInv, OpenIffThresholdReached
  <1>8. ASSUME NEW t \in Threads, RecordSuccess(t)
        PROVE  IInv'
    <2>1. Types'
      BY <1>8, Moves DEF RecordSuccess, IInv, Types, Stages, Holding, ProviderStatus
    <2>2. PermitsInv'
      BY <1>8, Moves, HeldUnchanged DEF RecordSuccess, IInv, Stages, Holding
    <2>3. OpenIffThresholdReached'
      BY <1>8, Limits DEF RecordSuccess, IInv, Types, OpenIffThresholdReached
    <2>4. WithheldNotGenerated'
      BY <1>8, Moves DEF RecordSuccess, IInv, WithheldNotGenerated, Stages, Holding
    <2>5. QED
      BY <2>1, <2>2, <2>3, <2>4 DEF IInv
  <1>9. ASSUME NEW t \in Threads, RecordFailure(t)
        PROVE  IInv'
    <2>1. Types'
      BY <1>9, Moves DEF RecordFailure, IInv, Types, Stages, Holding, ProviderStatus
    <2>2. PermitsInv'
      BY <1>9, Moves, HeldUnchanged DEF RecordFailure, IInv, Stages, Holding
    <2>3. OpenIffThresholdReached'
      BY <1>9, Limits DEF RecordFailure, IInv, Types, OpenIffThresholdReached
    <2>4. WithheldNotGenerated'
      BY <1>9, Moves DEF RecordFailure, IInv, WithheldNotGenerated, Stages, Holding
    <2>5. QED
      BY <2>1, <2>2, <2>3, <2>4 DEF IInv
  <1>10. ASSUME NEW t \in Threads, Release(t)
         PROVE  IInv'
    <2>1. Types'
      BY <1>10, EndMoves DEF Release, IInv, Types, Stages
    <2>2. PermitsInv'
      <3>1. t \in Held /\ Held' = Held \ {t}
        BY <1>10, EndMoves DEF Release, IInv, Held, Stages, Holding
      <3>2. IsFiniteSet(Held') /\ Cardinality(Held') = Cardinality(Held) - 1
        BY <3>1, FS_RemoveElement DEF IInv, PermitsInv
      <3>3. Cardinality(Held) \in Nat
        BY FS_CardinalityType DEF IInv, PermitsInv
      <3>4. QED
        BY <1>10, <3>2, <3>3 DEF Release, IInv, PermitsInv, Types
    <2>3. WithheldNotGenerated'
      BY <1>10, EndMoves DEF Release, IInv, WithheldNotGenerated, Stages
    <2>4. QED
      BY <1>10, <2>1, <2>2, <2>3 DEF Release, IInv, OpenIffThresholdReached
  <1>11. CASE BreakerCools \/ MinutePasses
    <2>1. Types' /\ UNCHANGED <<request, permits, rules>>
      <3>1. CASE BreakerCools
        <4>1. /\ breaker' = [breaker EXCEPT !.cooled = TRUE]
              /\ UNCHANGED <<request, permits, recent, cache, file, rules>>
          BY <3>1 DEF BreakerCools
        <4>2. breaker' \in [status: ProviderStatus, failures: Nat, cooled: BOOLEAN]
          BY <4>1 DEF IInv, Types
        <4>3. QED
          BY <4>1, <4>2 DEF IInv, Types
      <3>2. CASE MinutePasses
        BY <3>2, Limits DEF MinutePasses, IInv, Types
      <3>3. QED
        BY <1>11, <3>1, <3>2
    <2>2. OpenIffThresholdReached'
      BY <1>11 DEF BreakerCools, MinutePasses, IInv, Types, OpenIffThresholdReached
    <2>3. QED
      BY <2>1, <2>2 DEF IInv, PermitsInv, Held, WithheldNotGenerated
  <1>12. CASE EntryExpires
    <2>1. cache' \in Seq(Entry) /\ Len(cache') <= MAX_ENTRIES
      BY <1>12, Limits DEF EntryExpires, IInv, Types
    <2>2. QED
      BY <1>12, <2>1
      DEF EntryExpires, IInv, Types, PermitsInv, Held, WithheldNotGenerated, OpenIffThresholdReached
  <1>13. CASE Restart
    <2>1. cache' \in Seq(Entry) /\ Len(cache') <= MAX_ENTRIES
      <3>1. PICK n \in 1 .. Len(file) + 1 : cache' = SubSeq(file, n, Len(file))
        BY <1>13 DEF Restart
      <3>2. \A k \in n .. Len(file) : file[k] \in Entry
        BY LenProperties DEF IInv, Types
      <3>3. file \in Seq(Entry) /\ Len(file) \in Nat /\ Len(file) <= MAX_ENTRIES
        BY DEF IInv, Types
      <3>4. /\ SubSeq(file, n, Len(file)) \in Seq(Entry)
            /\ Len(SubSeq(file, n, Len(file))) =
                 IF n <= Len(file) THEN Len(file) - n + 1 ELSE 0
        BY <3>2, <3>3, SubSeqProperties
      <3>5. QED
        BY <3>1, <3>3, <3>4, Limits
    <2>2. /\ request' \in [Threads -> Request]
          /\ \A t \in Threads : request'[t].stage = "idle"
      BY <1>13, IdleType DEF Restart
    <2> /\ breaker' = [status |-> "healthy", failures |-> 0, cooled |-> FALSE]
        /\ permits' = MaxConcurrent
        /\ recent' = 0
        /\ rules' \in BOOLEAN
        /\ UNCHANGED file
      BY <1>13 DEF Restart
    <2>3. Types'
      BY <2>1, <2>2, Limits DEF IInv, Types, ProviderStatus
    <2>4. PermitsInv'
      <3>1. Held' = {}
        BY <2>2 DEF Held, Holding
      <3>2. QED
        BY <3>1, FS_EmptySet, Limits DEF PermitsInv
    <2>5. OpenIffThresholdReached'
      BY Limits DEF OpenIffThresholdReached
    <2>6. QED
      BY <2>2, <2>3, <2>4, <2>5 DEF IInv, WithheldNotGenerated
  <1>14. CASE UNCHANGED vars
    BY <1>14 DEF vars, IInv, Types, PermitsInv, Held, WithheldNotGenerated, OpenIffThresholdReached
  <1>15. QED
    BY <1>1, <1>2, <1>3, <1>4, <1>5, <1>6, <1>7, <1>8, <1>9, <1>10, <1>11, <1>12,
       <1>13, <1>14 DEF Next, ThreadStep

-----------------------------------------------------------------------------
(* The invariant holds in every behaviour of the client.                   *)
LEMMA Invariance == Spec => []IInv
  <1>1. Init => IInv
    <2> SUFFICES ASSUME Init PROVE IInv
      OBVIOUS
    <2>1. /\ request \in [Threads -> Request]
          /\ \A t \in Threads : request[t].stage = "idle"
      BY IdleType DEF Init
    <2>2. Types
      BY <2>1, Limits DEF Init, Types, ProviderStatus
    <2>3. PermitsInv
      <3>1. Held = {}
        BY <2>1 DEF Held, Holding
      <3>2. QED
        BY <3>1, FS_EmptySet, Limits DEF Init, PermitsInv
    <2>4. OpenIffThresholdReached
      BY Limits DEF Init, OpenIffThresholdReached
    <2>5. WithheldNotGenerated
      BY <2>1 DEF WithheldNotGenerated, At
    <2>6. QED
      BY <2>2, <2>3, <2>4, <2>5 DEF IInv
  <1>2. IInv /\ [Next]_vars => IInv'
    BY StepPreserves
  <1>3. QED
    BY <1>1, <1>2, PTL DEF Spec

(* The semaphore stays between 0 and its limit, the requests of a minute   *)
(* within the rate limit, cache and cache file within MAX_ENTRIES.         *)
THEOREM TypeCorrect == Spec => []TypeOK
  <1>1. IInv => TypeOK
    <2> SUFFICES ASSUME IInv PROVE TypeOK
      OBVIOUS
    <2>1. Cardinality(Held) \in Nat
      BY FS_CardinalityType DEF IInv, PermitsInv
    <2>2. permits \in 0 .. MaxConcurrent
      BY <2>1, Limits DEF IInv, Types, PermitsInv
    <2>3. request \in [Threads -> [stage: Stages, call: Calls,
                                   response: Range(Models) \cup {Nothing}]]
      BY DEF IInv, Types, Request
    <2>4. QED
      BY <2>2, <2>3 DEF IInv, Types, TypeOK
  <1>2. QED
    BY <1>1, Invariance, PTL

(* However the calls of a request end, the finally clause of               *)
(* generate_code and analyze_security returns exactly the permit that was  *)
(* taken.                                                                  *)
THEOREM Conservation == Spec => []PermitsConserved
  <1>1. IInv => PermitsConserved
    BY DEF IInv, PermitsInv, Held, PermitsConserved
  <1>2. QED
    BY <1>1, Invariance, PTL

(* CircuitBreaker: its status and its counter agree, although a request    *)
(* asks allow_request in one critical section and reports in another.      *)
THEOREM BreakerConsistent == Spec => []OpenIffThresholdReached
  <1>1. IInv => OpenIffThresholdReached
    BY DEF IInv
  <1>2. QED
    BY <1>1, Invariance, PTL

(* generate_code and RestrictionGuard's Layer 1 under restarts with and    *)
(* without the rules and a cache that outlives them: by                    *)
(* AllowedIsNotWithheld its decision keeps back every withheld prompt, in  *)
(* whatever categories it matches, and no later step meets one.  Of        *)
(* analyze_security nothing of the kind holds.                             *)
LEMMA Enforcement == Spec => []WithheldNotGenerated
  <1>1. IInv => WithheldNotGenerated
    BY DEF IInv
  <1>2. QED
    BY <1>1, Invariance, PTL
=============================================================================
