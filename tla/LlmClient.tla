------------------------------ MODULE LlmClient ------------------------------
(***************************************************************************)
(* LLMClient (atlas_agent/llm_client.py) and its response cache            *)
(* (llm_cache.py) under concurrent calls of generate_code and              *)
(* analyze_security.                                                       *)
(*                                                                         *)
(* The breaker, the rate limit and the cache each have a lock and the      *)
(* calls in flight a semaphore, and every critical section is one step: a  *)
(* request decides on the breaker in one and reports to it many steps      *)
(* later.  The two methods take the same steps, but for the first: only    *)
(* generate_code asks RestrictionGuard.  Time is what may pass between two *)
(* steps: the breaker's reset time, a minute for a request, a day for a    *)
(* cache entry.                                                            *)
(***************************************************************************)
EXTENDS RestrictionGuard, SequencesExt, FiniteSets

CONSTANTS
  Threads,
  Calls,             \* what callers ask for: a method, and the requirement or code
  Models,            \* the model of the client and its fallback_model
  MaxConcurrent,     \* max_concurrent_requests
  RateLimit,         \* rate_limit_rpm
  Threshold,         \* circuit_breaker_threshold
  MAX_ENTRIES,
  Nothing            \* no response

Method == {"generate_code", "analyze_security"}

ASSUME CallsAssumption == Calls \subseteq [method: Method, prompt: Prompt] /\ Calls # {}
ASSUME LimitsAssumption ==
  /\ {MaxConcurrent, RateLimit, Threshold, MAX_ENTRIES} \subseteq Nat \ {0}
ASSUME ModelsAssumption == DOMAIN Models = 1 .. 2 /\ Models[1] # Models[2]
ASSUME NothingAssumption == Nothing \notin Range(Models)

VARIABLES
  request,           \* what every thread is doing
  breaker,           \* CircuitBreaker: status, failure_count, reset time over
  permits,           \* the semaphore
  recent,            \* Len(_request_timestamps) of the last minute
  cache,             \* LLMCache._cache, oldest timestamp first
  file,              \* llm_cache.json
  rules              \* the process found the restriction rules when it started

vars == <<request, breaker, permits, recent, cache, file, rules>>

ProviderStatus == {"healthy", "degraded", "circuit_open"}

(* The semaphore is held in the stages between acquire and release.        *)
Holding == {"primary", "fallback", "store", "succeed", "fail", "release"}
Stages == {"idle", "rate", "lookup", "acquire"} \cup Holding

(* A request's response is the model whose answer it is; a cache entry     *)
(* keeps what its key is made of: the prompt and temperature, which the    *)
(* call decides on (each method has its own of both), and the model.       *)
Entry == [call: Calls, model: Range(Models), response: Range(Models)]

(* Between two calls a thread asks for nothing.                            *)
Idle == [stage |-> "idle", call |-> CHOOSE c \in Calls : TRUE, response |-> Nothing]

Init ==
  /\ request = [t \in Threads |-> Idle]
  /\ breaker = [status |-> "healthy", failures |-> 0, cooled |-> FALSE]
  /\ permits = MaxConcurrent
  /\ recent = 0
  /\ cache = <<>> /\ file = <<>>
  /\ rules \in BOOLEAN

At(t, stage) == request[t].stage = stage
Go(t, stage) == request' = [request EXCEPT ![t].stage = stage]
Raises(t) == request' = [request EXCEPT ![t] = Idle]
Returns(t) == request' = [request EXCEPT ![t] = Idle]

-----------------------------------------------------------------------------
(* LLMCache.get under the model of the client.                             *)
Found(call) == { i \in DOMAIN cache : cache[i].call = call /\ cache[i].model = Models[1] }

(* The start of a call: generate_code's restriction check, which a call of *)
(* analyze_security does without, then allow_request.                      *)
AllowRequest_SlipCacheFirst(t, call) ==     \* what is cached needs no check
  /\ At(t, "idle")
  /\ call.method = "generate_code" =>
       check_request(call.prompt, rules).allowed \/ Found(call) # {}
  /\ \/ /\ breaker.status # "circuit_open"
        /\ UNCHANGED breaker
     \/ /\ breaker.status = "circuit_open" /\ breaker.cooled
        /\ breaker' = [breaker EXCEPT !.status = "degraded", !.failures = 0]
  /\ request' = [request EXCEPT ![t] = [stage |-> "rate", call |-> call, response |-> Nothing]]
  /\ UNCHANGED <<permits, recent, cache, file, rules>>

AllowRequest(t, call) ==
  /\ At(t, "idle")
  /\ call.method = "generate_code" => check_request(call.prompt, rules).allowed
  /\ \/ /\ breaker.status # "circuit_open"
        /\ UNCHANGED breaker
     \/ /\ breaker.status = "circuit_open" /\ breaker.cooled
        /\ breaker' = [breaker EXCEPT !.status = "degraded", !.failures = 0]
  /\ request' = [request EXCEPT ![t] = [stage |-> "rate", call |-> call, response |-> Nothing]]
  /\ UNCHANGED <<permits, recent, cache, file, rules>>

CheckRateLimit(t) ==
  /\ At(t, "rate")
  /\ IF recent < RateLimit THEN recent' = recent + 1 /\ Go(t, "lookup")
                           ELSE Raises(t) /\ UNCHANGED recent
  /\ UNCHANGED <<breaker, permits, cache, file, rules>>

Lookup(t) ==
  /\ At(t, "lookup")
  /\ IF Found(request[t].call) # {} THEN Returns(t) ELSE Go(t, "acquire")
  /\ UNCHANGED <<breaker, permits, recent, cache, file, rules>>

Acquire(t) ==
  /\ At(t, "acquire")
  /\ permits > 0
  /\ permits' = permits - 1
  /\ Go(t, "primary")
  /\ UNCHANGED <<breaker, recent, cache, file, rules>>

AcquireTimesOut_SlipWaits(t) ==
  /\ At(t, "acquire")
  /\ permits = 0
  /\ UNCHANGED vars

AcquireTimesOut(t) ==
  /\ At(t, "acquire")
  /\ permits = 0
  /\ Raises(t)
  /\ UNCHANGED <<breaker, permits, recent, cache, file, rules>>

(* _call_api, all its retries included, of the primary model and then of   *)
(* the fallback.                                                           *)
Answered(t, model) ==
  request' = [request EXCEPT ![t].stage = "store", ![t].response = model]

CallPrimary(t) ==
  /\ At(t, "primary")
  /\ Answered(t, Models[1]) \/ Go(t, "fallback")
  /\ UNCHANGED <<breaker, permits, recent, cache, file, rules>>

CallFallback(t) ==
  /\ At(t, "fallback")
  /\ Answered(t, Models[2]) \/ Go(t, "fail")
  /\ UNCHANGED <<breaker, permits, recent, cache, file, rules>>

CallRaises_SlipNoFinally(t) ==
  /\ request[t].stage \in {"primary", "fallback"}
  /\ Raises(t)
  /\ UNCHANGED <<breaker, permits, recent, cache, file, rules>>

(* An exception that neither method expects: only the finally clause runs. *)
CallRaises(t) ==
  /\ request[t].stage \in {"primary", "fallback"}
  /\ Go(t, "release")
  /\ UNCHANGED <<breaker, permits, recent, cache, file, rules>>

(* LLMCache.put: the oldest entry goes when a new key meets a full cache;  *)
(* an entry that is replaced gets a new timestamp.  The file is rewritten, *)
(* unless that fails.                                                      *)
Stored(c, entry) ==
  LET same == {i \in DOMAIN c : c[i].call = entry.call /\ c[i].model = entry.model}
      gone == IF same # {} THEN same ELSE IF Len(c) >= MAX_ENTRIES THEN {1} ELSE {}
  IN  Append(IF gone = {} THEN c ELSE RemoveAt(c, CHOOSE i \in gone : TRUE), entry)

Put(t) ==
  /\ At(t, "store")
  /\ cache' = Stored(cache, [call |-> request[t].call, model |-> Models[1],
                             response |-> request[t].response])
  /\ file' \in {cache', file}
  /\ Go(t, "succeed")
  /\ UNCHANGED <<breaker, permits, recent, rules>>

RecordSuccess_SlipStatusOnly(t) ==
  /\ At(t, "succeed")
  /\ breaker' = [breaker EXCEPT !.status = "healthy"]
  /\ Go(t, "release")
  /\ UNCHANGED <<permits, recent, cache, file, rules>>

RecordSuccess(t) ==
  /\ At(t, "succeed")
  /\ breaker' = [breaker EXCEPT !.status = "healthy", !.failures = 0]
  /\ Go(t, "release")
  /\ UNCHANGED <<permits, recent, cache, file, rules>>

RecordFailure(t) ==
  /\ At(t, "fail")
  /\ breaker' = [failures |-> breaker.failures + 1, cooled |-> FALSE,
                 status |-> IF breaker.failures + 1 >= Threshold THEN "circuit_open"
                            ELSE breaker.status]
  /\ Go(t, "release")
  /\ UNCHANGED <<permits, recent, cache, file, rules>>

Release(t) ==
  /\ At(t, "release")
  /\ permits' = permits + 1
  /\ Returns(t) \* or raises
  /\ UNCHANGED <<breaker, recent, cache, file, rules>>

-----------------------------------------------------------------------------
(* Time passes: the breaker's reset time is over, the oldest request       *)
(* leaves the minute, the oldest cache entry outlives its TTL (get drops   *)
(* an expired entry when it meets it; here it is gone at once).            *)
BreakerCools ==
  /\ breaker.status = "circuit_open" /\ ~breaker.cooled
  /\ breaker' = [breaker EXCEPT !.cooled = TRUE]
  /\ UNCHANGED <<request, permits, recent, cache, file, rules>>

MinutePasses ==
  /\ recent > 0
  /\ recent' = recent - 1
  /\ UNCHANGED <<request, breaker, permits, cache, file, rules>>

EntryExpires ==
  /\ cache # <<>>
  /\ cache' = Tail(cache)
  /\ UNCHANGED <<request, breaker, permits, recent, file, rules>>

(* The process restarts; an unreadable file counts as an empty one, and    *)
(* entries that have expired since are left out.  The restriction rules    *)
(* are looked for again.                                                   *)
Restart ==
  /\ \E n \in 1 .. Len(file) + 1 : cache' = SubSeq(file, n, Len(file))
  /\ request' = [t \in Threads |-> Idle]
  /\ breaker' = [status |-> "healthy", failures |-> 0, cooled |-> FALSE]
  /\ permits' = MaxConcurrent
  /\ recent' = 0
  /\ rules' \in BOOLEAN
  /\ UNCHANGED file

ThreadStep(t) ==
  \/ CheckRateLimit(t)
  \/ Lookup(t)
  \/ Acquire(t)
  \/ AcquireTimesOut(t)
  \/ CallPrimary(t)
  \/ CallFallback(t)
  \/ CallRaises(t)
  \/ Put(t)
  \/ RecordSuccess(t)
  \/ RecordFailure(t)
  \/ Release(t)

Next ==
  \/ \E t \in Threads :
       ThreadStep(t) \/ \E call \in Calls : AllowRequest(t, call)
  \/ BreakerCools
  \/ MinutePasses
  \/ EntryExpires
  \/ Restart

Spec == Init /\ [][Next]_vars

(* Every thread is scheduled, and a call of the API ends: the client is    *)
(* given a timeout and the retries are counted.                            *)
FairSpec == Spec /\ \A t \in Threads : WF_vars(ThreadStep(t))

-----------------------------------------------------------------------------
(* The types of all variables, and the bounds of the semaphore, the rate   *)
(* limit and the cache.                                                    *)
TypeOK ==
  /\ request \in [Threads -> [stage: Stages, call: Calls,
                              response: Range(Models) \cup {Nothing}]]
  /\ breaker \in [status: ProviderStatus, failures: Nat, cooled: BOOLEAN]
  /\ permits \in 0 .. MaxConcurrent
  /\ recent \in 0 .. RateLimit
  /\ rules \in BOOLEAN
  /\ \A c \in {cache, file} : c \in Seq(Entry) /\ Len(c) <= MAX_ENTRIES

(* Permits are never lost nor made up: those taken are the requests        *)
(* between acquire and the finally clause, however they end.               *)
PermitsConserved ==
  permits + Cardinality({ t \in Threads : request[t].stage \in Holding }) = MaxConcurrent

(* The breaker is open exactly when the failures it has counted reach the  *)
(* threshold, whatever the order in which requests admitted before and     *)
(* after it opened report back.                                            *)
OpenIffThresholdReached ==
  (breaker.status = "circuit_open") <=> (breaker.failures >= Threshold)

(* Every request comes to an end: nobody waits for a permit for ever.      *)
RequestEnds == \A t \in Threads : At(t, "rate") ~> At(t, "idle")

(* What the constitution's section 17 keeps from external models: prompts  *)
(* of a restricted category, unless they plainly ask for a scaffold only.  *)
Withheld(p) == p.matches # {} /\ ~(p.scaffold >= 2 /\ p.implementation = 0)

(* A process that has found the rules works on no withheld prompt given to *)
(* generate_code, and so answers none: it takes no permit for it and no    *)
(* place in the rate limit, asks no model, and does not look into the      *)
(* cache, where a process without the rules may have left an answer.       *)
WithheldNotGenerated ==
  rules => \A t \in Threads :
    request[t].call.method = "generate_code" /\ Withheld(request[t].call.prompt)
      => At(t, "idle")

(* What llm_client.py line 118 calls "section 17 enforcement": no model    *)
(* ever answers a withheld prompt.  Without the contract file _load_rules  *)
(* returns empty rules and every prompt passes.                            *)
WithheldNeverGenerated ==
  \A t \in Threads :
    request[t].call.method = "generate_code" /\ Withheld(request[t].call.prompt)
      => request[t].response = Nothing

(* The same of analyze_security, which sends the code it is given without  *)
(* asking the guard, whatever rules there are.                             *)
WithheldNeverAnalyzed ==
  rules => \A t \in Threads :
    request[t].call.method = "analyze_security" /\ Withheld(request[t].call.prompt)
      => request[t].response = Nothing

(* What the cache's header says of its key, "prompt + model +              *)
(* temperature": a response is kept under the model that gave it.          *)
CachedUnderItsModel ==
  \A i \in DOMAIN cache : cache[i].response = cache[i].model
=============================================================================
