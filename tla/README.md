# TLA+ models of ATLAS AI

Models of the parts of ATLAS AI that carry its logic: the agent control plane
and runtime (Python), the memory system (Python), the message broker and the
market data path (Go and Rust), order admission (Rust), and the code generation
agent with its LLM client (Python). TLC checks them on small instances; TLAPS
proves every safety property the runs check, for every value of the constants.

    tlc -workers 2 -config MCAgentExecution.cfg MCAgentExecution
    tlapm AgentExecution_proofs.tla

`PROJECT.json` lists components, runs, mutants, the map from definitions to
source lines, findings, hazards and theorems.

## 1. Inventory

| component | state | operations | partners | what is hard | correct when |
|---|---|---|---|---|---|
| registry and lifecycle engine | status per agent | register, startup, suspend, resume, shutdown, transition | asked by scheduler, communication, gateway | an agent stops between two steps of others | a terminated agent never comes back and starts nothing |
| scheduler | tasks, the resource pool, audit events | submit, next_task, start, complete, fail, cancel | registry, audit sink | accounting over long sequences; late and repeated calls | units are conserved, ends are final, the trail is the truth |
| execution engine | none of its own | execute(request) around a behavior callback | scheduler | the task changes during the callback; two executes of one task | an outcome is the task's own, and there is one per task |
| runtime state manager | runtime state per agent | initialize, transition | none yet | - | only listed transitions happen, TERMINATED is final |
| communication engine | messages by id | create, send (id or object), reject | registry, policy, audit sinks | stale message objects; rows that share a key | a message is delivered at most once, each request is answered in the trail |
| memory system | the table memory_records | store, capture, consolidate, forget, forget_if_expired | storage, audit sink | read, judge, delete are three requests; errors are swallowed | nothing is reported deleted twice; the policy can be missed only in the window between judgement and deletion |
| gateway | permissions | grant, retrieve, store, forget | registry, permission and policy engine, memory system | other processes on the same database; an error or a lost answer in the middle of a forget | the trail of a forget tells what the database did |
| message broker | channels, buffers | /publish, /subscribe, shutdown | Rust and Python clients | goroutines, double-checked creation, bounded channel and buffer | one subscription per topic; order, no duplicates, only documented losses |
| IPC pipe | writer buffer, connections, counters | Connect, Write, write loops, Close; the listener's read loop | ingestion service, Rust engine | concurrent writers, several loops, partial writes, resets | every frame is accounted for, none is given twice, a traced frame is read as it was written |
| order path | circuit breaker, kill switch | record_trade, reset, activate, admit_order, outcome events | broker | NaN, limits, two languages' numbers | a tripped breaker blocks until its reset and trips when its limits say so |
| deployment engine | files, backups, audit log | deploy with rollback | governance | any step may raise, the process may die | the record is true, the old version can be recovered |
| code generation pipeline | run, target folder, learning memory, client model | run_pipeline, CLI | generator, validator, governance, deployment | retries, a human, state kept between runs | only judged and approved code is deployed; runs end |
| LLM client | breaker, permits, rate limit, cache and its file | generate_code, analyze_security | provider | threads; late reports; restarts | permits return, the breaker counts, requests end |
| restriction guard | the rules found at start | check_request | LLM client | a process without the rules file; a cache that outlives it; a method that does not ask | a process with rules generates nothing for a withheld prompt |
| exchange adapters | connection, connected flag, remembered symbols, token bucket | Connect, Subscribe, ReadFrame, Ping, Close | ingestion service, exchange | reads without the mutex, waits with it, reconnects | the rate is kept, subscriptions come back, calls return |
| broker Router | bounded buffer | Validate, Route, Flush | NATS | a publish whose answer is lost; partial flushes | an accepted message is published, buffered or pushed out in turn |
| frame format | none | SerializeFrame, SerializeFrameTraced, parse_frame | IPC pipe | offsets computed twice, in two languages | what is read is what was written |
| strategy signal contract | none | create, from_json, validateStrategySignalPayload, try_from | Python, broker, Rust engine | three hand-written rule sets | a signal Python makes, its parameters being JSON, arrives with its meaning |

## 2. Modules

| module | models | extends |
|---|---|---|
| AgentLifecycle | registry, lifecycle engine | |
| AgentScheduler | scheduler and its audit trail | AgentLifecycle |
| AgentExecution | execution engine, composed with both | AgentScheduler |
| AgentCommunication | communication engine, memory and database audit sinks | AgentLifecycle |
| MemorySystem | kernel, validator, typed stores, consolidation, capture, forgetting, database storage | |
| AgentGateway | gateway, permissions, policy; composed with memory and lifecycle | AgentLifecycle, MemorySystem |
| LossyTopic | abstract: what a broker topic promises | |
| MessageBroker | main.go and the channel transport; implements LossyTopic | |
| FrameFormat | frame.go and ipc_parser.rs, as operators on bytes | |
| IpcPipe | ipc.Writer, socket, Rust listener; composed with the format | FrameFormat |
| ExchangeAdapter | bybit.go, okx.go and the token bucket | |
| BrokerRouter | Validator, Buffer and Router of validator.go | |
| StrategySignal | the signal contract in Python, Go and Rust, as operators | |
| OrderPath | circuit breaker, kill switch, admission, outcome events and strategy signals through the broker | StrategySignal |
| Deployment | DeploymentEngine.deploy | |
| CodegenPipeline | orchestrator, generator, validator, loop, human gate, CLI; composed with deployment | Deployment |
| RestrictionGuard | Layer 1 of the restriction guard, as operators | |
| LlmClient | LLMClient and LLMCache; composed with the guard | RestrictionGuard |
| AgentExecution_proofs | theorems about the control plane | AgentExecution, AgentCommunication |
| AgentGateway_proofs | theorems about the memory system and the gateway | AgentGateway |
| MessageBroker_proofs | theorems about the broker and the Router | MessageBroker, BrokerRouter |
| IpcPipe_proofs | theorems about the pipe and the frame format | IpcPipe |
| ExchangeAdapter_proofs | theorems about the adapters | ExchangeAdapter |
| OrderPath_proofs | theorems about the order path and the signal contract | OrderPath |
| CodegenPipeline_proofs | theorems about the deployment engine and the pipeline | CodegenPipeline |
| LlmClient_proofs | theorems about the LLM client | LlmClient |

`MC*` modules give the constants their values. A definition named `X_Slip...`
is a plausible slip in the code behind `X`, used only to show that a property
would notice it; no specification refers to one. AgentCommunication and
BrokerRouter name their Init, Next, Spec and TypeOK after themselves
(CommunicationSpec, RouterSpec), so that one module of proofs can extend them
beside another component.

### How state and actions correspond to the code

*Control plane.* `identity` is AgentRegistry._agents as a status per id. `tasks`
and `available` are the scheduler's `_tasks` and `_resources.available`; the
trail is the number of audit events per task and action, which is all the sink's
content that tells two histories apart. A scheduler call is one step: it calls
nothing back but the sink. `execute()` is two steps, `Execute` and
`BehaviorEnds`, because the behavior runs between the look at the task and
its end, and may itself call the control plane. Calls the code answers with an
exception and no change are disabled actions; those that leave an audit event
are actions of their own (`SubmitRejected`, `StartRejected`, `FinishRejected`).

*Communication.* `Create`, `SendRegistered`, `SendObject` and `Reject` are the
engine's methods. A message object whose id is registered stands for the
registered message; any other object is used as it is. `events` is the in-memory
sink, `rows` the database table with event_id as its primary key.

*Memory and gateway.* A caller is a process with one call at a time; each request
to the database is a step, so callers interleave between requests. A request may
fail before or after it took effect, and the storage answers both with nothing,
None or False, as memory_storage.py does. `forget` is therefore
`BeginForget`, `Judge`, `Remove`; the gateway wraps it in `GatewayForget` and
`GatewayForgetReturns` with its own audit events, the last of them made of the bool that `forget`
returns (`returned`). The gateway's process has one call at a time; its registry
and permissions have no lock and may change at any moment of it. `writes` counts
the upserts of an id, and a call keeps that count as it was when the sweep and
when `forget` read the row (`sweptAt`, `judgedAt`): with it a property can say
whether a row was written in between.

*Broker.* `Publish` holds the transport's read lock and is one step. /subscribe
is `Lookup`, `Create`, `Drain`, one per lock it takes. The goroutine of a
subscription is `Receive` (channel to hand) and `Push` (hand to buffer).
`Close` and `Exit` are the two ends of the shutdown. A publisher sends a message
again only after an error.

*IPC pipe.* The three selects of `Write` are `Try`, `Evict`, `Retry`; a loop is
`Take`, `Forward`, `EndLoop`; the listener is `Accept`, `ReadFrame`,
`EndConnection`. A frame on a connection is whole or cut short; after a cut the
reader takes other bytes for a length and a frame, and finds a boundary again
only by chance (`garbled`). It reads a payload without a timeout, so it may also
wait for ever for the rest of a frame. `Write` and `WriteRaw` have the same three
selects and differ in the bytes they send, which are `Content` serialised by
FrameFormat; what parse_frame makes of them is compared with what was meant.

*Exchange adapters.* A call is a program counter per caller. The mutex is held in
`Holding`, from the dial to the end of a resubscription with the wait for a token
included, and free while a frame is read. Connect, Subscribe, ReadFrame and Close
begin when they get the mutex: that it is free is a guard of their first step,
and the only wait for it that is a stage of a call is the one of a ReadFrame that
has an error to report (`MarkDown`). Connections are numbered; `live` are
those neither side has closed, `subs` what the exchange was asked for on each.
The bucket counts in units, Cost of them a token, one gained per Tick, so that
fractions of a token exist. okx.go is the same code with other constants and a
loop that skips pong frames.

*Router.* Route and Flush hold the Router's mutex throughout and are one step
each. natsPublish is external: a message may arrive although an error or a
timeout comes back, and only a nil promises that it did. A caller told of a
timeout may route its message again. `messages` is the buffer's slice; what a
Flush puts back are the messages of it at some places, in their order
(`AtPlaces`).

*Strategy signals.* A payload is a record of value classes, one per distinction
that Python, Go or Rust makes: a confidence that is a number, a string or absent;
a symbol with a trailing newline, which Python's `$` accepts; metadata that is
null or holds other than strings; parameters that hold a NaN, which json.dumps
writes as no JSON. `Payload` are all those that differ in at most two fields from
an ordinary one. Confidence counts half basis points, so that the rounding in
conversions.rs shows; what is a half in decimal may lie on either side of it as a
product of f64 (0.50045 * 10000.0), so `confidence_bps` is the set of both results.

*Order path.* f64 is an integer or NaN, with which every comparison is false.
`AdmitOrder` is admit_order with the event it emits; `BrokerAccepts` is what the
Go broker makes of that event: serde writes an f64 with a fraction (NaN as
null), Go's int64 fields take neither fraction nor exponent.

*Deployment and pipeline.* Each file operation of deploy() is a step and may
raise, leaving the destination untouched or torn; the audit write may raise after
the entry is in memory, also that of the pipeline's own entries; a file that
cannot be read counts as invalid; the process may die. `AuthorWrites` is the author of the
files between two calls. The pipeline is one thread:
`BeginAttempt`, `GenerateModule`, `GenerateTest` or `SkipTest`, `WriteManifest`, `Validate`, `Judge`, `HumanGate`, then
the deployment's steps per file. The generator writes straight into the target
folder, so artifact and target are the same file. Contents are good, bad, empty
or torn; the score is kept as far as it decides between pass, retry and
escalation.

*LLM client.* Each critical section (breaker, rate limit, cache, semaphore) is a
step, and so is a call of the provider. Time is what may pass between two steps:
`BreakerCools`, `MinutePasses`, `EntryExpires`. `Restart` reads the cache's file
back and looks for the restriction rules again. `Calls` are what callers ask for, a
method and a prompt. generate_code and analyze_security take the same steps but for
the first, in `AllowRequest`: only generate_code asks the guard. A prompt is what
the guard's rules see of it: matching categories and the counts of both kinds of
indicators.

## 3. Runs

Every passing run finishes within five minutes with two workers.

| run | instance | shows |
|---|---|---|
| MCAgentExecution | 2 agents, 2 calls, 2 tasks, units 2 and 4, capacity 3, initially 2 | UnitsConserved, FinishNeverOverflows, TrailMatchesTasks, ResultMatchesTask, OneResultPerTask, FinalStatusIsFinal, TerminatedOnlyReleases, StrandedHeadStays; liveness ExecutedTaskReleases |
| MCAgentCommunication | 2 agents, 1 message, 3 sends, a database that loses rows | DeliveredOnce, TrailBalanced |
| MCAgentGateway | 1 agent, the gateway and one other process, 2 writes of a base id and 1 of its derived one | ForgetTrailIsTruthful, DeletedAtMostOnce, OnlyTheWindowMisleads |
| MCMessageBroker | 2 topics, 3 messages of one, a malformed one, 2 subscribers, channel and buffer of 1 | RefusedIsNotDelivered, ImplementsLossyTopic; liveness ReachesTheBuffer |
| MCBrokerRouter | 4 messages, buffer of 2, 2 arrivals of a message | AcceptedIsKept, TwiceOnlyUnacked |
| MCExchangeAdapter | 2 callers, 2 symbols, burst 1, 2 ticks per token, 2 connections | RateRespected, SubscriptionsRestored; liveness CallReturns |
| MCIpcPipe | 2 writers, 3 frames (traced with a tag of 33 bytes, legacy, untraced), buffer of 1, 2 connections | FramesAccounted, ReceivedAsWritten; liveness BufferMovesOn |
| MCOrderPath | results and quantities -2..1 and NaN, 4 trades between resets, limits 2 losses and 3 units, 6 confidences around both ends | BreakerMatchesHistory, HaltedUntilReset, SignalsAgree |
| MCDeployment | 2 paths, 2 good contents and a bad one, calls until the log has 3 entries | RecordIsTrue, OverwrittenIsBackedUp, LastEntryIsTheRecord |
| MCCodegenPipeline | Go, a module, its test and the manifest, 2 runs, 5 attempts | DeployedAsJudged, ListedIsFresh, DeployedAfterApproval; liveness RunEnds |
| MCLlmClient | 2 threads, 1 permit, rate limit 2, threshold 2, cache of 1 entry, an allowed and a withheld prompt of one category for generate_code and the withheld one for analyze_security, restarts with and without rules | PermitsConserved, OpenIffThresholdReached, WithheldNotGenerated; liveness RequestEnds |
| MCFramesIntact | violated | a frame made of two reaches the engine (writer.go:103) |

TypeOK is stated in every module and is not among the properties of the runs: it
is proved for each of them (section 4), as a theorem or as part of the inductive
invariant.

### Why the bounds are enough

Two callers of everything that races (execute calls, subscribers, writers,
threads, processes on the database) make each pairwise interleaving happen, and
the code treats callers alike. Sizes are the smallest at which each limit is
both reached and left: a channel and a buffer of 1 fill, refuse and drain; a
pool of 2 of 3 units admits a task of 2, keeps the second waiting and refuses one of 4
at submission; one permit makes the second thread wait and time out;
three frames over a buffer of one produce the eviction that loses its place to
another writer; four messages over a Router's buffer of two are evicted, flushed
partly and evicted again; a bucket of one token at two ticks each has whole, half
and no tokens. Two pipeline runs show what the first leaves behind for the
second. Five attempts are the code's own number (self_correcting_loop.py:120).
Two writes of an id in MCAgentGateway are a row and what replaces it, before, between
and after the reads and the DELETE of a forget. Its constraint Bound gives the derived
id one write, begins with a running agent and does not follow one that comes back from
a suspension, which changes nothing for a forget under way.
MaxRejections, MaxSends, MaxEvents, MaxTrades, MaxConnects, MaxFrames, MaxRuns,
MaxAuditLogs, MaxMessages, MaxArrivals and MaxConns only bound counters and sequences of the model.
CHECK_DEADLOCK FALSE is set where the system may really stop: clients stop
calling, all tasks are final, or the process has exited.

### Fairness

- ExecutedTaskReleases: weak fairness of each call's end. A behavior that never
  returns blocks execute() for ever; the property is about those that do.
- ReachesTheBuffer, BufferMovesOn: the Go scheduler runs a goroutine that can
  move; a socket write returns within its deadline. Nothing is assumed of the
  listener, which may stay in a read without a timeout.
- RunEnds: run_pipeline is one thread, and waits only for the human.
- RequestEnds: threads are scheduled; API calls have a timeout and counted
  retries; the wait for a permit has a timeout.
- CallReturns: time passes (Tick); dials and writes end, one way or the other;
  a caller that polls the bucket goes on polling; taking the mutex to report a
  read error is strongly fair, because Go's mutex hands itself to a waiter that
  was passed over for a millisecond. Nothing is assumed about frames arriving
  or contexts being cancelled.

No fairness is assumed of callers, the human, the network or the database.

## 4. Proofs

Each module of proofs holds, for every value of the constants its assumptions
allow, the properties of its components' runs. 9819 obligations in all.

| module (obligations) | theorem | statement |
|---|---|---|
| AgentExecution_proofs (807) | TypeCorrect | Spec => []TypeOK |
|  | Conservation | Spec => []UnitsConserved |
|  | NoOverflow | Spec => []FinishNeverOverflows |
|  | Finality | Spec => FinalStatusIsFinal |
|  | TerminatedReleases | Spec => TerminatedOnlyReleases |
|  | StrandedHead | Spec => StrandedHeadStays |
|  | ResultsAreTrue, ResultsAreUnique | Spec => []ResultMatchesTask, Spec => []OneResultPerTask |
|  | TrailIsFaithful | Spec => []TrailMatchesTasks |
|  | NeverDeliveredTwice | CommunicationSpec => []DeliveredOnce |
|  | EverySendHasAnEnd | CommunicationSpec => []TrailBalanced |
| AgentGateway_proofs (832) | TypeCorrect | GatewaySpec => []GatewayTypeOK |
|  | NeverDeletedTwice | GatewaySpec => []DeletedAtMostOnce |
|  | WindowOnly | GatewaySpec => OnlyTheWindowMisleads |
|  | MemoryAlone | both, of MemorySpec |
|  | TrailIsTruthful | GatewaySpec => []ForgetTrailIsTruthful |
| MessageBroker_proofs (2556) | TypeCorrect | Spec => []TypeOK |
|  | RefusedStaysOut | Spec => []RefusedIsNotDelivered |
|  | Implementation | Spec => ImplementsLossyTopic, the refinement |
|  | AcceptedStays | RouterSpec => []AcceptedIsKept |
|  | NeverTwiceAcknowledged | RouterSpec => []TwiceOnlyUnacked |
|  | RouterTypes | RouterSpec => []RouterTypeOK |
| IpcPipe_proofs (2385) | FrameRoundTrip | parse_frame gives back what SerializeFrameTraced was given, an ASCII tag cut to 32 bytes |
|  | TypeCorrect | Spec => []TypeOK |
|  | EveryFrameCounted | Spec => []FramesAccounted |
|  | GivenAsWritten | Spec => []ReceivedAsWritten |
| ExchangeAdapter_proofs (708) | TypeCorrect | Spec => []TypeOK |
|  | Restored | Spec => []SubscriptionsRestored |
|  | NeverTooFast | Spec => []RateRespected |
| OrderPath_proofs (654) | TypeCorrect | Spec => []TypeOK |
|  | BreakerIsExact | Spec => []BreakerMatchesHistory |
|  | CheckersAgree | Spec => []SignalsAgree |
|  | StaysHalted | Spec => HaltedUntilReset |
| CodegenPipeline_proofs (1378) | RecordCorrect | DeploymentSpec => []RecordIsTrue |
|  | BackedUpFirst | DeploymentSpec => []OverwrittenIsBackedUp |
|  | TrailEndsWithRecord | DeploymentSpec => []LastEntryIsTheRecord |
|  | TypeCorrect | Spec => []TypeOK |
|  | DeployedWasJudged | Spec => []DeployedAsJudged |
|  | ListIsOfThisAttempt | Spec => []ListedIsFresh |
|  | ApprovedFirst | Spec => []DeployedAfterApproval |
| LlmClient_proofs (499) | TypeCorrect | Spec => []TypeOK |
|  | Conservation | Spec => []PermitsConserved |
|  | BreakerConsistent | Spec => []OpenIffThresholdReached |
|  | Enforcement | Spec => []WithheldNotGenerated |

### What is assumed

Only the named assumptions of the modelled modules, which TLC evaluates on every
run.

- Sizes and limits are positive where the code's constructors or constants make
  them so: SchedulerResources validates 0 <= available <= capacity,
  CircuitBreakerConfig.validate asks for a positive number of losses, NewWriter,
  the broker's channels and buffers, the token bucket, the semaphore and the
  cache are made with positive constants.
- Task ids are numbers, because next_task compares them; sizes of tasks are
  positive, because AgentTask's field is.
- The modules a specification lists are different files, none of them named like
  a test (_test.go) or the manifest (go.mod, Cargo.toml).
- Classes of contents, and markers for "no file" or "no frame", are distinct
  values of the model.
- Callers of the pipe are finitely many. Everything else (agents, threads,
  clients, topics, symbols, tasks, messages) may be infinite.
- The bounds that cap counters (MaxTrades, MaxFrames, ...) are any naturals: what
  is proved holds for histories of every length.

### The inductive invariants

*Scheduler and execution engine.* TaskSteps reduces a step to four shapes:
nothing changes but perhaps an audited refusal, or a submit, a start, a finish.
Conservation is stated on the set of units held (pairs of a task and a number),
so that a start adds a disjoint block and a finish removes one; it is inductive
only together with the finiteness of that set (UnitsInv), without which its
cardinality means nothing. NoOverflow follows: the units of a running task are
among those held, so returning them cannot exceed InitialAvailable. The results
are inductive together with "no outcome before the call is done" (ResultsInv):
the call that ends gives its outcome and its task the same status, and that
status is final. StrandedHead needs no more than types: what could remove the
head is a start or a finish, and both ask for what a queued task of a terminated
agent lacks.

*Communication.* DeliveredOnce and TrailBalanced are inductive together
(CommunicationInv), taken message by message (Balanced): a second delivery is
excluded by the status the first one left, and the balance counts a rejection as
a request without one.

*Memory and gateway.* Between the judgement of a record and its deletion any
other process may write the row, or delete it. MemoryInv says of every call what
it may rely on until then (Safe): while the row's count of writes is the one it
saw when it judged, what is there is what the judgement allows, or nothing; while
it is the one the sweep saw, it is working memory, or nothing; and a call that has
not deleted yet has removed nothing. Deletions need no count, because a row they
empty misleads nobody. Every request to the database is one of three effects
(EffectTypes, EffectIsSafe), so each action is checked against those only.
OnlyTheWindowMisleads is then a fact about the one step that removes
(WindowOfRemoval). HostInv adds what a forget of the gateway has to show: its
record in the trail and the bool it returned agree, and TRUE is a removed record.

*Broker.* BrokerInv keeps every topic at no or one subscription, of one channel
and one hand (Shape), which is what the second look under the map's lock is for,
and says of everything held that its publisher was told "ok" (Answered). The
refinement maps the channel, the hand and the buffer of a topic, joined, to the
pending messages of LossyTopic. StepOfBroker shows it step by step: Publish
appends or is refused; Receive and Push move a message within the queue and
leave it as it is, or drop at the front when the buffer is full; Drain hands out
a prefix; everything else stutters.

*Router.* RouterInv says that what was pushed out, followed by what waits, stands
in the order of acceptance (InTurn), and counts for every message arrivals and
unacknowledged arrivals (Counts): they are equal while the message may still be
published, and differ by at most one afterwards. A Flush that partly fails keeps
the messages at the failed places; AtPlacesPicks shows that those are exactly the
messages that failed, in their order. It rests on Enumeration, that a finite set
of places can be listed in increasing order, proved by induction on its size.

*Pipe.* AccountInv is an account of the accepted frames: waiting, in a loop's
hands, or in one counter; and of the calls: accepted, refused or under way.
Every action is an entry in that account (Changes, Balances). FlowInv is about
order, for the ways of a frame from Write to the engine: accepted, waiting, in
the hands of a loop, on a connection, given. A frame is at one of them, once, and
everything further along was accepted sooner; with a second connection, where
the loops really overtake each other, only "different from" is left of that
(Sooner). FrameRoundTrip composes serializer and parser over any payload and any
trace, one length byte at a time (PartsOfFrame, TracedIsRead, UntracedIsRead), and rests on
AsciiIsUtf8 for the parser's check of the tag.

*Adapters.* AdapterInv has three parts besides types. Exclusive: one caller holds
the mutex. Asked: SubscriptionsRestored without its exception for the caller
that is just subscribing. Paid: between the i-th write and now, the writes since,
the token taken and not spent (Debt) and what the bucket would take to be as it
is are covered by the burst and the ticks since then; RateRespected alone is not
inductive, because it knows neither the bucket's level nor the pending write.

*Order path.* BreakerInv: the counter is the length of the run of losses at the
end of the history, the accumulator is the sum of all losses, and while the
breaker is closed both are below their limits. That the sum satisfies its
recursive equation is proved by induction over the number of trades, for the set
of numbers for which it does (SetInduction, SumExists). SignalsAgree goes over
the fields of one payload (OnePayloadAgrees), with the rounding in a lemma of its
own. HaltedUntilReset follows from the same invariant.

*Deployment and pipeline.* DeploymentInv says what a call of deploy() knows at
each stage (AtStage): that a backup, if there is one, is the previous content,
from which stage on the target is the source, and what the handler has restored.
PipelineInv adds what the pipeline knows: what is listed was written in this
attempt (AllFresh, ListedIsWritten), what passed is good (JudgedIsGood), and the
folder is what was judged until a deployment fails (FolderAsJudged), because
files are deployed onto themselves (OntoItself) and none is empty, so that even
the backup and the install of deploy() put back what was there.

*LLM client.* Permits are conserved together with the finiteness of the set of
threads that hold one. WithheldNotGenerated is inductive with the types: a call
begins under the rules it is judged by, since only a restart looks for them again
and ends every call; AllowedIsNotWithheld compares the guard's decision, first
category and intent, with the definition of a withheld prompt.

### What is only model-checked

The six liveness properties (ExecutedTaskReleases, ReachesTheBuffer,
BufferMovesOn, RunEnds, RequestEnds, CallReturns): the prover has neither
fairness nor ENABLED. The formulas of section 5 are refuted, not proved. No
invariant and no action property of a run is left to TLC alone.

## 5. Known disagreements between the code and what it says

FramesIntact is a run that TLC refutes (section 3). The others are stated as
formulas in the modules: adding one to the configuration of its module's run shows
the counterexample; those of MemorySystem go into MCAgentGateway.cfg.

| formula (module) | the code | what it contradicts |
|---|---|---|
| DatabaseShowsDelivery (AgentCommunication, with ReliableDatabase) | communication/engine.py:41 uses the message id as event id, the table's primary key, so only the first event is stored | docs/task_specs/audit_sink.md:61 "Query by event_id returns complete trail" |
| OnlyCreatedAreSent (AgentCommunication) | communication/engine.py:82-88: an object whose id is not registered is sent as it is, whatever its status | engine.py:86 "Only created messages may be sent." |
| ProceduralNeverAutomatic (MemorySystem) | forgetting/engine.py judges at :58 and deletes by id at :94 | :27 "procedural memory is never automatically forgotten" |
| SemanticNeverAutomatic (MemorySystem) | forgetting/engine.py:202-205 asks for a policy id only | governance/policies/memory/lifecycle-policy.yaml:38 "automatic: prohibited" |
| AuditedWithTheRealResult (MemorySystem) | memory_storage.py:102-107: a delete that took effect and lost its answer is False | forgetting/engine.py:28 "every attempt is audited with the real result" |
| CaptureAuditedAsStored (MemorySystem) | memory_storage.py:58-61 swallows the error of a store | experience_engine/engine.py:60 "Audits SUCCESS on store, FAILURE on any error." |
| OutcomesReachTheBroker (OrderPath) | memory_events.rs:21: quantity and price are f64, written with a fraction; envelope.go:52 reads int64 and refuses | execution/tests/prod_memory_pipeline.rs:41 "Failed to send execution outcome" |
| CreatedIsAccepted (OrderPath) | contract_adapter.py:106,170: create() takes parameters of any value, and json.dumps writes a NaN as NaN, which Go and Rust refuse; a symbol with a trailing newline passes `$` | contract_adapter.py:8 "Both enforce identical validation rules" |
| IdenticalRules (OrderPath) | contract_adapter.py reads a confidence given as a string, accepts a symbol with a trailing newline, null or mixed metadata and an absent timestamp; contract_types.rs does not | contract_adapter.py:8 "Both enforce identical validation rules" |
| OldVersionSurvives (Deployment, MCDeployment.cfg) | deployment.py:116 rolls back with no backup path when making the backup raised, and removes the target | deployment.py:140 "No backup means file didn't exist before" |
| LegacyStillValid (IpcPipe) | ipc_parser.rs:117 takes the first byte of every frame for flags; frame.go:26 writes none | contracts/schemas/ipc-binary-v1.spec.yaml:76 "Backward-compatible: frames WITHOUT trace header still valid" |
| DocumentedRate (ExchangeAdapter) | ratelimit.go: the burst comes on top of the sustained rate | bybit.go:8 "10 ops/sec subscribe" |
| RecoversAll (ExchangeAdapter) | bybit.go:98 replaces the remembered symbols at each Subscribe | bybit.go:9 "State recovery with automatic re-subscribe" |
| DownMeansDead, ClosedStaysClosed (ExchangeAdapter) | bybit.go:142-148: the error of a read on an old or closed connection marks the adapter as reconnecting; Close then does nothing and the new connection stays open | bybit.go:147 "reconnecting" |
| DropIsReported (BrokerRouter) | validator.go:152: Add drops the oldest message and returns nil | validator.go:21 "ErrBufferFull indicates the buffer is full and the message was dropped." |
| TimeoutIsRejected (BrokerRouter) | validator.go:219: a publish that timed out may have arrived | docs/task_specs/go_broker.md:39 "Timeout (>5s): reject + error response" |
| ArrivesInOrder (BrokerRouter) | validator.go:213 publishes a new message while older ones wait in the buffer | no line promises the order; listed because a reader would expect it |
| WithheldNeverGenerated (LlmClient) | restriction_guard.py:70: without the rules file every prompt passes | llm_client.py:118 "§17 enforcement" |
| WithheldNeverAnalyzed (LlmClient) | llm_client.py:215-241: analyze_security sends the code it is given without asking the guard | atlas_agent/README.md:34 (MUST NOT) "Send source code, strategies, or market data to external LLM providers" |
| NoSilentDrop (IpcPipe) | writer.go:112-133: Close leaves frames in the buffer, uncounted | writer.go:5 "NEVER silently drop frames" |
| AdmittedQuantityIsPositive (OrderPath) | execution/src/types.rs:38: NaN <= 0.0 is false | :39 "quantity must be > 0" |
| KillSwitchBlocks (OrderPath) | order_manager.rs:62 asks the breaker only | docs/task_specs/risk_engine.md:25 "Kill Switch: if active -> BLOCK all signals" |
| ModelIsRestored (CodegenPipeline) | orchestrator.py:71-81 restores without a finally | :80 "Restore primary model" |
| PreviousVersionSurvives (CodegenPipeline) | generator.py:211 overwrites the target before any backup or approval | deployment.py:4 "Backup existing files before overwrite" |
| ExperiencesFollowTheDecision (CodegenPipeline) | generator.py:232 records APPROVED and nothing updates it | :232 "Tentative - orchestrator updates after human gate" |
| DeployedExitsWithZero (CodegenPipeline) | cli.py:37 tests for "approved"; a complete run is DEPLOYED | cli.py:38 "Pipeline completed successfully!" |
| CachedUnderItsModel (LlmClient) | llm_client.py:208 stores the fallback's answer under self.model | llm_cache.py:4 "Hash-based cache key (prompt + model + temperature)" |

Also met and not modelled: the breaker's cooldown is configured and never read
(docs/task_specs/risk_engine.md:26 "BLOCK until cooldown complete");
governance.scan_for_secrets is never called; the pipeline audits
"pipeline_success" before the human gate; the LLM contract's rate_limit_rpm is
10 and the code's 20; strategy_audit_logger.py:38 imports SupabaseAuditSink, which
database_sink.py does not define (its class is DatabaseAuditSink), so both of its
functions swallow an ImportError and record nothing, where
docs/task_specs/audit_sink.md:57 says "Every strategy signal produces exactly one
audit record" (the tests replace the factory); the Router's Validate asks for a
payload with a type field in base64, which no signal of the Python adapter has and
contract_types.rs, with deny_unknown_fields, would refuse; restriction_guard.py:254
says "Layer 2 will validate output" and nothing calls Layer 2; trace.go reads the
time before it takes the sequence number, so trace ids of concurrent reads may sort
differently from their numbers.

## 6. What the abstractions leave out

Texts, ids, prompts and code are model values; logging, printing and formatting
are left out except where a number crosses from Rust to Go or bytes from Go to Rust.
Timestamps appear only as what may have expired. Scores and findings are kept as
far as they decide a branch.

## 7. Not modelled, and the plan

Not modelled, with the reason:

- the runtime state manager: one guarded assignment against a transition table,
  which nothing calls; a model would restate the table;
- risk assessment, exposure and position limits: pure functions of one comparison
  each, called by nothing;
- typed-store and retrieval filters: read only;
- the experience subscriber: unfinished, its constructor breaks off;
- the strategy audit logger: it records nothing as it stands (section 5);
- the code patcher: marked experimental, reached by no path of the pipeline;
- Layer 2 of the restriction guard: called by nothing; the patterns of Layer 1
  are text;
- the agent_decision payload of the broker and the envelope's own fields: no
  producer in the repository sends the first, and every producer modelled fills
  the second;
- trace ids, configuration, secrets, market data types, the mock execution
  connector: no state that steps of two actors could disagree about;
- developer tools under tools/ and scripts/, generated code under output/.

The control plane came first because everything else asks it, then memory and
gateway, broker and IPC pipe, order path and the code agent, then exchange
adapters, Router, signal contract and frame format. The proofs followed in the
order of the modules' size. What is left:

1. proofs that the disagreements of section 5 disappear where the code's own
   condition for them does: order of arrival at NATS while no publish fails
   (ArrivesInOrder), the rows of the database sink when event ids differ;
2. the deployment engine as an abstract transaction (previous or new version,
   or an error) that DeploymentInv refines;
3. the runtime state manager and the strategy audit logger, once something in the
   repository uses them.
