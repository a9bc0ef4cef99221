----------------------------- MODULE BrokerRouter -----------------------------
(***************************************************************************)
(* Validator, Buffer and Router of services/message_broker/validator.go:   *)
(* a validated message is published to NATS or, when that fails, kept in a *)
(* bounded buffer that Flush publishes again.  The broker's main does not  *)
(* use the Router yet.                                                     *)
(*                                                                         *)
(* natsPublish is a callback whose answer may differ from what NATS did:   *)
(* a message can arrive although an error or a timeout comes back.  Route  *)
(* and Flush hold the Router's mutex throughout, publishing included, so   *)
(* each of them is one step.  Messages are numbered in the order they are  *)
(* first routed; a caller told of a timeout may route its message again.   *)
(***************************************************************************)
EXTENDS Integers, Sequences, FiniteSets, SequencesExt

CONSTANTS
  BufferSize,        \* Buffer.maxSize
  MaxMessages,       \* bound: messages
  MaxArrivals        \* bound: arrivals of one message at NATS

ASSUME BufferSizeAssumption == BufferSize \in Nat \ {0}
ASSUME RouterBoundsAssumption == MaxMessages \in Nat /\ MaxArrivals \in Nat

Numbers == 1 .. MaxMessages

VARIABLES
  routed,            \* messages routed so far: the number of the latest
  publisher,         \* natsPublish is not nil
  messages,          \* Buffer.messages, oldest first
  accepted,          \* messages whose Route returned nil, in order
  timedOut,          \* messages whose latest Route returned ErrTimeout
  evicted,           \* messages Add pushed out of a full buffer, in order
  arrived,           \* messages at NATS, in the order they first arrived
  arrivals,          \* how often every message reached NATS
  unacked            \* arrivals for which natsPublish returned an error

routerVars == <<routed, publisher, messages, accepted, timedOut, evicted, arrived, arrivals, unacked>>

-----------------------------------------------------------------------------
(* Validate: the first defect decides the error.  The deadline is looked   *)
(* at first and last.                                                      *)
Checks == << [defect |-> "deadline_passed", error |-> "ErrTimeout"],
             [defect |-> "malformed", error |-> "ErrInvalidEnvelope"],
             [defect |-> "wrong_version", error |-> "ErrInvalidEnvelope"],
             [defect |-> "empty_payload", error |-> "ErrInvalidPayload"],
             [defect |-> "malformed_payload", error |-> "ErrInvalidPayload"],
             [defect |-> "wrong_type", error |-> "ErrInvalidPayload"],
             [defect |-> "deadline_reached", error |-> "ErrTimeout"] >>

Envelopes == {{}} \cup {{check.defect} : check \in Range(Checks)}

Validate(defects) ==
  LET failed == SelectSeq(Checks, LAMBDA check : check.defect \in defects)
  IN  IF failed = <<>> THEN "nil" ELSE Head(failed).error

-----------------------------------------------------------------------------
(* What a call of natsPublish did and what it answered.                    *)
Outcome == [arrived : BOOLEAN, err : {"nil", "timeout", "error"}]

Possible(m, o) ==
  /\ o.err = "nil" => o.arrived
  /\ o.arrived => arrivals[m] < MaxArrivals

(* The elements of a sequence at some of its places, in their order.       *)
AtPlaces(sequence, places) ==
  LET place == CHOOSE f \in [1 .. Cardinality(places) -> places] :
                 \A i, j \in DOMAIN f : i < j => f[i] < f[j]
  IN  [k \in 1 .. Cardinality(places) |-> sequence[place[k]]]

Increment(count, some) ==
  [m \in Numbers |-> IF m \in some THEN count[m] + 1 ELSE count[m]]

(* Messages are published in sequence, each with its own outcome; no       *)
(* message occurs twice in a sequence.                                     *)
Published(sequence, outcome) ==
  LET reached == {i \in DOMAIN sequence : outcome[i].arrived}
      lostAck == {i \in reached : outcome[i].err # "nil"}
      first == {i \in reached : arrivals[sequence[i]] = 0}
  IN  /\ arrived' = arrived \o AtPlaces(sequence, first)
      /\ arrivals' = Increment(arrivals, {sequence[i] : i \in reached})
      /\ unacked' = Increment(unacked, {sequence[i] : i \in lostAck})

(* Buffer.Add: a full buffer loses its oldest message, silently.           *)
Add(m) ==
  /\ messages' = Append(IF Len(messages) >= BufferSize THEN Tail(messages) ELSE messages, m)
  /\ evicted' = IF Len(messages) >= BufferSize THEN Append(evicted, Head(messages))
                ELSE evicted

(* Route after Validate, for a new message or one that timed out.  A       *)
(* timeout is reported and the message is not buffered; any other error    *)
(* is answered with nil once the message is in the buffer.                 *)
Route(m, o) ==
  /\ \/ publisher /\ Possible(m, o) /\ Published(<<m>>, <<o>>)
     \/ ~publisher /\ o = [arrived |-> FALSE, err |-> "error"]
                   /\ UNCHANGED <<arrived, arrivals, unacked>>
  /\ \/ /\ o.err = "timeout"
        /\ timedOut' = timedOut \cup {m}
        /\ UNCHANGED <<accepted, messages, evicted>>
     \/ /\ o.err # "timeout"
        /\ accepted' = Append(accepted, m) /\ timedOut' = timedOut \ {m}
        /\ \/ o.err = "nil" /\ UNCHANGED <<messages, evicted>>
           \/ o.err = "error" /\ Add(m)
  /\ UNCHANGED publisher

RouteNew(defects, o) ==
  /\ Validate(defects) = "nil"
  /\ routed < MaxMessages
  /\ routed' = routed + 1
  /\ Route(routed + 1, o)

RouteAgain(m, o) ==
  /\ m \in timedOut
  /\ Route(m, o)
  /\ UNCHANGED routed

(* Flush: drain the buffer, publish in order, buffer again what failed.    *)
(* Every error counts, the end of the context included.                    *)
Failed(outcome) == AtPlaces(messages, {i \in DOMAIN messages : outcome[i].err # "nil"})

Flush_SlipNoRebuffer(outcome) ==        \* what failed is not buffered again
  /\ messages # <<>> /\ publisher
  /\ \A i \in DOMAIN messages : Possible(messages[i], outcome[i])
  /\ Published(messages, outcome)
  /\ messages' = <<>>
  /\ UNCHANGED <<routed, publisher, accepted, timedOut, evicted>>

Flush_SlipNotDrained(outcome) ==        \* one failure keeps the whole buffer
  /\ messages # <<>> /\ publisher
  /\ \A i \in DOMAIN messages : Possible(messages[i], outcome[i])
  /\ Published(messages, outcome)
  /\ messages' = IF Failed(outcome) = <<>> THEN <<>> ELSE messages
  /\ UNCHANGED <<routed, publisher, accepted, timedOut, evicted>>

Flush(outcome) ==
  /\ messages # <<>> /\ publisher
  /\ \A i \in DOMAIN messages : Possible(messages[i], outcome[i])
  /\ Published(messages, outcome)
  /\ messages' = Failed(outcome)
  /\ UNCHANGED <<routed, publisher, accepted, timedOut, evicted>>

-----------------------------------------------------------------------------
RouterInit ==
  /\ routed = 0
  /\ publisher \in BOOLEAN
  /\ messages = <<>> /\ evicted = <<>>
  /\ accepted = <<>> /\ timedOut = {}
  /\ arrived = <<>>
  /\ arrivals = [m \in Numbers |-> 0] /\ unacked = arrivals

RouterNext ==
  \/ \E defects \in Envelopes, o \in Outcome : RouteNew(defects, o)
  \/ \E m \in Numbers, o \in Outcome : RouteAgain(m, o)
  \/ \E outcome \in [DOMAIN messages -> Outcome] : Flush(outcome)

RouterSpec == RouterInit /\ [][RouterNext]_routerVars

-----------------------------------------------------------------------------
(* The types of the Router's state; the buffer keeps its bound and holds   *)
(* no message twice.                                                       *)
RouterTypeOK ==
  /\ routed \in 0 .. MaxMessages
  /\ publisher \in BOOLEAN
  /\ {Range(messages), Range(evicted), Range(accepted), timedOut} \subseteq SUBSET (1 .. routed)
  /\ Len(messages) <= BufferSize
  /\ IsInjective(messages)
  /\ {arrivals, unacked} \subseteq [Numbers -> 0 .. MaxArrivals]

(* Before(m, n): Route returned nil for m first.                           *)
Before(m, n) ==
  \E i, j \in DOMAIN accepted : i < j /\ accepted[i] = m /\ accepted[j] = n

(* AcceptedIsKept: a message whose Route returned nil has reached NATS,    *)
(* waits in the buffer, or was pushed out of it; a Flush that partly fails *)
(* loses none.  Messages are pushed out in the order they were accepted,   *)
(* and what is left is younger and in that order too, also after a Flush   *)
(* that put some of them back.                                             *)
AcceptedIsKept ==
  /\ \A m \in Range(accepted) :
       arrivals[m] > 0 \/ m \in Range(messages) \cup Range(evicted)
  /\ LET s == evicted \o messages
     IN  \A i, j \in DOMAIN s : i < j => Before(s[i], s[j])

(* TwiceOnlyUnacked: NATS has a message twice only if an earlier arrival   *)
(* was answered with an error.                                             *)
TwiceOnlyUnacked == \A m \in Numbers : arrivals[m] <= unacked[m] + 1

-----------------------------------------------------------------------------
(* What the documentation says and the code does not keep.                 *)

(* DropIsReported (validator.go line 21, "buffer full, message dropped"):  *)
(* a message is not dropped after its sender was told nil.  ErrBufferFull  *)
(* is never returned, and the message that goes is an earlier one.         *)
DropIsReported == \A m \in Range(evicted) : arrivals[m] > 0

(* TimeoutIsRejected (docs/task_specs/go_broker.md line 39, "Timeout (>5s):*)
(* reject + error response"): a message answered with ErrTimeout has not   *)
(* been published.                                                         *)
TimeoutIsRejected == \A m \in timedOut : arrivals[m] = 0

(* ArrivesInOrder: messages reach NATS in the order they were accepted.    *)
(* Route publishes directly while older messages wait for Flush, and Flush *)
(* goes on after a failure.                                                *)
ArrivesInOrder ==
  \A i, j \in DOMAIN arrived : Before(arrived[i], arrived[j]) => i < j
=============================================================================
