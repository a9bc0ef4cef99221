---------------------------- MODULE MessageBroker ----------------------------
(***************************************************************************)
(* The Go message broker (services/message_broker): main.go's two HTTP     *)
(* handlers and shutdown, and the channel transport under them.            *)
(*                                                                         *)
(* The topic of a message is its message_type, so a function of the        *)
(* message.  Publish holds the transport's read lock throughout and        *)
(* Subscribe and Close its write lock, so each is one step.  Of /subscribe *)
(* the unlocked look at the map, the locked creation and the drain are     *)
(* three steps; the goroutine behind a subscription takes a message from   *)
(* its channel in one step and pushes it into the buffer in another.       *)
(***************************************************************************)
EXTENDS Integers, Sequences, SequencesExt

CONSTANTS
  Topics,
  Messages,
  TopicOf,           \* envelope.MessageType of every message
  Valid,             \* the messages envelope.Validate accepts
  Clients,           \* concurrent requests to /subscribe
  ChannelSize,       \* DefaultBufferSize
  MaxSize            \* newSubscriberBuffer's bound

ASSUME TopicOfAssumption == TopicOf \in [Messages -> Topics]
ASSUME ValidAssumption == Valid \subseteq Messages
ASSUME SizesAssumption == ChannelSize \in Nat \ {0} /\ MaxSize \in Nat \ {0}

VARIABLES
  subs,              \* ChannelTransport.subs: the channels of every topic
  hand,              \* what the goroutine of every channel has just received
  closed,            \* ChannelTransport.closed
  buffers,           \* the topics main.go's map holds a buffer for
  buffer,            \* subscriberBuffer.messages of every topic
  request,           \* where every request to /subscribe stands
  answer,            \* the last status a message's publisher was given
  delivered,         \* what /subscribe has answered, per topic
  stopped            \* the process has exited

transportVars == <<subs, hand, closed>>
vars == <<subs, hand, closed, buffers, buffer, request, answer, delivered, stopped>>

Answers == {"none", "ok", "bad request", "internal error"}

-----------------------------------------------------------------------------
(* /publish.  ChannelTransport.Publish sends without blocking to every     *)
(* channel of the topic in turn and gives up at the first that is full.    *)
Full(t) == { k \in DOMAIN subs[t] : Len(subs[t][k]) >= ChannelSize }

Reached(t) ==
  { k \in DOMAIN subs[t] : \A full \in Full(t) : k < full }

Send(t, m) ==
  subs' = [subs EXCEPT ![t] = [k \in DOMAIN subs[t] |->
             IF k \in Reached(t) THEN Append(subs[t][k], m) ELSE subs[t][k]]]

(* A publisher sends its message once, and again only after an error.      *)
Publish(m) ==
  /\ ~stopped
  /\ answer[m] \in {"none", "internal error"}
  /\ \/ /\ m \notin Valid
        /\ answer' = [answer EXCEPT ![m] = "bad request"]
        /\ UNCHANGED subs
     \/ /\ m \in Valid /\ closed
        /\ answer' = [answer EXCEPT ![m] = "internal error"]
        /\ UNCHANGED subs
     \/ /\ m \in Valid /\ ~closed
        /\ Send(TopicOf[m], m)
        /\ answer' = [answer EXCEPT
             ![m] = IF Full(TopicOf[m]) = {} THEN "ok" ELSE "internal error"]
  /\ UNCHANGED <<hand, closed, buffers, buffer, request, delivered, stopped>>

-----------------------------------------------------------------------------
(* /subscribe: the look under the read lock ...                            *)
Lookup(c, t) ==
  /\ ~stopped
  /\ request[c].pc = "idle"
  /\ request' = [request EXCEPT ![c] =
       [pc |-> IF t \in buffers THEN "drain" ELSE "create", topic |-> t]]
  /\ UNCHANGED <<subs, hand, closed, buffers, buffer, answer, delivered, stopped>>

(* ... the creation under the write lock, after a second look, ...         *)
Create_SlipOneLook(c) ==                  \* no second look
  LET t == request[c].topic
  IN /\ ~stopped
     /\ request[c].pc = "create"
     /\ buffers' = buffers \cup {t}
     /\ buffer' = [buffer EXCEPT ![t] = <<>>]
     /\ subs' = [subs EXCEPT ![t] = Append(@, <<>>)]
     /\ hand' = [hand EXCEPT ![t] = Append(@, <<>>)]
     /\ request' = [request EXCEPT ![c].pc = "drain"]
     /\ UNCHANGED <<closed, answer, delivered, stopped>>

Create(c) ==
  LET t == request[c].topic
  IN /\ ~stopped
     /\ request[c].pc = "create"
     /\ \/ /\ t \in buffers
           /\ UNCHANGED <<buffers, buffer, subs, hand>>
        \/ /\ t \notin buffers
           /\ buffers' = buffers \cup {t}
           /\ buffer' = [buffer EXCEPT ![t] = <<>>]
           /\ subs' = [subs EXCEPT ![t] = Append(@, <<>>)]
           /\ hand' = [hand EXCEPT ![t] = Append(@, <<>>)]
     /\ request' = [request EXCEPT ![c].pc = "drain"]
     /\ UNCHANGED <<closed, answer, delivered, stopped>>

(* ... and the drain, whose content is the answer.                         *)
Drain_SlipKeeps(c) ==                     \* the buffer is not emptied
  LET t == request[c].topic
  IN /\ ~stopped
     /\ request[c].pc = "drain"
     /\ delivered' = [delivered EXCEPT ![t] = @ \o buffer[t]]
     /\ request' = [request EXCEPT ![c].pc = "idle"]
     /\ UNCHANGED <<subs, hand, closed, buffers, buffer, answer, stopped>>

Drain(c) ==
  LET t == request[c].topic
  IN /\ ~stopped
     /\ request[c].pc = "drain"
     /\ delivered' = [delivered EXCEPT ![t] = @ \o buffer[t]]
     /\ buffer' = [buffer EXCEPT ![t] = <<>>]
     /\ request' = [request EXCEPT ![c].pc = "idle"]
     /\ UNCHANGED <<subs, hand, closed, buffers, answer, stopped>>

-----------------------------------------------------------------------------
(* The goroutine of a subscription: it outlives Close until its channel is *)
(* empty.                                                                  *)
Receive(t, k) ==
  /\ ~stopped
  /\ k \in DOMAIN subs[t]
  /\ subs[t][k] # <<>> /\ hand[t][k] = <<>>
  /\ hand' = [hand EXCEPT ![t][k] = <<Head(subs[t][k])>>]
  /\ subs' = [subs EXCEPT ![t][k] = Tail(@)]
  /\ UNCHANGED <<closed, buffers, buffer, request, answer, delivered, stopped>>

(* subscriberBuffer.push: the oldest message makes room.                   *)
Pushed(messages, m) ==
  Append(IF Len(messages) >= MaxSize THEN Tail(messages) ELSE messages, m)

Push_SlipBlocks(t, k) ==                  \* a full buffer makes it wait
  /\ ~stopped
  /\ k \in DOMAIN subs[t]
  /\ hand[t][k] # <<>> /\ Len(buffer[t]) < MaxSize
  /\ buffer' = [buffer EXCEPT ![t] = Pushed(@, Head(hand[t][k]))]
  /\ hand' = [hand EXCEPT ![t][k] = <<>>]
  /\ UNCHANGED <<subs, closed, buffers, request, answer, delivered, stopped>>

Push(t, k) ==
  /\ ~stopped
  /\ k \in DOMAIN subs[t]
  /\ hand[t][k] # <<>>
  /\ buffer' = [buffer EXCEPT ![t] = Pushed(buffer[t], Head(hand[t][k]))]
  /\ hand' = [hand EXCEPT ![t][k] = <<>>]
  /\ UNCHANGED <<subs, closed, buffers, request, answer, delivered, stopped>>

-----------------------------------------------------------------------------
(* Shutdown: the transport is closed first, requests are still served, and *)
(* the process exits when they are done or five seconds have passed.       *)
Close ==
  /\ ~closed
  /\ closed' = TRUE
  /\ UNCHANGED <<subs, hand, buffers, buffer, request, answer, delivered, stopped>>

Exit ==
  /\ closed /\ ~stopped
  /\ stopped' = TRUE
  /\ UNCHANGED <<subs, hand, closed, buffers, buffer, request, answer, delivered>>

-----------------------------------------------------------------------------
Init ==
  /\ subs = [t \in Topics |-> <<>>]
  /\ hand = [t \in Topics |-> <<>>]
  /\ closed = FALSE
  /\ buffers = {}
  /\ buffer = [t \in Topics |-> <<>>]
  /\ \E t \in Topics : request = [c \in Clients |-> [pc |-> "idle", topic |-> t]]
  /\ answer = [m \in Messages |-> "none"]
  /\ delivered = [t \in Topics |-> <<>>]
  /\ stopped = FALSE

Goroutine(t) == \E k \in DOMAIN subs[t] : Receive(t, k) \/ Push(t, k)

Next ==
  \/ \E m \in Messages : Publish(m)
  \/ \E c \in Clients : (\E t \in Topics : Lookup(c, t)) \/ Create(c) \/ Drain(c)
  \/ \E t \in Topics : Goroutine(t)
  \/ Close
  \/ Exit

Spec == Init /\ [][Next]_vars

(* The Go scheduler runs a goroutine that can move.                        *)
FairSpec == Spec /\ \A t \in Topics : WF_vars(Goroutine(t))

-----------------------------------------------------------------------------
(* The types of all variables, and the bounds of the channel and of the    *)
(* buffer: a subscription never holds more than ChannelSize + 1 + MaxSize. *)
TypeOK ==
  /\ \A t \in Topics : \A k \in DOMAIN subs[t] :
       Len(subs[t][k]) <= ChannelSize /\ Len(hand[t][k]) <= 1
  /\ \A t \in Topics : Len(buffer[t]) <= MaxSize
  /\ closed \in BOOLEAN /\ stopped \in BOOLEAN
  /\ buffers \subseteq Topics
  /\ request \in [Clients -> [pc : {"idle", "create", "drain"}, topic : Topics]]
  /\ answer \in [Messages -> Answers]

(* A publisher that was refused can send again: whatever the broker holds  *)
(* or has handed out was answered with success, so no retry duplicates it. *)
Waiting(t) ==
  UNION ({Range(subs[t][k]) \cup Range(hand[t][k]) : k \in DOMAIN subs[t]}
           \cup {Range(buffer[t])})

RefusedIsNotDelivered ==
  \A t \in Topics : \A m \in Waiting(t) \cup Range(delivered[t]) :
    m \in Valid /\ TopicOf[m] = t /\ answer[m] = "ok"

(* The broker is a lossy topic: what waits is the buffer, then what the    *)
(* goroutine holds, then the channel.                                      *)
Queue(t) ==
  IF subs[t] = <<>> THEN <<>> ELSE buffer[t] \o hand[t][1] \o subs[t][1]

Topic == INSTANCE LossyTopic WITH
           Limit <- MaxSize, pending <- [t \in Topics |-> Queue(t)]

ImplementsLossyTopic == Topic!TopicSpec

(* No accepted message is stuck in a channel because nobody reads the      *)
(* topic: it reaches the buffer, unless the process exits.                 *)
ReachesTheBuffer ==
  \A t \in Topics, m \in Messages :
    (\E k \in DOMAIN subs[t] : m \in Range(subs[t][k]) \cup Range(hand[t][k]))
      ~> (stopped \/ m \in Range(buffer[t]) \cup Range(delivered[t]))

=============================================================================
