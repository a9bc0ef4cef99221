-------------------------- MODULE AgentCommunication --------------------------
(***************************************************************************)
(* The communication engine of the control plane                           *)
(* (intelligence/agent_control_plane/communication) with the registry it   *)
(* consults and the two audit sinks it may be given                        *)
(* (intelligence/agent_control_plane/audit).                               *)
(*                                                                         *)
(* send() takes a message id or a message object; an object whose id is    *)
(* registered stands for the registered message, any other object is used  *)
(* as it is.  A recipient the registry does not know is "the system".      *)
(* The in-memory sink is a list; records of one message differ in their    *)
(* action only, so it is a count per message and action.  The database     *)
(* sink inserts rows whose primary key is the event id, which for this     *)
(* engine is the message id, and swallows every error.                     *)
(***************************************************************************)
EXTENDS AgentLifecycle, Integers

CONSTANTS
  MessageIds,
  MaxSends,          \* bound: calls of send() that reach the audit, per id
  ReliableDatabase   \* TRUE: an insert fails on its primary key only

ASSUME MaxSendsAssumption == MaxSends \in Nat
ASSUME ReliableAssumption == ReliableDatabase \in BOOLEAN

VARIABLES
  policy,            \* CommunicationPolicy: what recipients are allowed
  messages,          \* _messages: registered ids to their message
  events,            \* InMemoryAuditSink._events, counted
  requestedAs,       \* metadata.message_status of the REQUESTED records
  rows               \* audit_events: the action of the row of an id, or "none"

engineVars == <<policy, messages, events, requestedAs, rows>>
communicationVars == <<identity, policy, messages, events, requestedAs, rows>>

MessageStatus == {"created", "delivered", "rejected"}

AgentMessage ==
  [sender_id : Agents, recipient_id : Agents, status : MessageStatus]

Registered == DOMAIN messages

Put(m, message) ==
  messages' = [i \in Registered \cup {m} |->
                 IF i = m THEN message ELSE messages[i]]

-----------------------------------------------------------------------------
(* DatabaseAuditSink.record: the row of the id after one more insert.      *)
Insert(row, action) ==
  IF row # "none" THEN {row}
  ELSE IF ReliableDatabase THEN {action} ELSE {action, "none"}

(* One call's records, first and then second, in both sinks.               *)
Audit2(m, first, second) ==
  /\ events' = [events EXCEPT ![m][first] = @ + 1, ![m][second] = @ + 1]
  /\ \E row \in Insert(rows[m], first) :
       \E row2 \in Insert(row, second) : rows' = [rows EXCEPT ![m] = row2]

Audit1(m, action) ==
  /\ events' = [events EXCEPT ![m][action] = @ + 1]
  /\ \E row \in Insert(rows[m], action) : rows' = [rows EXCEPT ![m] = row]

-----------------------------------------------------------------------------
Create(m, message) ==
  /\ m \notin Registered
  /\ message.status = "created"
  /\ Put(m, message)
  /\ UNCHANGED <<policy, events, requestedAs, rows>>

(* _send_authorized's checks.                                              *)
Authorized(message) ==
  /\ identity[message.sender_id] \in {"ready", "running"}
  /\ IF identity[message.recipient_id] = NotRegistered
     THEN policy.allow_agent_to_system
     ELSE /\ policy.allow_agent_to_agent
          /\ identity[message.recipient_id] \notin
               {"created", "validated", "suspended", "terminated"}

(* send, once the message to use is known: REQUESTED is audited, then the  *)
(* message is delivered and stored, or the refusal is audited and raised.  *)
Transmit_SlipNoStore(m, message) ==  \* the delivered message is not stored
  /\ events[m]["requested"] < MaxSends
  /\ requestedAs' = [requestedAs EXCEPT ![m] = @ \cup {message.status}]
  /\ \/ Authorized(message) /\ Audit2(m, "requested", "completed")
     \/ ~Authorized(message) /\ Audit2(m, "requested", "failed")
  /\ UNCHANGED <<policy, messages>>

Transmit_SlipNoFailure(m, message) == \* a refusal is not audited
  /\ events[m]["requested"] < MaxSends
  /\ requestedAs' = [requestedAs EXCEPT ![m] = @ \cup {message.status}]
  /\ \/ /\ Authorized(message)
        /\ Put(m, [message EXCEPT !.status = "delivered"])
        /\ Audit2(m, "requested", "completed")
     \/ /\ ~Authorized(message)
        /\ Audit1(m, "requested")
        /\ UNCHANGED messages
  /\ UNCHANGED policy

Transmit(m, message) ==
  /\ events[m]["requested"] < MaxSends
  /\ requestedAs' = [requestedAs EXCEPT ![m] = @ \cup {message.status}]
  /\ \/ /\ Authorized(message)
        /\ Put(m, [message EXCEPT !.status = "delivered"])
        /\ Audit2(m, "requested", "completed")
     \/ /\ ~Authorized(message)
        /\ Audit2(m, "requested", "failed")
        /\ UNCHANGED messages
  /\ UNCHANGED policy

(* send by id, or with an object whose id is registered.                   *)
SendRegistered(m) ==
  /\ m \in Registered
  /\ messages[m].status = "created"
  /\ Transmit(m, messages[m])

(* send with an object that was never registered: its status is not        *)
(* looked at.                                                              *)
SendObject(m, message) ==
  /\ m \notin Registered
  /\ Transmit(m, message)

Reject(m) ==
  /\ m \in Registered
  /\ messages[m].status = "created"
  /\ Put(m, [messages[m] EXCEPT !.status = "rejected"])
  /\ Audit1(m, "failed")
  /\ UNCHANGED <<policy, requestedAs>>

-----------------------------------------------------------------------------
CommunicationInit ==
  /\ LifecycleInit
  /\ policy \in [allow_agent_to_agent : BOOLEAN, allow_agent_to_system : BOOLEAN]
  /\ messages = [m \in {} |-> {}]
  /\ events = [m \in MessageIds |-> [action \in AuditAction |-> 0]]
  /\ requestedAs = [m \in MessageIds |-> {}]
  /\ rows = [m \in MessageIds |-> "none"]

CommunicationStep ==
  \E m \in MessageIds :
    \/ \E message \in AgentMessage : Create(m, message) \/ SendObject(m, message)
    \/ SendRegistered(m)
    \/ Reject(m)

CommunicationNext ==
  \/ LifecycleNext /\ UNCHANGED engineVars
  \/ CommunicationStep /\ UNCHANGED identity

CommunicationSpec == CommunicationInit /\ [][CommunicationNext]_communicationVars

-----------------------------------------------------------------------------
(* The types of all variables.                                             *)
CommunicationTypeOK ==
  /\ LifecycleTypeOK
  /\ policy \in [allow_agent_to_agent : BOOLEAN, allow_agent_to_system : BOOLEAN]
  /\ Registered \subseteq MessageIds
  /\ \A m \in Registered : messages[m] \in AgentMessage
  /\ events \in [MessageIds -> [AuditAction -> Nat]]
  /\ requestedAs \in [MessageIds -> SUBSET MessageStatus]
  /\ rows \in [MessageIds -> AuditAction \cup {"none"}]

(* A message id is delivered at most once, however it is created, sent by  *)
(* id, sent as an object, refused, sent again or rejected, and it has been *)
(* delivered exactly when the engine says so.                              *)
DeliveredOnce ==
  \A m \in MessageIds :
    events[m]["completed"] =
      IF m \in Registered /\ messages[m].status = "delivered" THEN 1 ELSE 0

(* Nothing is sent without leaving its end in the sink: every REQUESTED    *)
(* record is followed by a COMPLETED or a FAILED one; the only FAILED      *)
(* record besides those is that of reject().                               *)
TrailBalanced ==
  \A m \in MessageIds :
    events[m]["requested"] + (IF m \in Registered /\ messages[m].status = "rejected"
                              THEN 1 ELSE 0)
      = events[m]["completed"] + events[m]["failed"]

(* What the acceptance criteria of the audit sink ask of the database: the *)
(* rows of a delivered message show its delivery.                          *)
DatabaseShowsDelivery ==
  \A m \in Registered : messages[m].status = "delivered" => rows[m] = "completed"

(* What send()'s error text says, "Only created messages may be sent.":    *)
(* every REQUESTED record is about a message that was in status created.   *)
OnlyCreatedAreSent == \A m \in MessageIds : requestedAs[m] \subseteq {"created"}

=============================================================================
