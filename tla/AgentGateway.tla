---------------------------- MODULE AgentGateway ----------------------------
(***************************************************************************)
(* The agent gateway (intelligence/agent_control_plane/gateway) with the   *)
(* permission engine and the policy engine it asks, the registry of its    *)
(* process and the memory system it opens to agents.                       *)
(*                                                                         *)
(* Host is the caller the gateway is; the other callers of MemorySystem    *)
(* use the shared database directly.  The gateway serves one call at a     *)
(* time.  The registry and the permissions it asks are plain objects with  *)
(* no lock: they may change at any time, also while a forget call waits    *)
(* for the database.                                                       *)
(***************************************************************************)
EXTENDS AgentLifecycle, MemorySystem

CONSTANTS
  Host,
  PermissionSets     \* bound: the capability sets grant() is called with

Capability == {"memory.retrieve", "memory.store", "memory.forget"}

ASSUME HostAssumption == Host \in Callers
ASSUME PermissionSetsAssumption == PermissionSets \subseteq SUBSET Capability

VARIABLES
  permissions,       \* PermissionEngine._permissions
  request            \* the gateway call under way, or the last one

gatewayVars == <<identity, permissions, request>>
vars == <<identity, permissions, request, storage, call, writes, forgotten>>

NoAgent == "no agent"

Request ==
  [agent : Agents \cup {NoAgent}, capability : Capability, forgetting : BOOLEAN]

NoRequest ==
  [agent |-> NoAgent, capability |-> "memory.retrieve", forgetting |-> FALSE]

(* Between two calls of Host.                                              *)
HostFree == Free(Host) /\ ~request.forgetting

Requested == Audited("requested", "success")
Completed(result) == Audited("completed", result)
Failed == Audited("failed", "failure")

-----------------------------------------------------------------------------
(* AgentPolicyEngine.validate: the capabilities it lets pass.              *)
PolicyAllows == {"memory.retrieve", "memory.store", "memory.forget"}

(* _authorize.                                                             *)
Authorized(a, capability) ==
  /\ identity[a] \in {"validated", "ready", "running"}
  /\ capability \in PolicyAllows
  /\ capability \in permissions[a]

(* The call the gateway turns to.                                          *)
Serve(a, capability, forgetting) ==
  /\ HostFree
  /\ request' = [agent |-> a, capability |-> capability, forgetting |-> forgetting]
  /\ UNCHANGED <<identity, permissions>>

(* PermissionEngine.grant replaces what the agent had.                     *)
Grant(a, capabilities) ==
  /\ permissions' = [permissions EXCEPT ![a] = capabilities]
  /\ UNCHANGED <<identity, request, storage, call, writes, forgotten>>

Refuse(a, id, capability) ==
  /\ Serve(a, capability, FALSE)
  /\ ~Authorized(a, capability)
  /\ call' = [call EXCEPT ![Host] = [NoCall(id) EXCEPT !.trail = <<Failed>>]]
  /\ UNCHANGED <<storage, writes, forgotten>>

Retrieve(a, id) ==
  /\ Serve(a, "memory.retrieve", FALSE)
  /\ Authorized(a, "memory.retrieve")
  /\ call' = [call EXCEPT ![Host] =
       [NoCall(id) EXCEPT !.trail = <<Requested, Completed("success")>>]]
  /\ UNCHANGED <<storage, writes, forgotten>>

GatewayStore(a, id, record, status) ==
  /\ Serve(a, "memory.store", FALSE)
  /\ Authorized(a, "memory.store")
  /\ \/ /\ Storable(status)
        /\ Upsert(id, record)
        /\ call' = [call EXCEPT ![Host] =
             [NoCall(id) EXCEPT !.trail = <<Requested, Completed("success")>>]]
     \/ /\ ~Storable(status)
        /\ call' = [call EXCEPT ![Host] =
             [NoCall(id) EXCEPT !.trail = <<Requested, Failed>>]]
        /\ UNCHANGED <<storage, writes>>
  /\ UNCHANGED forgotten

(* forget: the forgetting engine's own steps lie between these two.        *)
GatewayForget(a, id, explicit) ==
  /\ Serve(a, "memory.forget", TRUE)
  /\ Authorized(a, "memory.forget")
  /\ BeginForget(Host, id, explicit, FALSE, <<Requested>>)
  /\ UNCHANGED <<storage, writes, forgotten>>

GatewayForgetReturns_SlipCompleted ==     \* COMPLETED is always a SUCCESS
  /\ request.forgetting /\ Free(Host)
  /\ call' = [call EXCEPT ![Host].trail = Append(@, Completed("success"))]
  /\ request' = [request EXCEPT !.forgetting = FALSE]
  /\ UNCHANGED <<identity, permissions, storage, writes, forgotten>>

GatewayForgetReturns ==
  /\ request.forgetting /\ Free(Host)
  /\ call' = [call EXCEPT ![Host].trail =
       Append(@, Completed(IF call[Host].returned THEN "success" ELSE "failure"))]
  /\ request' = [request EXCEPT !.forgetting = FALSE]
  /\ UNCHANGED <<identity, permissions, storage, writes, forgotten>>

-----------------------------------------------------------------------------
GatewayInit ==
  /\ LifecycleInit
  /\ permissions = [a \in Agents |-> {}]
  /\ request = NoRequest
  /\ MemoryInit

GatewayCall ==
  \E a \in Agents, id \in Ids :
    \/ \E capability \in Capability : Refuse(a, id, capability)
    \/ Retrieve(a, id)
    \/ \E record \in MemoryRecord, status \in ValidationStatus :
         GatewayStore(a, id, record, status)
    \/ \E explicit \in BOOLEAN : GatewayForget(a, id, explicit)

(* The memory system's own steps, those of the other callers included.     *)
OtherStep ==
  \/ \E c \in Callers \ {Host} : DirectCall(c) /\ UNCHANGED gatewayVars
  \/ \E c \in Callers : ForgettingStep(c) /\ UNCHANGED gatewayVars

GatewayNext ==
  \/ LifecycleNext /\ UNCHANGED <<permissions, request, memoryVars>>
  \/ \E a \in Agents, capabilities \in PermissionSets : Grant(a, capabilities)
  \/ GatewayCall
  \/ GatewayForgetReturns
  \/ OtherStep

GatewaySpec == GatewayInit /\ [][GatewayNext]_vars

-----------------------------------------------------------------------------
(* The types of all variables.                                             *)
GatewayTypeOK ==
  /\ LifecycleTypeOK
  /\ MemoryTypeOK
  /\ permissions \in [Agents -> SUBSET Capability]
  /\ request \in Request

(* A forget call an agent made leaves a trail that cannot be misread: its  *)
(* COMPLETED record, made of the bool forget() returned, says what the     *)
(* engine's own record says, and a SUCCESS in it is a record this very     *)
(* call removed.                                                           *)
ForgetTrailIsTruthful ==
  (HostFree /\ request.agent # NoAgent /\ request.capability = "memory.forget") =>
    LET trail == call[Host].trail
    IN \/ trail = <<Failed>>
       \/ /\ Len(trail) = 3
          /\ trail[1] = Requested
          /\ trail[3] = Completed(trail[2].result)
          /\ trail[3].result = "success" => call[Host].gone # NoRecord

=============================================================================
