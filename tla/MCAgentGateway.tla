--------------------------- MODULE MCAgentGateway ---------------------------
EXTENDS AgentGateway

MCPermissionSets == {Capability}

(* The agent has been registered and started up.                           *)
MCInit ==
  /\ identity = [a \in Agents |-> "running"]
  /\ permissions = [a \in Agents |-> {}]
  /\ request = NoRequest
  /\ MemoryInit

MCSpec == MCInit /\ [][GatewayNext]_vars

(* Two writes of a base id and one of the id derived from it; an agent     *)
(* that is suspended, at whatever moment, and does not come back.          *)
Bound ==
  /\ \A id \in Ids : id.semantic => writes[id] <= 1
  /\ \A a \in Agents : identity[a] \in {"running", "suspended"}
=============================================================================
