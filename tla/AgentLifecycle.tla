--------------------------- MODULE AgentLifecycle ---------------------------
(***************************************************************************)
(* The agent registry and the lifecycle engine of the agent control plane  *)
(* (intelligence/agent_control_plane/registry, .../lifecycle).             *)
(*                                                                         *)
(* The registry is a dictionary from agent ids to identities; of an        *)
(* identity only its status matters here.  An id the registry does not     *)
(* know has the value NotRegistered.  A call the code answers with an      *)
(* exception changes no agent, so it is a disabled action.                 *)
(***************************************************************************)
CONSTANT Agents                  \* the agent ids

VARIABLE identity                \* AgentRegistry._agents, as a status per id

NotRegistered == "not registered"

AgentStatus ==
  {"created", "validated", "ready", "running", "suspended", "terminated"}

(* The allowed moves, as the set of pairs <<from, to>>.                    *)
Transitions ==
  { <<"created", "validated">>,
    <<"validated", "ready">>,
    <<"ready", "running">>,     <<"ready", "terminated">>,
    <<"running", "suspended">>, <<"running", "terminated">>,
    <<"suspended", "ready">>,   <<"suspended", "terminated">> }

(* The statuses whose agents the scheduler accepts tasks for.              *)
Schedulable(a) == identity[a] \in {"ready", "running"}

(* The actions in the audit records of the engines that consult the        *)
(* registry.                                                               *)
AuditAction == {"requested", "completed", "failed"}

-----------------------------------------------------------------------------
LifecycleInit == identity = [a \in Agents |-> NotRegistered]

(* register: only a validated identity, and only an id that is new.        *)
Register(a) ==
  /\ identity[a] = NotRegistered
  /\ identity' = [identity EXCEPT ![a] = "validated"]

(* transition and the registry.replace it ends with, which refuses only    *)
(* the status "created".                                                   *)
Transition(a, target) ==
  /\ <<identity[a], target>> \in Transitions
  /\ target # "created"
  /\ identity' = [identity EXCEPT ![a] = target]

(* startup: a validated agent is made ready and then running in one call.  *)
Startup(a) ==
  /\ identity[a] \in {"validated", "ready"}
  /\ identity' = [identity EXCEPT ![a] = "running"]

Suspend(a) == Transition(a, "suspended")

Resume(a) == Transition(a, "ready")

Shutdown(a) ==
  /\ identity[a] \in {"ready", "running", "suspended"}
  /\ Transition(a, "terminated")

LifecycleNext ==
  \E a \in Agents :
    \/ Register(a)
    \/ \E target \in AgentStatus : Transition(a, target)
    \/ Startup(a)
    \/ Suspend(a)
    \/ Resume(a)
    \/ Shutdown(a)

LifecycleTypeOK ==
  identity \in [Agents -> (AgentStatus \ {"created"}) \cup {NotRegistered}]

=============================================================================
