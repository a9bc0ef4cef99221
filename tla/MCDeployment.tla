---------------------------- MODULE MCDeployment ----------------------------
(***************************************************************************)
(* The deployment engine on its own, called again and again with files     *)
(* that others write between the calls.                                    *)
(***************************************************************************)
EXTENDS Deployment

CONSTANTS pkg, tmp, v1, v2, bad
CONSTANT MaxAuditLogs      \* no call begins with more entries in the log

MCPaths == {pkg, tmp}
MCGood == {v1, v2}
MCBad == {bad}

Next ==
  /\ DeploymentNext
  /\ (dep.stage \notin Running /\ dep'.stage \in Running) => Len(audit_logs) < MaxAuditLogs

Spec == DeploymentInit /\ [][Next]_deploymentVars
=============================================================================
