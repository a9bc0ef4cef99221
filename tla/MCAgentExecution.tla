-------------------------- MODULE MCAgentExecution --------------------------
EXTENDS AgentExecution
=============================================================================
