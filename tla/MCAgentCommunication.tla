------------------------ MODULE MCAgentCommunication ------------------------
EXTENDS AgentCommunication, TLC

Symmetry == Permutations(Agents) \cup Permutations(MessageIds)

=============================================================================
