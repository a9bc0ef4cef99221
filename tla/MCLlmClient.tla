---------------------------- MODULE MCLlmClient ----------------------------
EXTENDS LlmClient
CONSTANTS t1, t2, primary, fallback
MCThreads == {t1, t2}

(* Two prompts of a restricted category, the second of which asks for an   *)
(* implementation as well.                                                 *)
Scaffold == [matches |-> {"risk_systems"}, scaffold |-> 2, implementation |-> 0]
Implementation == [Scaffold EXCEPT !.implementation = 1]

MCCalls ==
  { [method |-> "generate_code", prompt |-> Scaffold],
    [method |-> "generate_code", prompt |-> Implementation],
    [method |-> "analyze_security", prompt |-> Implementation] }

MCModels == <<primary, fallback>>
=============================================================================
