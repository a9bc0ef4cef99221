--------------------------- MODULE MCMessageBroker ---------------------------
EXTENDS MessageBroker

CONSTANTS t1, t2, m1, m2, m3, m4

(* Three messages of one topic and a malformed message of another.         *)
MCMessages == {m1, m2, m3, m4}
MCTopicOf == [m \in MCMessages |-> IF m = m4 THEN t2 ELSE t1]
MCValid == MCMessages \ {m4}

=============================================================================
