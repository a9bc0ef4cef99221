----------------------------- MODULE LossyTopic -----------------------------
(***************************************************************************)
(* What a topic of the message broker promises: a queue between publishers *)
(* and one stream of answers to /subscribe.  A message that enters is      *)
(* handed out at most once and in the order of entering; the only loss is  *)
(* of the oldest message, and only while more than Limit messages wait.    *)
(***************************************************************************)
EXTENDS Integers, Sequences, SequencesExt

CONSTANTS Topics, Messages, Limit      \* Limit is a natural number

VARIABLES
  pending,           \* messages that entered and are neither out nor lost
  delivered          \* messages handed out, in order

topicVars == <<pending, delivered>>

Enter(t, m) ==
  /\ \A u \in Topics : m \notin Range(pending[u]) \cup Range(delivered[u])
  /\ pending' = [pending EXCEPT ![t] = Append(@, m)]
  /\ UNCHANGED delivered

DropOldest(t) ==
  /\ Len(pending[t]) > Limit
  /\ pending' = [pending EXCEPT ![t] = Tail(@)]
  /\ UNCHANGED delivered

HandOut(t, n) ==
  /\ delivered' = [delivered EXCEPT ![t] = @ \o SubSeq(pending[t], 1, n)]
  /\ pending' = [pending EXCEPT ![t] = SubSeq(@, n + 1, Len(@))]

TopicInit ==
  /\ pending = [t \in Topics |-> <<>>]
  /\ delivered = [t \in Topics |-> <<>>]

TopicNext ==
  \E t \in Topics :
    \/ \E m \in Messages : Enter(t, m)
    \/ DropOldest(t)
    \/ \E n \in 1 .. Len(pending[t]) : HandOut(t, n)

TopicSpec == TopicInit /\ [][TopicNext]_topicVars

=============================================================================
