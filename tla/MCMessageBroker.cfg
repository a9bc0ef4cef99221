CONSTANTS
  t1 = t1
  t2 = t2
  m1 = m1
  m2 = m2
  m3 = m3
  m4 = m4
  Topics = {t1, t2}
  Messages <- MCMessages
  TopicOf <- MCTopicOf
  Valid <- MCValid
  Clients = {c1, c2}
  ChannelSize = 1
  MaxSize = 1
SPECIFICATION FairSpec
INVARIANTS
  RefusedIsNotDelivered
PROPERTIES
  ReachesTheBuffer
  ImplementsLossyTopic
CHECK_DEADLOCK FALSE
