\* Two starts with the same key, a channel with room for one event, two logs of one child.
SPECIFICATION FairSpec
CONSTANTS
  k1 = k1
  t1 = t1
  Tasks = {t1, t2}
  NoTask = notask
  Keys = {k1}
  NoKey = nokey
  KeyOf <- MCKeyOf
  Capacity = 1
  MaxLogs <- MCMaxLogs
INVARIANTS
  ClaimsFollowStreams
  EventsInOrder
  NeverCutOff
PROPERTIES
  NoLeakedChild
  DeathIsReported
\* Each start is made once; nothing is left to do when both are over.
CHECK_DEADLOCK FALSE
