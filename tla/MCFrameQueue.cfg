SPECIFICATION FairSpec
CONSTANTS
  Consumers = {c1, c2}
  Producer = p
  NoThread = none
  MaxPush = 3
INVARIANTS NoLostWakeup
PROPERTIES Implements EveryConsumerEnds
