SPECIFICATION Spec
CONSTANTS
  Topics = {"ta", "tb"}
  Subs = {"s1", "s2", "s3"}
  TopicOf <- SharedTopic
  Overlap = FALSE
  MaxLost = 2
  MaxCalls = 3
INVARIANTS  RegisteredConsumed
PROPERTIES RestoredAfterLoss 
CHECK_DEADLOCK FALSE
