SPECIFICATION MCSpec
CONSTANTS
  Cases <- BrokerCases
  t1 = t1
  c1 = c1
  Topics = {t1, t2}
  NoTopic = NoTopic
  Callers = {c1, c2}
  Starter = st
  NoSub = NoSub
  MayFail = TRUE
  MaxSubs = 3
  MaxStarts = 2
  MaxDrops = 1
INVARIANTS OneConsumer ServedWhenRegistered StoppedSilent
           NoPanic NoLeak 
PROPERTIES FailedKeepsOld DisconnectStopsAll
CHECK_DEADLOCK FALSE
