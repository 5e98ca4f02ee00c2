\* Two callers on the same topic.
SPECIFICATION Spec
CONSTANTS
    t1 = t1  t2 = t2  c1 = c1  c2 = c2
    Topics = {t1}  Callers = {c1, c2}  Starter = st
    Subs = {s1, s2, s3}  NoSub = nosub  NoTopic = notopic
    CallerTopics <- SharedTopics
    SubscribeMayFail = FALSE  StopDuringStart = TRUE
    MaxStarts = 1  MaxStops = 1  MaxCalls = 1
SYMMETRY SubSymmetry
INVARIANT RegisteredServed
CHECK_DEADLOCK FALSE
