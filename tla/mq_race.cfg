\* Two callers on the same topic, Stop racing Start, a restart.
SPECIFICATION Spec
CONSTANTS
    t1 = t1  t2 = t2  c1 = c1  c2 = c2
    Topics = {t1}  Callers = {c1, c2}  Starter = st
    Subs = {s1, s2, s3, s4}  NoSub = nosub  NoTopic = notopic
    CallerTopics <- SharedTopics
    SubscribeMayFail = TRUE  StopDuringStart = TRUE
    MaxStarts = 2  MaxStops = 2  MaxCalls = 1
SYMMETRY SubSymmetry
INVARIANT IInv
PROPERTY KeepsPromise
CHECK_DEADLOCK FALSE
