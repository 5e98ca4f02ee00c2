\* Each caller its own topic, Stop only once Start has returned, one start.
SPECIFICATION FairSpec
CONSTANTS
    t1 = t1  t2 = t2  c1 = c1  c2 = c2
    Topics = {t1, t2}  Callers = {c1, c2}  Starter = st
    Subs = {s1, s2, s3, s4}  NoSub = nosub  NoTopic = notopic
    CallerTopics <- OwnTopics
    SubscribeMayFail = FALSE  StopDuringStart = FALSE
    MaxStarts = 1  MaxStops = 1  MaxCalls = 1
INVARIANT RegistrationsKept
PROPERTY EventuallyServed
CHECK_DEADLOCK FALSE
