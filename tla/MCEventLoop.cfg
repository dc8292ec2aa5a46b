CONSTANTS
    application = application
    t1 = t1  p1 = p1  p2 = p2
    Requesters = {t1}
    Waiters = {application}
    Posters = {p1, p2}
    Capacity = 1
    MaxEvents = 2
    InboxCapacity = 2
    MailboxCapacity = 1
    MaxPosts = 2
SPECIFICATION FairLoopSpec
INVARIANTS ReadinessNotMissed PostsWakeLoop
PROPERTIES PostsAreDrained StopEndsRun
CHECK_DEADLOCK FALSE
