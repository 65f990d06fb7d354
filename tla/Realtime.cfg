SPECIFICATION FairSpec
CONSTANTS
    Lines = {l1, l2, l3}
    Subs = {a, b}
    Off = Off
    NoLine = NoLine
    MaxBuffer = 2
    MaxAttempts = 1
    MaxEvents = 2
    MaxChanges = 2
    MaxFailures = 1
    MaxClicks = 1
INVARIANTS TypeOK LeaksWereOvertaken EventsOnce StatusIsTrue
PROPERTIES StaysSubscribed
CHECK_DEADLOCK FALSE
