CONSTANTS
    Subs = {s1}
    MaxViews = 5
    MaxRestarts = 1
SPECIFICATION FairSpec
CHECK_DEADLOCK FALSE
PROPERTY ActiveIsServed
