CONSTANTS
    k1 = k1
    k2 = k2
    a1 = a1
    a2 = a2
    b1 = b1
    Clean = clean
    Torn = torn
    Keys = {k1, k2}
    Calls = {a1, a2, b1}
    KeyOf <- MCKeyOf
    Rounds = {a1, b1}
    MaxBoots = 2
SPECIFICATION FairSpec
INVARIANT InterruptedAreKept
PROPERTIES
    ImplementsLog
    EveryCallSettles
CHECK_DEADLOCK FALSE
