CONSTANTS
    MaxOpenings = 2
    MaxReloads = 1
    MaxHellos = 2
    MaxChannels = 4
    MaxRequests = 2
    MaxJoins = 2
    MaxRejoins = 1
SPECIFICATION Spec
INVARIANTS
    AnswersAreOwn
    ChannelIsHosts
PROPERTIES
    ClosedPageLeaves
CHECK_DEADLOCK FALSE
