CONSTANTS
    NPlayers = 3
    TeamOf <- MCTeamOf
    FirstSpawn = 0
    Pause = 0
    DropReturn = 2
    Returning = 1
    MaxCarry = 4
    Deliver = 2
    Target = 2
    StationPairs = 1
    StartTick = 1
    EndTick = 9
    RespawnDelay = 2
    Protection = 1
    Prep = 1
    Flight = 1
    Painters = {1}
    MaxIncidents = 2
SPECIFICATION Spec
INVARIANTS
    CarrierPlays
    CapsuleStaysBehind
    SpecialHasWheel
PROPERTIES
    DeliveryIsEarned
CHECK_DEADLOCK FALSE
