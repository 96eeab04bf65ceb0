\* The formation: up to five candidates, waits of zero to two rounds.
\* The filter: two adversaries, sixteen ticks of the room, delays of two
\* snapshots (and the remainder of the doubles); a room may stay as it is.
\* The way: every graph of five places, spawns at the first, searches of at
\* most two nodes and of all.
\* The Mutirao: two pairs of allies, two squares, seven ticks.
SPECIFICATION HelperSpec
CONSTANTS
  MaxPeople = 5
  MaxSitOuts = 2
  MaxTeamSize = 2
  Limits = {0, 1, 2}
  Subjects = {1, 2}
  SideOf <- MCSideOf
  ConcealTicks = 5
  RevealTicks = 5
  SnapshotTicks = 2
  MaxTickCount = 16
  PlaceCount = 5
  Links <- MCLinks
  Metres <- MCMetres
  Spawns = {{1}}
  SearchLimits = {2, 4}
  Crew = {1, 2, 3, 4}
  CrewSide <- MCCrewSide
  Squares = {1, 2}
  SquareArea <- MCSquareArea
  MinArea = 2
  PairWindow = 1
  PairCooldown = 3
  SquareReuse = 4
  PairEvery = 2
  ForgetEvery = 4
  MaxMoment = 7
  MaxConversions = 4
INVARIANTS
  SameAsLoop
  PlanIsFair
  ShownByTheRule
  PathIsShortest
  ActivationsAreEarned
CHECK_DEADLOCK FALSE
