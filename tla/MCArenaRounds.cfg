\* Three people, one connection each: formations, bench, results, votes.
SPECIFICATION Spec
CONSTANTS
  Users = {ana, bruno, clara}
  Sessions = {ana, bruno, clara}
  Creators = {ana, bruno, clara}
  NoUser = NoUser
  NoSession = NoSession
  MaxRoomHumans = 3
  MaxTeamSize = 2
  LoadingTicks = 1
  CountdownTicks = 1
  RoundTicks = 1
  FinishingTicks = 1
  ResultsTicks = 1
  TeamRequests = {0}
  ReadyRequests = {TRUE}
  BotRequests = {FALSE}
  Options = {1}
  MaxPlayerId = 3
  MaxRounds = 2
SYMMETRY UserSymmetry
CONSTRAINTS
  CalmNetwork
  OwnConnection
INVARIANTS
  RosterIsTable
  BalancedTeams
  ResultsOnce
PROPERTIES
  RosterIsFrozen
  BenchTakesTurns
