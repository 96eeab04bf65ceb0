\* One person whose connection is replaced while the round loads.
SPECIFICATION SpecLoading
CONSTANTS
  Users = {ana}
  Sessions = {s1, s2}
  Creators = {ana}
  NoUser = NoUser
  NoSession = NoSession
  MaxRoomHumans = 1
  MaxTeamSize = 1
  LoadingTicks = 2
  CountdownTicks = 1
  RoundTicks = 1
  FinishingTicks = 1
  ResultsTicks = 1
  TeamRequests = {}
  ReadyRequests = {TRUE}
  BotRequests = {}
  Options = {}
  MaxPlayerId = 2
  MaxRounds = 1
PROPERTY CountdownWaitsForAll
