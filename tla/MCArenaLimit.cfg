\* Three people, a room for two: somebody returns to a slot a bot drives.
SPECIFICATION Spec
CONSTANTS
  Users = {ana, bruno, clara}
  Sessions = {s1, s2, s3, s4}
  Creators = {ana, bruno, clara}
  NoUser = NoUser
  NoSession = NoSession
  MaxRoomHumans = 2
  MaxTeamSize = 1
  LoadingTicks = 1
  CountdownTicks = 1
  RoundTicks = 1
  FinishingTicks = 1
  ResultsTicks = 1
  TeamRequests = {}
  ReadyRequests = {TRUE}
  BotRequests = {}
  Options = {}
  MaxPlayerId = 3
  MaxRounds = 1
SYMMETRY Symmetry
INVARIANT RoomLimit
