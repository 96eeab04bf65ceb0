\* Two people, three connections: drops, windows, takeovers, expulsions.
SPECIFICATION Spec
CONSTANTS
  Users = {ana, bruno}
  Sessions = {s1, s2, s3}
  Creators = {ana, bruno}
  NoUser = NoUser
  NoSession = NoSession
  MaxRoomHumans = 2
  MaxTeamSize = 1
  LoadingTicks = 1
  CountdownTicks = 1
  RoundTicks = 1
  FinishingTicks = 1
  ResultsTicks = 1
  TeamRequests = {}
  ReadyRequests = {TRUE}
  BotRequests = {}
  Options = {}
  MaxPlayerId = 3
  MaxRounds = 1
SYMMETRY Symmetry
INVARIANTS
  OneSlotPerUser
  RoutingAgrees
  ConnectionIsReal
  ReplacedAreLeaving
  HostIsLive
  DriverMatchesConnection
  EverybodyTold
PROPERTY HostIsStable
