\* Two people, two connections, under fairness: the room is a membership;
\* rounds, results and reconnection windows end.
SPECIFICATION FairSpec
CONSTANTS
  Users = {ana, bruno}
  Sessions = {s1, s2}
  Creators = {ana}
  NoUser = NoUser
  NoSession = NoSession
  MaxRoomHumans = 2
  MaxTeamSize = 1
  LoadingTicks = 2
  CountdownTicks = 1
  RoundTicks = 1
  FinishingTicks = 1
  ResultsTicks = 1
  TeamRequests = {}
  ReadyRequests = {TRUE}
  BotRequests = {}
  Options = {}
  MaxPlayerId = 2
  MaxRounds = 1
PROPERTIES
  KeepsMembership
  RoundEnds
  ResultsEnd
  WindowsClose
