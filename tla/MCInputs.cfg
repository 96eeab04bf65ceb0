\* One person: bursts, waiting, drops, returns, a bot and takeovers.
SPECIFICATION Spec
CONSTANTS
  QueueMax = 3
  StaleTicks = 2
  HoldTicks = 3
  HoldDebtMax = 2
  ActionsKept = 1
  StartTick = 1
  EndTick = 5
  Objective = TRUE
  MaxActionId = 4
  Sources = {1, 2}
  HistoryMax = 3
  MaxInputs = 4
  MaxPredictors = 2
  MaxChanges = 1
  MaxFlight = 2
INVARIANTS
  NoTimeGained
  QueueInOrder
  TakenWhenOneVoice
  HistoryCoversFlight
  ActionsConserved
CHECK_DEADLOCK FALSE
