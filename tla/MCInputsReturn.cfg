\* One person whose SDK restores the connection during a round.
SPECIFICATION Spec
CONSTANTS
  QueueMax = 3
  StaleTicks = 2
  HoldTicks = 3
  HoldDebtMax = 2
  ActionsKept = 1
  StartTick = 1
  EndTick = 5
  Objective = TRUE
  MaxActionId = 4
  Sources = {1, 2}
  HistoryMax = 3
  MaxInputs = 3
  MaxPredictors = 2
  MaxChanges = 1
  MaxFlight = 2
INVARIANT NewInputsAreTaken
CHECK_DEADLOCK FALSE
