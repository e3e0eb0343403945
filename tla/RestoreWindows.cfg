SPECIFICATION Spec
CONSTANTS
  Home <- TwoWindows
  Windows = {"v", "w"}
  TabCount = 4
  Pinned = {2}
  NoTab = NoTab
  Unset = Unset
  MaxConcurrent = 1
  RestoreOnDemand = FALSE
  PinnedOnDemand = FALSE
  RestoreHidden = TRUE
  Requests = {"setBrowserState"}
  Hasty = FALSE
  MaxRequests = 1
  MaxRestores = 2
INVARIANTS TypeOK LeftIsUnrestored HeardWhileLoading CountIsRestoring QueueIsWaiting
PROPERTIES StartedInTurn
CHECK_DEADLOCK FALSE
