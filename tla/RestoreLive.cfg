SPECIFICATION FairSpec
CONSTANTS
  Home <- OneWindow
  Windows = {"w"}
  TabCount = 3
  Pinned = {}
  NoTab = NoTab
  Unset = Unset
  MaxConcurrent = 1
  RestoreOnDemand = FALSE
  PinnedOnDemand = FALSE
  RestoreHidden = FALSE
  Requests = {}
  Hasty = FALSE
  MaxRequests = 0
  MaxRestores = 2
PROPERTIES AllRestored RestoringEnds StartedInTurn
CHECK_DEADLOCK FALSE
