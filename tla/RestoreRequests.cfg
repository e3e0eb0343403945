SPECIFICATION Spec
CONSTANTS
  Home <- OneWindow
  Windows = {"w"}
  TabCount = 3
  Pinned = {3}
  NoTab = NoTab
  Unset = Unset
  MaxConcurrent = 1
  RestoreOnDemand = FALSE
  PinnedOnDemand = FALSE
  RestoreHidden = FALSE
  Requests = {"duplicateTab", "undoCloseTab", "setTabState"}
  Hasty = TRUE
  MaxRequests = 1
  MaxRestores = 1
INVARIANTS ConcurrencyLimit
CHECK_DEADLOCK FALSE
