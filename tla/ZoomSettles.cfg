SPECIFICATION Spec
CONSTANTS
  tab1 = tab1
  tab2 = tab2
  Browsers = {tab1, tab2}
  Sites = {"s"}
  Blank = "blank"
  Global = "global"
  None = None
  Unread = Unread
  MinZoom = 1
  MaxZoom = 2
  Foreign = {None, 3}
  MaxSteps = 4
  MaxFlips = 1
  MaxQueue = 3
INVARIANTS AnsweredOnce SelectedSettles
PROPERTIES OldReadIgnored
CHECK_DEADLOCK FALSE
SYMMETRY Tabs
