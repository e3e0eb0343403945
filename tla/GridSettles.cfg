SPECIFICATION Spec
CONSTANTS
  page1 = page1
  page2 = page2
  Pages = {page1, page2}
  Urls = {"a", "b", "c"}
  N = 2
  None = None
  Providers <- Orders
  Hasty = FALSE
  MaxSteps = 3
INVARIANTS Synchronized
CHECK_DEADLOCK FALSE
SYMMETRY Windows
