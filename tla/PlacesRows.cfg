SPECIFICATION Spec
CONSTANTS
  Root = Root
  folder1 = folder1
  folder2 = folder2
  Folders = {folder1, folder2}
  Items = {"a"}
  Separators = {"x"}
  Stray = {}
INVARIANTS RowsAreVisible
PROPERTIES SelectionFollows DroppedInOrder
CHECK_DEADLOCK FALSE
SYMMETRY Alike
