SPECIFICATION Spec
CONSTANTS
  Sessions <- Sample
  Windows = {"a", "b", "c", "p"}
  Popups = {"p"}
  Private = {"c"}
  MaxUndos = {1, 2}
  NoFile = NoFile
INVARIANTS TypeOK PrivateNotSaved CapRespected SavedOnce NormalWindowRestored EarlierNotRestored
PROPERTIES CapKeepsNormal DomainPurged
CHECK_DEADLOCK FALSE
