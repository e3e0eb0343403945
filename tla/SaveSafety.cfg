SPECIFICATION Spec
CONSTANTS
  NoFile = NoFile
  StartupPage3 = FALSE
  InitCrashPref = TRUE
  SanitizeOnShutdown = FALSE
  MaxResumedCrashes = 1
  MaxClock = 2
  MaxQuits = 1
  MaxCrashes = 2
  MaxFailures = 1
  MaxFlips = 0
  MaxQueue = 1
INVARIANTS TypeOK NoLostSave PurgeSettles CrashLoopStops PromiseKept
PROPERTIES SavesLandInOrder NeverLoses StoresDurably
