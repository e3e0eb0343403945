SPECIFICATION FairSpec
CONSTANTS
  NoFile = NoFile
  StartupPage3 = FALSE
  InitCrashPref = TRUE
  SanitizeOnShutdown = TRUE
  MaxResumedCrashes = 1
  MaxClock = 2
  MaxQuits = 1
  MaxCrashes = 0
  MaxFailures = 0
  MaxFlips = 0
  MaxQueue = 1
PROPERTIES ChangesAreSaved PurgesFinish
