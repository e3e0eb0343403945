SPECIFICATION Spec
CONSTANTS
  NoFile = NoFile
  StartupPage3 = FALSE
  InitCrashPref = FALSE
  SanitizeOnShutdown = FALSE
  MaxResumedCrashes = 1
  MaxClock = 1
  MaxQuits = 1
  MaxCrashes = 0
  MaxFailures = 0
  MaxFlips = 0
  MaxQueue = 1
INVARIANTS SaveAndQuitResumes
