SPECIFICATION Spec
CONSTANTS
  NoFile = NoFile
  StartupPage3 = FALSE
  InitCrashPref = TRUE
  SanitizeOnShutdown = FALSE
  MaxResumedCrashes = 1
  MaxClock = 1
  MaxQuits = 2
  MaxCrashes = 0
  MaxFailures = 0
  MaxFlips = 2
  MaxQueue = 1
INVARIANTS NotResumedUnasked OnlyPinnedWithoutRecovery RestartKept
