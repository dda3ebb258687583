CONSTANTS
  pass1 = pass1
  pass2 = pass2
  screen1 = screen1
  Passes = {pass1}
  Screens = {screen1}
  MaxAttempts = 2
  MaxJobs = 2
  MaxKeys = 1
  MaxEdits = 0
  TabsClose = FALSE
SPECIFICATION SyncSpec
PROPERTIES
  QueuedCaptureSyncs
CHECK_DEADLOCK FALSE
