CONSTANTS
  pass1 = pass1
  pass2 = pass2
  screen1 = screen1
  Passes = {pass1, pass2}
  Screens = {screen1}
  MaxAttempts = 2
  MaxJobs = 1
  MaxKeys = 1
  MaxEdits = 1
  TabsClose = TRUE
SPECIFICATION Spec
SYMMETRY Symmetry
INVARIANTS
  EndsAreEarned
CHECK_DEADLOCK FALSE
