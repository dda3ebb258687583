CONSTANTS
  phone = phone
  laptop = laptop
  tabA = tabA
  tabB = tabB
  a1 = a1
  a2 = a2
  b1 = b1
  form1 = form1
  form2 = form2
  Browsers = {phone, laptop}
  Tabs = {tabA, tabB}
  Calls = {a1, a2, b1}
  TabOf <- MCTabOf
  Resets = {form1, form2}
  MaxRequests = 4
  MaxEvents = 5
SPECIFICATION Spec
SYMMETRY MCSymmetry
INVARIANTS
  UsedOnce
  RevocationReachesAll
  LoggedOutStaysOut
  QuietBrowserLeftAlone
CHECK_DEADLOCK FALSE
