CONSTANTS
  q1 = q1
  q2 = q2
  v1 = v1
  ann = ann
  bob = bob
  nobody = nobody
  Requests = {q1, q2}
  Viewers = {v1}
  Customers = {ann, bob}
  NoCustomer = nobody
  MaxTokens = 2
SPECIFICATION Spec
SYMMETRY Symmetry
INVARIANTS
  ColumnsAgree
PROPERTIES
  NeverGoesBack
  DeadLinkStaysDead
CHECK_DEADLOCK FALSE
