CONSTANTS
  ann = ann
  ben = ben
  nobody = nobody
  req1 = req1
  req2 = req2
  Customers = {ann, ben}
  NoCustomer = nobody
  Requests = {req1, req2}
  MaxDocs = 3
  MaxStarts = 3
SPECIFICATION Spec
SYMMETRY MCSymmetry
INVARIANTS
  NumbersHold
  SourceStays
  FirstViewOnce
PROPERTIES
  InvoicesStay
CHECK_DEADLOCK FALSE
