CONSTANTS
  edit1 = edit1
  edit2 = edit2
  Null = Null
  TaxScale = 100
  Captures <- MCCaptures
  Requests <- MCRequests
  Patches <- MCPatches
  Calls = {edit1, edit2}
  MaxEdits = 3
SPECIFICATION HistorySpec
SYMMETRY MCSymmetry
INVARIANTS
  AmountsAreHeardRight
  CorrectionsAreVisible
  ColumnsFit
  AnsweredEditsStand
PROPERTIES
  DraftTellsCapture
  EditsMoveTheirOwn
CHECK_DEADLOCK FALSE
