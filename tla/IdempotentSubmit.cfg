CONSTANTS
  r1 = r1
  r2 = r2
  r3 = r3
  r4 = r4
  m1 = m1
  capture = capture
  mail = mail
  notes = notes
  other = other
  nobody = nobody
  Requests = {r1, r2, r3, r4, m1}
  StorageKeys = {capture, mail}
  EmailKeys = {mail}
  Contents = {notes, other}
  KeyOf <- MCKeyOf
  ContentOf <- MCContentOf
  NoRequest = nobody
  LostReplies = TRUE
SPECIFICATION SubmitSpec
SYMMETRY Symmetry
INVARIANTS
  OneJobPerKey
  ReplayIsGenuine
PROPERTIES
  PromiseKept
CHECK_DEADLOCK FALSE
