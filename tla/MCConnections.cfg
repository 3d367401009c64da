SPECIFICATION Spec
CONSTANTS
  c1 = c1
  c2 = c2
  c3 = c3
  a = a
  b = b
  Conn = {c1, c2, c3}
  Client = {a, b}
  Owner <- MCOwner
  Rec = {r}
  Cmd = {"procprio", "procremove", "subscribe", "no_credentials"}
  MaxDataConn = 2
  AcceptMayFail = TRUE
  AddMayFail = TRUE
  MaxFailures = 1
  Nobody = Nobody
  NULL = NULL
INVARIANTS
  EventsCounted
  ClaimantConnected
  OnlySubscribers
SYMMETRY Symmetry
