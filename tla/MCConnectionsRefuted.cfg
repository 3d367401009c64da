SPECIFICATION FairSpec
CONSTANTS
  c1 = c1
  c2 = c2
  c3 = c3
  a = a
  b = b
  Conn = {c1, c2, c3}
  Client = {a, b}
  Owner <- MCOwner
  Rec = {r}
  Cmd = {"procprio", "subscribe"}
  MaxDataConn = 2
  AcceptMayFail = FALSE
  AddMayFail = FALSE
  MaxFailures = 1
  Nobody = Nobody
  NULL = NULL
PROPERTIES
  MessagesRead
  ClaimsKept
