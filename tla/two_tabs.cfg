SPECIFICATION FairSpec

CONSTANTS
  s1 = s1
  s2 = s2
  p0 = p0
  p1 = p1
  SessionId = {s1}
  Pane = {p0}
  Conn = {c1, c2}
  WebTransport = {c2}
  TransportId = {t1, t2, t3}
  HostPanes <- OnePane
  Backend <- OneSsh
  Persisted = {}
  Requests = {"create", "connect", "disconnect", "delete", "refresh", "restart"}
  DbMayFail = FALSE
  NoSession = NoSession
  NoTransport = NoTransport
  NoConn = NoConn
  NoPane = NoPane

INVARIANTS
  ConnectedEntryIsHeld
  StatusAgreement
  ListedPanesAreRouted
  ConnectedRowIsBacked
  LockDiscipline
  NoConnectionLeaks

PROPERTIES
  RequestsFinish
