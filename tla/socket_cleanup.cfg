SPECIFICATION Spec

CONSTANTS
  s1 = s1
  s2 = s2
  p0 = p0
  p1 = p1
  SessionId = {s1}
  Pane = {p0}
  Conn = {c1}
  WebTransport = {}
  TransportId = {t1, t2}
  HostPanes <- OnePane
  Backend <- OneSsh
  Persisted = {s1}
  Requests = {"connect"}
  DbMayFail = FALSE
  NoSession = NoSession
  NoTransport = NoTransport
  NoConn = NoConn
  NoPane = NoPane

INVARIANTS
  CleanupClosesTransports
