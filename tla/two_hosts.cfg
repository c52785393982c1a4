SPECIFICATION Spec

CONSTANTS
  s1 = s1
  s2 = s2
  p0 = p0
  p1 = p1
  SessionId = {s1, s2}
  Pane = {p0, p1}
  Conn = {c1}
  WebTransport = {}
  TransportId = {t1, t2}
  HostPanes <- TwoHosts
  Backend <- AgentAndLocal
  Persisted = {s1}
  Requests = {"list", "create", "connect", "disconnect", "delete", "refresh", "input", "restart"}
  DbMayFail = TRUE
  NoSession = NoSession
  NoTransport = NoTransport
  NoConn = NoConn
  NoPane = NoPane

INVARIANTS
  TypeOK
  InputStaysOnSharedPanes
