SPECIFICATION Spec
CONSTANTS
  h1 = h1
  s1 = s1
  t1 = t1
  w1 = w1
  None = None
  WebSocket = {w1}
  Prompt = {w1}
  WebTransport = {t1}
  Host = {h1}
  Session = {s1}
  hostOf <- OnOneHost
  Encrypted = {s1}
  QueueCap = 1
  Attempts = 1
  MaxDeploys = 2
  MaxLives = 2
INVARIANTS UploadsAreWhole TempFilesRemoved UpgradesAreAccepted
PROPERTIES OnlineIsNotTakenBack InstallsFinish
CHECK_DEADLOCK FALSE
