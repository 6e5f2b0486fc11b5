CONSTANTS
  DnsRecords = {d1}
  Hosts = {h1}
  Slaves = {s1}
  Publishers = {p1}
  Writers = {"bridge", "resource"}
  Driver = "postgres"
  Faults = {"session", "crash", "publish", "cursor_write"}
  HubBuffer = 1
  ChunkSize = 2
  MaxRequests = 3
SPECIFICATION LiveSpec
INVARIANT CursorIsCovered
PROPERTY SystemSettles
CHECK_DEADLOCK FALSE
