CONSTANTS
  DnsRecords = {}
  Hosts = {h1}
  Slaves = {s1}
  Publishers = {p1, p2}
  Writers = {"plan", "bridge", "issuer", "resource"}
  Driver = "sqlite"
  Faults = {"session", "crash", "publish"}
  HubBuffer = 1
  ChunkSize = 1
  MaxRequests = 3
SPECIFICATION Spec
INVARIANTS NoSkippedUpsert GapsAreRepaired ReplicationInv
PROPERTY CursorNeverMovesBack
SYMMETRY Symmetry
