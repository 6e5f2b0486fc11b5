SPECIFICATION DeliverySpec
CONSTANTS
  Hosts = {1}
  Config <- LetsEncrypt
  QueueCap = 1
  Fetchers = {f1}
  MaxCerts = 3
  MaxChanges = 2
  Faults = {"acme", "write", "store", "publish", "crash", "fetch", "slave", "read"}
  MaxFaults = 1
INVARIANTS
  RevisionObjectsMatchRow ChallengesAreCleanedUp PairMatchesUnlessTorn
PROPERTIES
  RevisionsGrow HTTP01CertificateIsIssued FirstCertificateArrives
