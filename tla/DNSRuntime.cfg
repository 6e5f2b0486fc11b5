SPECIFICATION LiveSpec
CONSTANTS
  IDs = {"r1", "r2", "k1", "k2"}
  Names = {"a", "b", "c"}
  Types = {"TXT"}
  Values = {1, 2}
  CanonName <- MCCanonName
  CanonType <- MCCanonType
  MaxRestore = 0
  Replicated <- MCReplicated
  Keys <- MCKeys
  Specs <- MCSpecs
  ChanCap = 1
  MaxChanges = 4
  MaxFaults = 1
PROPERTIES ApplyFinishesUnlessUnread StoreHeals ObjectsAreAnswered
CHECK_DEADLOCK FALSE
