SPECIFICATION Spec
CONSTANTS
  IDs = {1}
  Names = {"a", "A", "b"}
  Types = {"TXT", "txt", "MX"}
  Values = {1}
  CanonName <- MCCanonName
  CanonType <- MCCanonType
  MaxRestore = 2
INVARIANTS IndexIsDerived
PROPERTIES ImplementsTable
