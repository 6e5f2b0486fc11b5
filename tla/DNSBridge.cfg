SPECIFICATION Spec
CONSTANTS
    Objects = {"o", "p"}
    Entries <- Lists
    BadEntry = "bad"
    ManualRows <- Manual
    MaxChanges = 3
    MaxFaults = 1
PROPERTIES RecordsAreStored DeletedRecordsAreGone
CHECK_DEADLOCK FALSE
