SPECIFICATION Spec
CONSTANTS
    m1 = m1
    i1 = i1
    i2 = i2
    Labels <- MCLabels
    Images = {i1, i2}
    MaxRows = 3
    MaxUsers = 1
    Goals = {0, 5, 9, 11, 14}
    NULL = NULL
INVARIANTS
    SchemaMatchesRevision
    UpgradesComplete
    RowsServable
PROPERTIES
    RowsKept
