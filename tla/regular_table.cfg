SPECIFICATION FairSpec
CONSTANTS
    a = a
    b = b
    e1 = e1
    e2 = e2
    New = New
    Closed = Closed
    Texts <- TwoTexts
    Editors <- TwoEditors
    InitialFiles <- SomeFiles
    MaxRules = 2
    MaxRestarts = 1
INVARIANTS
    TypeOK
PROPERTIES
    KeepsTable
    RowsFollow
