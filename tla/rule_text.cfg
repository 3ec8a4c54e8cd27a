SPECIFICATION Spec
CONSTANTS
    Blank = " "
    Quote = "Q"
    Tokens <- SomeTokens
    Texts <- SomeRules
    RuleTexts <- SomeRules
    LaterRules <- Second
    Mark <- SomeMarks
    Captures <- SomeCaptures
    Arguments <- SomeArguments
    Keys <- SomeKeys
    Spelling <- SomeSpelling
    Values <- SomeValues
    MaxRules = 2
INVARIANTS
    TypeOK
    WrittenOut
    NothingLost
    QuotesTell
