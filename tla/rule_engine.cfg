SPECIFICATION FairSpec
CONSTANTS
    hello = hello
    p = p
    q = q
    Texts <- OneText
    Patterns <- TwoPatterns
    Matches <- OneMatch
    RuleLists <- SomeLists
    EventFiles <- OneFile
    Rank <- SomeRanks
    Groups = 1
    MaxMessages = 2
INVARIANTS
    TypeOK
    CommandsInOrder
    CommandsKept
PROPERTIES
    CommandsArrive
    CascadesEnd
