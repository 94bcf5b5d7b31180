SPECIFICATION FairSpec
CONSTANTS
    N <- MCN
    Hosts <- MCHosts
    SkippedSets <- MCSkippedSets
    FirstNumber <- MCFirstNumber
    InitSteps = 1
    CompletionSteps = 1
INVARIANTS
    OneHostname
    MatrixRight
    EndsComplete
PROPERTIES
    FinishedStays
    Terminates
