SPECIFICATION FairSpec
CONSTANTS
    NumApps = 2
    MaxExperiments = 2
INVARIANTS
    OutcomesTrue
    NoOldTunnelOnRouter1
PROPERTIES
    AllEnds
CHECK_DEADLOCK FALSE
