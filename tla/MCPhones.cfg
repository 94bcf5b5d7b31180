SPECIFICATION FairSpec
CONSTANTS
    NumDevices = 2
    Apps <- MCApps
    WithIptables = {1, 2}
    WithXPrivacy = {1, 2}
    WhiteList = TRUE
    NumMessages = 4
    MaxExperiments = 2
INVARIANTS
    ScreensOnInUse
    ReadyToSend
    LeftClean
