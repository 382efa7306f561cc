SPECIFICATION FairSpec
CONSTANTS
    Node = {n1}
    NoNode = NoNode
    Timeout = 1
    MaxPass = 0
    MaxReloads = 1
    MaxCrashes = 1
PROPERTIES DeadNodeDetected NewNodeWatched
