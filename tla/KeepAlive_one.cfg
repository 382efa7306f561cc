SPECIFICATION Spec
CONSTANTS
    Node = {n1}
    NoNode = NoNode
    Timeout = 2
    MaxPass = 1
    MaxReloads = 1
    MaxCrashes = 1
INVARIANTS TypeOK AgreeUnlessClash
PROPERTY TimeoutExplained
