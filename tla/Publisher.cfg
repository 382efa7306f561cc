SPECIFICATION FairSpec
CONSTANTS
    Nodes = 2
    MaxReply = 3
    MaxWire = 2
INVARIANT TypeOK
PROPERTIES ImplementsFifo RequestsResume RepliesArrive
