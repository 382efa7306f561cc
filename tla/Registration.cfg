SPECIFICATION FairSpec
CONSTANTS
    Mac = {m1, m2}
    NoMac = NoMac
    MaxEvents = 4
    MaxFaults = 2
    MaxCrashes = 1
INVARIANT TypeOK
PROPERTIES ToldIsWatched ImplementsRegistry RetryingNodeIsTold
