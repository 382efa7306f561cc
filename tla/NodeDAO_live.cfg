SPECIFICATION FairSpec
CONSTANTS
    Main = main
    Paho = paho
    Tools = {tool}
    Mac = {m1, m2}
    NoMac = NoMac
    Status = {1}
    MaxId = 2
PROPERTY CallsEnd
