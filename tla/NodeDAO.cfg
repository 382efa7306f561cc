SPECIFICATION Spec
CONSTANTS
    Main = main
    Paho = paho
    Tools = {tool}
    Mac = {m1, m2}
    NoMac = NoMac
    Status = {0, 1}
    MaxId = 2
SYMMETRY Symmetry
INVARIANTS TypeOK RowsIdentify GatewayNeverDeadlocks
PROPERTY ImplementsStore
