SPECIFICATION Spec
CONSTANTS
    Runtimes = {"one", "two"}
    Files = {"shared", "private"}
    FileOf <- MCTwoFiles
    Calls = {"first", "again", "stop"}
    Op <- MCOp
    Target <- MCTarget
    Programs = 2
    MaxBoots = 2
    None = None
PROPERTIES
    ImplementsDevice
CHECK_DEADLOCK FALSE
