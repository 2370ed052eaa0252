SPECIFICATION FairSpec
CONSTANTS
    Runtimes = {"one", "two"}
    Files = {"shared"}
    FileOf <- MCOneFile
    Calls = {"first", "again", "stop"}
    Op <- MCOp
    Target <- MCTarget
    Programs = 2
    MaxBoots = 2
    None = None
INVARIANTS
    ResultIsOwn
PROPERTIES
    ImplementsDevice
    CallsReturn
    WorkerLeaves
CHECK_DEADLOCK FALSE
