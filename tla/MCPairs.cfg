SPECIFICATION Spec
CONSTANTS
    Absent = Absent
    Names = {"chat", "decision", "launch"}
    Tokens = {t1, t2}
    Children = {p1, p2, p3, p4}
    Memory = 13
    ChatBytes <- MCChatBytes
    DecisionBytes = 2
    LaunchBytes = {7, 8}
    ChatWeights = 2
    DecisionWeights = 1
    LaunchWeights = 4
    Crashes = TRUE
INVARIANTS
    LiveWorkerCovered
    OneWorkerPerModel
    ContextIsServed
    NoOvercommit
CONSTRAINT StatusBound
SYMMETRY Symmetry
