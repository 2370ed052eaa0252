SPECIFICATION Spec
CONSTANTS
    Absent = Absent
    Names = {"chat", "decision"}
    Tokens = {t1, t2}
    Children = {p1, p2, p3, p4}
    Memory = 13
    ChatBytes <- MCChatBytes
    DecisionBytes = 2
    LaunchBytes = {5, 9}
    ChatWeights = 2
    DecisionWeights = 1
    LaunchWeights = 4
    Crashes = FALSE
INVARIANT WorkerRetains
SYMMETRY Symmetry
