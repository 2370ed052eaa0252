---------------------------- MODULE MCAneRuntime ----------------------------
EXTENDS AneRuntime, TLC

\* Two programs may want the device; the calls are on the first one.
MCOneFile == [r \in Runtimes |-> "shared"]
MCTwoFiles == [r \in Runtimes |-> IF r = "one" THEN "shared" ELSE "private"]
MCOp == [c \in Calls |-> IF c = "stop" THEN "shutdown" ELSE "execute"]
MCTarget == [c \in Calls |-> IF c = "other" THEN "two" ELSE "one"]
=============================================================================
