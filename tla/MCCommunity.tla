---------------------------- MODULE MCCommunity ----------------------------
(* Small instances of CommunityData for TLC: one submission, two collectors *)
(* (one of them may leave an invocation behind), one reader and the timer.  *)
EXTENDS CommunityData

CONSTANTS s1, c1, c2, o1, r1, t1

MCSubs == {s1}
MCClients == {c1, c2}
MCOneClient == {c1}
MCWants == [c \in Clients |-> s1]
MCOrphans == {o1}
MCReaders == {r1}
=============================================================================
