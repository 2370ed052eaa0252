------------------------------ MODULE MCTurns ------------------------------
EXTENDS Turns, TLC

\* One control is submitted twice.
MCActionId == [r \in Controls |-> "id"]
MCCid == [r \in Requests |-> "a"]
=============================================================================
