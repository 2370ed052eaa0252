------------------------------ MODULE MCPairs ------------------------------
EXTENDS Pairs, TLC

\* Model sizes: the grown chat context needs one unit more than the prepared one.
MCChatBytes == <<3, 4>>

\* Processes and tokens are told apart only by who holds them.
Symmetry == Permutations(Children) \cup Permutations(Tokens)

\* Bound: no worker of a former assistant and no launched server beside a status()
\* within an operation; no such worker, nor one that survived its kill, after a
\* status() that cleared a record.
StatusBound ==
    /\ poll # "idle" /\ pc # "free" =>
          (\A p \in Live : child[p].ours) /\ (\A l \in Launches : launch[l] = "none")
    /\ stripped # {} => (\A p \in Live : child[p].ours) /\ doomed = {}
============================================================================
