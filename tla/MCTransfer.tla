----------------------------- MODULE MCTransfer -----------------------------
EXTENDS Transfer, TLC

\* The first bundle carries everything, the second one pair and the wheels; the
\* manifest of the first names the pairs in another order than the directories.
MCSwaps == "b1" :> <<"compact", "quality", "wheels">> @@ "b2" :> <<"compact", "wheels">>
MCActivates == "b1" :> <<"quality", "compact">> @@ "b2" :> <<"compact">>
=============================================================================
