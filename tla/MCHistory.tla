----------------------------- MODULE MCHistory -----------------------------
EXTENDS History

\* Tokens of a result, and the size of a history at which each level begins.
ResultSize == [r \in Contents |-> IF r = "short" THEN 1 ELSE 4]
Levels == [prune |-> 5, protect |-> 7, full |-> 9, emergency |-> 11]
=============================================================================
