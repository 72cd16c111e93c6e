------------------------- MODULE MCEditTransaction -------------------------
EXTENDS EditTransaction, TLC

CONSTANTS lf, crlf

\* Universal newlines: what was read is not what was there.
Newlines == [c \in Contents |-> IF c = crlf THEN lf ELSE c]

TransactionSymmetry == Permutations(Paths) \cup Permutations(Txns)
=============================================================================
