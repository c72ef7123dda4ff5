------------------------------ MODULE MCBidding -------------------------------
EXTENDS Bidding

\* A fast contractor and a slow one; the second task is the larger one.
Reserves == [c \in Contractors |-> IF c = 1 THEN <<2, 3>> ELSE <<3, 4>>]
Expects == [c \in Contractors |-> IF c = 1 THEN <<1, 2>> ELSE <<3, 4>>]
=============================================================================
