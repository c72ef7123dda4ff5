------------------------------ MODULE MCRunTask -------------------------------
EXTENDS RunTask

\* Bounds around the squares of small primes, the ends of segments and of a word.
SomeLows == {-1, 0, 2, 3, 8, 23, 24, 49, 120, 121, 168, 200, 239, 240, 241, 251, 254, 256}
SomeHighs == (-1..10) \cup (24..27) \cup (48..51) \cup (120..122) \cup (168..171) \cup (237..258)

\* Orders and moduli that are refused or empty, and the last modulus of a word and the next.
SomeOrders == {-1, 0, 1, 2}
SomeModuli == {-1, 0, 1, 2, 3, 4}
=============================================================================
