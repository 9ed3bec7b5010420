------------------------------- MODULE MCFsprg -------------------------------
(* Instances of Fsprg for TLC: small primes, and two seeds of two bytes that   *)
(* share the first.                                                            *)
EXTENDS Fsprg

Pair(p, q) == [p |-> p, q |-> q]
TwoPairs == {Pair(7, 11), Pair(11, 7)}
ManyPairs == {Pair(7, 11), Pair(11, 7), Pair(23, 19)}

TwoSeeds == {<<1, 1>>, <<1, 2>>}
\* Epochs of one bit, of two and of three, 0, whose count is empty, and one whose
\* highest bit is set.
SomeEpochs == {0, 1, 2, 3, 4, 5, 9}
==============================================================================
