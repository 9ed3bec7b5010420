------------------------------ MODULE MCSipHash ------------------------------
(* An instance of SipHash for TLC: pieces of up to two words and one byte,     *)
(* whose bytes are all different.                                              *)
EXTENDS SipHash

Piece(first, n) == [i \in 1 .. n |-> first + i]
\* A piece shorter than a word starts with another byte than a longer one does.
Pieces == {Piece(0, n) : n \in {8, 9, 16, 17}} \cup {Piece(100, n) : n \in {0, 1, 3, 5, 7}}
AllBytes == 0 .. 255
==============================================================================
