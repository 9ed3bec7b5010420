------------------------------- MODULE SipHash -------------------------------
(* siphash24_init, siphash24_compress and siphash24_finalize of                *)
(* systemd/siphash24.c: a hash that takes its input in pieces of any length.   *)
(*                                                                             *)
(* The rounds are abstract: the state v0 .. v3 is the sequence of words that   *)
(* were mixed into it.  A word is its eight bytes, lowest first, each of them  *)
(* the set of the bytes that were or-ed into it: an or into a byte that is not *)
(* zero shows.                                                                 *)
EXTENDS Integers, Sequences

CONSTANTS
    Bytes,         \* what a byte of the input may be
    Chunks,        \* the pieces the input arrives in: sequences of bytes
    MaxLength      \* bound on the length of the input

ASSUME SipHashAssumption ==
    /\ 0 .. 255 \subseteq Bytes
    /\ Chunks \subseteq Seq(Bytes)
    /\ MaxLength \in Nat

VARIABLES
    message,       \* the bytes hashed so far
    inlen,         \* state->inlen
    padding,       \* state->padding: the bytes of the word that is not yet full
    mixed,         \* state->v0 .. v3: the words mixed in so far
    digest         \* what siphash24_finalize returned, << >> before

vars == <<message, inlen, padding, mixed, digest>>

Lanes == 0 .. 7
Words == [Lanes -> SUBSET Bytes]
Zero == [i \in Lanes |-> {}]

\* word |= byte << (lane * 8), for the bytes of chunk from number from on, as many
\* as there are lanes from first to last.
OrInto(word, first, last, chunk, from) ==
    [i \in Lanes |->
        IF i \in first .. last THEN word[i] \cup {chunk[from + i - first]} ELSE word[i]]

------------------------------------------------------------------------------
\* How many bytes of the chunk go into the padding.
Taken(left, chunk) ==
    IF left = 0 THEN 0 ELSE IF Len(chunk) < 8 - left THEN Len(chunk) ELSE 8 - left

\* Fault: so does one that fills it to the last byte.
StaysPartialAtEnd(left, chunk) == left > 0 /\ Taken(left, chunk) = Len(chunk)

\* The chunk does not fill the padding: siphash24_compress returns early.
StaysPartial(left, chunk) == left > 0 /\ left + Taken(left, chunk) < 8

\* Fault: it is not cleared.
KeptPadding(left, filled) == filled

\* The padding is cleared when it was mixed in.
ClearedPadding(left, filled) == IF left > 0 THEN Zero ELSE filled

\* siphash24_compress: fill the padding up, mix it in, then the whole words that
\* are left of the chunk; the rest becomes padding.
Compress(chunk) ==
    LET left == inlen % 8
        total == inlen + Len(chunk)
        over == total % 8
        taken == Taken(left, chunk)
        filled == OrInto(padding, left, left + taken - 1, chunk, 1)
        blocks == (Len(chunk) - taken - over) \div 8
    IN  /\ inlen' = total
        /\ IF StaysPartial(left, chunk)
           THEN padding' = filled /\ UNCHANGED mixed
           ELSE /\ mixed' = mixed \o (IF left > 0 THEN <<filled>> ELSE << >>)
                     \o [k \in 1 .. blocks |->
                            OrInto(Zero, 0, 7, chunk, taken + 8 * (k - 1) + 1)]
                /\ padding' = OrInto(ClearedPadding(left, filled), 0, over - 1,
                                     chunk, taken + 8 * blocks + 1)

Feed(chunk) ==
    /\ digest = << >> /\ Len(message) + Len(chunk) <= MaxLength
    /\ Compress(chunk)
    /\ message' = message \o chunk
    /\ UNCHANGED digest

\* siphash24_finalize: the length, of which a byte is kept, is or-ed into the
\* highest byte of the padding.
Finalize ==
    /\ digest = << >>
    /\ digest' = Append(mixed, [padding EXCEPT ![7] = @ \cup {inlen % 256}])
    /\ UNCHANGED <<message, inlen, padding, mixed>>

\* siphash24_init: the key is not told apart.
Init ==
    /\ message = << >> /\ inlen = 0
    /\ padding = Zero /\ mixed = << >> /\ digest = << >>

Next == (\E chunk \in Chunks : Feed(chunk)) \/ Finalize

Spec == Init /\ [][Next]_vars

------------------------------------------------------------------------------
\* No byte of a word is or-ed into twice before the word is mixed in.
TypeOK ==
    /\ message \in Seq(Bytes) /\ Len(message) <= MaxLength
    /\ inlen = Len(message)
    /\ padding \in Words /\ mixed \in Seq(Words) /\ digest \in Seq(Words)
    /\ \A i \in Lanes : \A b, c \in padding[i] : b = c

\* The reference: word k of a message, whose bytes are numbered from 1.
WordOf(m, k) ==
    [i \in Lanes |-> LET n == 8 * (k - 1) + i + 1 IN IF n <= Len(m) THEN {m[n]} ELSE {}]

HashOf(m) ==
    [k \in 1 .. Len(m) \div 8 + 1 |->
        IF k <= Len(m) \div 8 THEN WordOf(m, k)
        ELSE [WordOf(m, k) EXCEPT ![7] = @ \cup {Len(m) % 256}]]

\* The hash of an input that arrives in pieces is the hash of the whole, however
\* it is cut: siphash24() and any sequence of siphash24_compress() agree.
PiecesHashAsWhole == digest # << >> => digest = HashOf(message)
==============================================================================
