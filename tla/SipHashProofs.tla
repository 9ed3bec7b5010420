---------------------------- MODULE SipHashProofs ----------------------------
(* The hash of a message does not depend on the pieces it arrives in.          *)
EXTENDS SipHash, TLAPS

\* Division by eight, as the code divides a length into words and bytes.
LEMMA EightParts ==
    ASSUME NEW n \in Nat
    PROVE  /\ n \div 8 \in Nat /\ n % 8 \in Lanes
           /\ n = 8 * (n \div 8) + (n % 8)
  BY DEF Lanes

LEMMA LowByte ==
    ASSUME NEW n \in Nat PROVE n % 256 \in 0 .. 255
  OBVIOUS

LEMMA EightUnique ==
    ASSUME NEW n \in Nat, NEW q \in Nat, NEW r \in Lanes, n = 8 * q + r
    PROVE  n \div 8 = q /\ n % 8 = r
  BY DEF Lanes

\* Where block number j of the chunk starts, in the chunk and in the message.
LEMMA BlockStart ==
    ASSUME NEW n \in Nat, NEW taken \in Nat, NEW base \in Nat, NEW j \in Nat, 8 * base = n + taken
    PROVE  /\ n + (taken + 8 * j + 1) - 1 = 8 * ((base + j + 1) - 1)
           /\ taken + 8 * j + 1 \in Nat \ {0}
           /\ (taken + 8 * j + 1) - 1 = taken + 8 * j
  OBVIOUS

\* What was hashed so far: whole words in mixed, the rest in the padding.
HashInv ==
    /\ message \in Seq(Bytes) /\ Len(message) <= MaxLength
    /\ inlen = Len(message)
    /\ mixed \in Seq(Words) /\ Len(mixed) = Len(message) \div 8
    /\ \A k \in 1 .. Len(message) \div 8 : mixed[k] = WordOf(message, k)
    /\ padding = WordOf(message, Len(message) \div 8 + 1)
    /\ digest # << >> => digest = HashOf(message)

\* A word that is full does not change when the message grows.
LEMMA OldWord ==
    ASSUME NEW m \in Seq(Bytes), NEW c \in Seq(Bytes), NEW k \in Nat \ {0}, 8 * k <= Len(m)
    PROVE  WordOf(m \o c, k) = WordOf(m, k)
  <1> SUFFICES ASSUME NEW i \in Lanes
               PROVE  WordOf(m \o c, k)[i] = WordOf(m, k)[i]
    BY DEF WordOf
  <1> DEFINE n == 8 * (k - 1) + i + 1
  <1>1. n \in 1 .. Len(m) /\ n <= Len(m \o c)
    BY DEF Lanes
  <1>2. (m \o c)[n] = m[n]
    BY <1>1
  <1>. QED BY <1>1, <1>2 DEF WordOf

\* The bytes that fill the padding up make it the next word of the message.
LEMMA FilledWord ==
    ASSUME NEW m \in Seq(Bytes), NEW c \in Seq(Bytes), NEW q \in Nat, NEW left \in Lanes,
           NEW taken \in Nat, Len(m) = 8 * q + left, taken <= Len(c), left + taken <= 8,
           taken = Len(c) \/ left + taken = 8
    PROVE  OrInto(WordOf(m, q + 1), left, left + taken - 1, c, 1) = WordOf(m \o c, q + 1)
  <1> DEFINE w == WordOf(m, q + 1)
  <1> SUFFICES ASSUME NEW i \in Lanes
               PROVE  OrInto(w, left, left + taken - 1, c, 1)[i] = WordOf(m \o c, q + 1)[i]
    BY DEF WordOf, OrInto
  <1> DEFINE n == 8 * q + i + 1
  <1>1. /\ i \in 0 .. 7 /\ left \in 0 .. 7 /\ n \in Nat /\ Len(m) \in Nat /\ Len(c) \in Nat
        /\ Len(m \o c) = Len(m) + Len(c)
    BY DEF Lanes
  <1>2. w[i] = IF n <= Len(m) THEN {m[n]} ELSE {}
    <2>1. 8 * ((q + 1) - 1) + i + 1 = n
      BY <1>1
    <2>. QED BY <2>1 DEF WordOf
  <1>3. WordOf(m \o c, q + 1)[i] = IF n <= Len(m) + Len(c) THEN {(m \o c)[n]} ELSE {}
    <2>1. 8 * ((q + 1) - 1) + i + 1 = n
      BY <1>1
    <2>. QED BY <1>1, <2>1 DEF WordOf
  <1> HIDE DEF w, n
  <1>0. n = 8 * q + i + 1
    BY DEF n
  <1>4. CASE i < left
    <2>1. n \in 1 .. Len(m) /\ i \notin left .. left + taken - 1
      BY <1>0, <1>1, <1>4
    <2>2. (m \o c)[n] = m[n]
      BY <2>1
    <2>3. OrInto(w, left, left + taken - 1, c, 1)[i] = w[i]
      BY <2>1 DEF OrInto
    <2>4. n <= Len(m) /\ n <= Len(m) + Len(c)
      BY <1>1, <2>1
    <2>. QED BY <1>2, <1>3, <2>2, <2>3, <2>4
  <1>5. CASE i \in left .. left + taken - 1
    <2>1. n > Len(m) /\ n <= Len(m) + Len(c) /\ n - Len(m) = 1 + i - left
      BY <1>0, <1>1, <1>5
    <2>2. (m \o c)[n] = c[n - Len(m)]
      BY <1>1, <2>1
    <2>3. OrInto(w, left, left + taken - 1, c, 1)[i] = w[i] \cup {c[1 + i - left]}
      BY <1>5 DEF OrInto
    <2>4. w[i] = {}
      BY <1>1, <1>2, <2>1
    <2>. QED BY <1>1, <1>3, <2>1, <2>2, <2>3, <2>4
  <1>6. CASE i >= left + taken
    <2>1. n > Len(m) + Len(c) /\ n > Len(m) /\ i \notin left .. left + taken - 1
      BY <1>0, <1>1, <1>6
    <2>2. OrInto(w, left, left + taken - 1, c, 1)[i] = w[i]
      BY <2>1 DEF OrInto
    <2>. QED BY <1>1, <1>2, <1>3, <2>1, <2>2
  <1>. QED BY <1>1, <1>4, <1>5, <1>6

\* Word k of m \o c lies in c from number from on, whole (last = 7) or up to the end.
LiesIn(m, c, k, from, last) ==
    /\ m \in Seq(Bytes) /\ c \in Seq(Bytes)
    /\ k \in Nat \ {0} /\ from \in Nat \ {0} /\ last \in -1 .. 7
    /\ Len(m) + from - 1 = 8 * (k - 1)
    /\ from + last <= Len(c)
    /\ last = 7 \/ from + last = Len(c)

LEMMA ChunkWord ==
    ASSUME NEW m, NEW c, NEW k, NEW from, NEW last, LiesIn(m, c, k, from, last)
    PROVE  OrInto(Zero, 0, last, c, from) = WordOf(m \o c, k)
  <1> SUFFICES ASSUME NEW i \in Lanes
               PROVE  OrInto(Zero, 0, last, c, from)[i] = WordOf(m \o c, k)[i]
    BY DEF WordOf, OrInto
  <1> USE DEF LiesIn
  <1> DEFINE n == 8 * (k - 1) + i + 1
  <1>1. /\ i \in 0 .. 7 /\ n \in Nat /\ Len(m) \in Nat /\ Len(c) \in Nat
        /\ Len(m \o c) = Len(m) + Len(c)
    BY DEF Lanes
  <1>2. WordOf(m \o c, k)[i] = IF n <= Len(m) + Len(c) THEN {(m \o c)[n]} ELSE {}
    BY <1>1 DEF WordOf
  <1>3. CASE i <= last
    <2>1. n > Len(m) /\ n <= Len(m) + Len(c) /\ n - Len(m) = from + i - 0
      BY <1>1, <1>3
    <2>2. (m \o c)[n] = c[from + i - 0]
      BY <1>1, <2>1
    <2>3. OrInto(Zero, 0, last, c, from)[i] = {} \cup {c[from + i - 0]}
      BY <1>1, <1>3 DEF OrInto, Zero
    <2>. QED BY <1>1, <1>2, <2>1, <2>2, <2>3
  <1>4. CASE i > last
    <2>1. n > Len(m) + Len(c) /\ i \notin 0 .. last
      BY <1>1, <1>4
    <2>. QED BY <1>1, <1>2, <2>1 DEF OrInto, Zero
  <1>. QED BY <1>1, <1>3, <1>4

LEMMA WordTypes ==
    ASSUME NEW m \in Seq(Bytes), NEW k \in Nat \ {0}
    PROVE  WordOf(m, k) \in Words
  <1> SUFFICES ASSUME NEW i \in Lanes PROVE WordOf(m, k)[i] \in SUBSET Bytes
    BY DEF WordOf, Words
  <1> DEFINE n == 8 * (k - 1) + i + 1
  <1>1. n \in Nat \ {0} /\ (n <= Len(m) => m[n] \in Bytes)
    BY DEF Lanes
  <1>. QED BY <1>1 DEF WordOf

LEMMA TakenFits ==
    ASSUME NEW left \in Lanes, NEW c \in Seq(Bytes)
    PROVE  /\ Taken(left, c) \in Nat /\ Taken(left, c) <= Len(c)
           /\ left + Taken(left, c) <= 8
           /\ left = 0 => Taken(left, c) = 0
           /\ left > 0 => Taken(left, c) = Len(c) \/ left + Taken(left, c) = 8
  <1>1. Len(c) \in Nat /\ left \in 0 .. 7
    BY DEF Lanes
  <1>. QED BY <1>1 DEF Taken

------------------------------------------------------------------------------
LEMMA InitHashes == Init => HashInv
  <1> SUFFICES ASSUME Init PROVE HashInv
    OBVIOUS
  <1>1. message \in Seq(Bytes) /\ Len(message) = 0 /\ inlen = 0 /\ digest = << >>
        /\ mixed \in Seq(Words) /\ Len(mixed) = 0 /\ padding = Zero
    BY DEF Init
  <1>2. Len(message) \div 8 = 0 /\ 0 <= MaxLength
    BY <1>1, SipHashAssumption
  <1>3. WordOf(message, 0 + 1) = Zero
    BY <1>1 DEF WordOf, Zero, Lanes
  <1>. QED BY <1>1, <1>2, <1>3 DEF HashInv

\* Feeding keeps the invariant.  q and left divide the length before the chunk,
\* size and over the length after it; base words are full once the padding is.
LEMMA FeedHashes ==
    ASSUME HashInv, NEW chunk \in Chunks, Feed(chunk)
    PROVE  HashInv'
  <1> DEFINE q == Len(message) \div 8
             left == Len(message) % 8
             total == Len(message) + Len(chunk)
             size == total \div 8
             over == total % 8
             taken == Taken(left, chunk)
             base == IF left > 0 THEN q + 1 ELSE q
             filled == OrInto(padding, left, left + taken - 1, chunk, 1)
             blocks == (Len(chunk) - taken - over) \div 8
  <1>1. /\ message \in Seq(Bytes) /\ Len(message) \in Nat
        /\ chunk \in Seq(Bytes) /\ Len(chunk) \in Nat
        /\ message' = message \o chunk /\ message' \in Seq(Bytes)
        /\ Len(message') = total /\ total \in Nat /\ Len(message') <= MaxLength
        /\ inlen = Len(message) /\ digest' = << >>
    <2>1. message \in Seq(Bytes) /\ chunk \in Seq(Bytes) /\ inlen = Len(message)
      BY SipHashAssumption DEF HashInv
    <2>2. message' = message \o chunk /\ digest' = << >> /\ total <= MaxLength
      BY DEF Feed
    <2>. QED BY <2>1, <2>2
  <1>2. /\ q \in Nat /\ left \in Lanes /\ Len(message) = 8 * q + left
        /\ size \in Nat /\ over \in Lanes /\ total = 8 * size + over
    BY <1>1, EightParts
  <1>3. /\ padding = WordOf(message, q + 1) /\ Len(mixed) = q
        /\ \A k \in 1 .. q : mixed[k] = WordOf(message, k)
        /\ mixed \in Seq(Words)
    BY DEF HashInv
  <1>4. /\ taken \in Nat /\ taken <= Len(chunk) /\ left + taken <= 8
        /\ left = 0 => taken = 0
        /\ left > 0 => taken = Len(chunk) \/ left + taken = 8
    BY <1>1, <1>2, TakenFits
  <1>5. \A k \in 1 .. q : WordOf(message', k) = WordOf(message, k)
    BY <1>1, <1>2, OldWord DEF Lanes
  <1>6. inlen' = Len(message')
    BY <1>1 DEF Feed, Compress
  <1>0. /\ total = Len(message) + Len(chunk)
        /\ left > 0 => base = q + 1
        /\ ~(left > 0) => base = q
    OBVIOUS
  <1>9. filled = OrInto(padding, left, left + taken - 1, chunk, 1)
    OBVIOUS
  <1>10. StaysPartial(left, chunk) <=> left > 0 /\ left + taken < 8
    BY DEF StaysPartial
  <1> HIDE DEF q, left, total, size, over, taken, base, filled, blocks
  <1>7. CASE StaysPartial(left, chunk)
    <2>1. left > 0 /\ taken = Len(chunk) /\ left + taken \in Lanes
      BY <1>1, <1>2, <1>4, <1>7, <1>10 DEF Lanes
    <2>2. total = 8 * q + (left + taken)
      BY <1>0, <1>1, <1>2, <2>1 DEF Lanes
    <2>3. size = q
      BY <1>1, <1>2, <2>1, <2>2, EightUnique, ZenonT(30) DEF size
    <2>4. padding' = filled /\ mixed' = mixed
      BY <1>1, <1>7 DEF Feed, Compress, left, taken, filled
    <2>5. filled = WordOf(message', q + 1)
      BY <1>1, <1>2, <1>3, <1>4, <1>9, <2>1, FilledWord
    <2>. QED BY <1>1, <1>3, <1>5, <1>6, <2>3, <2>4, <2>5 DEF HashInv, size
  <1>8. CASE ~StaysPartial(left, chunk)
    <2> DEFINE first == IF left > 0 THEN <<filled>> ELSE << >>
               words == [k \in 1 .. blocks |->
                            OrInto(Zero, 0, 7, chunk, taken + 8 * (k - 1) + 1)]
               pre == mixed \o first
    <2>1. /\ mixed' = pre \o words
          /\ padding' = OrInto(ClearedPadding(left, filled), 0, over - 1,
                               chunk, taken + 8 * blocks + 1)
      BY <1>1, <1>8 DEF Feed, Compress, left, total, over, taken, filled, blocks
    <2>2. base \in Nat /\ 8 * base = Len(message) + taken
      <3>1. CASE left > 0
        <4>1. left + taken = 8
          BY <1>2, <1>4, <1>8, <1>10, <3>1 DEF Lanes
        <4>. QED BY <1>0, <1>2, <1>4, <3>1, <4>1 DEF Lanes
      <3>2. CASE left = 0
        BY <1>0, <1>2, <1>4, <3>2
      <3>. QED BY <1>2, <3>1, <3>2 DEF Lanes
    <2>3. Len(chunk) - taken - over = 8 * (size - base)
      BY <1>0, <1>1, <1>2, <1>4, <2>2 DEF Lanes
    <2>4. size - base \in Nat
      BY <1>0, <1>1, <1>2, <1>4, <2>2 DEF Lanes
    <2>5. blocks = size - base
      <3>1. (8 * (size - base)) \div 8 = size - base
        BY <2>4
      <3>. QED BY <2>3, <3>1 DEF blocks
    <2> HIDE DEF first, words
    <2>6. ClearedPadding(left, filled) = Zero
      <3>1. CASE left > 0
        BY <3>1 DEF ClearedPadding
      <3>2. CASE left = 0
        <4>1. filled = padding
          BY <1>3, <1>4, <1>9, <3>2 DEF OrInto, WordOf
        <4>2. padding = Zero
          <5>1. ASSUME NEW i \in Lanes PROVE 8 * ((q + 1) - 1) + i + 1 > Len(message)
            BY <1>2, <3>2 DEF Lanes
          <5>2. ASSUME NEW i \in Lanes PROVE WordOf(message, q + 1)[i] = {}
            BY <1>1, <1>2, <5>1 DEF WordOf, Lanes
          <5>. QED BY <1>3, <5>2 DEF WordOf, Zero
        <4>. QED BY <3>2, <4>1, <4>2 DEF ClearedPadding
      <3>. QED BY <1>2, <3>1, <3>2 DEF Lanes
    <2>7. /\ pre \in Seq(Words) /\ Len(pre) = base
          /\ \A k \in 1 .. base : pre[k] = WordOf(message', k)
      <3>1. CASE left > 0
        <4>1. filled = WordOf(message', q + 1)
          BY <1>1, <1>2, <1>3, <1>4, <1>9, <3>1, FilledWord
        <4>2. pre = mixed \o <<filled>> /\ base = q + 1
          BY <1>0, <3>1 DEF first
        <4>3. filled \in Words
          <5>1. message \o chunk \in Seq(Bytes) /\ q + 1 \in Nat \ {0}
            BY <1>1, <1>2
          <5>. QED BY <1>1, <4>1, <5>1, WordTypes
        <4>. HIDE DEF pre
        <4>4. pre \in Seq(Words) /\ Len(pre) = q + 1
          BY <1>2, <1>3, <4>2, <4>3
        <4>5. ASSUME NEW k \in 1 .. q + 1 PROVE pre[k] = WordOf(message', k)
          <5>1. CASE k = q + 1
            BY <1>2, <1>3, <4>1, <4>2, <5>1
          <5>2. CASE k \in 1 .. q
            BY <1>2, <1>3, <1>5, <4>2, <5>2
          <5>. QED BY <1>2, <5>1, <5>2
        <4>. QED BY <4>2, <4>4, <4>5
      <3>2. CASE left = 0
        <4>1. pre = mixed /\ base = q
          BY <1>0, <1>3, <3>2 DEF first
        <4>. QED BY <1>3, <1>5, <4>1
      <3>. QED BY <1>2, <3>1, <3>2 DEF Lanes
    <2>8. /\ words \in Seq(Words) /\ Len(words) = blocks
          /\ \A k \in 1 .. blocks : words[k] = WordOf(message', base + k)
      <3>1. ASSUME NEW k \in 1 .. blocks
            PROVE  OrInto(Zero, 0, 7, chunk, taken + 8 * (k - 1) + 1)
                        = WordOf(message', base + k)
        <4>1. k - 1 \in Nat /\ base + (k - 1) + 1 = base + k /\ base + k \in Nat \ {0}
          BY <2>2, <2>4, <2>5
        <4>2. /\ Len(message) + (taken + 8 * (k - 1) + 1) - 1 = 8 * ((base + k) - 1)
              /\ taken + 8 * (k - 1) + 1 \in Nat \ {0}
              /\ (taken + 8 * (k - 1) + 1) - 1 = taken + 8 * (k - 1)
          <5>1. Len(message) \in Nat /\ taken \in Nat
            BY <1>1, <1>4
          <5>. QED BY <2>2, <4>1, <5>1, BlockStart
        <4> DEFINE from == taken + 8 * (k - 1) + 1
        <4>3. LiesIn(message, chunk, base + k, from, 7)
          <5>1. taken + 8 * (k - 1) + 8 <= Len(chunk)
            BY <1>1, <1>2, <1>4, <2>2, <2>3, <2>4, <2>5 DEF Lanes
          <5>2. from + 7 <= Len(chunk)
            <6>1. from + 7 = taken + 8 * (k - 1) + 8
              BY <1>4, <4>1
            <6>. QED BY <5>1, <6>1
          <5>. QED BY <1>1, <4>1, <4>2, <5>2 DEF LiesIn
        <4> HIDE DEF from
        <4>7. OrInto(Zero, 0, 7, chunk, from) = WordOf(message \o chunk, base + k)
          BY <4>3, ChunkWord
        <4>. QED BY <1>1, <4>7 DEF from
      <3>2. ASSUME NEW k \in 1 .. blocks PROVE WordOf(message', base + k) \in Words
        <4>1. message \o chunk \in Seq(Bytes) /\ base + k \in Nat \ {0}
          BY <1>1, <2>2, <2>4, <2>5
        <4>. QED BY <1>1, <4>1, WordTypes
      <3>. QED BY <2>4, <2>5, <3>1, <3>2 DEF words
    <2> HIDE DEF pre
    <2>9. padding' = WordOf(message', size + 1)
      <3> DEFINE from == taken + 8 * blocks + 1
      <3> HIDE DEF from
      <3>1. Len(message) \in Nat /\ taken \in Nat /\ blocks \in Nat /\ base + blocks = size
        BY <1>1, <1>2, <1>4, <2>2, <2>4, <2>5
      <3>2. /\ from \in Nat \ {0} /\ Len(message) + from - 1 = 8 * ((size + 1) - 1)
            /\ from - 1 = taken + 8 * blocks
        BY <2>2, <3>1, BlockStart DEF from
      <3>3. taken + 8 * blocks + over = Len(chunk)
        BY <1>1, <1>2, <1>4, <2>2, <2>3, <2>4, <2>5 DEF Lanes
      <3> DEFINE last == over - 1
      <3>5. LiesIn(message, chunk, size + 1, from, last)
        <4>1. size + 1 \in Nat \ {0} /\ last \in -1 .. 7 /\ over \in Nat
          BY <1>2 DEF Lanes
        <4>2. from + last = Len(chunk) /\ from + last <= Len(chunk)
          <5>1. from \in Int /\ over \in Int /\ last = over - 1 /\ Len(chunk) \in Int
            BY <1>1, <1>2, <3>2 DEF Lanes
          <5>2. from + last = (from - 1) + over
            BY <5>1
          <5>. QED BY <1>1, <3>2, <3>3, <5>2
        <4>. QED BY <1>1, <3>2, <4>1, <4>2 DEF LiesIn
      <3> HIDE DEF last
      <3>4. OrInto(Zero, 0, last, chunk, from) = WordOf(message \o chunk, size + 1)
        BY <3>5, ChunkWord
      <3>. QED BY <1>1, <2>1, <2>6, <3>4 DEF from, last
    <2>10. mixed' \in Seq(Words) /\ Len(mixed') = size
      <3>1. base + blocks = size /\ base \in Nat /\ blocks \in Nat
        BY <1>2, <2>2, <2>4, <2>5
      <3>2. pre \o words \in Seq(Words) /\ Len(pre \o words) = Len(pre) + Len(words)
        BY <2>7, <2>8
      <3>. QED BY <2>1, <2>7, <2>8, <3>1, <3>2
    <2>11. ASSUME NEW k \in 1 .. size PROVE mixed'[k] = WordOf(message', k)
      <3>1. CASE k \in 1 .. base
        BY <2>1, <2>2, <2>7, <2>8, <3>1
      <3>2. CASE k \in base + 1 .. base + blocks
        <4>1. (pre \o words)[k] = words[k - base] /\ k - base \in 1 .. blocks
          BY <2>2, <2>4, <2>5, <2>7, <2>8, <3>2, SMTT(30)
        <4>. QED BY <2>1, <2>2, <2>8, <4>1
      <3>. QED BY <1>2, <2>2, <2>4, <2>5, <3>1, <3>2
    <2>. QED BY <1>1, <1>2, <1>6, <2>9, <2>10, <2>11 DEF HashInv, size
  <1>. QED BY <1>7, <1>8

LEMMA FinalizeHashes ==
    ASSUME HashInv, Finalize
    PROVE  HashInv'
  <1> DEFINE q == Len(message) \div 8
  <1>1. /\ UNCHANGED <<message, inlen, padding, mixed>>
        /\ digest' = Append(mixed, [padding EXCEPT ![7] = @ \cup {inlen % 256}])
    BY DEF Finalize
  <1>2. q \in Nat /\ message \in Seq(Bytes)
    BY EightParts DEF HashInv
  <1>3. /\ inlen = Len(message) /\ padding = WordOf(message, q + 1)
        /\ mixed \in Seq(Words) /\ Len(mixed) = q
        /\ \A k \in 1 .. q : mixed[k] = WordOf(message, k)
    BY DEF HashInv
  <1> DEFINE last == [WordOf(message, q + 1) EXCEPT ![7] = @ \cup {Len(message) % 256}]
  <1>4. digest' = Append(mixed, last)
    BY <1>1, <1>3
  <1> HIDE DEF last
  <1>5. WordOf(message, q + 1) \in Words /\ last \in [Lanes -> SUBSET (Bytes \cup Int)]
    <2>1. WordOf(message, q + 1) \in Words
      BY <1>2, WordTypes
    <2>2. Len(message) % 256 \in Int
      BY <1>2
    <2>. QED BY <2>1, <2>2, ZenonT(30) DEF last, Words
  <1>6. /\ DOMAIN digest' = 1 .. q + 1
        /\ digest'[q + 1] = last
        /\ \A k \in 1 .. q : digest'[k] = WordOf(message, k)
    <2> HIDE DEF q
    <2>. QED BY <1>2, <1>3, <1>4, <1>5
  <1>7. digest' = HashOf(message)
    <2>1. HashOf(message) = [k \in 1 .. q + 1 |-> IF k <= q THEN WordOf(message, k)
                             ELSE [WordOf(message, k) EXCEPT ![7] = @ \cup {Len(message) % 256}]]
      BY DEF HashOf
    <2>2. /\ DOMAIN HashOf(message) = 1 .. q + 1
          /\ \A k \in 1 .. q : HashOf(message)[k] = WordOf(message, k)
          /\ HashOf(message)[q + 1] = last
      <3> HIDE DEF q
      <3>. QED BY <1>2, <2>1 DEF last
    <2>3. /\ digest' = [k \in DOMAIN digest' |-> digest'[k]]
          /\ HashOf(message) = [k \in DOMAIN HashOf(message) |-> HashOf(message)[k]]
      <3>1. digest' \in Seq({last} \cup Words)
        <4> HIDE DEF q
        <4>. QED BY <1>3, <1>4
      <3>. QED BY <3>1 DEF HashOf
    <2>4. ASSUME NEW k \in 1 .. q + 1
          PROVE  digest'[k] = HashOf(message)[k]
      <3> HIDE DEF q
      <3>1. k = q + 1 \/ k \in 1 .. q
        BY <1>2
      <3>. QED BY <1>6, <2>2, <3>1
    <2> HIDE DEF q
    <2>. QED BY <1>6, <2>2, <2>3, <2>4
  <1>. QED BY <1>1, <1>3, <1>7 DEF HashInv

\* The invariant holds in every reachable state.
LEMMA HashesSoFar == Spec => []HashInv
  <1>1. ASSUME HashInv, [Next]_vars PROVE HashInv'
    <2>1. CASE UNCHANGED vars
      <3>1. /\ message' = message /\ inlen' = inlen /\ padding' = padding
            /\ mixed' = mixed /\ digest' = digest
        BY <2>1 DEF vars
      <3>. QED BY <1>1, <3>1 DEF HashInv
    <2>2. CASE Next
      BY <1>1, <2>2, FeedHashes, FinalizeHashes DEF Next
    <2>. QED BY <1>1, <2>1, <2>2
  <1>. QED BY <1>1, InitHashes, PTL DEF Spec

\* For every message and every way to cut it into pieces, the hash is that of the
\* whole: siphash24_compress keeps what is left of a word without loss or repeat.
THEOREM CutDoesNotMatter == Spec => []PiecesHashAsWhole
  <1>1. HashInv => PiecesHashAsWhole
    BY DEF HashInv, PiecesHashAsWhole
  <1>. QED BY <1>1, HashesSoFar, PTL

\* The type invariant: no byte of the padding is or-ed into twice.
THEOREM NoByteTwice == Spec => []TypeOK
  <1>1. ASSUME HashInv PROVE TypeOK
    <2> DEFINE q == Len(message) \div 8
    <2>1. q \in Nat /\ message \in Seq(Bytes) /\ padding = WordOf(message, q + 1)
      BY <1>1, EightParts DEF HashInv
    <2>2. padding \in Words
      BY <2>1, WordTypes
    <2>3. \A i \in Lanes : \A b, c \in padding[i] : b = c
      BY <2>1 DEF WordOf
    <2>4. HashOf(message) \in Seq(Words)
      <3> DEFINE last == [WordOf(message, q + 1) EXCEPT ![7] = @ \cup {Len(message) % 256}]
      <3>1. Len(message) % 256 \in Bytes
        <4>1. Len(message) \in Nat
          BY <2>1
        <4>2. Len(message) % 256 \in 0 .. 255
          BY <4>1, LowByte
        <4>. QED BY <4>2, SipHashAssumption
      <3>2. last \in Words
        BY <2>1, <2>2, <3>1, ZenonT(30) DEF Words
      <3>3. ASSUME NEW k \in 1 .. q + 1, k <= q PROVE WordOf(message, k) \in Words
        BY <2>1, <3>3, WordTypes
      <3>4. ASSUME NEW k \in 1 .. q + 1, ~(k <= q) PROVE k = q + 1
        BY <2>1, <3>4
      <3>5. HashOf(message) = [k \in 1 .. q + 1 |-> IF k <= q THEN WordOf(message, k)
                              ELSE [WordOf(message, k) EXCEPT ![7] = @ \cup {Len(message) % 256}]]
        BY DEF HashOf
      <3>6. ASSUME NEW k \in 1 .. q + 1
            PROVE  (IF k <= q THEN WordOf(message, k)
                    ELSE [WordOf(message, k) EXCEPT ![7] = @ \cup {Len(message) % 256}]) \in Words
        <4>1. CASE k <= q
          BY <3>3, <4>1
        <4>2. CASE ~(k <= q)
          <5>1. k = q + 1
            BY <3>4, <4>2
          <5>2. [WordOf(message, k) EXCEPT ![7] = @ \cup {Len(message) % 256}] = last
            BY <5>1
          <5> HIDE DEF last
          <5>. QED BY <3>2, <4>2, <5>2
        <4>. QED BY <4>1, <4>2
      <3> HIDE DEF q, last
      <3>. QED BY <2>1, <3>5, <3>6
    <2>5. digest \in Seq(Words)
      <3>1. digest = << >> \/ digest = HashOf(message)
        BY <1>1 DEF HashInv
      <3>2. << >> \in Seq(Words)
        OBVIOUS
      <3>. QED BY <2>4, <3>1, <3>2
    <2>6. /\ message \in Seq(Bytes) /\ Len(message) <= MaxLength
          /\ inlen = Len(message) /\ mixed \in Seq(Words)
      BY <1>1 DEF HashInv
    <2>. QED BY <2>2, <2>3, <2>5, <2>6 DEF TypeOK
  <1>. QED BY <1>1, HashesSoFar, PTL

==============================================================================
