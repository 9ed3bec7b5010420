---------------------------- MODULE IsSocketProofs ----------------------------
(* Proofs about is_socket_sockaddr() and is_socket_inet(), and about what they *)
(* are built on: parse_sockaddr() reads exactly the notations, each as the     *)
(* address that it denotes.  They hold for every width of a byte and of the    *)
(* unsigned types, every vocabulary and every text over it.                    *)
EXTENDS IsSocket, SequenceTheorems, WellFoundedInduction, TLAPS

------------------------------------------------------------------------------
(* The operators that the parser is built from.                               *)

\* The texts.
Texts == Seq(Pieces)

\* The kinds of the words are not the kinds of the brackets and of the colon.
LEMMA PieceKinds ==
    /\ \A w \in Words : /\ w.kind \notin {"open", "close", "colon", "colons"}
                        /\ w # Open /\ w # Close /\ w # Colon /\ w # Colons
    /\ Open.kind = "open" /\ Close.kind = "close" /\ Colon.kind = "colon" /\ Colons.kind = "colons"
<1>1. Open.kind = "open" /\ Close.kind = "close" /\ Colon.kind = "colon" /\ Colons.kind = "colons"
    BY DEF Open, Close, Colon, Colons, Piece
<1>2. \A w \in Words : w.kind \in {"v4", "v6", "name", "number", "minus", "blank_minus"}
    BY SockAddrAssumption, Zenon
<1> QED
    BY <1>1, <1>2

\* Min() of a set of numbers is its least number.
LEMMA Least ==
    ASSUME NEW S \in SUBSET Nat, S # {}
    PROVE  Min(S) \in S /\ \A y \in S : Min(S) <= y
<1>1. PICK x \in S : \A y \in S : ~ (<<y, x>> \in OpToRel(<, Nat))
    BY NatLessThanWellFounded, WFMin
<1>2. ASSUME NEW y \in S PROVE x <= y
    <2>1. x \in Nat /\ y \in Nat
        OBVIOUS
    <2>2. ~ (y < x)
        BY <1>1, <2>1 DEF OpToRel
    <2> QED
        BY <2>1, <2>2
<1> QED
    BY <1>2 DEF Min

\* FirstOf() finds the first piece of one of the kinds, as strchr() does.
LEMMA FirstOfIs ==
    ASSUME NEW s \in Texts, NEW kinds
    PROVE  \/ FirstOf(s, kinds) = 0 /\ \A i \in DOMAIN s : s[i].kind \notin kinds
           \/ /\ FirstOf(s, kinds) \in DOMAIN s /\ s[FirstOf(s, kinds)].kind \in kinds
              /\ \A i \in DOMAIN s : s[i].kind \in kinds => FirstOf(s, kinds) <= i
<1> DEFINE at == {i \in DOMAIN s : s[i].kind \in kinds}
<1>1. CASE at = {}
    BY <1>1 DEF FirstOf
<1>2. CASE at # {}
    <2>1. at \in SUBSET Nat
        BY LenProperties DEF Texts
    <2>3. Min(at) \in at /\ \A i \in at : Min(at) <= i
        BY <1>2, <2>1, Least
    <2> QED
        BY <1>2, <2>3 DEF FirstOf
<1> QED
    BY <1>1, <1>2

\* One piece and two pieces cut out of a text.
LEMMA Slices ==
    ASSUME NEW s \in Texts, NEW k \in 1 .. Len(s)
    PROVE  /\ SubSeq(s, k, k) = <<s[k]>>
           /\ k + 1 <= Len(s) => SubSeq(s, k, k + 1) = <<s[k], s[k + 1]>>
<1>1. s \in Seq(Pieces) /\ Len(s) \in Nat /\ k \in Int /\ k + 1 \in Int
    BY LenProperties DEF Texts
<1>2. \A i \in 1 .. Len(s) : s[i] \in Pieces
    BY <1>1, ElementOfSeq
<1>3. SubSeq(s, k, k) = <<s[k]>>
    <2> DEFINE t == SubSeq(s, k, k)
    <2>0. \A i \in k .. k : s[i] \in Pieces
        BY <1>1, <1>2
    <2>1. /\ t \in Seq(Pieces) /\ Len(t) = IF k <= k THEN k - k + 1 ELSE 0
          /\ \A i \in 1 .. k - k + 1 : t[i] = s[k + i - 1]
        BY ONLY <1>1, <2>0, SubSeqProperties
    <2>2. Len(t) = 1 /\ t[1] = s[k]
        BY <1>1, <2>1
    <2>3. <<s[k]>> \in Seq(Pieces) /\ Len(<<s[k]>>) = 1 /\ <<s[k]>>[1] = s[k]
        BY <1>2
    <2>4. \A i \in 1 .. Len(t) : t[i] = <<s[k]>>[i]
        BY <2>2, <2>3
    <2> HIDE DEF t
    <2>5. t = <<s[k]>>
        BY <2>1, <2>2, <2>3, <2>4, SeqEqual
    <2> QED
        BY <2>5 DEF t
<1>4. ASSUME k + 1 <= Len(s) PROVE SubSeq(s, k, k + 1) = <<s[k], s[k + 1]>>
    <2> DEFINE t == SubSeq(s, k, k + 1)
               u == <<s[k], s[k + 1]>>
    <2>0. \A i \in k .. k + 1 : s[i] \in Pieces
        BY <1>1, <1>2, <1>4
    <2>1. /\ t \in Seq(Pieces) /\ Len(t) = IF k <= k + 1 THEN k + 1 - k + 1 ELSE 0
          /\ \A i \in 1 .. k + 1 - k + 1 : t[i] = s[k + i - 1]
        BY ONLY <1>1, <2>0, SubSeqProperties
    <2>2. Len(t) = 2 /\ t[1] = s[k] /\ t[2] = s[k + 1]
        BY <1>1, <2>1
    <2>3. u \in Seq(Pieces) /\ Len(u) = 2 /\ u[1] = s[k] /\ u[2] = s[k + 1]
        BY <2>0, <1>1
    <2> HIDE DEF t, u
    <2>4. ASSUME NEW i \in 1 .. Len(t) PROVE t[i] = u[i]
        <3>1. i = 1 \/ i = 2
            BY <2>2
        <3> QED
            BY <2>2, <2>3, <3>1
    <2>5. t = u
        BY <2>1, <2>2, <2>3, <2>4, SeqEqual
    <2> QED
        BY <2>5 DEF t, u
<1> QED
    BY <1>3, <1>4

\* The part behind a piece.
LEMMA Behind ==
    ASSUME NEW s \in Texts, NEW k \in 0 .. Len(s)
    PROVE  /\ SubSeq(s, k + 1, Len(s)) \in Texts
           /\ Len(SubSeq(s, k + 1, Len(s))) = Len(s) - k
           /\ \A i \in 1 .. Len(s) - k : SubSeq(s, k + 1, Len(s))[i] = s[k + i]
<1>1. s \in Seq(Pieces) /\ Len(s) \in Nat /\ k + 1 \in Int
    BY LenProperties DEF Texts
<1>2. \A i \in k + 1 .. Len(s) : s[i] \in Pieces
    BY <1>1, ElementOfSeq
<1> DEFINE m == k + 1
           t == SubSeq(s, m, Len(s))
<1>3. /\ t \in Seq(Pieces) /\ Len(t) = IF m <= Len(s) THEN Len(s) - m + 1 ELSE 0
      /\ \A i \in 1 .. Len(s) - m + 1 : t[i] = s[m + i - 1]
    BY ONLY <1>1, <1>2, SubSeqProperties
<1> HIDE DEF t
<1>4. Len(t) = Len(s) - k /\ \A i \in 1 .. Len(s) - k : t[i] = s[k + i]
    BY <1>1, <1>3
<1> QED
    BY <1>3, <1>4 DEF t, Texts

\* What stays within the width is kept, and what comes right after it is 0.
LEMMA Remainders ==
    ASSUME NEW n \in Nat, NEW a \in 0 .. n
    PROVE  /\ a % (n + 1) = a
           /\ (n + 1) % (n + 1) = 0
BY SMT

LEMMA Constants ==
    /\ Byte \in Nat /\ Byte > 0 /\ UIntMax \in Nat /\ ULongMax \in Nat
    /\ PortMax \in Nat /\ PortMax < UIntMax /\ UIntMax < ULongMax
    /\ PortMax = Byte * Byte - 1
<1>1. /\ Byte \in Nat \ {0} /\ UIntMax \in Nat /\ ULongMax \in Nat
      /\ Byte * Byte - 1 < UIntMax /\ UIntMax < ULongMax
    BY SockAddrAssumption, Zenon
<1>2. Byte \in Nat /\ Byte > 0
    BY <1>1
<1>3. Byte * Byte \in Nat /\ Byte * Byte > 0
    BY <1>2
<1> QED
    BY <1>1, <1>2, <1>3 DEF PortMax

LEMMA Bounds ==
    /\ UIntMax \in Nat /\ ULongMax \in Nat /\ PortMax \in Nat
    /\ PortMax < UIntMax /\ UIntMax < ULongMax
BY Constants

\* HtoBe16() exchanges the two digits of a port.
LEMMA Swapped ==
    ASSUME NEW p \in 0 .. PortMax
    PROVE  \E high \in 0 .. Byte - 1, low \in 0 .. Byte - 1 :
                p = high * Byte + low /\ HtoBe16(p) = low * Byte + high
<1>1. Byte \in Nat /\ Byte > 0 /\ p \in Nat /\ p < Byte * Byte
    BY Constants
<1> DEFINE q == p \div Byte
           r == p % Byte
<1>2. q \in Int /\ r \in 0 .. Byte - 1 /\ p = Byte * q + r
    BY <1>1
<1>3. q \in 0 .. Byte - 1
    BY <1>1, <1>2
<1>4. p = q * Byte + r
    BY <1>1, <1>2, <1>3
<1> QED
    BY <1>2, <1>3, <1>4 DEF HtoBe16


\* An address with another port, and an error is an error.
LEMMA AddressFields ==
    /\ \A family, host, scope, port, other :
        /\ [Address(family, host, other, scope) EXCEPT !.port = port] = Address(family, host, port, scope)
        /\ Address(family, host, port, scope).err = "none"
        /\ Address(family, host, port, scope).port = port
    /\ \A e : Error(e).err = e
BY DEF Address, Error

\* A port is accepted as one.
LEMMA PortText ==
    ASSUME NEW p \in Ports, NEW address
    PROVE  /\ SafeAtou(<<p>>).err = "none"
           /\ WithPort(<<p>>, address) = [address EXCEPT !.port = HtoBe16(p.of)]
<1>1. p.kind = "number" /\ p.of \in 1 .. PortMax
    BY DEF Ports
<1>2. p.of \in Nat /\ ~(p.of > ULongMax) /\ ~(p.of > UIntMax)
    BY <1>1, Bounds
<1>3. <<p>> # << >> /\ <<p>>[1] = p /\ ~(Len(<<p>>) > 1)
    OBVIOUS
<1>4. SafeAtou(<<p>>) = [err |-> "none", u |-> p.of]
    BY <1>1, <1>2, <1>3 DEF SafeAtou
<1> QED
    BY <1>1, <1>4 DEF WithPort

\* The unsigned negation of a number is small only where the number wraps.
LEMMA Wrapped ==
    ASSUME NEW w \in Words, w.of \in Nat, ~(w.of > ULongMax), w.kind = "blank_minus", ~Wraps(w),
           ~((ULongMax + 1 - w.of) % (ULongMax + 1) > UIntMax)
    PROVE  (ULongMax + 1 - w.of) % (ULongMax + 1) = 0
<1>1. PICK n \in Nat : n = w.of
    OBVIOUS
<1>2. n <= ULongMax /\ ULongMax + 1 - n > UIntMax
    BY <1>1, Bounds DEF Wraps
<1>3. CASE n = 0
    BY <1>1, <1>3, Bounds, Remainders
<1>4. CASE n # 0
    <2>1. ULongMax + 1 - n \in 0 .. ULongMax
        BY <1>2, <1>4, Bounds
    <2>2. (ULongMax + 1 - n) % (ULongMax + 1) = ULongMax + 1 - n
        BY <2>1, Bounds, Remainders
    <2> QED
        BY <1>1, <1>2, <2>1, <2>2, Bounds
<1> QED
    BY <1>3, <1>4

\* What safe_atou() accepts is a number, or what it takes for one.
LEMMA AtouAccepts ==
    ASSUME NEW s \in Texts, \A i \in DOMAIN s : ~Wraps(s[i]), SafeAtou(s).err = "none"
    PROVE  /\ s = <<s[1]>> /\ s[1] \in Words
           /\ \/ s[1].kind = "number" /\ SafeAtou(s).u = s[1].of /\ s[1].of <= UIntMax
              \/ s[1].kind = "blank_minus" /\ SafeAtou(s).u = 0
<1>1. /\ s # << >> /\ s[1].kind \in {"number", "minus", "blank_minus"}
      /\ ~(s[1].of > ULongMax) /\ ~(Len(s) > 1) /\ s[1].kind # "minus"
    BY DEF SafeAtou
<1>2. Len(s) = 1 /\ s[1] \in Pieces
    <2>1. s \in Seq(Pieces) /\ Len(s) \in Nat /\ Len(s) # 0
        BY <1>1, EmptySeq, LenProperties DEF Texts
    <2>2. PICK n \in Nat : n = Len(s)
        BY <2>1
    <2>3. n # 0 /\ ~(n > 1)
        BY <1>1, <2>1, <2>2
    <2>4. n = 1
        BY <2>3
    <2>5. Len(s) = 1 /\ 1 \in 1 .. Len(s)
        BY <2>2, <2>4
    <2>6. s[1] \in Pieces
        BY <2>1, <2>5, ElementOfSeq
    <2> QED
        BY <2>5, <2>6
<1>3. s = <<s[1]>>
    BY <1>2 DEF Texts
<1>4. s[1] \in Words
    BY <1>1, <1>2, PieceKinds DEF Pieces
<1>5. s[1].of \in Nat
    BY <1>4, SockAddrAssumption, Zenon
<1>6. CASE s[1].kind = "number"
    <2>1. /\ ~(s[1].of > UIntMax)
          /\ SafeAtou(s).u = s[1].of
        BY <1>1, <1>6 DEF SafeAtou
    <2> QED
        BY <2>1, <1>3, <1>4, <1>5, <1>6, Bounds
<1>7. CASE s[1].kind = "blank_minus"
    <2> DEFINE l == (ULongMax + 1 - s[1].of) % (ULongMax + 1)
    <2>1. ~(l > UIntMax) /\ SafeAtou(s).u = l
        BY <1>1, <1>7 DEF SafeAtou
    <2>2. ~Wraps(s[1])
        BY <1>2
    <2>3. l = 0
        BY <1>1, <1>4, <1>5, <1>7, <2>1, <2>2, Wrapped
    <2> QED
        BY <2>1, <2>3, <1>3, <1>4, <1>7
<1> QED
    BY <1>1, <1>6, <1>7

\* Only a port is accepted as one.
LEMMA OnlyPorts ==
    ASSUME NEW s \in Texts, \A i \in DOMAIN s : ~Wraps(s[i]), NEW address,
           WithPort(s, address).err = "none"
    PROVE  s = <<s[1]>> /\ s[1] \in Ports
<1>1. SafeAtou(s).err = "none"
    BY AddressFields DEF WithPort
<1>2. SafeAtou(s).u \in 1 .. PortMax
    <2>1. SUFFICES ASSUME SafeAtou(s).u \notin 1 .. PortMax PROVE FALSE
        OBVIOUS
    <2>2. WithPort(s, address) = Error("EINVAL")
        BY <1>1, <2>1 DEF WithPort
    <2> QED
        BY <2>2, AddressFields
<1>3. s[1].kind = "number" /\ SafeAtou(s).u = s[1].of
    BY <1>1, <1>2, AtouAccepts, Bounds
<1> QED
    BY <1>1, <1>2, <1>3, AtouAccepts DEF Ports


------------------------------------------------------------------------------
(* What is read: the address of a host.                                       *)

\* An IPv4 address names no interface, and neither do the brackets and the colon.
LEMMA Naming ==
    /\ \A w \in Words : w.kind = "v4" => IfNameToIndex(w) = 0
    /\ \A w \in Words : IfNameToIndex(w) # 0 => w.kind \in {"name", "number", "minus"}
    /\ \A w \in {Open, Close, Colon, Colons} : IfNameToIndex(w) = 0 /\ w.kind # "v4"
<1>1. \A w \in NumberNames : w \in Words /\ w.kind \in {"number", "minus"}
    BY SockAddrAssumption, Zenon
<1>2. \A w \in {Open, Close, Colon, Colons} : w \notin NumberNames /\ w.kind \notin {"name", "v4"}
    BY <1>1, PieceKinds
<1> QED
    BY <1>1, <1>2 DEF IfNameToIndex

\* The words that name an interface to assign_address().
Names(w) == w \notin TooLong /\ IfNameToIndex(w) # 0

\* The words that assign_address() takes, and what it makes of each.
LEMMA HostText ==
    ASSUME NEW w \in Words
    PROVE  /\ w.kind = "v4" => AssignAddress(<<w>>) = Address("inet", w.of, 0, 0)
           /\ Names(w) =>
                AssignAddress(<<w>>) = Address("inet6", Wildcard, 0, IfNameToIndex(w))
<1>1. Len(<<w>>) = 1 /\ <<w>>[1] = w
    OBVIOUS
<1>2. Names(w) => w.kind # "v4" /\ w \notin TooLong /\ IfNameToIndex(w) # 0
    BY Naming DEF Names
<1> QED
    BY <1>1, <1>2 DEF AssignAddress

\* It takes no others.
LEMMA OnlyHosts ==
    ASSUME NEW s \in Texts, AssignAddress(s).err = "none"
    PROVE  /\ s = <<s[1]>> /\ s[1] \in Words
           /\ s[1].kind = "v4" \/ Names(s[1])
<1>1. Len(s) = 1 /\ (s[1].kind = "v4" \/ Names(s[1]))
    BY AddressFields DEF AssignAddress, Names
<1>2. s = <<s[1]>> /\ s[1] \in Pieces
    BY <1>1 DEF Texts
<1>3. s[1] \in Words
    BY <1>1, <1>2, Naming DEF Pieces, Names
<1> QED
    BY <1>1, <1>2, <1>3

------------------------------------------------------------------------------
(* Every notation is read as it is meant.                                     *)

\* An IPv6 address in brackets.
InBrackets(t) == <<Open>> \o t \o <<Close>>

\* Its first closing bracket is the one at its end.
LEMMA BracketTexts ==
    ASSUME NEW t \in DOMAIN InetPton6
    PROVE  /\ t \in Texts /\ Len(t) \in Nat
           /\ \A i \in 1 .. Len(t) : t[i] \in Pieces /\ t[i].kind # "close"
           /\ InBrackets(t) \in Texts /\ Len(InBrackets(t)) = Len(t) + 2
           /\ InBrackets(t)[1] = Open /\ InBrackets(t)[Len(t) + 2] = Close
           /\ \A i \in 1 .. Len(t) : InBrackets(t)[i + 1] = t[i]
<1> DEFINE Inner == Words \cup {Colon, Colons}
           left == <<Open>> \o t
           right == <<Close>>
<1>1. t \in Seq(Inner)
    BY InetPton6Assumption, Zenon
<1>2. Len(t) \in Nat /\ \A i \in 1 .. Len(t) : t[i] \in Inner
    BY <1>1, LenProperties, ElementOfSeq
<1>3. \A w \in Inner : w \in Pieces /\ w.kind # "close"
    BY PieceKinds DEF Pieces
<1>4. Open \in Pieces /\ Close \in Pieces
    BY DEF Pieces
<1>5. t \in Seq(Pieces)
    <2>1. Inner \subseteq Pieces
        BY <1>3
    <2> HIDE DEF Inner
    <2> QED
        BY <1>1, <2>1
<1>6. /\ <<Open>> \in Seq(Pieces) /\ Len(<<Open>>) = 1 /\ <<Open>>[1] = Open
      /\ right \in Seq(Pieces) /\ Len(right) = 1 /\ right[1] = Close
    BY <1>4
<1>7. /\ left \in Seq(Pieces) /\ Len(left) = 1 + Len(t)
      /\ left[1] = Open /\ \A i \in 1 .. Len(t) : left[i + 1] = t[i]
    <2> DEFINE one == <<Open>>
    <2>0. one \in Seq(Pieces) /\ Len(one) = 1 /\ one[1] = Open
        BY <1>6
    <2> HIDE DEF one
    <2>1. /\ one \o t \in Seq(Pieces) /\ Len(one \o t) = Len(one) + Len(t)
          /\ \A i \in 1 .. Len(one) + Len(t) :
                (one \o t)[i] = IF i <= Len(one) THEN one[i] ELSE t[i - Len(one)]
        BY ONLY <1>5, <2>0, ConcatProperties
    <2>2. \A i \in 1 .. Len(t) : (one \o t)[i + 1] = t[i]
        BY <1>2, <2>0, <2>1
    <2>3. (one \o t)[1] = Open
        BY <1>2, <2>0, <2>1
    <2> QED
        BY <2>0, <2>1, <2>2, <2>3 DEF one
<1> HIDE DEF left, right
<1>8. /\ left \o right \in Seq(Pieces) /\ Len(left \o right) = Len(left) + Len(right)
      /\ \A i \in 1 .. Len(left) + Len(right) :
            (left \o right)[i] = IF i <= Len(left) THEN left[i] ELSE right[i - Len(left)]
    BY ONLY <1>6, <1>7, ConcatProperties
<1>9. InBrackets(t) = left \o right
    BY DEF InBrackets, left, right
<1>10. PICK n \in Nat : n = Len(t)
    BY <1>2
<1>11. InBrackets(t)[1] = Open /\ Len(InBrackets(t)) = n + 2
    BY <1>6, <1>7, <1>8, <1>9, <1>10
<1>12. InBrackets(t)[n + 2] = Close
    <2>1. n + 2 \in 1 .. Len(left) + Len(right) /\ ~(n + 2 <= Len(left)) /\ n + 2 - Len(left) = 1
        BY <1>6, <1>7, <1>10
    <2> QED
        BY <1>6, <1>8, <1>9, <2>1
<1>13. ASSUME NEW i \in 1 .. n PROVE InBrackets(t)[i + 1] = t[i]
    <2>1. i + 1 \in 1 .. Len(left) + Len(right) /\ i + 1 <= Len(left)
        BY <1>6, <1>7, <1>10
    <2> QED
        BY <1>7, <1>8, <1>9, <1>10, <2>1
<1> QED
    BY <1>2, <1>3, <1>5, <1>8, <1>9, <1>10, <1>11, <1>12, <1>13 DEF Texts

\* What parse_sockaddr() cuts out of a text that begins with an address in brackets.
LEMMA CutOut ==
    ASSUME NEW t \in DOMAIN InetPton6, NEW s \in Texts, Len(s) >= Len(t) + 2,
           \A i \in 1 .. Len(t) + 2 : s[i] = InBrackets(t)[i]
    PROVE  /\ s # << >> /\ s[1] = Open /\ FirstOf(s, {"close"}) = Len(t) + 2
           /\ SubSeq(s, 2, Len(t) + 2 - 1) = t
<1>1. /\ t \in Seq(Pieces) /\ Len(t) \in Nat /\ s \in Seq(Pieces) /\ Len(s) \in Nat
      /\ DOMAIN s = 1 .. Len(s)
    BY BracketTexts, LenProperties DEF Texts
<1>2. PICK n \in Nat : n = Len(t)
    BY <1>1
<1>3. /\ s[1] = Open /\ s[n + 2] = Close
      /\ \A i \in 1 .. n : s[i + 1] = t[i] /\ t[i] \in Pieces /\ t[i].kind # "close"
    <2>1. 1 \in 1 .. n + 2 /\ n + 2 \in 1 .. n + 2 /\ \A i \in 1 .. n : i + 1 \in 1 .. n + 2
        OBVIOUS
    <2>2. /\ InBrackets(t)[1] = Open /\ InBrackets(t)[n + 2] = Close
          /\ \A i \in 1 .. n : /\ InBrackets(t)[i + 1] = t[i]
                               /\ t[i] \in Pieces /\ t[i].kind # "close"
        BY <1>2, BracketTexts
    <2>3. \A i \in 1 .. n + 2 : s[i] = InBrackets(t)[i]
        BY <1>2
    <2> QED
        BY <2>1, <2>2, <2>3
<1>4. FirstOf(s, {"close"}) = n + 2
    <2> DEFINE first == FirstOf(s, {"close"})
    <2>1. \/ first = 0 /\ \A i \in DOMAIN s : s[i].kind \notin {"close"}
          \/ /\ first \in DOMAIN s /\ s[first].kind \in {"close"}
             /\ \A i \in DOMAIN s : s[i].kind \in {"close"} => first <= i
        BY FirstOfIs, Zenon
    <2> HIDE DEF first
    <2>2. n + 2 \in DOMAIN s /\ s[n + 2].kind = "close"
        BY <1>1, <1>2, <1>3, PieceKinds
    <2>3. first \in 1 .. Len(s) /\ s[first].kind = "close" /\ first <= n + 2
        BY <1>1, <2>1, <2>2
    <2>4. first # 1
        BY <1>3, <2>3, PieceKinds
    <2>5. ASSUME first < n + 2 PROVE FALSE
        <3>1. first - 1 \in 1 .. n /\ (first - 1) + 1 = first
            BY <1>1, <2>3, <2>4, <2>5
        <3>2. s[(first - 1) + 1].kind # "close"
            BY <1>3, <3>1
        <3> QED
            BY <2>3, <3>1, <3>2
    <2>6. first = n + 2
        BY <1>1, <2>3, <2>5
    <2> QED
        BY <2>6 DEF first
<1>5. SubSeq(s, 2, n + 2 - 1) = t
    <2> DEFINE m == n + 2 - 1
               u == SubSeq(s, 2, m)
    <2>1. 2 \in Int /\ m \in Int /\ m = n + 1
        OBVIOUS
    <2>2. \A i \in 2 .. m : s[i] \in Pieces
        BY <1>1, <1>2, ElementOfSeq
    <2> HIDE DEF m
    <2>3. /\ u \in Seq(Pieces) /\ Len(u) = IF 2 <= m THEN m - 2 + 1 ELSE 0
          /\ \A i \in 1 .. m - 2 + 1 : u[i] = s[2 + i - 1]
        BY ONLY <2>1, <2>2, SubSeqProperties
    <2> HIDE DEF u
    <2>4. Len(u) = n
        BY <2>1, <2>3
    <2>5. ASSUME NEW i \in 1 .. n PROVE u[i] = t[i]
        <3>1. i \in 1 .. m - 2 + 1 /\ 2 + i - 1 = i + 1
            BY <2>1
        <3>2. u[i] = s[i + 1]
            BY <2>3, <3>1
        <3> QED
            BY <1>3, <3>2
    <2>6. u = t
        BY <1>1, <1>2, <2>3, <2>4, <2>5, SeqEqual
    <2> QED
        BY <2>6 DEF u, m
<1>6. s # << >>
    <2>1. Len(s) # 0
        BY <1>1, <1>2
    <2> QED
        BY <2>1
<1> QED
    BY <1>2, <1>3, <1>4, <1>5, <1>6

\* [x:.....:z] and [x:.....:z]:p
LEMMA BracketedRead ==
    ASSUME NEW t \in DOMAIN InetPton6, NEW ipv6now \in BOOLEAN
    PROVE  /\ ParseSockaddr(InBrackets(t), ipv6now) = Address("inet6", InetPton6[t], 0, 0)
           /\ \A p \in Ports :
                ParseSockaddr(InBrackets(t) \o <<Colon, p>>, ipv6now)
                    = Address("inet6", InetPton6[t], HtoBe16(p.of), 0)
<1> DEFINE front == InBrackets(t)
<1>1. /\ front \in Texts /\ Len(front) = Len(t) + 2 /\ Len(t) \in Nat
      /\ front \in Seq(Pieces) /\ DOMAIN front = 1 .. Len(front)
    BY BracketTexts, LenProperties DEF Texts
<1>2. PICK n \in Nat : n = Len(t)
    BY <1>1
<1> DEFINE address == Address("inet6", InetPton6[t], 0, 0)
<1> HIDE DEF front
<1>3. ParseSockaddr(front, ipv6now) = address
    <2>1. /\ front # << >> /\ front[1] = Open /\ FirstOf(front, {"close"}) = n + 2
          /\ SubSeq(front, 2, n + 2 - 1) = t
        <3>1. Len(front) >= Len(t) + 2
            BY <1>1
        <3> QED
            BY <1>1, <1>2, <3>1, CutOut DEF front
    <2>2. SubSeq(front, n + 2 + 1, Len(front)) = << >>
        <3>1. Len(front) = n + 2 /\ n + 2 + 1 \in Int /\ n + 2 \in Int /\ n + 2 + 1 > n + 2
            BY <1>1, <1>2
        <3> QED
            BY <3>1, SubSeqEmpty
    <2>3. LET end == FirstOf(front, {"close"})
          IN  /\ end # 0 /\ SubSeq(front, 2, end - 1) = t
              /\ SubSeq(front, end + 1, Len(front)) = << >>
        BY <2>1, <2>2
    <2>4. Bracketed(front) = address
        BY <2>3, Zenon DEF Bracketed
    <2> QED
        BY <2>1, <2>4 DEF ParseSockaddr
<1>4. ASSUME NEW p \in Ports
      PROVE  ParseSockaddr(front \o <<Colon, p>>, ipv6now)
                = Address("inet6", InetPton6[t], HtoBe16(p.of), 0)
    <2> DEFINE back == <<Colon, p>>
               s == front \o back
    <2>1. /\ back \in Seq(Pieces) /\ Len(back) = 2 /\ back[1] = Colon /\ back[2] = p
          /\ back # << >> /\ Tail(back) = <<p>>
        BY DEF Pieces, Ports
    <2> HIDE DEF back
    <2>2. /\ s \in Seq(Pieces) /\ Len(s) = Len(front) + Len(back)
          /\ \A i \in 1 .. Len(front) + Len(back) : s[i] =
                 IF i <= Len(front) THEN front[i] ELSE back[i - Len(front)]
        BY ONLY <1>1, <2>1, ConcatProperties
    <2> HIDE DEF s
    <2>3. /\ s \in Texts /\ Len(s) = n + 4 /\ s[n + 3] = Colon /\ s[n + 4] = p
          /\ \A i \in 1 .. n + 2 : s[i] = front[i]
        <3>1. Len(front) = n + 2 /\ Len(s) = n + 4
            BY <1>1, <1>2, <2>1, <2>2
        <3>2. /\ n + 3 \in 1 .. Len(front) + Len(back) /\ ~(n + 3 <= Len(front))
              /\ n + 4 \in 1 .. Len(front) + Len(back) /\ ~(n + 4 <= Len(front))
              /\ n + 3 - Len(front) = 1 /\ n + 4 - Len(front) = 2
            BY <2>1, <3>1
        <3>3. ASSUME NEW i \in 1 .. n + 2 PROVE s[i] = front[i]
            BY <2>1, <2>2, <3>1
        <3> QED
            BY <2>1, <2>2, <3>1, <3>2, <3>3 DEF Texts
    <2>4. /\ s # << >> /\ s[1] = Open /\ FirstOf(s, {"close"}) = n + 2
          /\ SubSeq(s, 2, n + 2 - 1) = t
        <3>1. Len(s) >= Len(t) + 2 /\ \A i \in 1 .. Len(t) + 2 : s[i] = InBrackets(t)[i]
            BY <1>2, <2>3 DEF front
        <3> QED
            BY <1>2, <2>3, <3>1, CutOut
    <2>5. SubSeq(s, n + 2 + 1, Len(s)) = back
        <3>1. n + 3 \in 1 .. Len(s) /\ (n + 3) + 1 <= Len(s) /\ (n + 3) + 1 = Len(s) /\ n + 2 + 1 = n + 3
            BY <2>3
        <3>2. SubSeq(s, n + 3, (n + 3) + 1) = <<s[n + 3], s[(n + 3) + 1]>>
            BY <2>3, <3>1, Slices
        <3>3. (n + 3) + 1 = n + 4
            OBVIOUS
        <3> QED
            BY <2>3, <3>1, <3>2, <3>3 DEF back
    <2>6. LET end == FirstOf(s, {"close"})
          IN  end # 0 /\ SubSeq(s, 2, end - 1) = t /\ SubSeq(s, end + 1, Len(s)) = back
        BY <2>4, <2>5
    <2>7. Bracketed(s) = WithPort(Tail(back), address)
        BY <2>1, <2>6, Zenon DEF Bracketed
    <2>8. Bracketed(s) = Address("inet6", InetPton6[t], HtoBe16(p.of), 0)
        <3>1. WithPort(<<p>>, address) = [address EXCEPT !.port = HtoBe16(p.of)]
            BY PortText, Zenon
        <3>2. [address EXCEPT !.port = HtoBe16(p.of)]
                = Address("inet6", InetPton6[t], HtoBe16(p.of), 0)
            BY DEF Address
        <3> QED
            BY <2>1, <2>7, <3>1, <3>2, Zenon
    <2> QED
        BY <2>4, <2>8 DEF ParseSockaddr, s, back
<1> QED
    BY <1>3, <1>4 DEF front

\* w.x.y.z or the name of an interface, with a port and without.
LEMMA UnbracketedRead ==
    ASSUME NEW w \in Words, NEW ipv6now \in BOOLEAN, NEW is,
           w.kind = "v4" \/ Names(w), is = AssignAddress(<<w>>)
    PROVE  /\ ~(w.kind = "number" /\ w.of <= UIntMax) =>
                ParseSockaddr(<<w>>, ipv6now) = is
           /\ \A p \in Ports :
                ParseSockaddr(<<w>> \o <<Colon, p>>, ipv6now) = [is EXCEPT !.port = HtoBe16(p.of)]
<1>1. Open \in Pieces /\ Close \in Pieces /\ Colon \in Pieces /\ w \in Pieces /\ Ports \subseteq Pieces
    BY DEF Pieces, Ports
<1>2. w.kind \notin {"colon", "colons", "v6"} /\ w # Open /\ w.kind # "blank_minus"
    BY PieceKinds, Naming DEF Names
<1>3. ASSUME ~(w.kind = "number" /\ w.of <= UIntMax)
      PROVE  ParseSockaddr(<<w>>, ipv6now) = is
    <2> DEFINE t == <<w>>
    <2>1. t \in Texts /\ DOMAIN t = 1 .. 1 /\ Len(t) = 1 /\ t[1] = w /\ t # << >>
        BY <1>1 DEF Texts
    <2>2. FirstOf(t, {"colon", "colons", "v6"}) = 0
        BY <2>1, <1>2, FirstOfIs
    <2>3. SafeAtou(t).err # "none"
        BY <2>1, <1>2, <1>3, AtouAccepts DEF Wraps
    <2> HIDE DEF t
    <2>4. Unbracketed(t, ipv6now) = AssignAddress(t)
        BY <2>2, <2>3 DEF Unbracketed
    <2> QED
        BY <2>1, <2>4, <1>2 DEF ParseSockaddr, t
<1>4. ASSUME NEW p \in Ports
      PROVE  ParseSockaddr(<<w>> \o <<Colon, p>>, ipv6now) = [is EXCEPT !.port = HtoBe16(p.of)]
    <2> DEFINE front == <<w>>
               back == <<Colon, p>>
               t == front \o back
    <2>0. /\ front \in Seq(Pieces) /\ Len(front) = 1 /\ back \in Seq(Pieces) /\ Len(back) = 2
          /\ front[1] = w /\ back[1] = Colon /\ back[2] = p
        BY <1>1
    <2>1. /\ t \in Texts /\ DOMAIN t = 1 .. 3 /\ Len(t) = 3
          /\ t[1] = w /\ t[2] = Colon /\ t[3] = p
        <3> HIDE DEF front, back
        <3>1. /\ t \in Seq(Pieces) /\ Len(t) = Len(front) + Len(back)
              /\ \A i \in 1 .. Len(front) + Len(back) : t[i] =
                     IF i <= Len(front) THEN front[i] ELSE back[i - Len(front)]
            BY ONLY <2>0, ConcatProperties
        <3> HIDE DEF t
        <3>2. t \in Texts /\ Len(t) = 3 /\ DOMAIN t = 1 .. 3
            BY <2>0, <3>1, LenProperties DEF Texts
        <3> QED
            BY <2>0, <3>1, <3>2
    <2> HIDE DEF t
    <2>2. FirstOf(t, {"colon", "colons", "v6"}) = 2
        BY <2>1, <1>2, FirstOfIs, PieceKinds
    <2>3. SubSeq(t, 1, 2 - 1) = <<w>> /\ SubSeq(t, 2 + 1, Len(t)) = <<p>>
        BY <2>1, Slices
    <2>4. LET colon == FirstOf(t, {"colon", "colons", "v6"})
          IN  /\ colon # 0 /\ t[colon] = Colon
              /\ SubSeq(t, 1, colon - 1) = <<w>> /\ SubSeq(t, colon + 1, Len(t)) = <<p>>
        BY <2>1, <2>2, <2>3
    <2>5. Unbracketed(t, ipv6now) = WithPort(<<p>>, is)
        BY <2>4, Zenon DEF Unbracketed
    <2> QED
        BY <2>1, <2>5, <1>2, PortText DEF ParseSockaddr, t
<1> QED
    BY <1>3, <1>4

\* Just a port.
LEMMA PortRead ==
    ASSUME NEW p \in Ports, NEW ipv6now \in BOOLEAN
    PROVE  ParseSockaddr(<<p>>, ipv6now)
                = Address(IF ipv6now THEN "inet6" ELSE "inet", Wildcard, HtoBe16(p.of), 0)
<1> DEFINE t == <<p>>
<1>1. p \in Words /\ p.kind = "number" /\ p \in Pieces
    BY DEF Ports, Pieces
<1>2. t \in Texts /\ DOMAIN t = 1 .. 1 /\ t[1] = p
    BY <1>1 DEF Texts
<1>3. FirstOf(t, {"colon", "colons", "v6"}) = 0
    BY <1>1, <1>2, FirstOfIs
<1>4. SafeAtou(t).err = "none" /\ p # Open
    BY <1>1, PortText, PieceKinds
<1>5. Unbracketed(t, ipv6now)
        = WithPort(t, Address(IF ipv6now THEN "inet6" ELSE "inet", Wildcard, 0, 0))
    <2> HIDE DEF t
    <2> QED
        BY <1>3, <1>4 DEF Unbracketed
<1>6. Unbracketed(t, ipv6now)
        = Address(IF ipv6now THEN "inet6" ELSE "inet", Wildcard, HtoBe16(p.of), 0)
    BY <1>5, PortText, AddressFields
<1> QED
    BY <1>2, <1>4, <1>6 DEF ParseSockaddr

\* The three forms of a host.
LEMMA HostForms ==
    ASSUME NEW h
    PROVE  h \in Hosts <=>
            \/ \E t \in DOMAIN InetPton6 :
                h = [text |-> InBrackets(t), is |-> Address("inet6", InetPton6[t], 0, 0)]
            \/ \E w \in Words :
                w.kind = "v4" /\ h = [text |-> <<w>>, is |-> Address("inet", w.of, 0, 0)]
            \/ \E w \in Words :
                /\ Names(w)
                /\ h = [text |-> <<w>>, is |-> Address("inet6", Wildcard, 0, IfNameToIndex(w))]
BY Zenon DEF Hosts, InBrackets, Names

\* A host that stands alone, or before a port.
LEMMA HostRead ==
    ASSUME NEW h \in Hosts, NEW ipv6now \in BOOLEAN
    PROVE  /\ ~(h.text[1].kind = "number" /\ h.text[1].of <= UIntMax) =>
                ParseSockaddr(h.text, ipv6now) = h.is
           /\ \A p \in Ports :
                ParseSockaddr(h.text \o <<Colon, p>>, ipv6now) = [h.is EXCEPT !.port = HtoBe16(p.of)]
           /\ \E family, host, scope : h.is = Address(family, host, 0, scope)
<1>1. CASE \E t \in DOMAIN InetPton6 :
            h = [text |-> InBrackets(t), is |-> Address("inet6", InetPton6[t], 0, 0)]
    <2>1. PICK t \in DOMAIN InetPton6 :
            h = [text |-> InBrackets(t), is |-> Address("inet6", InetPton6[t], 0, 0)]
        BY <1>1
    <2>2. h.text = InBrackets(t) /\ h.is = Address("inet6", InetPton6[t], 0, 0)
        BY <2>1
    <2>3. \A p \in Ports : ParseSockaddr(InBrackets(t) \o <<Colon, p>>, ipv6now)
                            = [h.is EXCEPT !.port = HtoBe16(p.of)]
        <3>1. ASSUME NEW p \in Ports
              PROVE  ParseSockaddr(InBrackets(t) \o <<Colon, p>>, ipv6now)
                            = [h.is EXCEPT !.port = HtoBe16(p.of)]
            <4>1. ParseSockaddr(InBrackets(t) \o <<Colon, p>>, ipv6now)
                    = Address("inet6", InetPton6[t], HtoBe16(p.of), 0)
                BY BracketedRead, Zenon
            <4>2. [h.is EXCEPT !.port = HtoBe16(p.of)]
                    = Address("inet6", InetPton6[t], HtoBe16(p.of), 0)
                BY <2>2 DEF Address
            <4> QED
                BY <4>1, <4>2
        <3> QED
            BY <3>1
    <2>4. ParseSockaddr(h.text, ipv6now) = h.is
        BY <2>2, BracketedRead, Zenon
    <2> QED
        BY <2>2, <2>3, <2>4, Zenon
<1>2. CASE \E w \in Words :
            /\ w.kind = "v4" \/ Names(w)
            /\ h.text = <<w>> /\ h.is = AssignAddress(<<w>>)
            /\ \E family, host, scope : h.is = Address(family, host, 0, scope)
    <2>1. PICK w \in Words :
            /\ w.kind = "v4" \/ Names(w)
            /\ h.text = <<w>> /\ h.is = AssignAddress(<<w>>)
            /\ \E family, host, scope : h.is = Address(family, host, 0, scope)
        BY <1>2
    <2>2. h.text[1] = w
        BY <2>1
    <2> QED
        BY <2>1, <2>2, UnbracketedRead
<1>3. CASE \E w \in Words : w.kind = "v4" /\ h = [text |-> <<w>>, is |-> Address("inet", w.of, 0, 0)]
    <2>1. PICK w \in Words : w.kind = "v4" /\ h = [text |-> <<w>>, is |-> Address("inet", w.of, 0, 0)]
        BY <1>3
    <2>2. h.text = <<w>> /\ h.is = Address("inet", w.of, 0, 0)
        BY <2>1
    <2> QED
        BY <2>1, <2>2, <1>2, HostText
<1>4. CASE \E w \in Words :
            /\ Names(w)
            /\ h = [text |-> <<w>>, is |-> Address("inet6", Wildcard, 0, IfNameToIndex(w))]
    <2>1. PICK w \in Words :
            /\ Names(w)
            /\ h = [text |-> <<w>>, is |-> Address("inet6", Wildcard, 0, IfNameToIndex(w))]
        BY <1>4
    <2>2. h.text = <<w>> /\ h.is = Address("inet6", Wildcard, 0, IfNameToIndex(w))
        BY <2>1
    <2> QED
        BY <2>1, <2>2, <1>2, HostText
<1> QED
    BY <1>1, <1>3, <1>4, HostForms, Zenon

\* Every notation is read as the address that it denotes.
LEMMA NotationsAreRead ==
    ASSUME NEW ipv6now \in BOOLEAN, NEW n \in Notations[ipv6now]
    PROVE  /\ ParseSockaddr(n.text, ipv6now) = [n.is EXCEPT !.port = HtoBe16(@)]
           /\ n.is.err = "none"
<1>0. HtoBe16(0) = 0
    BY SockAddrAssumption, Constants DEF HtoBe16
<1>1. CASE n \in Hosts /\ ~(n.text[1].kind = "number" /\ n.text[1].of <= UIntMax)
    <2>1. ParseSockaddr(n.text, ipv6now) = n.is
        BY <1>1, HostRead
    <2>2. PICK family, host, scope : n.is = Address(family, host, 0, scope)
        BY <1>1, HostRead
    <2>3. n.is = [n.is EXCEPT !.port = HtoBe16(@)] /\ n.is.err = "none"
        BY <1>0, <2>2, AddressFields
    <2> QED
        BY <2>1, <2>3
<1>2. ASSUME NEW h \in Hosts, NEW p \in Ports, n = HostWithPort(h, p)
      PROVE  /\ ParseSockaddr(n.text, ipv6now) = [n.is EXCEPT !.port = HtoBe16(@)]
             /\ n.is.err = "none"
    <2>2. n.text = h.text \o <<Colon, p>> /\ n.is = [h.is EXCEPT !.port = p.of]
        BY <1>2 DEF HostWithPort
    <2>3. ParseSockaddr(h.text \o <<Colon, p>>, ipv6now) = [h.is EXCEPT !.port = HtoBe16(p.of)]
        BY HostRead, ZenonT(30)
    <2>4. PICK family, host, scope : h.is = Address(family, host, 0, scope)
        BY HostRead
    <2>5. n.is = Address(family, host, p.of, scope)
        BY <2>2, <2>4, AddressFields
    <2>6. n.is.err = "none" /\ [n.is EXCEPT !.port = HtoBe16(@)] = Address(family, host, HtoBe16(p.of), scope)
        BY <2>5, AddressFields
    <2>7. [h.is EXCEPT !.port = HtoBe16(p.of)] = Address(family, host, HtoBe16(p.of), scope)
        BY <2>4, AddressFields
    <2> QED
        BY <2>2, <2>3, <2>6, <2>7
<1>3. ASSUME NEW p \in Ports,
             n = [text |-> <<p>>,
                  is |-> Address(IF ipv6now THEN "inet6" ELSE "inet", Wildcard, p.of, 0)]
      PROVE  /\ ParseSockaddr(n.text, ipv6now) = [n.is EXCEPT !.port = HtoBe16(@)]
             /\ n.is.err = "none"
    <2>2. n.text = <<p>> /\ n.is = Address(IF ipv6now THEN "inet6" ELSE "inet", Wildcard, p.of, 0)
        BY <1>3
    <2> QED
        BY <2>2, PortRead, AddressFields
<1>4. n \in JustHosts \/ n \in HostsWithPorts \/ n \in JustPorts(IF ipv6now THEN "inet6" ELSE "inet")
    BY Zenon DEF Notations
<1>5. n \in JustHosts => n \in Hosts /\ ~(n.text[1].kind = "number" /\ n.text[1].of <= UIntMax)
    BY Zenon DEF JustHosts
<1>6. n \in HostsWithPorts => \E h \in Hosts, p \in Ports : n = HostWithPort(h, p)
    BY DEF HostsWithPorts
<1>7. n \in JustPorts(IF ipv6now THEN "inet6" ELSE "inet") => \E p \in Ports :
            n = [text |-> <<p>>,
                 is |-> Address(IF ipv6now THEN "inet6" ELSE "inet", Wildcard, p.of, 0)]
    BY Zenon DEF JustPorts
<1> QED
    BY <1>1, <1>2, <1>3, <1>4, <1>5, <1>6, <1>7, Zenon

------------------------------------------------------------------------------
(* Nothing but the notations is read.                                         *)

\* The texts of the hosts and of the notations.
LEMMA HostsAre ==
    /\ \A t \in DOMAIN InetPton6 : \E h \in Hosts : h.text = InBrackets(t)
    /\ \A w \in Words : w.kind = "v4" \/ Names(w) => \E h \in Hosts : h.text = <<w>>
<1>1. ASSUME NEW t \in DOMAIN InetPton6 PROVE \E h \in Hosts : h.text = InBrackets(t)
    <2>1. [text |-> InBrackets(t), is |-> Address("inet6", InetPton6[t], 0, 0)] \in Hosts
        BY HostForms, Zenon
    <2> QED
        BY <2>1
<1>2. ASSUME NEW w \in Words, w.kind = "v4" PROVE \E h \in Hosts : h.text = <<w>>
    <2>1. [text |-> <<w>>, is |-> Address("inet", w.of, 0, 0)] \in Hosts
        BY <1>2, HostForms, Zenon
    <2> QED
        BY <2>1
<1>3. ASSUME NEW w \in Words, Names(w) PROVE \E h \in Hosts : h.text = <<w>>
    <2>1. [text |-> <<w>>, is |-> Address("inet6", Wildcard, 0, IfNameToIndex(w))] \in Hosts
        BY <1>3, HostForms, Zenon
    <2> QED
        BY <2>1
<1> QED
    BY <1>1, <1>2, <1>3

LEMMA NotationsAre ==
    ASSUME NEW ipv6now \in BOOLEAN
    PROVE  /\ \A h \in Hosts : ~(h.text[1].kind = "number" /\ h.text[1].of <= UIntMax) =>
                h \in Notations[ipv6now]
           /\ \A h \in Hosts, p \in Ports :
                \E n \in Notations[ipv6now] : n.text = h.text \o <<Colon, p>>
           /\ \A p \in Ports : \E n \in Notations[ipv6now] : n.text = <<p>>
<1>1. /\ JustHosts \subseteq Notations[ipv6now] /\ HostsWithPorts \subseteq Notations[ipv6now]
      /\ JustPorts(IF ipv6now THEN "inet6" ELSE "inet") \subseteq Notations[ipv6now]
    BY Zenon DEF Notations
<1>2. ASSUME NEW h \in Hosts, NEW p \in Ports
      PROVE  \E n \in Notations[ipv6now] : n.text = h.text \o <<Colon, p>>
    <2>1. HostWithPort(h, p) \in Notations[ipv6now]
        BY <1>1 DEF HostsWithPorts
    <2>2. HostWithPort(h, p).text = h.text \o <<Colon, p>>
        BY DEF HostWithPort
    <2> QED
        BY <2>1, <2>2
<1>3. ASSUME NEW p \in Ports PROVE \E n \in Notations[ipv6now] : n.text = <<p>>
    <2> DEFINE n == [text |-> <<p>>, is |->
                        Address(IF ipv6now THEN "inet6" ELSE "inet", Wildcard, p.of, 0)]
    <2>1. n \in Notations[ipv6now] /\ n.text = <<p>>
        BY <1>1 DEF JustPorts
    <2> QED
        BY <2>1
<1>4. ASSUME NEW h \in Hosts, ~(h.text[1].kind = "number" /\ h.text[1].of <= UIntMax)
      PROVE  h \in Notations[ipv6now]
    BY <1>1, <1>4 DEF JustHosts
<1> QED
    BY <1>2, <1>3, <1>4

\* A text is the text of a notation if its first part is that of a host, and then comes
\* a colon, and then a port.
LEMMA Joined ==
    ASSUME NEW s \in Texts, NEW front \in Texts, NEW back \in Texts,
           Len(s) = Len(front) + Len(back),
           \A i \in 1 .. Len(front) : s[i] = front[i],
           \A i \in 1 .. Len(back) : s[Len(front) + i] = back[i]
    PROVE  s = front \o back
<1>1. /\ s \in Seq(Pieces) /\ front \in Seq(Pieces) /\ back \in Seq(Pieces)
      /\ Len(s) \in Nat /\ Len(front) \in Nat /\ Len(back) \in Nat
    BY LenProperties DEF Texts
<1> DEFINE t == front \o back
<1>2. /\ t \in Seq(Pieces) /\ Len(t) = Len(front) + Len(back)
      /\ \A i \in 1 .. Len(front) + Len(back) : t[i] =
             IF i <= Len(front) THEN front[i] ELSE back[i - Len(front)]
    BY ONLY <1>1, ConcatProperties
<1> HIDE DEF t
<1>3. ASSUME NEW i \in 1 .. Len(s) PROVE s[i] = t[i]
    <2>1. CASE i <= Len(front)
        BY <1>1, <1>2, <1>3, <2>1
    <2>2. CASE ~(i <= Len(front))
        <3>1. i - Len(front) \in 1 .. Len(back) /\ Len(front) + (i - Len(front)) = i
            BY <1>1, <2>2
        <3>2. s[i] = back[i - Len(front)]
            BY <3>1
        <3> QED
            BY <1>2, <2>2, <3>2
    <2> QED
        BY <2>1, <2>2
<1>4. s = t
    BY <1>1, <1>2, <1>3, SeqEqual
<1> QED
    BY <1>4 DEF t

\* What is read behind a bracket is an address in brackets, alone or before a port.
LEMMA OnlyBracketed ==
    ASSUME NEW s \in Texts, s # << >>, s[1] = Open, \A i \in DOMAIN s : ~Wraps(s[i]),
           Bracketed(s).err = "none"
    PROVE  \E t \in DOMAIN InetPton6 :
                \/ s = InBrackets(t)
                \/ \E p \in Ports : s = InBrackets(t) \o <<Colon, p>>
<1> DEFINE end == FirstOf(s, {"close"})
           inside == SubSeq(s, 2, end - 1)
           rest == SubSeq(s, end + 1, Len(s))
<1>1. /\ end # 0 /\ inside \in DOMAIN InetPton6
      /\ \/ rest = << >>
         \/ /\ rest # << >> /\ rest[1] = Colon
            /\ WithPort(Tail(rest), Address("inet6", InetPton6[inside], 0, 0)).err = "none"
    BY AddressFields, Zenon DEF Bracketed
<1>2. s \in Seq(Pieces) /\ Len(s) \in Nat /\ DOMAIN s = 1 .. Len(s)
    BY LenProperties DEF Texts
<1>3. \A i \in 1 .. Len(s) : s[i] \in Pieces
    BY <1>2, ElementOfSeq
<1>0. end \in 1 .. Len(s) /\ s[end].kind = "close"
    <2>1. end \in DOMAIN s /\ s[end].kind \in {"close"}
        BY <1>1, FirstOfIs, Zenon
    <2> QED
        BY <1>2, <2>1
<1> HIDE DEF end
<1>4. PICK n \in Nat, l \in Nat : n = end /\ l = Len(s) /\ n \in 1 .. l
    <2>1. end \in Nat /\ Len(s) \in Nat
        BY <1>0, <1>2
    <2> QED
        BY <1>0, <2>1, Zenon
<1>5. n >= 2 /\ s[n] = Close
    <2>1. s[n].kind = "close"
        BY <1>0, <1>4
    <2>2. n # 1
        BY <2>1, PieceKinds
    <2>3. s[n] \in Pieces
        BY <1>3, <1>4
    <2> QED
        BY <1>4, <2>1, <2>2, <2>3, PieceKinds DEF Pieces
<1>6. Len(inside) = n - 2 /\ \A i \in 1 .. n - 2 : inside[i] = s[i + 1]
    <2> DEFINE m == end - 1
               u == SubSeq(s, 2, m)
    <2>1. 2 \in Int /\ m \in Int /\ m = n - 1
        BY <1>4
    <2>2. \A i \in 2 .. m : s[i] \in Pieces
        BY <1>3, <1>4, <2>1
    <2> HIDE DEF m
    <2>3. /\ Len(u) = IF 2 <= m THEN m - 2 + 1 ELSE 0
          /\ \A i \in 1 .. m - 2 + 1 : u[i] = s[2 + i - 1]
        BY ONLY <2>1, <2>2, SubSeqProperties
    <2> HIDE DEF u
    <2>4. Len(u) = n - 2
        BY <1>5, <2>1, <2>3
    <2>5. ASSUME NEW i \in 1 .. n - 2 PROVE u[i] = s[i + 1]
        <3>1. i \in 1 .. m - 2 + 1 /\ 2 + i - 1 = i + 1
            BY <2>1
        <3> QED
            BY <2>3, <3>1
    <2> QED
        BY <2>4, <2>5 DEF u, m
<1>7. rest \in Texts /\ Len(rest) = l - n /\ \A i \in 1 .. l - n : rest[i] = s[n + i]
    <2>1. n \in 0 .. Len(s)
        BY <1>4
    <2> QED
        BY <2>1, <1>4, Behind
<1> DEFINE front == InBrackets(inside)
<1> HIDE DEF inside, rest
<1>8. front \in Texts /\ Len(front) = n /\ \A i \in 1 .. n : s[i] = front[i]
    <2>1. /\ front \in Texts /\ Len(front) = Len(inside) + 2 /\ front[1] = Open
          /\ front[Len(inside) + 2] = Close /\ \A i \in 1 .. Len(inside) : front[i + 1] = inside[i]
        BY <1>1, BracketTexts
    <2> HIDE DEF front
    <2>2. Len(inside) + 2 = n
        BY <1>5, <1>6
    <2>3. ASSUME NEW i \in 1 .. n PROVE s[i] = front[i]
        <3>1. CASE i = 1
            BY <2>1, <3>1
        <3>2. CASE i = n
            BY <1>5, <2>1, <2>2, <3>2
        <3>3. CASE i # 1 /\ i # n
            <4>1. i - 1 \in 1 .. n - 2 /\ (i - 1) + 1 = i
                BY <1>5, <3>3
            <4>2. inside[i - 1] = s[(i - 1) + 1]
                BY <1>6, <4>1
            <4>3. front[(i - 1) + 1] = inside[i - 1]
                BY <1>6, <2>1, <4>1
            <4> QED
                BY <4>1, <4>2, <4>3
        <3> QED
            BY <3>1, <3>2, <3>3
    <2> QED
        BY <2>1, <2>2, <2>3
<1>9. CASE rest = << >>
    <2>1. Len(s) = n
        <3>1. Len(rest) = 0
            BY <1>9
        <3>2. l - n = 0
            BY <3>1, <1>7
        <3> QED
            BY <3>2, <1>4
    <2> HIDE DEF front
    <2>2. s = front
        BY <1>2, <1>8, <2>1, SeqEqual DEF Texts
    <2> QED
        BY <1>1, <2>2 DEF front
<1>10. CASE rest # << >>
    <2> DEFINE t == Tail(rest)
    <2>1. /\ rest \in Seq(Pieces) /\ Len(rest) \in Nat \ {0}
          /\ t \in Seq(Pieces) /\ Len(t) = Len(rest) - 1
          /\ \A i \in 1 .. Len(t) : t[i] = rest[i + 1]
        BY <1>7, <1>10, HeadTailProperties, EmptySeq DEF Texts
    <2>2. rest[1] = Colon /\ WithPort(t, Address("inet6", InetPton6[inside], 0, 0)).err = "none"
        BY <1>1, <1>10
    <2> HIDE DEF t
    <2>3. PICK k \in Nat : k = l - n - 1 /\ l = n + k + 1
        <3>1. l - n \in Nat \ {0}
            BY <1>7, <2>1
        <3>2. l - n - 1 \in Nat /\ l = n + (l - n - 1) + 1
            BY <3>1, <1>4
        <3> QED
            BY <3>2
    <2>4. Len(t) = k /\ \A i \in 1 .. k : t[i] = s[n + (i + 1)]
        <3>1. Len(t) = k
            BY <1>7, <2>1, <2>3
        <3>2. ASSUME NEW i \in 1 .. k PROVE t[i] = s[n + (i + 1)]
            <4>1. t[i] = rest[i + 1]
                BY <2>1, <3>1
            <4>2. i + 1 \in 1 .. l - n
                BY <2>3
            <4> QED
                BY <1>7, <4>1, <4>2
        <3> QED
            BY <3>1, <3>2
    <2>5. t \in Texts /\ \A i \in DOMAIN t : ~Wraps(t[i])
        <3>1. t \in Texts /\ DOMAIN t = 1 .. k
            BY <2>1, <2>4, LenProperties DEF Texts
        <3>2. ASSUME NEW i \in 1 .. k PROVE ~Wraps(t[i])
            <4>1. n + (i + 1) \in DOMAIN s
                BY <1>2, <1>4, <2>3
            <4>2. ~Wraps(s[n + (i + 1)]) /\ t[i] = s[n + (i + 1)]
                BY <4>1, <2>4
            <4> QED
                BY <4>2
        <3> QED
            BY <3>1, <3>2
    <2>6. PICK p \in Ports : p = t[1] /\ t = <<p>>
        BY <2>2, <2>5, OnlyPorts
    <2>7. k = 1
        <3>1. Len(t) = 1
            BY <2>6
        <3> QED
            BY <2>4, <3>1
    <2>8. s[n + 1] = Colon /\ s[n + 2] = p /\ Len(s) = n + 2
        <3>1. 1 \in 1 .. l - n /\ 1 \in 1 .. k /\ n + (1 + 1) = n + 2
            BY <2>3, <2>7
        <3>2. rest[1] = s[n + 1]
            BY <1>7, <3>1
        <3>3. t[1] = s[n + (1 + 1)]
            BY <2>4, <3>1
        <3> QED
            BY <1>4, <2>2, <2>3, <2>6, <2>7, <3>1, <3>2, <3>3
    <2> DEFINE back == <<Colon, p>>
    <2>9. back \in Texts /\ Len(back) = 2 /\ back[1] = Colon /\ back[2] = p
        BY DEF Texts, Pieces, Ports
    <2> HIDE DEF front, back
    <2>10. /\ Len(s) = Len(front) + Len(back)
           /\ \A i \in 1 .. Len(front) : s[i] = front[i]
           /\ \A i \in 1 .. Len(back) : s[Len(front) + i] = back[i]
        <3>1. ASSUME NEW i \in 1 .. Len(back) PROVE s[Len(front) + i] = back[i]
            <4>1. i = 1 \/ i = 2
                BY <2>9
            <4> QED
                BY <1>8, <2>8, <2>9, <4>1
        <3> QED
            BY <1>8, <2>8, <2>9, <3>1
    <2>11. s = front \o back
        BY <1>8, <2>9, <2>10, Joined
    <2> QED
        BY <1>1, <2>11 DEF front, back
<1> QED
    BY <1>9, <1>10

\* What is read without a bracket is a host, alone or before a port, or a port.
LEMMA OnlyUnbracketed ==
    ASSUME NEW s \in Texts, NEW ipv6now \in BOOLEAN, \A i \in DOMAIN s : ~Wraps(s[i]),
           Unbracketed(s, ipv6now).err = "none"
    PROVE  \/ \E w \in Words :
                /\ w.kind = "v4" \/ Names(w)
                /\ \/ s = <<w>> /\ ~(w.kind = "number" /\ w.of <= UIntMax)
                   \/ \E p \in Ports : s = <<w>> \o <<Colon, p>>
           \/ \E p \in Ports : s = <<p>>
<1> DEFINE colon == FirstOf(s, {"colon", "colons", "v6"})
           front == SubSeq(s, 1, colon - 1)
           back == SubSeq(s, colon + 1, Len(s))
<1>1. CASE colon # 0
    <2>1. s[colon] = Colon /\ WithPort(back, AssignAddress(front)).err = "none"
        BY <1>1, AddressFields, Zenon DEF Unbracketed
    <2>2. s \in Seq(Pieces) /\ Len(s) \in Nat /\ DOMAIN s = 1 .. Len(s)
        BY LenProperties DEF Texts
    <2>3. \A i \in 1 .. Len(s) : s[i] \in Pieces
        BY <2>2, ElementOfSeq
    <2>4. colon \in 1 .. Len(s)
        BY <1>1, <2>2, FirstOfIs, Zenon
    <2> HIDE DEF colon
    <2>5. PICK c \in Nat, l \in Nat : c = colon /\ l = Len(s) /\ c \in 1 .. l
        <3>1. colon \in Nat /\ Len(s) \in Nat
            BY <2>2, <2>4
        <3> QED
            BY <3>1, <2>4, Zenon
    <2>6. front \in Texts /\ Len(front) = c - 1 /\ \A i \in 1 .. c - 1 : front[i] = s[i]
        <3> DEFINE m == c - 1
                   u == SubSeq(s, 1, m)
        <3>1. \A i \in 1 .. m : s[i] \in Pieces
            BY <2>3, <2>5
        <3>2. /\ 1 \in Int /\ m \in Int
            BY <2>5
        <3> HIDE DEF m
        <3>3. /\ u \in Seq(Pieces) /\ Len(u) = IF 1 <= m THEN m - 1 + 1 ELSE 0
              /\ \A i \in 1 .. m - 1 + 1 : u[i] = s[1 + i - 1]
            BY ONLY <3>1, <3>2, SubSeqProperties
        <3> HIDE DEF u
        <3>4. Len(u) = m
            BY <2>5, <3>3 DEF m
        <3>5. \A i \in 1 .. m : u[i] = s[i]
            BY <3>2, <3>3
        <3>6. u = front
            BY <2>5 DEF u, m
        <3> QED
            BY <3>3, <3>4, <3>5, <3>6 DEF m, Texts
    <2>7. back \in Texts /\ Len(back) = l - c /\ \A i \in 1 .. l - c : back[i] = s[c + i]
        <3>1. c \in 0 .. Len(s)
            BY <2>5
        <3> QED
            BY <3>1, <2>5, Behind
    <2> HIDE DEF front, back
    <2>8. \A i \in DOMAIN back : ~Wraps(back[i])
        <3>1. DOMAIN back = 1 .. l - c
            BY <2>7, LenProperties DEF Texts
        <3>2. ASSUME NEW i \in 1 .. l - c PROVE ~Wraps(back[i])
            <4>1. c + i \in DOMAIN s
                BY <2>2, <2>5
            <4>2. ~Wraps(s[c + i]) /\ back[i] = s[c + i]
                BY <4>1, <2>7
            <4> QED
                BY <4>2
        <3> QED
            BY <3>1, <3>2
    <2>9. PICK p \in Ports : back = <<p>>
        BY <2>1, <2>7, <2>8, OnlyPorts
    <2>10. AssignAddress(front).err = "none"
        <3>1. WithPort(back, AssignAddress(front)) = [AssignAddress(front) EXCEPT !.port = HtoBe16(p.of)]
            BY <2>9, PortText
        <3>2. AssignAddress(front).err = [AssignAddress(front) EXCEPT !.port = HtoBe16(p.of)].err
            BY DEF AssignAddress, Address, Error
        <3> QED
            BY <2>1, <3>1, <3>2
    <2>11. PICK w \in Words : front = <<w>> /\ (w.kind = "v4" \/ Names(w))
        BY <2>6, <2>10, OnlyHosts
    <2>12. c = 2 /\ l = 3
        <3>1. Len(front) = 1 /\ Len(back) = 1
            BY <2>9, <2>11
        <3>2. c - 1 = 1 /\ l - c = 1 /\ c \in Nat /\ l \in Nat
            BY <3>1, <2>6, <2>7
        <3> QED
            BY ONLY <3>2
    <2> DEFINE end == <<Colon, p>>
    <2>13. end \in Texts /\ Len(end) = 2 /\ end[1] = Colon /\ end[2] = p
        BY DEF Texts, Pieces, Ports
    <2>14. s[1] = front[1] /\ s[2] = Colon /\ s[3] = p
        <3>1. s[2] = Colon
            BY <2>1, <2>5, <2>12
        <3>2. front[1] = s[1]
            BY <2>6, <2>12
        <3>3. 1 \in 1 .. l - c /\ c + 1 = 3
            BY <2>12
        <3>4. back[1] = s[c + 1]
            BY <3>3, <2>7
        <3> QED
            BY <3>1, <3>2, <3>3, <3>4, <2>9
    <2> HIDE DEF end
    <2>15. s = front \o end
        <3>1. Len(front) = 1 /\ Len(s) = 3
            BY <2>5, <2>11, <2>12
        <3>2. /\ Len(s) = Len(front) + Len(end)
              /\ \A i \in 1 .. Len(front) : s[i] = front[i]
              /\ \A i \in 1 .. Len(end) : s[Len(front) + i] = end[i]
            BY <3>1, <2>13, <2>14
        <3> QED
            BY <2>6, <2>13, <3>2, Joined
    <2> QED
        BY <2>11, <2>15 DEF end
<1>2. CASE colon = 0 /\ SafeAtou(s).err # "none"
    <2>1. AssignAddress(s).err = "none"
        BY <1>2, Zenon DEF Unbracketed
    <2>2. PICK w \in Words : s = <<w>> /\ (w.kind = "v4" \/ Names(w))
        BY <2>1, OnlyHosts
    <2>3. ASSUME w.kind = "number", w.of <= UIntMax PROVE FALSE
        <3>1. w.of \in Nat /\ ~(w.of > UIntMax) /\ ~(w.of > ULongMax)
            <4>1. w.of \in Nat
                BY SockAddrAssumption, Zenon
            <4> QED
                BY <4>1, <2>3, Bounds
        <3>2. <<w>> # << >> /\ <<w>>[1] = w /\ ~(Len(<<w>>) > 1)
            OBVIOUS
        <3>3. SafeAtou(<<w>>) = [err |-> "none", u |-> w.of]
            BY <2>3, <3>1, <3>2 DEF SafeAtou
        <3> QED
            BY <1>2, <2>2, <3>3
    <2> QED
        BY <2>2, <2>3
<1>3. CASE colon = 0 /\ SafeAtou(s).err = "none"
    <2>1. \E address : WithPort(s, address).err = "none"
        BY <1>3, Zenon DEF Unbracketed
    <2> QED
        BY <2>1, OnlyPorts
<1> QED
    BY <1>1, <1>2, <1>3

\* Only the texts of notations are read.
LEMMA OnlyNotationsAreRead ==
    ASSUME NEW s \in Texts, NEW ipv6now \in BOOLEAN, \A i \in DOMAIN s : ~Wraps(s[i]),
           ParseSockaddr(s, ipv6now).err = "none"
    PROVE  \E n \in Notations[ipv6now] : n.text = s
<1>1. CASE s # << >> /\ s[1] = Open
    <2>1. PICK t \in DOMAIN InetPton6 :
                \/ s = InBrackets(t)
                \/ \E p \in Ports : s = InBrackets(t) \o <<Colon, p>>
        BY <1>1, OnlyBracketed DEF ParseSockaddr
    <2>2. PICK h \in Hosts : h.text = InBrackets(t)
        BY <2>1, HostsAre
    <2>3. h.text[1].kind # "number"
        BY <2>2, PieceKinds, BracketTexts
    <2>4. h \in Notations[ipv6now]
        BY <2>3, NotationsAre
    <2>5. \A p \in Ports : \E n \in Notations[ipv6now] : n.text = h.text \o <<Colon, p>>
        BY NotationsAre, Zenon
    <2> QED
        BY <2>1, <2>2, <2>4, <2>5
<1>2. CASE ~(s # << >> /\ s[1] = Open)
    <2>1. Unbracketed(s, ipv6now).err = "none"
        BY <1>2 DEF ParseSockaddr
    <2>2. CASE \E p \in Ports : s = <<p>>
        BY <2>2, NotationsAre
    <2>3. ASSUME NEW w \in Words, w.kind = "v4" \/ Names(w),
                 \/ s = <<w>> /\ ~(w.kind = "number" /\ w.of <= UIntMax)
                 \/ \E p \in Ports : s = <<w>> \o <<Colon, p>>
          PROVE  \E n \in Notations[ipv6now] : n.text = s
        <3>1. PICK h \in Hosts : h.text = <<w>>
            BY <2>3, HostsAre
        <3>2. h.text[1] = w
            BY <3>1
        <3>3. \A p \in Ports : \E n \in Notations[ipv6now] : n.text = h.text \o <<Colon, p>>
            BY NotationsAre, Zenon
        <3>4. ~(w.kind = "number" /\ w.of <= UIntMax) => h \in Notations[ipv6now]
            BY <3>2, NotationsAre
        <3> QED
            BY <2>3, <3>1, <3>3, <3>4
    <2> QED
        BY <2>1, <2>2, <2>3, OnlyUnbracketed
<1> QED
    BY <1>1, <1>2

\* What parse_sockaddr() makes of a text is what the notation says, or an error.
LEMMA ReadAsWritten ==
    ASSUME NEW s \in Texts, NEW ipv6now \in BOOLEAN, \A i \in DOMAIN s : ~Wraps(s[i])
    PROVE  {[n EXCEPT !.port = HtoBe16(@)] : n \in Denoted(s, ipv6now)}
            = {a \in {ParseSockaddr(s, ipv6now)} : a.err = "none"}
<1> DEFINE read == ParseSockaddr(s, ipv6now)
<1>1. ASSUME NEW n \in Denoted(s, ipv6now)
      PROVE  [n EXCEPT !.port = HtoBe16(@)] = read /\ read.err = "none"
    <2>1. PICK m \in Notations[ipv6now] : m.text = s /\ n = m.is
        BY Zenon DEF Denoted
    <2>2. ParseSockaddr(m.text, ipv6now) = [m.is EXCEPT !.port = HtoBe16(@)] /\ m.is.err = "none"
        BY NotationsAreRead
    <2>3. [m.is EXCEPT !.port = HtoBe16(@)].err = m.is.err
        OBVIOUS
    <2> QED
        BY <2>1, <2>2, <2>3
<1>2. ASSUME read.err = "none" PROVE \E n \in Denoted(s, ipv6now) : TRUE
    <2>1. PICK m \in Notations[ipv6now] : m.text = s
        BY <1>2, OnlyNotationsAreRead
    <2>2. m.is \in Denoted(s, ipv6now)
        BY <2>1, Zenon DEF Denoted
    <2> QED
        BY <2>2
<1> HIDE DEF read
<1> QED
    BY <1>1, <1>2 DEF read

\* A number has one way of being written with two digits.
LEMMA Digits ==
    ASSUME NEW b \in Nat \ {0}, NEW x \in 0 .. b - 1, NEW y \in 0 .. b - 1,
           NEW m \in 0 .. b - 1, NEW n \in 0 .. b - 1, m * b + x = n * b + y
    PROVE  m = n /\ x = y
<1>1. (m * b + x) % b = x /\ (n * b + y) % b = y
    OBVIOUS
<1>2. x = y
    BY <1>1
<1>3. m * b = n * b
    BY <1>2
<1>4. (m - n) * b = 0
    BY <1>3
<1>5. m = n
    BY <1>4
<1> QED
    BY <1>2, <1>5

\* The order of the bytes is changed without loss.
LEMMA ByteOrder ==
    /\ HtoBe16(0) = 0
    /\ \A p, q \in 0 .. PortMax : HtoBe16(p) = HtoBe16(q) => p = q
<1>1. Byte \in Nat /\ Byte > 0 /\ 0 \in 0 .. PortMax
    BY Constants
<1>2. HtoBe16(0) = 0
    BY SockAddrAssumption, Constants DEF HtoBe16
<1>3. ASSUME NEW p \in 0 .. PortMax, NEW q \in 0 .. PortMax, HtoBe16(p) = HtoBe16(q)
      PROVE  p = q
    <2>1. PICK high \in 0 .. Byte - 1, low \in 0 .. Byte - 1 :
            p = high * Byte + low /\ HtoBe16(p) = low * Byte + high
        BY Swapped
    <2>2. PICK top \in 0 .. Byte - 1, bottom \in 0 .. Byte - 1 :
            q = top * Byte + bottom /\ HtoBe16(q) = bottom * Byte + top
        BY Swapped
    <2>3. low * Byte + high = bottom * Byte + top
        BY <1>3, <2>1, <2>2
    <2>4. low = bottom /\ high = top
        BY <1>1, <2>3, Digits
    <2> QED
        BY <2>1, <2>2, <2>4
<1> QED
    BY <1>2, <1>3

\* What a notation denotes: an address with a port in host byte order, and no scope
\* but for IPv6.
IsAddress(a) ==
    \E family, host, port, scope :
        /\ a = Address(family, host, port, scope)
        /\ family \in {"inet", "inet6"} /\ port \in 0 .. PortMax
        /\ family = "inet" => scope = 0

LEMMA AddressIs ==
    ASSUME NEW family \in {"inet", "inet6"}, NEW host, NEW port \in 0 .. PortMax, NEW scope,
           family = "inet" => scope = 0
    PROVE  IsAddress(Address(family, host, port, scope))
BY DEF IsAddress

LEMMA HostsAreAddresses ==
    ASSUME NEW h \in Hosts
    PROVE  \E family, host, scope :
            /\ h.is = Address(family, host, 0, scope)
            /\ family \in {"inet", "inet6"} /\ (family = "inet" => scope = 0)
<1>1. ASSUME NEW t, h = [text |-> InBrackets(t), is |-> Address("inet6", InetPton6[t], 0, 0)]
      PROVE  h.is = Address("inet6", InetPton6[t], 0, 0)
    BY <1>1
<1>2. ASSUME NEW w, h = [text |-> <<w>>, is |-> Address("inet", w.of, 0, 0)]
      PROVE  h.is = Address("inet", w.of, 0, 0)
    BY <1>2
<1>3. ASSUME NEW w, h = [text |-> <<w>>, is |-> Address("inet6", Wildcard, 0, IfNameToIndex(w))]
      PROVE  h.is = Address("inet6", Wildcard, 0, IfNameToIndex(w))
    BY <1>3
<1>4. \/ \E t : h = [text |-> InBrackets(t), is |-> Address("inet6", InetPton6[t], 0, 0)]
      \/ \E w : h = [text |-> <<w>>, is |-> Address("inet", w.of, 0, 0)]
      \/ \E w : h = [text |-> <<w>>, is |-> Address("inet6", Wildcard, 0, IfNameToIndex(w))]
    BY HostForms, Zenon
<1>5. \/ \E t : h.is = Address("inet6", InetPton6[t], 0, 0)
      \/ \E w : h.is = Address("inet", w.of, 0, 0)
      \/ \E w : h.is = Address("inet6", Wildcard, 0, IfNameToIndex(w))
    BY <1>1, <1>2, <1>3, <1>4, Zenon
<1> QED
    BY <1>5

\* Whatever a text denotes is such an address.
LEMMA DenotedAre ==
    ASSUME NEW s, NEW ipv6now \in BOOLEAN, NEW a \in Denoted(s, ipv6now)
    PROVE  IsAddress(a)
<1>1. PICK n \in Notations[ipv6now] : a = n.is
    BY Zenon DEF Denoted
<1>2. n \in JustHosts \/ n \in HostsWithPorts \/ n \in JustPorts(IF ipv6now THEN "inet6" ELSE "inet")
    BY Zenon DEF Notations
<1>0. 0 \in 0 .. PortMax /\ \A p \in Ports : p.of \in 0 .. PortMax
    BY Bounds DEF Ports
<1>3. CASE n \in JustHosts
    <2>1. n \in Hosts
        BY <1>3, Zenon DEF JustHosts
    <2> QED
        <3>1. PICK family, host, scope :
                /\ n.is = Address(family, host, 0, scope)
                /\ family \in {"inet", "inet6"} /\ (family = "inet" => scope = 0)
            BY <2>1, HostsAreAddresses
        <3> QED
            BY <1>0, <1>1, <3>1, AddressIs
<1>4. CASE n \in HostsWithPorts
    <2>1. PICK h \in Hosts, p \in Ports : n = HostWithPort(h, p)
        BY <1>4 DEF HostsWithPorts
    <2>2. n.is = [h.is EXCEPT !.port = p.of]
        BY <2>1 DEF HostWithPort
    <2>3. PICK family, host, scope :
            /\ h.is = Address(family, host, 0, scope)
            /\ family \in {"inet", "inet6"} /\ (family = "inet" => scope = 0)
        BY HostsAreAddresses
    <2>4. n.is = Address(family, host, p.of, scope)
        BY <2>2, <2>3, AddressFields
    <2> QED
        BY <1>0, <1>1, <2>3, <2>4, AddressIs
<1>5. CASE n \in JustPorts(IF ipv6now THEN "inet6" ELSE "inet")
    <2> DEFINE family == IF ipv6now THEN "inet6" ELSE "inet"
    <2>1. PICK p \in Ports : n = [text |-> <<p>>, is |-> Address(family, Wildcard, p.of, 0)]
        BY <1>5, Zenon DEF JustPorts
    <2>2. n.is = Address(family, Wildcard, p.of, 0) /\ family \in {"inet", "inet6"}
        BY <2>1
    <2> HIDE DEF family
    <2> QED
        BY <1>0, <1>1, <2>2, AddressIs
<1> QED
    BY <1>2, <1>3, <1>4, <1>5

------------------------------------------------------------------------------
(* The text is a sequence of pieces; Appends() resets the answer, so that an   *)
(* answer is always one about the text that is there.                          *)
IsSocketInv == TypeOK /\ text \in Texts

\* The answer of is_socket_sockaddr() about the text.
SockaddrAnswer(fd, flowinfo) ==
    LET address == ParseSockaddr(text, ipv6)
    IN  IF address.err # "none" THEN ErrorOf(address.err)
        ELSE IF flowinfo # 0 /\ address.family # "inet6" THEN ErrorOf("EINVAL")
        ELSE IF ~HaveIsSocketSockaddr THEN ErrorOf("ENOSYS")
        ELSE SdIsSocketSockaddr(fd, address, flowinfo)

InetAnswer(fd, port) ==
    IF ~ValidPort(port) THEN ErrorOf("EINVAL") ELSE SdIsSocketInet(fd, port % (PortMax + 1))

\* Both give an answer that the program gives.
LEMMA AnswersAre ==
    /\ \A fd, flowinfo : SockaddrAnswer(fd, flowinfo) \in Answers
    /\ \A fd, port : InetAnswer(fd, port) \in Answers
<1>1. \A e : ErrorOf(e) \in Answers /\ ErrorOf(e) # "True"
    BY DEF ErrorOf, Answers
<1>2. \A fd, address, flowinfo : SdIsSocketSockaddr(fd, address, flowinfo) \in Answers
    BY DEF SdIsSocketSockaddr, Answers
<1>3. \A fd, port : SdIsSocketInet(fd, port) \in Answers
    BY DEF SdIsSocketInet, Answers
<1> QED
    BY <1>1, <1>2, <1>3, Zenon DEF SockaddrAnswer, InetAnswer

\* A step puts a piece at the end of the text, or answers about the text that is there.
LEMMA NextForms ==
    ASSUME Next
    PROVE  \/ \E w \in Pieces : Appends(w)
           \/ \E fd \in Fds, flowinfo \in FlowArgs :
                Reply("sockaddr", fd, flowinfo, SockaddrAnswer(fd, flowinfo))
           \/ \E fd \in Fds, port \in PortArgs : Reply("inet", fd, port, InetAnswer(fd, port))
BY Zenon DEF Next, Pieces, IsSocketSockaddr, IsSocketInet, SockaddrAnswer, InetAnswer

\* The text is a sequence of pieces at every moment.
THEOREM IsSocketInvariant == Spec => []IsSocketInv
<1>1. Init => IsSocketInv
    BY IsSocketAssumption, EmptySeq DEF Init, IsSocketInv, TypeOK, Texts, NoReply, Answers
<1>2. ASSUME IsSocketInv, [Next]_vars PROVE IsSocketInv'
    <2>1. ASSUME NEW w \in Pieces, Appends(w) PROVE IsSocketInv'
        <3>1. text' \in Texts
            BY <1>2, <2>1 DEF IsSocketInv, Appends, Texts
        <3>2. Len(text') = Len(text) + 1 /\ Len(text) \in Nat /\ Len(text) < MaxPieces
            BY <1>2, <2>1, LenProperties DEF IsSocketInv, Appends, Texts
        <3>3. Len(text') <= MaxPieces
            BY <3>2, IsSocketAssumption
        <3>4. \A i \in DOMAIN text' : text'[i] \in Pieces
            BY <3>1, LenProperties, ElementOfSeq DEF Texts
        <3>5. reply'.answer \in Answers /\ ipv6' \in BOOLEAN
            BY <1>2, <2>1 DEF IsSocketInv, TypeOK, Appends, NoReply, Answers
        <3> QED
            BY <3>1, <3>3, <3>4, <3>5 DEF IsSocketInv, TypeOK, Pieces
    <2>2. ASSUME NEW call, NEW fd, NEW arg, NEW answer \in Answers, Reply(call, fd, arg, answer)
          PROVE  IsSocketInv'
        BY <1>2, <2>2 DEF IsSocketInv, TypeOK, Reply
    <2>3. CASE UNCHANGED vars
        BY <1>2, <2>3 DEF IsSocketInv, TypeOK, vars
    <2> QED
        BY <1>2, <2>1, <2>2, <2>3, NextForms, AnswersAre, Zenon
<1> QED
    BY <1>1, <1>2, PTL DEF Spec

\* The text is made of pieces and not too long, and the answer is one that the program gives.
THEOREM IsSocketTypeOK == Spec => []TypeOK
<1>1. IsSocketInv => TypeOK
    BY DEF IsSocketInv
<1> QED
    BY <1>1, IsSocketInvariant, PTL

\* parse_sockaddr() reads every text in one of the notations as the address that it
\* denotes, and refuses every other one, but for the numbers that wrap.
THEOREM AddressParsesAsWritten == Spec => []ParsesAsWritten
<1>1. IsSocketInv => ParsesAsWritten
    <2>1. SUFFICES ASSUME IsSocketInv, ~Wrapping PROVE ParsesAsWritten
        BY DEF ParsesAsWritten
    <2>2. text \in Texts /\ ipv6 \in BOOLEAN /\ \A i \in DOMAIN text : ~Wraps(text[i])
        BY <2>1 DEF IsSocketInv, TypeOK, Wrapping
    <2>3. {[n EXCEPT !.port = HtoBe16(@)] : n \in Denoted(text, ipv6)}
            = {a \in {ParseSockaddr(text, ipv6)} : a.err = "none"}
        BY <2>2, ReadAsWritten
    <2> QED
        BY <2>3, Zenon DEF ParsesAsWritten
<1> QED
    BY <1>1, IsSocketInvariant, PTL

\* When is_socket_sockaddr() answers that a descriptor is bound to the text.
LEMMA SockaddrIsTrue ==
    ASSUME IsSocketInv, ~Wrapping, NEW fd, NEW flowinfo
    PROVE  SockaddrAnswer(fd, flowinfo) = "True" <=>
            /\ HaveIsSocketSockaddr /\ fd \in DOMAIN Sockets
            /\ \E n \in Denoted(text, ipv6) :
                /\ n.family = Sockets[fd].family /\ n.host = Sockets[fd].host
                /\ n.port \in {0, Sockets[fd].port} /\ n.scope \in {0, Sockets[fd].scope}
                /\ flowinfo # 0 => n.family = "inet6" /\ Sockets[fd].flowinfo = flowinfo
<1> DEFINE a == ParseSockaddr(text, ipv6)
           bound == Sockets[fd]
           Fits(n) == /\ n.family = bound.family /\ n.host = bound.host
                      /\ n.port \in {0, bound.port} /\ n.scope \in {0, bound.scope}
                      /\ flowinfo # 0 => n.family = "inet6" /\ bound.flowinfo = flowinfo
<1>1. {[n EXCEPT !.port = HtoBe16(@)] : n \in Denoted(text, ipv6)}
            = {x \in {a} : x.err = "none"}
    BY ReadAsWritten DEF IsSocketInv, TypeOK, Wrapping
<1>2. SockaddrAnswer(fd, flowinfo) = "True" <=>
        /\ a.err = "none" /\ ~(flowinfo # 0 /\ a.family # "inet6") /\ HaveIsSocketSockaddr
        /\ SdIsSocketSockaddr(fd, a, flowinfo) = "True"
    <2>1. \A e : ErrorOf(e) # "True"
        BY DEF ErrorOf
    <2> QED
        BY <2>1, Zenon DEF SockaddrAnswer
<1>3. SdIsSocketSockaddr(fd, a, flowinfo) = "True" <=>
        /\ fd \in DOMAIN Sockets
        /\ bound.family = a.family /\ a.host = bound.host
        /\ a.port \in {0, HtoBe16(bound.port)}
        /\ a.family = "inet6" => flowinfo \in {0, bound.flowinfo} /\ a.scope \in {0, bound.scope}
    <2> HIDE DEF a
    <2> QED
        BY DEF SdIsSocketSockaddr
<1> HIDE DEF a
<1>4. ASSUME NEW n \in Denoted(text, ipv6), HaveIsSocketSockaddr, fd \in DOMAIN Sockets
      PROVE  SockaddrAnswer(fd, flowinfo) = "True" <=> Fits(n)
    <2>1. PICK family, host, port, scope :
            /\ n = Address(family, host, port, scope)
            /\ family \in {"inet", "inet6"} /\ port \in 0 .. PortMax
            /\ family = "inet" => scope = 0
        BY <1>4, DenotedAre DEF IsSocketInv, TypeOK, IsAddress
    <2>2. a = [n EXCEPT !.port = HtoBe16(@)] /\ a.err = "none"
        BY <1>1
    <2>3. n.family = family /\ n.host = host /\ n.port = port /\ n.scope = scope
        BY <2>1 DEF Address
    <2>4. a.family = family /\ a.host = host /\ a.port = HtoBe16(port) /\ a.scope = scope
        BY <2>1, <2>2 DEF Address
    <2>5. bound.port \in 0 .. PortMax
        BY <1>4, IsSocketAssumption
    <2>6. HtoBe16(port) \in {0, HtoBe16(bound.port)} <=> port \in {0, bound.port}
        <3>1. 0 \in 0 .. PortMax
            BY Bounds
        <3> QED
            BY <2>1, <2>5, <3>1, ByteOrder
    <2> HIDE DEF bound
    <2> QED
        BY <1>2, <1>3, <1>4, <2>1, <2>2, <2>3, <2>4, <2>6
<1>5. SockaddrAnswer(fd, flowinfo) = "True" => \E n \in Denoted(text, ipv6) : TRUE
    BY <1>1, <1>2
<1>6. SockaddrAnswer(fd, flowinfo) = "True" => HaveIsSocketSockaddr /\ fd \in DOMAIN Sockets
    BY <1>2, <1>3
<1> QED
    BY <1>4, <1>5, <1>6, Zenon

\* A port that ValidPort() lets through is not cut.
LEMMA InetIsTrue ==
    ASSUME NEW fd, NEW port, InetAnswer(fd, port) = "True"
    PROVE  port \in {0, Sockets[fd].port}
<1>1. ValidPort(port) /\ SdIsSocketInet(fd, port % (PortMax + 1)) = "True"
    BY DEF InetAnswer, ErrorOf
<1>2. port % (PortMax + 1) = port
    BY <1>1, Bounds, Remainders DEF ValidPort
<1> QED
    BY <1>1, <1>2 DEF SdIsSocketInet

\* is_socket_sockaddr() answers that it is so for exactly the descriptors that are bound to
\* what the text denotes, but for the numbers that wrap, and is_socket_inet() never for
\* another port than the one asked for.
THEOREM AddressAnswersForTheSocket == Spec => []AnswersForTheSocket
<1>1. Init => AnswersForTheSocket
    BY DEF Init, NoReply, AnswersForTheSocket
<1>2. ASSUME IsSocketInv, AnswersForTheSocket, [Next]_vars PROVE AnswersForTheSocket'
    <2>1. ASSUME NEW w \in Pieces, Appends(w) PROVE AnswersForTheSocket'
        <3>1. reply'.call = "none"
            BY <2>1 DEF Appends, NoReply
        <3> QED
            BY <3>1 DEF AnswersForTheSocket
    <2>2. ASSUME NEW fd, NEW flowinfo,
                 Reply("sockaddr", fd, flowinfo, SockaddrAnswer(fd, flowinfo))
          PROVE  AnswersForTheSocket'
        <3>1. /\ reply'.call = "sockaddr" /\ reply'.fd = fd /\ reply'.arg = flowinfo
              /\ reply'.answer = SockaddrAnswer(fd, flowinfo)
              /\ text' = text /\ ipv6' = ipv6
            BY <2>2 DEF Reply
        <3>2. Wrapping' = Wrapping
            BY <3>1 DEF Wrapping
        <3>3. (reply.call = "inet")' = FALSE
            BY <3>1
        <3>4. CASE Wrapping
            BY <3>2, <3>3, <3>4, Zenon DEF AnswersForTheSocket
        <3>5. CASE ~Wrapping
            <4>1. SockaddrAnswer(fd, flowinfo) = "True" <=>
                    /\ HaveIsSocketSockaddr /\ fd \in DOMAIN Sockets
                    /\ \E n \in Denoted(text, ipv6) :
                        /\ n.family = Sockets[fd].family /\ n.host = Sockets[fd].host
                        /\ n.port \in {0, Sockets[fd].port} /\ n.scope \in {0, Sockets[fd].scope}
                        /\ flowinfo # 0 => n.family = "inet6" /\ Sockets[fd].flowinfo = flowinfo
                BY <1>2, <3>5, SockaddrIsTrue
            <4> QED
                BY <3>1, <3>3, <4>1, Zenon DEF AnswersForTheSocket
        <3> QED
            BY <3>4, <3>5
    <2>3. ASSUME NEW fd, NEW port, Reply("inet", fd, port, InetAnswer(fd, port))
          PROVE  AnswersForTheSocket'
        <3>1. /\ reply'.call = "inet" /\ reply'.fd = fd /\ reply'.arg = port
              /\ reply'.answer = InetAnswer(fd, port)
            BY <2>3 DEF Reply
        <3> QED
            BY <3>1, InetIsTrue DEF AnswersForTheSocket
    <2>4. CASE UNCHANGED vars
        BY <1>2, <2>4, Zenon DEF AnswersForTheSocket, Wrapping, vars
    <2> QED
        BY <1>2, <2>1, <2>2, <2>3, <2>4, NextForms, Zenon
<1> QED
    BY <1>1, <1>2, IsSocketInvariant, PTL DEF Spec
==============================================================================
