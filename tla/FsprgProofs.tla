----------------------------- MODULE FsprgProofs -----------------------------
(* Theorems about Fsprg, for keys of any two primes that genprime3mod4 may     *)
(* find, any square root, any width of an epoch and any number of evolutions:  *)
(* seeking with the seed of a key finds the state that as many evolutions      *)
(* reach.  Most of the module is the number theory this rests on: Fermat's     *)
(* little theorem and the Chinese remainder theorem.                           *)
EXTENDS Fsprg, FiniteSetTheorems, FunctionTheorems, WellFoundedInduction, TLAPS

------------------------------------------------------------------------------
(* Residues: what % and \div are, and calculating with remainders.             *)

Same(a, b, m) == \E k \in Int : a - b = m * k

\* Division with remainder.
LEMMA DivMod ==
    ASSUME NEW a \in Int, NEW m \in Nat \ {0}
    PROVE  /\ a \div m \in Int /\ a % m \in 0 .. m - 1
           /\ a = m * (a \div m) + (a % m)
<1>1. a \div m \in Int
    OBVIOUS
<1>2. a % m \in 0 .. m - 1
    OBVIOUS
<1>3. a = m * (a \div m) + (a % m)
    OBVIOUS
<1> QED
    BY <1>1, <1>2, <1>3

\* Congruence is reflexive, ...
LEMMA SameSelf ==
    ASSUME NEW a \in Int, NEW m \in Nat PROVE Same(a, a, m)
<1>1. a - a = m * 0
    OBVIOUS
<1> QED
    BY <1>1 DEF Same

\* ... symmetric ...
LEMMA SameBack ==
    ASSUME NEW a \in Int, NEW b \in Int, NEW m \in Nat, Same(a, b, m)
    PROVE  Same(b, a, m)
<1>1. PICK k \in Int : a - b = m * k
    BY DEF Same
<1>2. b - a = m * (-k) /\ -k \in Int
    BY <1>1
<1> QED
    BY <1>2 DEF Same

\* ... and transitive, ...
LEMMA SameOn ==
    ASSUME NEW a \in Int, NEW b \in Int, NEW c \in Int, NEW m \in Nat,
           Same(a, b, m), Same(b, c, m)
    PROVE  Same(a, c, m)
<1>1. PICK k \in Int : a - b = m * k
    BY DEF Same
<1>2. PICK l \in Int : b - c = m * l
    BY DEF Same
<1>3. a - c = m * (k + l) /\ k + l \in Int
    BY <1>1, <1>2
<1> QED
    BY <1>3 DEF Same

\* ... and multiplying keeps it.
LEMMA SameTimes ==
    ASSUME NEW a \in Int, NEW b \in Int, NEW c \in Int, NEW m \in Nat, Same(a, b, m)
    PROVE  Same(c * a, c * b, m)
<1>1. PICK k \in Int : a - b = m * k
    BY DEF Same
<1>2. c * a - c * b = m * (c * k) /\ c * k \in Int
    <2>1. c * a - c * b = c * (a - b)
        OBVIOUS
    <2>2. c * (m * k) = m * (c * k)
        OBVIOUS
    <2> QED
        BY <1>1, <2>1, <2>2
<1> QED
    BY <1>2 DEF Same

\* A number is congruent to its remainder.
LEMMA SameMod ==
    ASSUME NEW a \in Int, NEW m \in Nat \ {0}
    PROVE  a % m \in 0 .. m - 1 /\ Same(a, a % m, m)
<1>1. a - (a % m) = m * (a \div m) /\ a \div m \in Int
    BY DivMod
<1> QED
    BY <1>1, DivMod DEF Same

\* Two remainders that are congruent are equal.
LEMMA SameSmall ==
    ASSUME NEW m \in Nat \ {0}, NEW a \in 0 .. m - 1, NEW b \in 0 .. m - 1, Same(a, b, m)
    PROVE  a = b
<1>1. PICK k \in Int : a - b = m * k
    BY DEF Same
<1>2. ASSUME k >= 1 PROVE FALSE
    <2>1. m * k >= m
        BY <1>2
    <2> QED
        BY <1>1, <2>1
<1>3. ASSUME k <= -1 PROVE FALSE
    <2>1. m * k <= -m
        BY <1>3
    <2> QED
        BY <1>1, <2>1
<1>4. k = 0
    BY <1>2, <1>3
<1> QED
    BY <1>1, <1>4

\* Congruent numbers leave one remainder.
LEMMA SameSameMod ==
    ASSUME NEW a \in Int, NEW b \in Int, NEW m \in Nat \ {0}, Same(a, b, m)
    PROVE  a % m = b % m
<1>1. /\ a % m \in 0 .. m - 1 /\ b % m \in 0 .. m - 1
      /\ Same(a, a % m, m) /\ Same(b, b % m, m)
    BY SameMod
<1>2. Same(a % m, a, m)
    BY <1>1, SameBack
<1>3. Same(a % m, b, m)
    BY <1>1, <1>2, SameOn
<1>4. Same(a % m, b % m, m)
    BY <1>1, <1>3, SameOn
<1> QED
    BY <1>1, <1>4, SameSmall

\* A factor may be replaced by its remainder.
LEMMA ModMul ==
    ASSUME NEW a \in Int, NEW b \in Int, NEW m \in Nat \ {0}
    PROVE  (a * (b % m)) % m = (a * b) % m
<1>1. b % m \in 0 .. m - 1 /\ Same(b, b % m, m)
    BY SameMod
<1>2. b % m \in Int /\ m \in Nat
    BY <1>1
<1>3. Same(a * b, a * (b % m), m)
    BY <1>1, <1>2, SameTimes
<1>4. a * b \in Int /\ a * (b % m) \in Int
    BY <1>2
<1> QED
    BY <1>3, <1>4, SameSameMod

------------------------------------------------------------------------------
(* Induction and recursion on the numbers up to a bound: the functions that    *)
(* PowMod and TwoTo are defined by are the ones that take a step at a time.    *)

\* Induction, for a set of numbers in place of a predicate.
LEMMA NatInductionOnSet ==
    ASSUME NEW S, 0 \in S, \A n \in Nat : n \in S => n + 1 \in S
    PROVE  \A n \in Nat : n \in S
<1> DEFINE T == Nat \ S
<1>1. CASE T = {}
    BY <1>1
<1>2. CASE T # {}
    <2>1. PICK x \in T : \A y \in T : ~ (<<y, x>> \in OpToRel(<, Nat))
        BY <1>2, NatLessThanWellFounded, WFMin
    <2>2. x \in Nat /\ x # 0
        BY <2>1
    <2>3. x - 1 \in Nat /\ x - 1 < x
        BY <2>2
    <2>4. x - 1 \notin T
        BY <2>1, <2>2, <2>3 DEF OpToRel
    <2>5. (x - 1) + 1 = x
        BY <2>2
    <2>6. x - 1 \in S => (x - 1) + 1 \in S
        BY <2>3
    <2> QED
        BY <2>1, <2>3, <2>4, <2>5, <2>6
<1> QED
    BY <1>1, <1>2

\* A set of natural numbers that is not empty has a least element.
LEMMA LeastElement ==
    ASSUME NEW T \in SUBSET Nat, T # {}
    PROVE  \E x \in T : \A y \in T : x <= y
<1>1. PICK x \in T : \A y \in T : ~ (<<y, x>> \in OpToRel(<, Nat))
    BY NatLessThanWellFounded, WFMin
<1>2. ASSUME NEW y \in T, ~ (x <= y) PROVE FALSE
    <2>1. x \in Nat /\ y \in Nat /\ y < x
        BY <1>2
    <2> QED
        BY <1>1, <2>1 DEF OpToRel
<1> QED
    BY <1>2

Iterates(f, v0, step, n) == f[0] = v0 /\ \A k \in 1 .. n : f[k] = step[k][f[k - 1]]

\* A function that starts at v0 and takes n steps exists.
LEMMA BoundedRecursion ==
    ASSUME NEW S, NEW v0 \in S, NEW n \in Nat, NEW step \in [1 .. n -> [S -> S]]
    PROVE  \E f \in [0 .. n -> S] : Iterates(f, v0, step, n)
<1> DEFINE Good(k) == \E f \in [0 .. k -> S] : f[0] = v0 /\ \A i \in 1 .. k : f[i] = step[i][f[i - 1]]
           T == {k \in Nat : k <= n => Good(k)}
<1>1. 0 \in T
    <2> DEFINE f == [i \in 0 .. 0 |-> v0]
    <2>1. f \in [0 .. 0 -> S] /\ f[0] = v0 /\ \A i \in 1 .. 0 : f[i] = step[i][f[i - 1]]
        OBVIOUS
    <2>2. Good(0)
        BY <2>1
    <2> HIDE DEF Good
    <2> QED
        BY <2>2
<1>2. ASSUME NEW k \in Nat, k \in T PROVE k + 1 \in T
    <2> SUFFICES ASSUME k + 1 <= n PROVE Good(k + 1)
        <3> HIDE DEF Good
        <3> QED
            OBVIOUS
    <2>1. PICK f \in [0 .. k -> S] : f[0] = v0 /\ \A i \in 1 .. k : f[i] = step[i][f[i - 1]]
        BY <1>2
    <2> DEFINE g == [i \in 0 .. k + 1 |-> IF i = k + 1 THEN step[k + 1][f[k]] ELSE f[i]]
    <2>2. step[k + 1][f[k]] \in S
        <3>1. k + 1 \in 1 .. n /\ f[k] \in S
            BY <2>1
        <3> QED
            BY <3>1
    <2>3. g \in [0 .. k + 1 -> S] /\ g[0] = v0
        BY <2>1, <2>2
    <2>4. ASSUME NEW i \in 1 .. k + 1 PROVE g[i] = step[i][g[i - 1]]
        <3>1. CASE i = k + 1
            BY <3>1
        <3>2. CASE i # k + 1
            <4>1. i \in 1 .. k /\ i - 1 # k + 1 /\ i - 1 \in 0 .. k + 1 /\ i \in 0 .. k + 1
                BY <3>2
            <4>2. f[i] = step[i][f[i - 1]]
                BY <2>1, <4>1
            <4> QED
                BY <4>1, <4>2, <3>2
        <3> QED
            BY <3>1, <3>2
    <2> HIDE DEF g
    <2> QED
        BY <2>3, <2>4
<1>3. \A k \in Nat : k \in T
    <2> HIDE DEF T
    <2> QED
        BY <1>1, <1>2, NatInductionOnSet
<1>4. n \in T
    BY <1>3
<1> QED
    BY <1>4 DEF Iterates

\* PowMod, one factor at a time.
PowSpec(f, b, e, m) == f[0] = 1 % m /\ \A k \in 1 .. e : f[k] = (b * f[k - 1]) % m

\* Two tables of the powers of b agree as far as the shorter one goes.
LEMMA PowUnique ==
    ASSUME NEW b, NEW m, NEW e \in Nat, NEW d \in Nat, d <= e, NEW f, NEW g,
           PowSpec(f, b, d, m), PowSpec(g, b, e, m)
    PROVE  f[d] = g[d]
<1> DEFINE T == {k \in Nat : k <= d => f[k] = g[k]}
<1>1. 0 \in T
    BY DEF PowSpec
<1>2. ASSUME NEW k \in Nat, k \in T PROVE k + 1 \in T
    <2> SUFFICES ASSUME k + 1 <= d PROVE f[k + 1] = g[k + 1]
        OBVIOUS
    <2>1. k + 1 \in 1 .. d /\ k + 1 \in 1 .. e /\ (k + 1) - 1 = k /\ f[k] = g[k]
        BY <1>2
    <2>2. f[k + 1] = (b * f[k]) % m
        BY <2>1 DEF PowSpec
    <2>3. g[k + 1] = (b * g[k]) % m
        BY <2>1 DEF PowSpec
    <2> QED
        BY <2>1, <2>2, <2>3
<1>3. \A k \in Nat : k \in T
    <2> HIDE DEF T
    <2> QED
        BY <1>1, <1>2, NatInductionOnSet
<1> QED
    BY <1>3

\* The table that PowMod chooses exists.
LEMMA PowFcn ==
    ASSUME NEW b \in Int, NEW e \in Nat, NEW m \in Nat \ {0}
    PROVE  \E f \in [0 .. e -> 0 .. m - 1] : PowSpec(f, b, e, m) /\ PowMod(b, e, m) = f[e]
<1> DEFINE S == 0 .. m - 1
           next == [v \in S |-> (b * v) % m]
           step == [k \in 1 .. e |-> next]
           pow[k \in 0 .. e] == IF k = 0 THEN 1 % m ELSE (b * pow[k - 1]) % m
<1>0. 1 % m \in S /\ step \in [1 .. e -> [S -> S]]
    <2>1. 1 % m \in S
        BY SameMod
    <2>2. ASSUME NEW v \in S PROVE (b * v) % m \in S
        <3>1. b * v \in Int
            OBVIOUS
        <3> QED
            BY <3>1, SameMod
    <2>3. next \in [S -> S]
        BY <2>2
    <2> QED
        BY <2>1, <2>3
<1>1. PICK f \in [0 .. e -> S] : Iterates(f, 1 % m, step, e)
    <2> HIDE DEF S, step
    <2> QED
        BY <1>0, BoundedRecursion, Zenon
<1>2. ASSUME NEW k \in 1 .. e PROVE f[k] = (b * f[k - 1]) % m
    <2>1. f[k - 1] \in S
        BY <1>1
    <2>2. f[k] = step[k][f[k - 1]] /\ step[k] = next
        BY <1>1, Zenon DEF Iterates
    <2> QED
        BY <2>1, <2>2
<1>3. f[0] = 1 % m
    BY <1>1 DEF Iterates
<1>4. f = [k \in 0 .. e |-> IF k = 0 THEN 1 % m ELSE (b * f[k - 1]) % m]
    BY <1>1, <1>2, <1>3
<1>5. pow = [k \in 0 .. e |-> IF k = 0 THEN 1 % m ELSE (b * pow[k - 1]) % m]
    BY <1>4
<1>6. PowMod(b, e, m) = pow[e]
    BY DEF PowMod
<1> HIDE DEF pow
<1>7. PowSpec(pow, b, e, m)
    BY <1>5 DEF PowSpec
<1>8. PowSpec(f, b, e, m)
    BY <1>2, <1>3 DEF PowSpec
<1>9. pow[e] = f[e]
    BY <1>7, <1>8, PowUnique
<1> QED
    BY <1>1, <1>6, <1>8, <1>9

------------------------------------------------------------------------------
(* Powers modulo m: one factor at a time, sums of exponents, other bases and   *)
(* other moduli.                                                               *)

\* gcry_mpi_powm as a recursion: the power 0 is 1, and one more is a factor more.
LEMMA PowRec ==
    ASSUME NEW b \in Int, NEW e \in Nat, NEW m \in Nat \ {0}
    PROVE  /\ PowMod(b, e, m) \in 0 .. m - 1
           /\ PowMod(b, 0, m) = 1 % m
           /\ PowMod(b, e + 1, m) = (b * PowMod(b, e, m)) % m
<1>1. PICK f \in [0 .. e -> 0 .. m - 1] : PowSpec(f, b, e, m) /\ PowMod(b, e, m) = f[e]
    BY PowFcn, Zenon
<1>2. PICK g \in [0 .. e + 1 -> 0 .. m - 1] :
            PowSpec(g, b, e + 1, m) /\ PowMod(b, e + 1, m) = g[e + 1]
    <2>1. e + 1 \in Nat
        OBVIOUS
    <2> QED
        BY <2>1, PowFcn, Zenon
<1>3. PICK h \in [0 .. 0 -> 0 .. m - 1] : PowSpec(h, b, 0, m) /\ PowMod(b, 0, m) = h[0]
    <2>1. 0 \in Nat
        OBVIOUS
    <2> QED
        BY <2>1, PowFcn, Zenon
<1>4. f[e] = g[e]
    <2>1. PICK k \in Nat : k = e + 1
        OBVIOUS
    <2>2. PowSpec(f, b, e, m) /\ PowSpec(g, b, k, m) /\ e <= k
        BY <1>1, <1>2, <2>1
    <2> QED
        BY <2>2, PowUnique
<1>5. PowMod(b, 0, m) = 1 % m
    BY <1>3 DEF PowSpec
<1>6. g[e + 1] = (b * g[e]) % m
    <2>1. e + 1 \in 1 .. e + 1 /\ (e + 1) - 1 = e
        OBVIOUS
    <2>2. g[e + 1] = (b * g[(e + 1) - 1]) % m
        BY <1>2, <2>1, Zenon DEF PowSpec
    <2> QED
        BY <2>1, <2>2
<1>7. f[e] \in 0 .. m - 1
    BY <1>1
<1>8. PowMod(b, e + 1, m) = (b * PowMod(b, e, m)) % m
    BY <1>1, <1>2, <1>4, <1>6, Zenon
<1> QED
    BY <1>1, <1>5, <1>7, <1>8, Zenon

TwoSpec(f, n) == f[0] = 1 /\ \A k \in 1 .. n : f[k] = 2 * f[k - 1]

\* The same for the powers of two.
LEMMA TwoUnique ==
    ASSUME NEW e \in Nat, NEW d \in Nat, d <= e, NEW f, NEW g, TwoSpec(f, d), TwoSpec(g, e)
    PROVE  f[d] = g[d]
<1> DEFINE T == {k \in Nat : k <= d => f[k] = g[k]}
<1>1. 0 \in T
    BY DEF TwoSpec
<1>2. ASSUME NEW k \in Nat, k \in T PROVE k + 1 \in T
    <2> SUFFICES ASSUME k + 1 <= d PROVE f[k + 1] = g[k + 1]
        OBVIOUS
    <2>1. k + 1 \in 1 .. d /\ k + 1 \in 1 .. e /\ (k + 1) - 1 = k /\ f[k] = g[k]
        BY <1>2
    <2>2. f[k + 1] = 2 * f[k]
        BY <2>1 DEF TwoSpec
    <2>3. g[k + 1] = 2 * g[k]
        BY <2>1 DEF TwoSpec
    <2> QED
        BY <2>1, <2>2, <2>3
<1>3. \A k \in Nat : k \in T
    <2> HIDE DEF T
    <2> QED
        BY <1>1, <1>2, NatInductionOnSet
<1> QED
    BY <1>3

\* The table of the powers of two exists.
LEMMA TwoFcn ==
    ASSUME NEW n \in Nat
    PROVE  \E f \in [0 .. n -> Nat \ {0}] : TwoSpec(f, n) /\ TwoTo(n) = f[n]
<1> DEFINE S == Nat \ {0}
           step == [k \in 1 .. n |-> [v \in S |-> 2 * v]]
           two[i \in 0 .. n] == IF i = 0 THEN 1 ELSE 2 * two[i - 1]
<1>0. 1 \in S /\ step \in [1 .. n -> [S -> S]]
    OBVIOUS
<1>1. PICK f \in [0 .. n -> S] : Iterates(f, 1, step, n)
    <2> HIDE DEF S, step
    <2> QED
        BY <1>0, BoundedRecursion, Zenon
<1>2. ASSUME NEW k \in 1 .. n PROVE f[k] = 2 * f[k - 1]
    <2>1. f[k - 1] \in S
        BY <1>1
    <2>2. f[k] = step[k][f[k - 1]]
        BY <1>1, Zenon DEF Iterates
    <2> QED
        BY <2>1, <2>2
<1>3. f = [k \in 0 .. n |-> IF k = 0 THEN 1 ELSE 2 * f[k - 1]]
    BY <1>1, <1>2 DEF Iterates
<1>4. two = [k \in 0 .. n |-> IF k = 0 THEN 1 ELSE 2 * two[k - 1]]
    BY <1>3
<1>5. TwoTo(n) = two[n]
    BY DEF TwoTo
<1> HIDE DEF two
<1>6. TwoSpec(two, n)
    BY <1>4 DEF TwoSpec
<1>7. TwoSpec(f, n)
    BY <1>1, <1>2 DEF TwoSpec, Iterates
<1>8. two[n] = f[n]
    BY <1>6, <1>7, TwoUnique
<1> QED
    BY <1>1, <1>5, <1>7, <1>8

\* The powers of two as a recursion.
LEMMA TwoRec ==
    ASSUME NEW n \in Nat
    PROVE  TwoTo(n) \in Nat \ {0} /\ TwoTo(0) = 1 /\ TwoTo(n + 1) = 2 * TwoTo(n)
<1>1. PICK f \in [0 .. n -> Nat \ {0}] : TwoSpec(f, n) /\ TwoTo(n) = f[n]
    BY TwoFcn, Zenon
<1>2. PICK g \in [0 .. n + 1 -> Nat \ {0}] : TwoSpec(g, n + 1) /\ TwoTo(n + 1) = g[n + 1]
    <2>1. n + 1 \in Nat
        OBVIOUS
    <2> QED
        BY <2>1, TwoFcn, Zenon
<1>3. PICK h \in [0 .. 0 -> Nat \ {0}] : TwoSpec(h, 0) /\ TwoTo(0) = h[0]
    <2>1. 0 \in Nat
        OBVIOUS
    <2> QED
        BY <2>1, TwoFcn, Zenon
<1>4. f[n] = g[n]
    BY <1>1, <1>2, TwoUnique
<1>5. TwoTo(0) = 1
    BY <1>3 DEF TwoSpec
<1>6. g[n + 1] = 2 * g[n]
    <2>1. n + 1 \in 1 .. n + 1 /\ (n + 1) - 1 = n
        OBVIOUS
    <2>2. g[n + 1] = 2 * g[(n + 1) - 1]
        BY <1>2, <2>1, Zenon DEF TwoSpec
    <2> QED
        BY <2>1, <2>2
<1>7. f[n] \in Nat \ {0}
    BY <1>1
<1> QED
    BY <1>1, <1>2, <1>4, <1>5, <1>6, <1>7, Zenon

\* What is below m is its own remainder.
LEMMA ModSmall ==
    ASSUME NEW m \in Nat \ {0}, NEW a \in 0 .. m - 1 PROVE a % m = a
OBVIOUS

\* The same for the other factor.
LEMMA ModMulLeft ==
    ASSUME NEW a \in Int, NEW b \in Int, NEW m \in Nat \ {0}
    PROVE  ((a % m) * b) % m = (a * b) % m
<1>1. (b * (a % m)) % m = (b * a) % m
    BY ModMul, Zenon
<1>2. a % m \in Int
    BY SameMod
<1>3. b * (a % m) = (a % m) * b /\ b * a = a * b
    BY <1>2
<1> QED
    BY <1>1, <1>3

\* The first power is the base.
LEMMA PowOne ==
    ASSUME NEW b \in Int, NEW m \in Nat \ {0}
    PROVE  PowMod(b, 1, m) = b % m
<1>1. PowMod(b, 0 + 1, m) = (b * PowMod(b, 0, m)) % m /\ PowMod(b, 0, m) = 1 % m
    BY PowRec
<1>2. (b * (1 % m)) % m = (b * 1) % m
    <2>1. 1 \in Int
        OBVIOUS
    <2> QED
        BY <2>1, ModMul, Zenon
<1>3. 0 + 1 = 1 /\ b * 1 = b
    OBVIOUS
<1> QED
    BY <1>1, <1>2, <1>3

\* The power of a sum is the product of the powers.
LEMMA PowAdd ==
    ASSUME NEW b \in Int, NEW i \in Nat, NEW j \in Nat, NEW m \in Nat \ {0}
    PROVE  PowMod(b, i + j, m) = (PowMod(b, i, m) * PowMod(b, j, m)) % m
<1> DEFINE P(k) == PowMod(b, k, m)
           T == {k \in Nat : P(k + j) = (P(k) * P(j)) % m}
<1>0. \A k \in Nat : P(k) \in 0 .. m - 1 /\ P(k + 1) = (b * P(k)) % m /\ P(0) = 1 % m
    BY PowRec
<1> HIDE DEF P
<1>1. 0 \in T
    <2>1. ((1 % m) * P(j)) % m = (1 * P(j)) % m
        BY <1>0, ModMulLeft
    <2>2. P(j) \in 0 .. m - 1 /\ 0 + j = j
        BY <1>0
    <2>3. 1 * P(j) = P(j) /\ P(j) % m = P(j)
        BY <2>2, ModSmall
    <2> QED
        BY <1>0, <2>1, <2>2, <2>3
<1>2. ASSUME NEW k \in Nat, k \in T PROVE k + 1 \in T
    <2>1. P(k) \in Int /\ P(j) \in Int
        BY <1>0
    <2> DEFINE x == P(k) * P(j)
               y == b * P(k)
    <2>2. x \in Int /\ y \in Int /\ b * x = y * P(j)
        BY <2>1
    <2>3. P((k + j) + 1) = (b * P(k + j)) % m
        BY <1>0
    <2>4. P(k + j) = x % m
        BY <1>2
    <2>5. P(k + 1) = y % m
        BY <1>0
    <2> HIDE DEF x, y
    <2>6. (b * (x % m)) % m = (b * x) % m
        BY <2>2, ModMul
    <2>7. ((y % m) * P(j)) % m = (y * P(j)) % m
        BY <2>1, <2>2, ModMulLeft
    <2>8. (k + j) + 1 = (k + 1) + j
        OBVIOUS
    <2>9. P((k + 1) + j) = (P(k + 1) * P(j)) % m
        BY <2>2, <2>3, <2>4, <2>5, <2>6, <2>7, <2>8
    <2> QED
        BY <2>9
<1>3. \A k \in Nat : k \in T
    <2> HIDE DEF T
    <2> QED
        BY <1>1, <1>2, NatInductionOnSet
<1>4. i \in T
    BY <1>3
<1> QED
    BY <1>4 DEF P

\* A remainder modulo p * q keeps the remainder modulo p.
LEMMA ModMod ==
    ASSUME NEW a \in Int, NEW p \in Nat \ {0}, NEW q \in Nat \ {0}
    PROVE  p * q \in Nat \ {0} /\ (a % (p * q)) % p = a % p
<1> DEFINE n == p * q
<1>1. n \in Nat \ {0}
    <2>1. p * q >= 1
        OBVIOUS
    <2> QED
        BY <2>1
<1>2. a % n \in Int /\ Same(a, a % n, n)
    <2> HIDE DEF n
    <2>1. a % n \in 0 .. n - 1 /\ Same(a, a % n, n)
        BY <1>1, SameMod
    <2> QED
        BY <1>1, <2>1
<1>3. Same(a, a % n, p)
    <2>1. PICK k \in Int : a - (a % n) = n * k
        BY <1>2 DEF Same
    <2>2. n * k = p * (q * k) /\ q * k \in Int
        OBVIOUS
    <2> QED
        BY <2>1, <2>2 DEF Same
<1> HIDE DEF n
<1>4. a % p = (a % n) % p
    BY <1>2, <1>3, SameSameMod
<1> QED
    BY <1>1, <1>4 DEF n

\* Numbers that leave one remainder are congruent.
LEMMA ModSameSame ==
    ASSUME NEW a \in Int, NEW b \in Int, NEW m \in Nat \ {0}, a % m = b % m
    PROVE  Same(a, b, m)
<1>1. a % m \in 0 .. m - 1 /\ Same(a, a % m, m) /\ Same(b, b % m, m)
    BY SameMod
<1>2. Same(b % m, b, m)
    BY <1>1, SameBack
<1> QED
    BY <1>1, <1>2, SameOn

\* A multiple of m leaves no remainder, ...
LEMMA MultipleMod ==
    ASSUME NEW k \in Int, NEW m \in Nat \ {0} PROVE (m * k) % m = 0
<1>1. m * k \in Int /\ m * k - 0 = m * k
    OBVIOUS
<1>2. Same(m * k, 0, m)
    BY <1>1 DEF Same
<1>3. (m * k) % m = 0 % m
    BY <1>1, <1>2, SameSameMod
<1>4. 0 % m = 0
    OBVIOUS
<1> QED
    BY <1>3, <1>4

\* ... and what leaves none is a multiple.
LEMMA ZeroIsMultiple ==
    ASSUME NEW a \in Int, NEW m \in Nat \ {0}, a % m = 0
    PROVE  \E k \in Int : a = m * k
<1>1. a = m * (a \div m) + (a % m) /\ a \div m \in Int
    BY DivMod
<1>2. a = m * (a \div m)
    BY <1>1
<1> QED
    BY <1>1, <1>2

\* The base of a power may be reduced first, as FSPRG_Seek does with x % p.
LEMMA PowBase ==
    ASSUME NEW b \in Int, NEW e \in Nat, NEW m \in Nat \ {0}
    PROVE  PowMod(b % m, e, m) = PowMod(b, e, m)
<1> DEFINE c == b % m
           P(k) == PowMod(b, k, m)
           R(k) == PowMod(c, k, m)
           T == {k \in Nat : R(k) = P(k)}
<1>0. c \in Int
    BY SameMod
<1>1. \A k \in Nat : P(k) \in 0 .. m - 1 /\ P(k + 1) = (b * P(k)) % m /\ P(0) = 1 % m
    BY PowRec
<1>2. \A k \in Nat : R(k + 1) = (c * R(k)) % m /\ R(0) = 1 % m
    <2> HIDE DEF c
    <2> QED
        BY <1>0, PowRec
<1>3. ASSUME NEW v \in Int PROVE (c * v) % m = (b * v) % m
    BY ModMulLeft, Zenon
<1> HIDE DEF c, P, R
<1>4. 0 \in T
    BY <1>1, <1>2
<1>5. ASSUME NEW k \in Nat, k \in T PROVE k + 1 \in T
    <2>1. R(k) = P(k) /\ P(k) \in Int
        BY <1>1, <1>5
    <2>2. (c * P(k)) % m = (b * P(k)) % m
        BY <1>3, <2>1
    <2>3. R(k + 1) = P(k + 1)
        BY <1>1, <1>2, <2>1, <2>2
    <2> QED
        BY <2>3
<1>6. \A k \in Nat : k \in T
    <2> HIDE DEF T
    <2> QED
        BY <1>4, <1>5, NatInductionOnSet
<1>7. e \in T
    BY <1>6
<1> QED
    BY <1>7 DEF P, R, c

\* A power modulo p * q, reduced modulo p, is the power modulo p.
LEMMA PowInto ==
    ASSUME NEW b \in Int, NEW e \in Nat, NEW p \in Nat \ {0}, NEW q \in Nat \ {0}
    PROVE  PowMod(b, e, p * q) % p = PowMod(b, e, p)
<1> DEFINE n == p * q
           P(k) == PowMod(b, k, n)
           R(k) == PowMod(b, k, p)
           T == {k \in Nat : P(k) % p = R(k)}
<1>0. n \in Nat \ {0} /\ \A v \in Int : (v % n) % p = v % p
    BY ModMod
<1> HIDE DEF n
<1>1. \A k \in Nat : P(k) \in 0 .. n - 1 /\ P(k + 1) = (b * P(k)) % n /\ P(0) = 1 % n
    BY <1>0, PowRec
<1>2. \A k \in Nat : R(k + 1) = (b * R(k)) % p /\ R(0) = 1 % p
    BY PowRec
<1>3. ASSUME NEW v \in Int PROVE (b * (v % p)) % p = (b * v) % p
    BY ModMul, Zenon
<1> HIDE DEF P, R
<1>4. 0 \in T
    <2>1. (1 % n) % p = 1 % p
        <3>1. 1 \in Int
            OBVIOUS
        <3> QED
            BY <1>0, <3>1, Zenon
    <2> QED
        BY <1>1, <1>2, <2>1
<1>5. ASSUME NEW k \in Nat, k \in T PROVE k + 1 \in T
    <2> DEFINE v == P(k)
    <2>1. v \in Int /\ b * v \in Int
        BY <1>0, <1>1
    <2>2. v % p = R(k) /\ P(k + 1) = (b * v) % n /\ R(k + 1) = (b * (v % p)) % p
        BY <1>1, <1>2, <1>5
    <2> HIDE DEF v
    <2>3. ((b * v) % n) % p = (b * v) % p
        BY <1>0, <2>1, Zenon
    <2>4. (b * (v % p)) % p = (b * v) % p
        BY <1>3, <2>1, Zenon
    <2>5. P(k + 1) % p = R(k + 1)
        BY <2>2, <2>3, <2>4
    <2> QED
        BY <2>5
<1>6. \A k \in Nat : k \in T
    <2> HIDE DEF T
    <2> QED
        BY <1>4, <1>5, NatInductionOnSet
<1>7. e \in T
    BY <1>6
<1> QED
    BY <1>7 DEF P, R, n

\* A power of a square is the power with twice the exponent.
LEMMA PowOfSquare ==
    ASSUME NEW b \in Int, NEW e \in Nat, NEW m \in Nat \ {0}
    PROVE  PowMod(b * b, e, m) = PowMod(b, 2 * e, m)
<1> DEFINE c == b * b
           P(k) == PowMod(b, k, m)
           R(k) == PowMod(c, k, m)
           T == {k \in Nat : R(k) = P(2 * k)}
<1>0. c \in Int
    OBVIOUS
<1>1. \A k \in Nat : P(k) \in 0 .. m - 1 /\ P(k + 1) = (b * P(k)) % m /\ P(0) = 1 % m
    BY PowRec
<1>2. \A k \in Nat : R(k + 1) = (c * R(k)) % m /\ R(0) = 1 % m
    <2> HIDE DEF c
    <2> QED
        BY <1>0, PowRec
<1>3. ASSUME NEW v \in Int PROVE (b * ((b * v) % m)) % m = (c * v) % m
    <2> DEFINE w == b * v
    <2>1. w \in Int /\ b * w = c * v
        OBVIOUS
    <2> HIDE DEF w
    <2>2. (b * (w % m)) % m = (b * w) % m
        BY <2>1, ModMul, Zenon
    <2>3. (b * (w % m)) % m = (c * v) % m
        BY <2>1, <2>2, Zenon
    <2> QED
        BY <2>3 DEF w
<1> HIDE DEF c, P, R
<1>4. 0 \in T
    BY <1>1, <1>2
<1>5. ASSUME NEW k \in Nat, k \in T PROVE k + 1 \in T
    <2>1. R(k) = P(2 * k) /\ 2 * k \in Nat /\ 2 * (k + 1) = (2 * k + 1) + 1
        BY <1>5
    <2> DEFINE j == 2 * k
    <2> HIDE DEF j
    <2>2. j \in Nat /\ j + 1 \in Nat /\ R(k) = P(j)
        BY <2>1 DEF j
    <2>3. P(j) \in Int /\ P(j + 1) = (b * P(j)) % m /\ P((j + 1) + 1) = (b * P(j + 1)) % m
        BY <1>1, <2>2
    <2>4. (b * ((b * P(j)) % m)) % m = (c * P(j)) % m
        BY <1>3, <2>3, Zenon
    <2>5. R(k + 1) = (c * P(j)) % m
        BY <1>2, <2>2
    <2>6. R(k + 1) = P((j + 1) + 1)
        BY <2>3, <2>4, <2>5, Zenon
    <2>7. R(k + 1) = P(2 * (k + 1))
        BY <2>1, <2>6 DEF j
    <2> QED
        BY <2>7
<1>6. \A k \in Nat : k \in T
    <2> HIDE DEF T
    <2> QED
        BY <1>4, <1>5, NatInductionOnSet
<1>7. e \in T
    BY <1>6
<1> QED
    BY <1>7 DEF P, R, c

------------------------------------------------------------------------------
(* Primes: Euclid's lemma, and what it gives for multiplying with a number     *)
(* that p does not divide.                                                     *)

\* A prime has no divisors but 1 and itself.
LEMMA PrimeDivisor ==
    ASSUME NEW p \in Nat, IsPrime(p), NEW k \in Nat \ {0}, k <= p, p % k = 0
    PROVE  k = 1 \/ k = p
<1> SUFFICES ASSUME k # 1, k # p PROVE FALSE
    OBVIOUS
<1>1. k \in 2 .. p - 1
    OBVIOUS
<1> QED
    BY <1>1, Zenon DEF IsPrime

\* A prime that divides a product divides one of the factors.
LEMMA Euclid ==
    ASSUME NEW p \in Nat, IsPrime(p), NEW a \in Int, NEW b \in Int,
           (a * b) % p = 0, a % p # 0
    PROVE  b % p = 0
<1>0. p \in Nat \ {0} /\ p > 1
    BY DEF IsPrime
<1> DEFINE K == {k \in Nat \ {0} : (a * k) % p = 0}
<1>1. p \in K
    <2>1. (p * a) % p = 0 /\ p * a = a * p
        BY <1>0, MultipleMod
    <2> QED
        BY <1>0, <2>1
<1>2. PICK k \in K : \A y \in K : k <= y
    <2>1. K \in SUBSET Nat /\ K # {}
        BY <1>1
    <2> HIDE DEF K
    <2> QED
        BY <2>1, LeastElement
<1>3. k \in Nat \ {0} /\ k <= p
    BY <1>1, <1>2
<1>4. ASSUME NEW x \in Int, (a * x) % p = 0 PROVE x % k = 0
    <2> DEFINE t == x \div k
               r == x % k
    <2>1. t \in Int /\ r \in 0 .. k - 1 /\ x = k * t + r
        BY <1>3, DivMod
    <2>2. PICK u \in Int : a * x = p * u
        <3>1. a * x \in Int
            OBVIOUS
        <3> QED
            BY <1>0, <1>4, <3>1, ZeroIsMultiple
    <2>3. PICK v \in Int : a * k = p * v
        <3>1. a * k \in Int /\ (a * k) % p = 0
            BY <1>2, <1>3
        <3> QED
            BY <1>0, <3>1, ZeroIsMultiple
    <2> HIDE DEF t, r
    <2>4. a * r = p * (u - v * t) /\ u - v * t \in Int
        <3>1. r = x - k * t /\ r \in Int
            BY <1>3, <2>1
        <3>2. a * r = a * x - (a * k) * t
            BY <1>3, <2>1, <3>1
        <3>3. a * x - (a * k) * t = p * u - (p * v) * t
            BY <2>2, <2>3
        <3>4. p * u - (p * v) * t = p * (u - v * t) /\ u - v * t \in Int
            BY <1>0, <2>1
        <3> QED
            BY <3>2, <3>3, <3>4
    <2>5. (a * r) % p = 0
        BY <1>0, <2>4, MultipleMod
    <2>6. ASSUME r # 0 PROVE FALSE
        <3>1. r \in Nat \ {0} /\ r < k
            BY <1>3, <2>1, <2>6
        <3>2. r \in K
            BY <2>5, <3>1
        <3>3. k <= r
            BY <1>2, <3>2, Zenon
        <3> QED
            BY <1>3, <3>1, <3>3
    <2> QED
        BY <2>6 DEF r
<1> HIDE DEF K
<1>5. p % k = 0
    <2>1. (a * p) % p = 0 /\ p \in Int
        BY <1>1 DEF K
    <2> QED
        BY <1>4, <2>1
<1>6. k = 1 \/ k = p
    BY <1>3, <1>5, PrimeDivisor
<1>7. k # 1
    <2>1. (a * k) % p = 0
        BY <1>2 DEF K
    <2>2. ASSUME k = 1 PROVE a * k = a
        BY <2>2
    <2> QED
        BY <2>1, <2>2
<1>8. b % k = 0
    BY <1>4
<1> QED
    BY <1>6, <1>7, <1>8

\* A factor that p does not divide may be cancelled.
LEMMA Cancel ==
    ASSUME NEW p \in Nat, IsPrime(p), NEW a \in Int, a % p # 0,
           NEW x \in 0 .. p - 1, NEW y \in 0 .. p - 1, (a * x) % p = (a * y) % p
    PROVE  x = y
<1>0. p \in Nat \ {0} /\ p > 1
    BY DEF IsPrime
<1>1. a * x \in Int /\ a * y \in Int /\ x - y \in Int
    OBVIOUS
<1>2. Same(a * x, a * y, p)
    BY <1>0, <1>1, ModSameSame, Zenon
<1>3. PICK k \in Int : a * x - a * y = p * k
    BY <1>2 DEF Same
<1>4. a * (x - y) = p * k
    BY <1>3
<1>5. (a * (x - y)) % p = 0
    <2>1. (p * k) % p = 0
        BY <1>0, MultipleMod, Zenon
    <2> QED
        BY <1>4, <2>1, Zenon
<1>6. (x - y) % p = 0
    BY <1>1, <1>5, Euclid, Zenon
<1>7. PICK l \in Int : x - y = p * l
    BY <1>0, <1>1, <1>6, ZeroIsMultiple, Zenon
<1>8. Same(x, y, p)
    BY <1>7 DEF Same
<1> QED
    BY <1>0, <1>8, SameSmall

\* A unit of the field: its powers are units.
Units(p) == 1 .. p - 1

\* What p does not divide stays so when it is multiplied.
LEMMA UnitTimesUnit ==
    ASSUME NEW p \in Nat, IsPrime(p), NEW a \in Int, a % p # 0, NEW x \in Units(p)
    PROVE  (a * x) % p \in Units(p)
<1>0. p \in Nat \ {0} /\ p > 1
    BY DEF IsPrime
<1>1. x \in Int /\ a * x \in Int /\ x % p = x /\ x # 0
    BY <1>0 DEF Units
<1>2. (a * x) % p # 0
    BY <1>1, Euclid, Zenon
<1>3. (a * x) % p \in 0 .. p - 1
    BY <1>0, <1>1, SameMod, Zenon
<1> QED
    BY <1>0, <1>2, <1>3 DEF Units

\* p divides no power of what it does not divide.
LEMMA PowersAreUnits ==
    ASSUME NEW p \in Nat, IsPrime(p), NEW a \in Int, a % p # 0
    PROVE  \A e \in Nat : PowMod(a, e, p) \in Units(p)
<1> DEFINE T == {e \in Nat : PowMod(a, e, p) \in Units(p)}
<1>0. p \in Nat \ {0} /\ p > 1
    BY DEF IsPrime
<1>1. 0 \in T
    <2>1. PowMod(a, 0, p) = 1 % p
        BY <1>0, PowRec
    <2> QED
        BY <1>0, <2>1 DEF Units
<1>2. ASSUME NEW e \in Nat, e \in T PROVE e + 1 \in T
    <2>1. PowMod(a, e + 1, p) = (a * PowMod(a, e, p)) % p
        BY <1>0, PowRec, Zenon
    <2>2. PowMod(a, e + 1, p) \in Units(p)
        BY <1>2, <2>1, UnitTimesUnit, Zenon
    <2> QED
        BY <2>2
<1>3. \A e \in Nat : e \in T
    <2> HIDE DEF T
    <2> QED
        BY <1>1, <1>2, NatInductionOnSet
<1> QED
    BY <1>3

------------------------------------------------------------------------------
(* Fermat's little theorem.  Multiplying with a moves the units in orbits that *)
(* all have the order of a for their size, so the order divides p - 1.         *)

\* The power 0 is 1 modulo a prime.
LEMMA PowZero ==
    ASSUME NEW p \in Nat, IsPrime(p), NEW a \in Int
    PROVE  PowMod(a, 0, p) = 1
<1>1. p \in Nat \ {0} /\ p > 1 /\ 0 \in Nat
    BY DEF IsPrime
<1>2. PowMod(a, 0, p) = 1 % p
    BY <1>1, PowRec, Zenon
<1> QED
    BY <1>1, <1>2

\* Two equal powers of a are a power of a apart that is 1.
LEMMA PowerComesAgain ==
    ASSUME NEW p \in Nat, IsPrime(p), NEW a \in Int, a % p # 0, NEW i \in Nat, NEW t \in Nat,
           PowMod(a, i + t, p) = PowMod(a, i, p)
    PROVE  PowMod(a, t, p) = 1
<1> DEFINE P(k) == PowMod(a, k, p)
           T == {k \in Nat : P(k + t) = P(k) => P(t) = 1}
<1>0. p \in Nat \ {0}
    BY DEF IsPrime
<1>1. P(0) = 1 /\ \A k \in Nat : P(k) \in 0 .. p - 1 /\ P(k + 1) = (a * P(k)) % p
    BY <1>0, PowZero, PowRec
<1>2. ASSUME NEW x \in 0 .. p - 1, NEW y \in 0 .. p - 1, (a * x) % p = (a * y) % p
      PROVE  x = y
    BY <1>2, Cancel, Zenon
<1> HIDE DEF P
<1>3. 0 \in T
    BY <1>1
<1>4. ASSUME NEW k \in Nat, k \in T PROVE k + 1 \in T
    <2> SUFFICES ASSUME P((k + 1) + t) = P(k + 1) PROVE P(t) = 1
        OBVIOUS
    <2>1. (k + 1) + t = (k + t) + 1 /\ k + t \in Nat
        OBVIOUS
    <2>2. P((k + t) + 1) = (a * P(k + t)) % p /\ P(k + 1) = (a * P(k)) % p
        BY <1>1, <2>1
    <2>3. P(k + t) \in 0 .. p - 1 /\ P(k) \in 0 .. p - 1
        BY <1>1, <2>1
    <2>4. P(k + t) = P(k)
        BY <1>2, <2>1, <2>2, <2>3
    <2> QED
        BY <1>4, <2>4
<1>5. \A k \in Nat : k \in T
    <2> HIDE DEF T
    <2> QED
        BY <1>3, <1>4, NatInductionOnSet
<1>6. i \in T
    BY <1>5
<1> QED
    BY <1>6 DEF P

\* d is the order of a modulo p.
IsOrder(d, a, p) ==
    /\ d \in Nat \ {0} /\ PowMod(a, d, p) = 1
    /\ \A i \in 1 .. d - 1 : PowMod(a, i, p) # 1

\* There are only p - 1 values for the powers of a, so one of them is 1.
LEMMA OrderExists ==
    ASSUME NEW p \in Nat, IsPrime(p), NEW a \in Int, a % p # 0
    PROVE  \E d : IsOrder(d, a, p)
<1> DEFINE D == {d \in Nat \ {0} : PowMod(a, d, p) = 1}
           P(k) == PowMod(a, k, p)
<1>0. p \in Nat \ {0} /\ p > 1
    BY DEF IsPrime
<1>1. PICK i \in 0 .. p - 1, j \in 0 .. p - 1 : i < j /\ P(i) = P(j)
    <2> DEFINE f == [k \in 0 .. p - 1 |-> P(k)]
    <2>1. f \in [0 .. p - 1 -> Units(p)]
        BY PowersAreUnits
    <2>2. /\ IsFiniteSet(0 .. p - 1) /\ Cardinality(0 .. p - 1) = p
          /\ IsFiniteSet(Units(p)) /\ Cardinality(Units(p)) = p - 1
        <3>1. 0 \in Int /\ 1 \in Int /\ p - 1 \in Int
            OBVIOUS
        <3>2. IsFiniteSet(0 .. p - 1) /\ Cardinality(0 .. p - 1) = p
            BY <1>0, <3>1, FS_Interval
        <3>3. IsFiniteSet(1 .. p - 1) /\ Cardinality(1 .. p - 1) = p - 1
            BY <1>0, <3>1, FS_Interval
        <3> QED
            BY <3>2, <3>3 DEF Units
    <2>3. Cardinality(Units(p)) < Cardinality(0 .. p - 1)
        BY <2>2
    <2> HIDE DEF f
    <2>4. PICK x \in 0 .. p - 1, y \in 0 .. p - 1 : x # y /\ f[x] = f[y]
        BY <2>1, <2>2, <2>3, FS_PigeonHole, Zenon
    <2>5. P(x) = P(y)
        BY <2>4 DEF f
    <2>6. x < y \/ y < x
        BY <2>4
    <2> HIDE DEF P
    <2> QED
        BY <2>5, <2>6
<1>2. j - i \in D
    <2>1. j - i \in Nat \ {0} /\ i + (j - i) = j /\ i \in Nat /\ j - i \in Nat
        BY <1>1
    <2>2. P(i + (j - i)) = P(i)
        BY <1>1, <2>1
    <2>3. P(j - i) = 1
        BY <2>1, <2>2, PowerComesAgain, Zenon
    <2> QED
        BY <2>1, <2>3
<1>3. PICK d \in D : \A y \in D : d <= y
    <2>1. D \in SUBSET Nat /\ D # {}
        BY <1>2
    <2> HIDE DEF D
    <2> QED
        BY <2>1, LeastElement
<1>4. ASSUME NEW i1 \in 1 .. d - 1 PROVE P(i1) # 1
    BY <1>3
<1> QED
    BY <1>3, <1>4 DEF IsOrder

\* The units that come from s by multiplying with a.
Orbit(i, s, a, p) == (PowMod(a, i, p) * s) % p

\* An orbit starts at s, ...
LEMMA OrbitStart ==
    ASSUME NEW p \in Nat, IsPrime(p), NEW a \in Int, NEW s \in Units(p)
    PROVE  Orbit(0, s, a, p) = s
<1>1. PowMod(a, 0, p) = 1
    BY PowZero
<1>2. s \in Int /\ 1 * s = s /\ s % p = s
    BY DEF Units, IsPrime
<1> QED
    BY <1>1, <1>2 DEF Orbit

\* ... goes on by a factor a, and stays among the units.
LEMMA OrbitSteps ==
    ASSUME NEW p \in Nat, IsPrime(p), NEW a \in Int, a % p # 0, NEW s \in Units(p), NEW i \in Nat
    PROVE  /\ Orbit(i + 1, s, a, p) = (a * Orbit(i, s, a, p)) % p
           /\ Orbit(i, s, a, p) \in Units(p)
<1>0. p \in Nat \ {0} /\ p > 1 /\ s \in Int
    BY DEF IsPrime, Units
<1> DEFINE v == PowMod(a, i, p)
<1>2. v \in Units(p) /\ PowMod(a, i + 1, p) = (a * v) % p
    BY <1>0, PowersAreUnits, PowRec
<1> HIDE DEF v
<1>3. v \in Int /\ v # 0 /\ v % p # 0
    BY <1>0, <1>2 DEF Units
<1>4. Orbit(i, s, a, p) = (v * s) % p /\ Orbit(i + 1, s, a, p) = (((a * v) % p) * s) % p
    BY <1>2 DEF Orbit, v
<1>5. (((a * v) % p) * s) % p = (a * ((v * s) % p)) % p
    <2>1. a * v \in Int /\ v * s \in Int /\ (a * v) * s = a * (v * s)
        BY <1>0, <1>3
    <2>2. (((a * v) % p) * s) % p = ((a * v) * s) % p
        BY <1>0, <2>1, ModMulLeft, Zenon
    <2>3. (a * ((v * s) % p)) % p = (a * (v * s)) % p
        BY <1>0, <2>1, ModMul, Zenon
    <2> QED
        BY <2>1, <2>2, <2>3, Zenon
<1>6. (v * s) % p \in Units(p)
    BY <1>3, UnitTimesUnit, Zenon
<1> QED
    BY <1>4, <1>5, <1>6, Zenon

\* No element comes twice within the order of a.
LEMMA OrbitIsDistinct ==
    ASSUME NEW p \in Nat, IsPrime(p), NEW a \in Int, a % p # 0, NEW s \in Units(p),
           NEW d, IsOrder(d, a, p), NEW i \in 0 .. d - 1, NEW j \in 0 .. d - 1, i < j
    PROVE  Orbit(i, s, a, p) # Orbit(j, s, a, p)
<1> SUFFICES ASSUME Orbit(i, s, a, p) = Orbit(j, s, a, p) PROVE FALSE
    OBVIOUS
<1>0. p \in Nat \ {0} /\ p > 1 /\ s \in Int /\ s % p # 0
    BY DEF IsPrime, Units
<1>1. d \in Nat /\ i \in Nat /\ j \in Nat /\ j - i \in Nat /\ j - i \in 1 .. d - 1 /\ i + (j - i) = j
    BY DEF IsOrder
<1> DEFINE v == PowMod(a, i, p)
           w == PowMod(a, j, p)
<1>2. v \in Units(p) /\ w \in Units(p)
    BY <1>1, PowersAreUnits
<1>3. (v * s) % p = (w * s) % p
    BY DEF Orbit
<1> HIDE DEF v, w
<1>4. v \in 0 .. p - 1 /\ w \in 0 .. p - 1 /\ s * v = v * s /\ s * w = w * s
    BY <1>0, <1>2 DEF Units
<1>5. (s * v) % p = (s * w) % p
    BY <1>3, <1>4
<1>6. v = w
    BY <1>0, <1>4, <1>5, Cancel, Zenon
<1>7. PowMod(a, i + (j - i), p) = PowMod(a, i, p)
    BY <1>1, <1>6 DEF v, w
<1>8. PowMod(a, j - i, p) = 1
    BY <1>1, <1>7, PowerComesAgain, Zenon
<1> QED
    BY <1>1, <1>8 DEF IsOrder

OrbitOf(s, d, a, p) == {Orbit(i, s, a, p) : i \in 0 .. d - 1}

\* An orbit has as many elements as the order of a.
LEMMA OrbitSize ==
    ASSUME NEW p \in Nat, IsPrime(p), NEW a \in Int, a % p # 0, NEW s \in Units(p),
           NEW d, IsOrder(d, a, p)
    PROVE  IsFiniteSet(OrbitOf(s, d, a, p)) /\ Cardinality(OrbitOf(s, d, a, p)) = d
<1> DEFINE O == OrbitOf(s, d, a, p)
           f == [i \in 0 .. d - 1 |-> Orbit(i, s, a, p)]
<1>1. d \in Nat \ {0}
    BY DEF IsOrder
<1>2. f \in Surjection(0 .. d - 1, O)
    BY DEF OrbitOf, Surjection
<1>3. f \in Injection(0 .. d - 1, O)
    <2>1. f \in [0 .. d - 1 -> O]
        BY DEF OrbitOf
    <2>2. ASSUME NEW i \in 0 .. d - 1, NEW j \in 0 .. d - 1, f[i] = f[j] PROVE i = j
        <3>1. Orbit(i, s, a, p) = Orbit(j, s, a, p)
            BY <2>2
        <3>2. ~ (i < j)
            BY <3>1, OrbitIsDistinct, Zenon
        <3>3. ~ (j < i)
            BY <3>1, OrbitIsDistinct, Zenon
        <3> QED
            BY <1>1, <3>2, <3>3
    <2> HIDE DEF f, O
    <2> QED
        BY <2>1, <2>2 DEF Injection, IsInjective
<1> HIDE DEF f, O
<1>4. ExistsBijection(0 .. d - 1, O)
    BY <1>2, <1>3, Zenon DEF ExistsBijection, Bijection
<1>5. IsFiniteSet(0 .. d - 1) /\ Cardinality(0 .. d - 1) = d
    <2>1. 0 \in Int /\ d - 1 \in Int /\ ~ (0 > d - 1) /\ (d - 1) - 0 + 1 = d
        BY <1>1
    <2>2. /\ IsFiniteSet(0 .. d - 1)
          /\ Cardinality(0 .. d - 1) = IF 0 > d - 1 THEN 0 ELSE (d - 1) - 0 + 1
        BY <2>1, FS_Interval, Zenon
    <2> QED
        BY <2>1, <2>2
<1>6. IsFiniteSet(O) /\ Cardinality(O) = Cardinality(0 .. d - 1)
    BY <1>4, <1>5, FS_Bijection, Zenon
<1> QED
    BY <1>5, <1>6 DEF O

\* A set of units that multiplying with a does not leave.
Closed(S, a, p) == \A x \in S : (a * x) % p \in S

\* A set that multiplying with a does not leave contains the orbits of its elements.
LEMMA OrbitStays ==
    ASSUME NEW p \in Nat, IsPrime(p), NEW a \in Int, a % p # 0, NEW S \in SUBSET Units(p),
           Closed(S, a, p), NEW s \in S, NEW d, IsOrder(d, a, p)
    PROVE  OrbitOf(s, d, a, p) \subseteq S
<1> DEFINE T == {k \in Nat : Orbit(k, s, a, p) \in S}
<1>0. s \in Units(p)
    OBVIOUS
<1>1. 0 \in T
    <2>1. 0 \in Nat
        OBVIOUS
    <2>2. Orbit(0, s, a, p) = s
        BY <1>0, OrbitStart, Zenon
    <2> QED
        BY <2>1, <2>2
<1>2. ASSUME NEW k \in Nat, k \in T PROVE k + 1 \in T
    <2>1. Orbit(k + 1, s, a, p) = (a * Orbit(k, s, a, p)) % p
        <3> HIDE DEF T
        <3> QED
            BY <1>0, OrbitSteps, Zenon
    <2>2. Orbit(k + 1, s, a, p) \in S
        BY <1>2, <2>1, Zenon DEF Closed
    <2> QED
        BY <2>2
<1>3. \A k \in Nat : k \in T
    <2> HIDE DEF T
    <2> QED
        BY <1>1, <1>2, NatInductionOnSet
<1>4. \A k \in 0 .. d - 1 : k \in Nat
    BY DEF IsOrder
<1> QED
    BY <1>3, <1>4 DEF OrbitOf

\* Multiplying with a does not leave the rest of such a set when an orbit is taken out.
LEMMA RestStays ==
    ASSUME NEW p \in Nat, IsPrime(p), NEW a \in Int, a % p # 0, NEW S \in SUBSET Units(p),
           Closed(S, a, p), NEW s \in S, NEW d, IsOrder(d, a, p)
    PROVE  Closed(S \ OrbitOf(s, d, a, p), a, p)
<1> DEFINE O == OrbitOf(s, d, a, p)
<1>0. p \in Nat \ {0} /\ s \in Units(p) /\ d \in Nat \ {0}
    BY DEF IsPrime, IsOrder
<1>a. ASSUME NEW k \in Nat
      PROVE  Orbit(k + 1, s, a, p) = (a * Orbit(k, s, a, p)) % p /\ Orbit(k, s, a, p) \in Units(p)
    BY <1>0, OrbitSteps, Zenon
<1> SUFFICES ASSUME NEW x \in S, x \notin O PROVE (a * x) % p \in S \ O
    BY DEF Closed
<1>1. (a * x) % p \in S
    BY DEF Closed
<1>2. ASSUME NEW i \in 0 .. d - 1, (a * x) % p = Orbit(i, s, a, p) PROVE FALSE
    <2>1. PICK j \in 0 .. d - 1 : Orbit(i, s, a, p) = (a * Orbit(j, s, a, p)) % p
        <3>1. CASE i # 0
            <4>1. PICK j \in 0 .. d - 1 : j \in Nat /\ j + 1 = i
                <5>1. i - 1 \in 0 .. d - 1 /\ i - 1 \in Nat /\ (i - 1) + 1 = i
                    BY <1>0, <3>1
                <5> QED
                    BY <5>1
            <4>2. Orbit(j + 1, s, a, p) = (a * Orbit(j, s, a, p)) % p
                BY <1>a, <4>1, Zenon
            <4> QED
                BY <4>1, <4>2
        <3>2. CASE i = 0
            <4>1. PICK j \in 0 .. d - 1 : j \in Nat /\ j + 1 = d
                <5>1. d - 1 \in 0 .. d - 1 /\ d - 1 \in Nat /\ (d - 1) + 1 = d
                    BY <1>0
                <5> QED
                    BY <5>1
            <4>2. Orbit(j + 1, s, a, p) = (a * Orbit(j, s, a, p)) % p
                BY <1>a, <4>1, Zenon
            <4>3. Orbit(d, s, a, p) = Orbit(0, s, a, p)
                <5>1. PowMod(a, d, p) = PowMod(a, 0, p)
                    BY PowZero DEF IsOrder
                <5> QED
                    BY <5>1 DEF Orbit
            <4> QED
                BY <3>2, <4>1, <4>2, <4>3
        <3> QED
            BY <3>1, <3>2
    <2>2. Orbit(j, s, a, p) \in Units(p)
        <3>1. j \in Nat
            OBVIOUS
        <3> QED
            BY <1>a, <3>1, Zenon
    <2>3. Orbit(j, s, a, p) \in 0 .. p - 1 /\ x \in 0 .. p - 1
        BY <2>2 DEF Units
    <2>4. (a * x) % p = (a * Orbit(j, s, a, p)) % p
        BY <1>2, <2>1, Zenon
    <2>5. x = Orbit(j, s, a, p)
        BY <2>3, <2>4, Cancel, Zenon
    <2> QED
        BY <2>5 DEF OrbitOf
<1> QED
    BY <1>1, <1>2 DEF OrbitOf

\* Such a set is made of orbits: the order of a divides its size.
LEMMA ClosedSize ==
    ASSUME NEW p \in Nat, IsPrime(p), NEW a \in Int, a % p # 0, NEW d, IsOrder(d, a, p)
    PROVE  \A S \in SUBSET Units(p) : Closed(S, a, p) => Cardinality(S) % d = 0
<1> DEFINE Bad(n) == \E S \in SUBSET Units(p) :
                        Closed(S, a, p) /\ Cardinality(S) = n /\ n % d # 0
           N == {n \in Nat : Bad(n)}
<1>0. p \in Nat \ {0} /\ d \in Nat \ {0}
    BY DEF IsPrime, IsOrder
<1>1. ASSUME NEW S \in SUBSET Units(p) PROVE IsFiniteSet(S) /\ Cardinality(S) \in Nat
    <2>1. IsFiniteSet(Units(p))
        <3>1. 1 \in Int /\ p - 1 \in Int
            BY <1>0
        <3> QED
            BY <3>1, FS_Interval DEF Units
    <2>2. IsFiniteSet(S)
        BY <2>1, FS_Subset, Zenon
    <2> QED
        BY <2>2, FS_CardinalityType, Zenon
<1>2. ASSUME N # {} PROVE FALSE
    <2>1. PICK n \in N : \A m \in N : n <= m
        <3>1. N \in SUBSET Nat
            OBVIOUS
        <3> HIDE DEF N
        <3> QED
            BY <1>2, <3>1, LeastElement
    <2>2. PICK S \in SUBSET Units(p) : Closed(S, a, p) /\ Cardinality(S) = n /\ n % d # 0
        BY <2>1
    <2>3. S # {}
        <3>1. ASSUME S = {} PROVE n = 0
            BY <2>2, <3>1, FS_EmptySet
        <3>2. 0 % d = 0
            BY <1>0
        <3> QED
            BY <2>2, <3>1, <3>2
    <2>4. PICK s \in S : TRUE
        BY <2>3
    <2> DEFINE O == OrbitOf(s, d, a, p)
    <2>5. s \in Units(p)
        BY <2>4
    <2>6. O \subseteq S /\ Closed(S \ O, a, p)
        BY <2>2, <2>4, OrbitStays, RestStays, Zenon
    <2>7. IsFiniteSet(O) /\ Cardinality(O) = d
        BY <2>5, OrbitSize, Zenon
    <2>8. S \ O \in SUBSET Units(p)
        OBVIOUS
    <2> HIDE DEF O
    <2>9. Cardinality(S \ O) = n - d
        <3>1. S \cap O = O
            BY <2>6
        <3>2. Cardinality(S \ O) = Cardinality(S) - Cardinality(S \cap O)
            BY <1>1, FS_Difference, Zenon
        <3> QED
            BY <2>2, <2>7, <3>1, <3>2
    <2>10. n - d \in Nat /\ n - d < n
        BY <1>0, <1>1, <2>1, <2>8, <2>9
    <2>11. (n - d) % d # 0
        <3>1. ASSUME (n - d) % d = 0 PROVE FALSE
            <4>1. PICK k \in Int : n - d = d * k
                <5>1. n - d \in Int
                    BY <2>10
                <5> QED
                    BY <1>0, <3>1, <5>1, ZeroIsMultiple, Zenon
            <4>2. n = d * (k + 1) /\ k + 1 \in Int
                BY <1>0, <2>1, <4>1
            <4>3. n % d = 0
                BY <1>0, <4>2, MultipleMod
            <4> QED
                BY <2>2, <4>3
        <3> QED
            BY <3>1
    <2>12. Bad(n - d)
        BY <2>6, <2>8, <2>9, <2>11
    <2> HIDE DEF Bad
    <2> QED
        BY <2>1, <2>10, <2>12
<1>3. ASSUME NEW S \in SUBSET Units(p), Closed(S, a, p), Cardinality(S) % d # 0 PROVE FALSE
    <2>1. Cardinality(S) \in N
        BY <1>1, <1>3
    <2> QED
        BY <1>2, <2>1
<1> QED
    BY <1>3

\* Fermat's little theorem: a to the p - 1 is 1 modulo p.
LEMMA Fermat ==
    ASSUME NEW p \in Nat, IsPrime(p), NEW a \in Int, a % p # 0
    PROVE  PowMod(a, p - 1, p) = 1
<1>0. p \in Nat \ {0} /\ p - 1 \in Nat
    BY DEF IsPrime
<1>1. PICK d : IsOrder(d, a, p)
    BY OrderExists, Zenon
<1>2. d \in Nat \ {0} /\ PowMod(a, d, p) = 1
    BY <1>1 DEF IsOrder
<1>3. Closed(Units(p), a, p)
    BY UnitTimesUnit, Zenon DEF Closed
<1>4. (p - 1) % d = 0
    <2>1. Cardinality(Units(p)) % d = 0
        BY <1>1, <1>3, ClosedSize, Zenon
    <2>2. Cardinality(Units(p)) = p - 1
        <3>1. 1 \in Int /\ p - 1 \in Int
            BY <1>0
        <3>2. Cardinality(1 .. p - 1) = IF 1 > p - 1 THEN 0 ELSE (p - 1) - 1 + 1
            BY <3>1, FS_Interval, Zenon
        <3> QED
            BY <1>0, <3>2 DEF Units
    <2> QED
        BY <2>1, <2>2
<1>5. PICK t \in Int : p - 1 = d * t
    <2>1. p - 1 \in Int
        BY <1>0
    <2> QED
        BY <1>2, <1>4, <2>1, ZeroIsMultiple, Zenon
<1>6. t \in Nat
    <2>1. ASSUME t < 0 PROVE FALSE
        <3>1. d * t < 0
            BY <1>2, <2>1
        <3> QED
            BY <1>0, <1>5, <3>1
    <2> QED
        BY <2>1
<1>b. d \in Nat
    BY <1>2
<1>c. ASSUME NEW i \in Nat PROVE PowMod(a, i + d, p) = (PowMod(a, i, p) * PowMod(a, d, p)) % p
    <2>1. p \in Nat \ {0}
        BY <1>0
    <2> QED
        BY <1>b, <2>1, PowAdd, Zenon
<1> DEFINE T == {k \in Nat : PowMod(a, d * k, p) = 1}
<1>7. 0 \in T
    <2>1. d * 0 = 0
        BY <1>2
    <2> QED
        BY <2>1, PowZero
<1>8. ASSUME NEW k \in Nat, k \in T PROVE k + 1 \in T
    <2>1. d * (k + 1) = d * k + d /\ d * k \in Nat /\ d \in Nat
        BY <1>2
    <2>2. PowMod(a, d * k + d, p) = (PowMod(a, d * k, p) * PowMod(a, d, p)) % p
        BY <1>c, <2>1, Zenon
    <2>3. (1 * 1) % p = 1
        BY DEF IsPrime
    <2>4. PowMod(a, d * (k + 1), p) = 1
        BY <1>2, <1>8, <2>1, <2>2, <2>3
    <2> QED
        BY <2>4
<1>9. \A k \in Nat : k \in T
    <2> HIDE DEF T
    <2> QED
        BY <1>7, <1>8, NatInductionOnSet
<1> QED
    BY <1>5, <1>6, <1>9

------------------------------------------------------------------------------
(* Exponents reduced modulo p - 1.  The primes of a key are 3 (mod 4), so that *)
(* p - 1 divides no power of two and the exponent never becomes 0.             *)

\* An exponent may be reduced modulo p - 1, for what p does not divide.
LEMMA PowPeriod ==
    ASSUME NEW p \in Nat, IsPrime(p), p > 2, NEW a \in Int, a % p # 0, NEW e \in Nat
    PROVE  PowMod(a, e % (p - 1), p) = PowMod(a, e, p)
<1> DEFINE D == p - 1
           P(k) == PowMod(a, k, p)
           r == e % D
           t == e \div D
           T == {k \in Nat : P(r + D * k) = P(r)}
<1>0. D \in Nat \ {0} /\ p \in Nat \ {0}
    OBVIOUS
<1>1. r \in Nat /\ t \in Int /\ e = D * t + r /\ r < D
    <2> HIDE DEF D
    <2>0. e \in Int
        OBVIOUS
    <2>1. t \in Int /\ r \in 0 .. D - 1 /\ e = D * t + r
        BY <1>0, <2>0, DivMod, Zenon
    <2> QED
        BY <1>0, <2>1
<1>2. P(D) = 1
    BY Fermat
<1>3. \A i \in Nat : P(i) \in 0 .. p - 1
    BY <1>0, PowRec
<1>4. ASSUME NEW i \in Nat PROVE P(i + D) = (P(i) * P(D)) % p
    BY <1>0, PowAdd
<1> HIDE DEF D, P, r, t
<1>5. t \in Nat
    <2>1. ASSUME t < 0 PROVE FALSE
        <3>1. t <= -1 /\ D * t <= D * (-1)
            BY <1>0, <1>1, <2>1
        <3> QED
            BY <1>0, <1>1, <3>1
    <2> QED
        BY <1>1, <2>1
<1>6. 0 \in T
    <2>1. r + D * 0 = r
        BY <1>0, <1>1
    <2> QED
        BY <2>1
<1>7. ASSUME NEW k \in Nat, k \in T PROVE k + 1 \in T
    <2> DEFINE i == r + D * k
    <2>1. i \in Nat /\ r + D * (k + 1) = i + D
        BY <1>0, <1>1
    <2>2. P(i) = P(r)
        BY <1>7
    <2> HIDE DEF i
    <2>3. P(i + D) = (P(i) * 1) % p
        BY <1>2, <1>4, <2>1
    <2>4. (P(i) * 1) % p = P(i)
        BY <1>0, <1>3, <2>1
    <2>5. P(r + D * (k + 1)) = P(r)
        BY <2>1, <2>2, <2>3, <2>4
    <2> QED
        BY <2>5
<1>8. \A k \in Nat : k \in T
    <2> HIDE DEF T
    <2> QED
        BY <1>6, <1>7, NatInductionOnSet
<1>9. P(r + D * t) = P(r)
    BY <1>5, <1>8
<1>10. r + D * t = e
    BY <1>0, <1>1
<1> QED
    BY <1>9, <1>10 DEF P, r, D

\* A power of a multiple of p is 0, unless the exponent is 0.
LEMMA PowOfMultiple ==
    ASSUME NEW p \in Nat \ {0}, NEW a \in Int, a % p = 0, NEW e \in Nat \ {0}
    PROVE  PowMod(a, e, p) = 0
<1>1. PICK j \in Nat : e = j + 1
    <2>1. e - 1 \in Nat /\ e = (e - 1) + 1
        OBVIOUS
    <2> QED
        BY <2>1
<1> DEFINE v == PowMod(a, j, p)
<1>2. PowMod(a, j + 1, p) = (a * v) % p /\ v \in Int
    BY PowRec
<1> HIDE DEF v
<1>3. ((a % p) * v) % p = (a * v) % p
    BY <1>2, ModMulLeft, Zenon
<1>4. ((a % p) * v) % p = 0
    BY <1>2
<1> QED
    BY <1>1, <1>2, <1>3, <1>4

\* No odd number but 1 divides a power of two.
LEMMA OddDividesNoPower ==
    ASSUME NEW r \in Nat, r > 1, r % 2 = 1
    PROVE  \A k \in Nat : TwoTo(k) % r # 0
<1> DEFINE T == {k \in Nat : TwoTo(k) % r # 0}
<1>0. r \in Nat \ {0} /\ 0 \in Nat
    OBVIOUS
<1>1. 0 \in T
    <2>1. TwoTo(0) = 1
        BY <1>0, TwoRec
    <2>2. 1 % r = 1
        OBVIOUS
    <2> QED
        BY <2>1, <2>2
<1>2. ASSUME NEW k \in Nat, k \in T PROVE k + 1 \in T
    <2> DEFINE x == TwoTo(k)
    <2>1. x \in Nat /\ TwoTo(k + 1) = 2 * x /\ x % r # 0
        BY <1>2, TwoRec
    <2> HIDE DEF x
    <2>2. ASSUME (2 * x) % r = 0 PROVE FALSE
        <3>1. PICK t \in Int : 2 * x = r * t
            <4>1. 2 * x \in Int
                BY <2>1
            <4> QED
                BY <1>0, <2>2, <4>1, ZeroIsMultiple, Zenon
        <3>2. PICK v \in Int : r = 2 * v + 1
            <4>1. r = 2 * (r \div 2) + (r % 2) /\ r \div 2 \in Int
                OBVIOUS
            <4> QED
                BY <4>1
        <3>3. r * t = 2 * (v * t) + t /\ v * t \in Int
            BY <3>2
        <3>4. t = 2 * (x - v * t)
            BY <2>1, <3>1, <3>3
        <3> DEFINE u == x - v * t
        <3>5. u \in Int /\ t = 2 * u
            BY <2>1, <3>3, <3>4
        <3> HIDE DEF u
        <3>6. 2 * x = 2 * (r * u) /\ r * u \in Int
            BY <3>1, <3>5
        <3>7. x = r * u
            BY <2>1, <3>6
        <3>8. (r * u) % r = 0
            BY <1>0, <3>5, MultipleMod
        <3> QED
            BY <2>1, <3>7, <3>8
    <2>3. TwoTo(k + 1) % r # 0
        BY <2>1, <2>2
    <2> QED
        BY <2>3
<1>3. \A k \in Nat : k \in T
    <2> HIDE DEF T
    <2> QED
        BY <1>1, <1>2, NatInductionOnSet
<1> QED
    BY <1>3

\* The primes genprime3mod4 finds, but 3.
Key3mod4(p) == p \in Nat /\ IsPrime(p) /\ p % 4 = 3 /\ p > 3

\* p - 1 divides no power of two when p is 3 (mod 4) and above 3: (p - 1) / 2 is odd.
LEMMA PhiDividesNoPower ==
    ASSUME NEW p, Key3mod4(p), NEW k \in Nat
    PROVE  TwoTo(k) % (p - 1) # 0
<1> SUFFICES ASSUME TwoTo(k) % (p - 1) = 0 PROVE FALSE
    OBVIOUS
<1>0. p \in Nat /\ p > 3 /\ p % 4 = 3
    BY DEF Key3mod4
<1>1. PICK r \in Nat : p - 1 = 2 * r /\ r > 1 /\ r % 2 = 1
    <2> DEFINE c == p \div 4
    <2>1. c \in Int /\ p = 4 * c + 3
        BY <1>0
    <2> HIDE DEF c
    <2>2. 2 * c + 1 \in Nat /\ p - 1 = 2 * (2 * c + 1) /\ 2 * c + 1 > 1
        BY <1>0, <2>1
    <2>3. (2 * c + 1) % 2 = 1
        BY <2>1
    <2> QED
        BY <2>2, <2>3
<1> DEFINE x == TwoTo(k)
<1>2. x \in Nat /\ x % r # 0
    BY <1>1, TwoRec, OddDividesNoPower
<1>3. p - 1 \in Nat \ {0} /\ x % (p - 1) = 0 /\ x \in Int
    BY <1>0, <1>2
<1> HIDE DEF x
<1>4. PICK t \in Int : x = (p - 1) * t
    BY <1>3, ZeroIsMultiple, Zenon
<1>5. x = r * (2 * t) /\ 2 * t \in Int
    BY <1>1, <1>4
<1>6. r \in Nat \ {0}
    BY <1>1
<1>7. (r * (2 * t)) % r = 0
    BY <1>5, <1>6, MultipleMod, Zenon
<1> QED
    BY <1>2, <1>5, <1>7

\* So the reduced exponent is never 0, and 2^k may be reduced for every base.
LEMMA ReducedExponent ==
    ASSUME NEW p, Key3mod4(p), NEW a \in Int, NEW k \in Nat
    PROVE  PowMod(a, TwoTo(k) % (p - 1), p) = PowMod(a, TwoTo(k), p)
<1> DEFINE e == TwoTo(k)
<1>0. p \in Nat \ {0} /\ IsPrime(p) /\ p > 2 /\ p - 1 \in Nat \ {0}
    BY DEF Key3mod4
<1>1. e \in Nat \ {0}
    BY TwoRec
<1>2. e % (p - 1) # 0
    BY PhiDividesNoPower
<1> HIDE DEF e
<1>3. CASE a % p = 0
    <2>1. e % (p - 1) \in Nat \ {0}
        <3>0. e \in Int
            BY <1>1
        <3>1. e % (p - 1) \in 0 .. (p - 1) - 1
            BY <1>0, <3>0, SameMod, Zenon
        <3> QED
            BY <1>0, <1>2, <3>1
    <2>2. PowMod(a, e % (p - 1), p) = 0
        BY <1>0, <1>3, <2>1, PowOfMultiple, Zenon
    <2>3. PowMod(a, e, p) = 0
        BY <1>0, <1>1, <1>3, PowOfMultiple, Zenon
    <2> QED
        BY <2>2, <2>3 DEF e
<1>4. CASE a % p # 0
    <2>1. p \in Nat /\ e \in Nat
        BY <1>0, <1>1
    <2> QED
        BY <1>0, <1>4, <2>1, PowPeriod, Zenon DEF e
<1> QED
    BY <1>3, <1>4

------------------------------------------------------------------------------
(* The loop of twopowmodphi.                                                   *)

\* The quotient is the only one that leaves a remainder below m.
LEMMA QuotientIs ==
    ASSUME NEW m \in Nat \ {0}, NEW k \in Int, NEW r \in 0 .. m - 1, NEW a \in Int, a = m * k + r
    PROVE  a \div m = k
<1>1. a = m * (a \div m) + (a % m) /\ a \div m \in Int /\ a % m \in 0 .. m - 1
    BY DivMod
<1> DEFINE t == a \div m
           s == a % m
<1>2. t \in Int /\ s \in 0 .. m - 1 /\ a = m * t + s
    BY <1>1
<1> SUFFICES t = k
    OBVIOUS
<1> HIDE DEF t, s
<1>3. r - s = m * (t - k) /\ t - k \in Int
    BY <1>2
<1>4. Same(r, s, m)
    BY <1>3 DEF Same
<1>5. r = s
    BY <1>2, <1>4, SameSmall
<1>6. m * (t - k) = 0
    BY <1>2, <1>3, <1>5
<1> QED
    BY <1>2, <1>6

\* Halving a quotient takes its lowest bit off.
LEMMA HalfOfQuotient ==
    ASSUME NEW a \in Nat, NEW b \in Nat \ {0}
    PROVE  /\ a \div b \in Nat
           /\ a \div b = 2 * (a \div (2 * b)) + ((a \div b) % 2)
<1> DEFINE x == a \div b
           r == a % b
           y == x \div 2
           s == x % 2
<1>1. x \in Int /\ r \in 0 .. b - 1 /\ a = b * x + r
    <2>1. a \in Int
        OBVIOUS
    <2> QED
        BY <2>1, DivMod, Zenon
<1> HIDE DEF x, r
<1>2. y \in Int /\ s \in 0 .. 1 /\ x = 2 * y + s
    BY <1>1
<1> HIDE DEF y, s
<1>3. x \in Nat
    <2>1. ASSUME x < 0 PROVE FALSE
        <3>1. x <= -1 /\ b * x <= b * (-1)
            BY <1>1, <2>1
        <3> QED
            BY <1>1, <3>1
    <2> QED
        BY <1>1, <2>1
<1>4. a = (2 * b) * y + (b * s + r) /\ b * s + r \in 0 .. 2 * b - 1
    <2>1. b * x = (2 * b) * y + b * s
        BY <1>1, <1>2
    <2>2. b * s \in Int /\ 0 <= b * s /\ b * s <= b
        <3>1. s = 0 \/ s = 1
            BY <1>2
        <3>2. b * 0 = 0 /\ b * 1 = b
            OBVIOUS
        <3> QED
            BY <3>1, <3>2
    <2>3. b * s + r \in 0 .. 2 * b - 1
        BY <1>1, <2>2
    <2>4. a = (2 * b) * y + (b * s + r)
        BY <1>1, <1>2, <2>1, <2>2
    <2> QED
        BY <2>3, <2>4
<1> DEFINE u == b * s + r
           c == 2 * b
<1>5. c \in Nat \ {0} /\ a = c * y + u /\ u \in 0 .. c - 1 /\ a \in Int
    BY <1>4
<1> HIDE DEF u, c
<1>6. a \div c = y
    BY <1>2, <1>5, QuotientIs, Zenon
<1>7. a \div (2 * b) = y
    BY <1>6 DEF c
<1>8. x = 2 * (a \div (2 * b)) + (x % 2)
    BY <1>2, <1>7 DEF s
<1> QED
    BY <1>3, <1>8 DEF x

\* The power of two of a sum.
LEMMA TwoAdd ==
    ASSUME NEW i \in Nat, NEW j \in Nat
    PROVE  TwoTo(i + j) = TwoTo(i) * TwoTo(j)
<1> DEFINE T == {k \in Nat : TwoTo(k + j) = TwoTo(k) * TwoTo(j)}
<1>0. \A k \in Nat : TwoTo(k) \in Nat /\ TwoTo(k + 1) = 2 * TwoTo(k) /\ TwoTo(0) = 1
    BY TwoRec
<1>1. 0 \in T
    BY <1>0
<1>2. ASSUME NEW k \in Nat, k \in T PROVE k + 1 \in T
    <2> DEFINE x == TwoTo(k)
               y == TwoTo(j)
    <2>1. x \in Nat /\ y \in Nat /\ TwoTo(k + j) = x * y /\ TwoTo(k + 1) = 2 * x
        BY <1>0, <1>2
    <2>2. (k + 1) + j = (k + j) + 1 /\ k + j \in Nat
        OBVIOUS
    <2>3. TwoTo((k + j) + 1) = 2 * TwoTo(k + j)
        BY <1>0, <2>2
    <2> HIDE DEF x, y
    <2>4. 2 * (x * y) = (2 * x) * y
        BY <2>1
    <2>5. TwoTo((k + 1) + j) = TwoTo(k + 1) * y
        BY <2>1, <2>2, <2>3, <2>4
    <2> QED
        BY <2>5 DEF y
<1>3. \A k \in Nat : k \in T
    <2> HIDE DEF T
    <2> QED
        BY <1>1, <1>2, NatInductionOnSet
<1> QED
    BY <1>3

\* A turn of the loop of twopowmodphi appends a bit to the exponent of two.
LEMMA TurnDoubles ==
    ASSUME NEW phi \in Nat, phi > 1, NEW y \in Nat, NEW bit \in {0, 1}
    PROVE  Turn(TwoTo(y) % phi, bit, phi) = TwoTo(2 * y + bit) % phi
<1> DEFINE v == TwoTo(y)
           w == v * v
           square == w % phi
<1>0. phi \in Nat \ {0}
    OBVIOUS
<1>1. v \in Int /\ v % phi \in Int
    <2>1. v \in Int
        BY TwoRec
    <2>2. v % phi \in 0 .. phi - 1
        BY <1>0, <2>1, SameMod, Zenon
    <2> QED
        BY <2>1, <2>2
<1>2. TwoTo(2 * y) = w /\ TwoTo(2 * y + 1) = 2 * w /\ w \in Int
    <2>1. y + y = 2 * y /\ 2 * y \in Nat
        OBVIOUS
    <2>2. TwoTo(y + y) = w
        BY TwoAdd
    <2>3. TwoTo(2 * y + 1) = 2 * TwoTo(2 * y)
        BY <2>1, TwoRec, Zenon
    <2>4. w \in Int
        BY <1>1
    <2> QED
        BY <2>1, <2>2, <2>3, <2>4
<1>3. ((v % phi) * (v % phi)) % phi = w % phi
    <2>1. ((v % phi) * (v % phi)) % phi = (v * (v % phi)) % phi
        BY <1>0, <1>1, ModMulLeft, Zenon
    <2>2. (v * (v % phi)) % phi = (v * v) % phi
        BY <1>0, <1>1, ModMul, Zenon
    <2> QED
        BY <2>1, <2>2
<1>4. square \in 0 .. phi - 1 /\ Same(w, square, phi)
    BY <1>0, <1>2, SameMod, Zenon
<1>5. (2 * square) % phi = (2 * w) % phi
    <2>1. 2 \in Int
        OBVIOUS
    <2> QED
        BY <1>0, <1>2, <2>1, ModMul, Zenon
<1>6. Turn(v % phi, bit, phi) = IF bit = 0 THEN square ELSE Doubled(square, phi)
    BY <1>3, Zenon DEF Turn
<1> HIDE DEF v, w, square
<1>7. CASE bit = 0
    <2>1. 2 * y + bit = 2 * y
        BY <1>7
    <2> QED
        BY <1>2, <1>6, <1>7, <2>1 DEF v, square
<1>8. CASE bit = 1
    <2>1. (2 * square) % phi = IF square + square >= phi THEN square + square - phi
                               ELSE square + square
        <3>1. CASE square + square >= phi
            <4> DEFINE z == square + square - phi
            <4>1. z \in 0 .. phi - 1 /\ 2 * square - z = phi * 1 /\ 2 * square \in Int /\ z \in Int
                BY <1>4, <3>1
            <4>2. Same(2 * square, z, phi)
                BY <4>1 DEF Same
            <4> HIDE DEF z
            <4>3. (2 * square) % phi = z % phi
                BY <1>0, <4>1, <4>2, SameSameMod, Zenon
            <4>4. z % phi = z
                BY <1>0, <4>1, ModSmall, Zenon
            <4> QED
                BY <3>1, <4>3, <4>4 DEF z
        <3>2. CASE ~ (square + square >= phi)
            <4>1. 2 * square \in 0 .. phi - 1 /\ 2 * square = square + square
                BY <1>4, <3>2
            <4>2. (2 * square) % phi = 2 * square
                BY <1>0, <4>1, ModSmall, Zenon
            <4> QED
                BY <3>2, <4>1, <4>2
        <3> QED
            BY <3>1, <3>2
    <2>2. Turn(v % phi, bit, phi) = (2 * square) % phi
        BY <1>6, <1>8, <2>1 DEF Doubled
    <2>3. Turn(v % phi, bit, phi) = TwoTo(2 * y + 1) % phi
        BY <1>2, <1>5, <2>2
    <2> QED
        BY <1>8, <2>3 DEF v
<1> QED
    BY <1>7, <1>8

\* The table of the turns exists, and its entries are below phi.
LEMMA TurnsExist ==
    ASSUME NEW p \in Nat, p > 2, NEW m \in Nat, NEW n \in Nat
    PROVE  \E r \in [0 .. n -> 0 .. p - 2] :
             /\ r = [k \in 0 .. n |->
                      IF k = 0 THEN 1 ELSE Turn(r[k - 1], Bit(m, n - k), p - 1)]
             /\ TwoPowModPhi(m, n, p) = r[n]
<1> DEFINE S == 0 .. p - 2
           step == [k \in 1 .. n |-> [v \in S |-> Turn(v, Bit(m, n - k), p - 1)]]
           r[k \in 0 .. n] == IF k = 0 THEN 1 ELSE Turn(r[k - 1], Bit(m, n - k), p - 1)
<1>0. 1 \in S /\ step \in [1 .. n -> [S -> S]]
    <2>1. ASSUME NEW v \in S, NEW bit PROVE Turn(v, bit, p - 1) \in S
        <3>1. v * v \in Int /\ p - 1 \in Nat \ {0}
            OBVIOUS
        <3>2. (v * v) % (p - 1) \in 0 .. (p - 1) - 1
            BY <3>1, SameMod, Zenon
        <3> QED
            BY <3>2 DEF Turn, Doubled
    <2>2. \A k \in 1 .. n : [v \in S |-> Turn(v, Bit(m, n - k), p - 1)] \in [S -> S]
        BY <2>1
    <2> QED
        BY <2>2
<1>1. PICK f \in [0 .. n -> S] : Iterates(f, 1, step, n)
    <2> HIDE DEF S, step
    <2> QED
        BY <1>0, BoundedRecursion, Zenon
<1>2. ASSUME NEW k \in 1 .. n PROVE f[k] = Turn(f[k - 1], Bit(m, n - k), p - 1)
    <2>1. f[k - 1] \in S
        BY <1>1
    <2>2. f[k] = step[k][f[k - 1]]
        BY <1>1, Zenon DEF Iterates
    <2> QED
        BY <2>1, <2>2
<1>3. f[0] = 1
    BY <1>1 DEF Iterates
<1>4. f = [k \in 0 .. n |-> IF k = 0 THEN 1 ELSE Turn(f[k - 1], Bit(m, n - k), p - 1)]
    BY <1>1, <1>2, <1>3
<1>5. r = [k \in 0 .. n |-> IF k = 0 THEN 1 ELSE Turn(r[k - 1], Bit(m, n - k), p - 1)]
    BY <1>4, Zenon
<1>7. TwoPowModPhi(m, n, p) = r[n]
    BY DEF TwoPowModPhi
<1> HIDE DEF r
<1>9. r \in [0 .. n -> S]
    <2> DEFINE T == {k \in Nat : k <= n => r[k] \in S}
    <2>1. 0 \in T
        BY <1>0, <1>5
    <2>2. ASSUME NEW k \in Nat, k \in T PROVE k + 1 \in T
        <3> SUFFICES ASSUME k + 1 <= n PROVE r[k + 1] \in S
            OBVIOUS
        <3>1. r[k] \in S /\ k + 1 \in 1 .. n
            BY <2>2
        <3>2. r[k + 1] = Turn(r[k], Bit(m, n - (k + 1)), p - 1)
            BY <1>5, <3>1
        <3>3. step[k + 1][r[k]] = Turn(r[k], Bit(m, n - (k + 1)), p - 1)
            BY <3>1
        <3>4. step[k + 1][r[k]] \in S
            <4> HIDE DEF step
            <4> QED
                BY <1>0, <3>1
        <3> QED
            BY <3>2, <3>3, <3>4
    <2>3. \A k \in Nat : k \in T
        <3> HIDE DEF T
        <3> QED
            BY <2>1, <2>2, NatInductionOnSet
    <2>4. \A k \in 0 .. n : r[k] \in S
        BY <2>3
    <2> QED
        BY <1>5, <2>4
<1> QED
    BY <1>7, <1>5, <1>9

------------------------------------------------------------------------------
(* twopowmodphi, the inverse of p modulo q, and CRT_compose.                   *)

\* twopowmodphi returns 2^m (mod p - 1) when it counted all the bits of m.
THEOREM TwoPowIs ==
    ASSUME NEW p \in Nat, p > 2, NEW m \in Nat, NEW n \in Nat, m < TwoTo(n)
    PROVE  TwoPowModPhi(m, n, p) = TwoTo(m) % (p - 1)
<1> DEFINE phi == p - 1
           High(j) == m \div TwoTo(j)
<1>1. PICK r \in [0 .. n -> 0 .. p - 2] :
         /\ r = [k \in 0 .. n |-> IF k = 0 THEN 1 ELSE Turn(r[k - 1], Bit(m, n - k), phi)]
         /\ TwoPowModPhi(m, n, p) = r[n]
    BY TurnsExist, Zenon
<1>2. r[0] = 1 /\ \A k \in 1 .. n : r[k] = Turn(r[k - 1], Bit(m, n - k), phi)
    <2> HIDE DEF phi
    <2> QED
        BY <1>1
<1>3. phi \in Nat /\ phi > 1
    OBVIOUS
<1>4. ASSUME NEW j \in Nat
      PROVE  /\ High(j) \in Nat /\ Bit(m, j) \in {0, 1}
             /\ High(j) = 2 * High(j + 1) + Bit(m, j)
    <2>1. TwoTo(j) \in Nat \ {0} /\ TwoTo(j + 1) = 2 * TwoTo(j)
        BY TwoRec
    <2>2. High(j) \in Nat /\ High(j) = 2 * (m \div (2 * TwoTo(j))) + (High(j) % 2)
        BY <2>1, HalfOfQuotient, Zenon
    <2>3. Bit(m, j) = High(j) % 2 /\ High(j + 1) = m \div (2 * TwoTo(j))
        BY <2>1, Zenon DEF Bit
    <2>4. High(j) % 2 \in {0, 1}
        <3> HIDE DEF High
        <3> QED
            BY <2>2
    <2> QED
        BY <2>2, <2>3, <2>4, Zenon
<1>5. High(n) = 0
    <2>1. TwoTo(n) \in Nat \ {0}
        BY TwoRec
    <2> DEFINE c == TwoTo(n)
    <2> HIDE DEF c
    <2>2. PICK z \in Int : z = 0
        OBVIOUS
    <2>3. c \in Nat \ {0} /\ m \in 0 .. c - 1 /\ m = c * z + m /\ m \in Int
        BY <2>1, <2>2 DEF c
    <2>4. m \div c = z
        BY <2>3, QuotientIs, Zenon
    <2> QED
        BY <2>2, <2>4 DEF c
<1>6. High(0) = m
    <2>1. TwoTo(0) = 1
        <3>1. 0 \in Nat
            OBVIOUS
        <3> QED
            BY <3>1, TwoRec, Zenon
    <2>2. m \div 1 = m
        <3>1. 1 \in Nat \ {0} /\ 0 \in 0 .. 1 - 1 /\ m = 1 * m + 0 /\ m \in Int
            OBVIOUS
        <3> QED
            BY <3>1, QuotientIs, Zenon
    <2> QED
        BY <2>1, <2>2
<1> HIDE DEF High, phi
<1> DEFINE T == {k \in Nat : k <= n => r[k] = TwoTo(High(n - k)) % phi}
<1>7. 0 \in T
    <2>1. TwoTo(High(n - 0)) = 1
        <3>1. n - 0 = n /\ 0 \in Nat
            OBVIOUS
        <3>2. TwoTo(0) = 1
            BY <3>1, TwoRec, Zenon
        <3> QED
            BY <1>5, <3>1, <3>2
    <2>2. 1 % phi = 1
        BY <1>3
    <2> QED
        BY <1>2, <2>1, <2>2
<1>8. ASSUME NEW k \in Nat, k \in T PROVE k + 1 \in T
    <2> SUFFICES ASSUME k + 1 <= n PROVE r[k + 1] = TwoTo(High(n - (k + 1))) % phi
        OBVIOUS
    <2>1. PICK j \in Nat : j = n - (k + 1) /\ j + 1 = n - k
        <3>1. n - (k + 1) \in Nat /\ (n - (k + 1)) + 1 = n - k
            OBVIOUS
        <3> QED
            BY <3>1
    <2>2. r[k] = TwoTo(High(j + 1)) % phi /\ k + 1 \in 1 .. n /\ (k + 1) - 1 = k
        BY <1>8, <2>1
    <2>3. r[k + 1] = Turn(r[k], Bit(m, j), phi)
        BY <1>2, <2>1, <2>2
    <2>4. High(j + 1) \in Nat /\ Bit(m, j) \in {0, 1} /\ High(j) = 2 * High(j + 1) + Bit(m, j)
        <3>1. j + 1 \in Nat
            OBVIOUS
        <3> QED
            BY <1>4, <3>1, Zenon
    <2>5. Turn(TwoTo(High(j + 1)) % phi, Bit(m, j), phi)
            = TwoTo(2 * High(j + 1) + Bit(m, j)) % phi
        BY <1>3, <2>4, TurnDoubles, Zenon
    <2>6. r[k + 1] = TwoTo(High(j)) % phi
        BY <2>2, <2>3, <2>4, <2>5, Zenon
    <2> QED
        BY <2>1, <2>6
<1>9. \A k \in Nat : k \in T
    <2> HIDE DEF T
    <2> QED
        BY <1>7, <1>8, NatInductionOnSet
<1>10. r[n] = TwoTo(High(0)) % phi
    <2>1. n \in T /\ n - n = 0 /\ n <= n
        BY <1>9
    <2> QED
        BY <2>1
<1> QED
    BY <1>1, <1>6, <1>10, Zenon DEF phi

\* A prime does not divide another.
LEMMA PrimesAreCoprime ==
    ASSUME NEW p \in Nat, IsPrime(p), NEW q \in Nat, IsPrime(q), p # q
    PROVE  p % q # 0
<1> SUFFICES ASSUME p % q = 0 PROVE FALSE
    OBVIOUS
<1>0. p > 1 /\ q > 1 /\ q \in Nat \ {0} /\ p \in Int
    BY DEF IsPrime
<1>1. PICK k \in Int : p = q * k
    BY <1>0, ZeroIsMultiple, Zenon
<1>2. q <= p
    <2>1. k >= 1
        <3>1. ASSUME k <= 0 PROVE FALSE
            <4>1. q * k <= 0
                BY <1>0, <3>1
            <4> QED
                BY <1>0, <1>1, <4>1
        <3> QED
            BY <3>1
    <2>2. q * k >= q
        BY <1>0, <2>1
    <2> QED
        BY <1>1, <2>2
<1>3. q = 1 \/ q = p
    BY <1>0, <1>2, PrimeDivisor, Zenon
<1> QED
    BY <1>0, <1>3

\* gcry_mpi_invm finds an inverse of p modulo q.
LEMMA InverseIs ==
    ASSUME NEW p \in Nat, IsPrime(p), NEW q \in Nat, IsPrime(q), p # q
    PROVE  InverseMod(p, q) \in 0 .. q - 1 /\ (p * InverseMod(p, q)) % q = 1
<1>0. q \in Nat \ {0} /\ p \in Int
    BY DEF IsPrime
<1>1. p % q # 0
    BY PrimesAreCoprime, Zenon
<1>2. PICK d : IsOrder(d, p, q)
    BY <1>0, <1>1, OrderExists, Zenon
<1>3. PICK j \in Nat : d = j + 1
    <2>1. d \in Nat \ {0}
        BY <1>2 DEF IsOrder
    <2>2. d - 1 \in Nat /\ d = (d - 1) + 1
        BY <2>1
    <2> QED
        BY <2>2
<1> DEFINE u == PowMod(p, j, q)
<1>4. u \in 0 .. q - 1 /\ PowMod(p, j + 1, q) = (p * u) % q
    BY <1>0, PowRec, Zenon
<1>5. PowMod(p, d, q) = 1
    BY <1>2 DEF IsOrder
<1> HIDE DEF u
<1>6. \E w \in 0 .. q - 1 : (p * w) % q = 1
    BY <1>3, <1>4, <1>5
<1> QED
    BY <1>6, Zenon DEF InverseMod

\* CRT_compose gives back the number below p * q it is given the two remainders of.
THEOREM CrtRestores ==
    ASSUME NEW p \in Nat, IsPrime(p), NEW q \in Nat, IsPrime(q), p # q,
           NEW x \in 0 .. p * q - 1
    PROVE  CrtCompose(x % p, x % q, p, q) = x
<1> DEFINE xp == x % p
           xq == x % q
           b == x \div p
           inv == InverseMod(p, q)
<1>0. p \in Nat \ {0} /\ q \in Nat \ {0} /\ x \in Int
    BY DEF IsPrime
<1>1. b \in Int /\ xp \in 0 .. p - 1 /\ x = p * b + xp
    BY <1>0, DivMod, Zenon
<1>2. xq \in 0 .. q - 1 /\ Same(x, xq, q)
    BY <1>0, SameMod, Zenon
<1>3. inv \in 0 .. q - 1 /\ (p * inv) % q = 1
    BY InverseIs, Zenon
<1>4. CrtCompose(xp, xq, p, q) = p * ((((xq - xp) % q) * inv) % q) + xp
    BY Zenon DEF CrtCompose
<1> HIDE DEF xp, xq, b, inv
<1>5. b \in 0 .. q - 1
    <2>1. ASSUME b < 0 PROVE FALSE
        <3>1. p * b <= p * (-1)
            BY <1>0, <1>1, <2>1
        <3> QED
            BY <1>0, <1>1, <3>1
    <2>2. ASSUME b >= q PROVE FALSE
        <3>1. p * b >= p * q
            BY <1>0, <1>1, <2>2
        <3> QED
            BY <1>0, <1>1, <3>1
    <2> QED
        BY <1>0, <1>1, <2>1, <2>2
<1>6. Same(xq - xp, p * b, q)
    <2>1. PICK k \in Int : x - xq = q * k
        BY <1>2 DEF Same
    <2>2. (xq - xp) - p * b = -(q * k)
        BY <1>0, <1>1, <1>2, <2>1
    <2>3. -(q * k) = q * (-k) /\ -k \in Int
        BY <1>0
    <2> QED
        BY <2>2, <2>3 DEF Same
<1> DEFINE c == xq - xp
           e == p * b
<1>7. c \in Int /\ e \in Int /\ inv \in Int
    BY <1>0, <1>1, <1>2, <1>3
<1>8. Same(c, e, q)
    BY <1>6
<1>9. (e * inv) = (p * inv) * b /\ p * inv \in Int
    BY <1>0, <1>1, <1>3
<1> HIDE DEF c, e
<1>10. c % q = e % q
    BY <1>0, <1>7, <1>8, SameSameMod, Zenon
<1>11. ((c % q) * inv) % q = b
    <2>1. ((e % q) * inv) % q = (e * inv) % q
        BY <1>0, <1>7, ModMulLeft, Zenon
    <2>2. (((p * inv) % q) * b) % q = ((p * inv) * b) % q
        BY <1>0, <1>1, <1>9, ModMulLeft, Zenon
    <2>3. (1 * b) % q = b
        BY <1>0, <1>5
    <2>4. ((p * inv) * b) % q = b
        BY <1>3, <2>2, <2>3, Zenon
    <2> QED
        BY <1>9, <1>10, <2>1, <2>4, Zenon
<1>12. CrtCompose(xp, xq, p, q) = p * b + xp
    BY <1>4, <1>11, Zenon DEF c
<1> QED
    BY <1>1, <1>12 DEF xp, xq

------------------------------------------------------------------------------
(* The chain of squares, and what FSPRG_Seek computes.                         *)

\* A master key: two of the primes that genprime3mod4 finds.
Key(key) == Key3mod4(key.p) /\ Key3mod4(key.q) /\ key.p # key.q

\* What a key of two primes is made of.
LEMMA KeyFacts ==
    ASSUME NEW key, Key(key)
    PROVE  /\ key.p \in Nat \ {0} /\ key.q \in Nat \ {0}
           /\ key.p > 3 /\ key.q > 3 /\ IsPrime(key.p) /\ IsPrime(key.q) /\ key.p # key.q
           /\ key.p * key.q \in Nat \ {0}
<1>1. /\ key.p \in Nat \ {0} /\ key.q \in Nat \ {0}
      /\ key.p > 3 /\ key.q > 3 /\ IsPrime(key.p) /\ IsPrime(key.q) /\ key.p # key.q
    BY DEF Key, Key3mod4
<1>2. 0 \in Int
    OBVIOUS
<1> QED
    BY <1>1, <1>2, ModMod, Zenon

\* The x of the k-th state of the chain.
XAt(key, root, k) == PowMod(root, TwoTo(k + 1), key.p * key.q)

\* The squares are residues modulo n.
LEMMA XAtRange ==
    ASSUME NEW key, Key(key), NEW root \in Nat, NEW k \in Nat
    PROVE  XAt(key, root, k) \in 0 .. key.p * key.q - 1
<1>1. key.p * key.q \in Nat \ {0}
    BY KeyFacts, Zenon
<1>2. TwoTo(k + 1) \in Nat /\ root \in Int
    <2>1. k + 1 \in Nat
        OBVIOUS
    <2> QED
        BY <2>1, TwoRec
<1> QED
    BY <1>1, <1>2, PowRec, Zenon DEF XAt

\* The first of the chain is the square of the root.
LEMMA FirstX ==
    ASSUME NEW key, Key(key), NEW root \in Nat
    PROVE  GenSquare(key.p * key.q, root) = XAt(key, root, 0)
<1> DEFINE n == key.p * key.q
<1>0. root \in Int
    OBVIOUS
<1>1. n \in Nat \ {0} /\ root \in Int
    BY <1>0, KeyFacts, Zenon
<1>2. TwoTo(0 + 1) = 1 + 1
    <2>1. 0 \in Nat
        OBVIOUS
    <2>2. TwoTo(0 + 1) = 2 * TwoTo(0) /\ TwoTo(0) = 1
        BY <2>1, TwoRec, Zenon
    <2> QED
        BY <2>2
<1> HIDE DEF n
<1>3. PowMod(root, 1 + 1, n) = (PowMod(root, 1, n) * PowMod(root, 1, n)) % n
    <2>1. 1 \in Nat
        OBVIOUS
    <2> QED
        BY <1>1, <2>1, PowAdd, Zenon
<1>4. PowMod(root, 1, n) = root % n /\ root % n \in Int
    <2>1. root % n \in 0 .. n - 1
        BY <1>1, SameMod, Zenon
    <2>2. PowMod(root, 1, n) = root % n
        BY <1>1, PowOne, Zenon
    <2> QED
        BY <1>1, <2>1, <2>2
<1>5. ((root % n) * (root % n)) % n = (root * root) % n
    <2>1. ((root % n) * (root % n)) % n = (root * (root % n)) % n
        BY <1>1, <1>4, ModMulLeft, Zenon
    <2>2. (root * (root % n)) % n = (root * root) % n
        BY <1>1, ModMul, Zenon
    <2> QED
        BY <2>1, <2>2
<1>6. PowMod(root, TwoTo(0 + 1), n) = (root * root) % n
    BY <1>2, <1>3, <1>4, <1>5, Zenon
<1> QED
    BY <1>6, Zenon DEF XAt, GenSquare, n

\* Squaring takes the chain on by one.
LEMMA NextX ==
    ASSUME NEW key, Key(key), NEW root \in Nat, NEW k \in Nat
    PROVE  (XAt(key, root, k) * XAt(key, root, k)) % (key.p * key.q) = XAt(key, root, k + 1)
<1> DEFINE n == key.p * key.q
           e == TwoTo(k + 1)
<1>0. root \in Int
    OBVIOUS
<1>1. n \in Nat \ {0} /\ root \in Int
    BY <1>0, KeyFacts, Zenon
<1>2. e \in Nat /\ TwoTo((k + 1) + 1) = e + e
    <2>1. k + 1 \in Nat
        OBVIOUS
    <2>2. e \in Nat /\ TwoTo((k + 1) + 1) = 2 * e
        BY <2>1, TwoRec
    <2> HIDE DEF e
    <2> QED
        BY <2>2
<1> HIDE DEF n, e
<1>3. PowMod(root, e + e, n) = (PowMod(root, e, n) * PowMod(root, e, n)) % n
    BY <1>1, <1>2, PowAdd, Zenon
<1> QED
    BY <1>2, <1>3, Zenon DEF XAt, n, e

\* Modulo a prime of the key, seeking computes the x of the chain.
\* Residues modulo n, and the powers of the root among them, keep their residue
\* modulo p.
Folds(root, n, p) ==
    /\ \A v \in Int : (v % n) % p = v % p
    /\ \A e \in Nat : PowMod(root, e, n) % p = PowMod(root, e, p)

\* Residues modulo p * q do.
LEMMA FoldsOnto ==
    ASSUME NEW root \in Int, NEW p \in Nat \ {0}, NEW q \in Nat \ {0}
    PROVE  Folds(root, p * q, p)
<1>1. ASSUME NEW v \in Int PROVE (v % (p * q)) % p = v % p
    BY ModMod, Zenon
<1>2. ASSUME NEW e \in Nat PROVE PowMod(root, e, p * q) % p = PowMod(root, e, p)
    BY PowInto, Zenon
<1> QED
    BY <1>1, <1>2, Zenon DEF Folds

\* What FSPRG_Seek computes modulo one of the primes.
SoughtPart(root, n, epoch, count, p) ==
    PowMod(((root * root) % n) % p, TwoPowModPhi(epoch, count, p), p)

\* What FSPRG_Seek computes modulo one of the primes is the chain modulo that prime.
LEMMA SoughtModuloPrime ==
    ASSUME NEW p, Key3mod4(p), NEW n \in Nat \ {0}, NEW root \in Nat,
           Folds(root, n, p),
           NEW epoch \in Nat, NEW count \in Nat, epoch < TwoTo(count)
    PROVE  SoughtPart(root, n, epoch, count, p) = PowMod(root, TwoTo(epoch + 1), n) % p
<1> DEFINE x == (root * root) % n
           e == TwoTo(epoch)
           s == root * root
<1>0. p \in Nat \ {0} /\ p \in Nat /\ p > 2 /\ root \in Int
    BY DEF Key3mod4
<1>1. s \in Int /\ x = s % n
    OBVIOUS
<1>2. x % p = s % p
    <2> HIDE DEF s, x
    <2> QED
        BY <1>1, Zenon DEF Folds
<1>3. e \in Nat /\ TwoTo(epoch + 1) = 2 * e
    BY TwoRec
<1>4. TwoPowModPhi(epoch, count, p) = e % (p - 1)
    BY <1>0, TwoPowIs, Zenon
<1>5. s % p \in Int
    <2>1. s % p \in 0 .. p - 1
        <3> HIDE DEF s
        <3> QED
            BY <1>0, <1>1, SameMod, Zenon
    <2> QED
        BY <1>0, <2>1
<1>6. PowMod(s % p, e % (p - 1), p) = PowMod(s % p, e, p)
    <2> HIDE DEF s
    <2> QED
        BY <1>5, ReducedExponent, Zenon
<1>7. PowMod(s % p, e, p) = PowMod(s, e, p)
    <2> HIDE DEF s, e
    <2> QED
        BY <1>0, <1>1, <1>3, PowBase, Zenon
<1>8. PowMod(s, e, p) = PowMod(root, 2 * e, p)
    <2> HIDE DEF e
    <2> QED
        BY <1>0, <1>3, PowOfSquare, Zenon
<1>9. PowMod(root, 2 * e, n) % p = PowMod(root, 2 * e, p)
    <2> HIDE DEF e
    <2>1. 2 * e \in Nat
        BY <1>3
    <2> QED
        BY <2>1, Zenon DEF Folds
<1> HIDE DEF x, e, s
<1>10. PowMod(x % p, TwoPowModPhi(epoch, count, p), p) = PowMod(root, TwoTo(epoch + 1), n) % p
    BY <1>2, <1>3, <1>4, <1>6, <1>7, <1>8, <1>9, Zenon
<1> QED
    BY <1>10, Zenon DEF x, SoughtPart

\* FSPRG_Seek computes the element of the chain at the epoch that it is asked for.
LEMMA SoughtIs ==
    ASSUME NEW key, Key(key), NEW root \in Nat,
           NEW epoch \in Nat, NEW count \in Nat, epoch < TwoTo(count)
    PROVE  Sought(key, root, epoch, count) = State(key.p * key.q, XAt(key, root, epoch), epoch)
<1> DEFINE p == key.p
           q == key.q
           n == p * q
           xp == SoughtPart(root, n, epoch, count, p)
           xq == SoughtPart(root, n, epoch, count, q)
           y == XAt(key, root, epoch)
<1>0. /\ p \in Nat \ {0} /\ q \in Nat \ {0} /\ n \in Nat \ {0} /\ root \in Int
      /\ p \in Nat /\ q \in Nat /\ IsPrime(p) /\ IsPrime(q) /\ p # q
      /\ Key3mod4(p) /\ Key3mod4(q)
    <2>1. root \in Int
        OBVIOUS
    <2>2. key.p \in Nat /\ key.q \in Nat
        BY KeyFacts
    <2> QED
        BY <2>1, <2>2, KeyFacts, Zenon DEF Key
<1>1. Sought(key, root, epoch, count) = State(n, CrtCompose(xp, xq, p, q), epoch)
    BY Zenon DEF Sought, GenSquare, SoughtPart
<1>2. y \in 0 .. n - 1 /\ y = PowMod(root, TwoTo(epoch + 1), n)
    BY XAtRange, Zenon DEF XAt
<1>3. n = q * p
    BY <1>0
<1> HIDE DEF p, q, y
<1>4. xp = y % p
    <2>1. Folds(root, n, p)
        BY <1>0, FoldsOnto, Zenon
    <2> HIDE DEF n
    <2>2. xp = PowMod(root, TwoTo(epoch + 1), n) % p
        BY <1>0, <2>1, SoughtModuloPrime, Zenon
    <2> QED
        BY <1>2, <2>2
<1>5. xq = y % q
    <2>1. Folds(root, q * p, q)
        BY <1>0, FoldsOnto, Zenon
    <2> HIDE DEF n
    <2>2. Folds(root, n, q)
        BY <1>3, <2>1, Zenon
    <2>3. xq = PowMod(root, TwoTo(epoch + 1), n) % q
        BY <1>0, <2>2, SoughtModuloPrime, Zenon
    <2> QED
        BY <1>2, <2>3
<1>6. CrtCompose(y % p, y % q, p, q) = y
    BY <1>0, <1>2, CrtRestores, Zenon
<1> HIDE DEF xp, xq, n
<1>7. Sought(key, root, epoch, count) = State(n, y, epoch)
    BY <1>1, <1>4, <1>5, <1>6, Zenon
<1> QED
    BY <1>7, Zenon DEF n, p, q, y

------------------------------------------------------------------------------
(* The states of the chain, as the variables of Fsprg hold them.               *)

\* genprime3mod4 finds two primes that are 3 (mod 4).
LEMMA KeysAreKeys ==
    ASSUME NEW key \in PrimePairs PROVE Key(key)
<1>1. /\ key.p \in Nat /\ IsPrime(key.p) /\ key.p % 4 = 3 /\ key.p > 3
      /\ key.q \in Nat /\ IsPrime(key.q) /\ key.q % 4 = 3 /\ key.q > 3
      /\ key.p # key.q
    BY FsprgAssumption, Zenon
<1> QED
    BY <1>1, Zenon DEF Key, Key3mod4

\* Epochs up to the bound on the evolutions do not wrap around.
LEMMA EpochsAreNat ==
    /\ EpochModulus \in Nat \ {0} /\ MaxAge \in Nat /\ MaxAge < EpochModulus
    /\ \A e \in Epochs : e \in Nat /\ e % EpochModulus = e
<1>1. EpochModulus \in Nat \ {0}
    BY WidthAssumption, TwoRec DEF EpochModulus
<1>2. MaxAge \in Epochs
    BY FsprgAssumption
<1> DEFINE m == EpochModulus
<1>3. Epochs = 0 .. m - 1
    BY DEF Epochs
<1> HIDE DEF m
<1>4. \A e \in 0 .. m - 1 : e % m = e
    BY <1>1, ModSmall, Zenon DEF m
<1> QED
    BY <1>1, <1>2, <1>3, <1>4 DEF m

\* The state after k evolutions has its square below its modulus, and k for its epoch.
LEMMA StateAtIs ==
    ASSUME NEW key \in PrimePairs, NEW root \in Roots, NEW k \in Epochs
    PROVE  /\ StateAt(key, root, k) = State(key.p * key.q, XAt(key, root, k), k)
           /\ StateAt(key, root, k) \in States
           /\ StateAt(key, root, k).x < StateAt(key, root, k).n
           /\ StateAt(key, root, k).epoch = k
<1> DEFINE n == key.p * key.q
           x == XAt(key, root, k)
<1>1. k % EpochModulus = k /\ k \in Nat /\ root \in Nat
    BY EpochsAreNat, FsprgAssumption
<1>2. StateAt(key, root, k) = State(n, x, k)
    BY <1>1, Zenon DEF StateAt, XAt
<1>3. n \in Nat \ {0} /\ x \in 0 .. n - 1
    BY <1>1, KeysAreKeys, KeyFacts, XAtRange, Zenon
<1> HIDE DEF n, x
<1>4. State(n, x, k) \in States /\ State(n, x, k).x < State(n, x, k).n /\ State(n, x, k).epoch = k
    BY <1>3 DEF State, States
<1> QED
    BY <1>2, <1>4, Zenon DEF n, x

\* FSPRG_Evolve goes from the state after k evolutions to the next.
LEMMA EvolvedIs ==
    ASSUME NEW key \in PrimePairs, NEW root \in Roots, NEW k \in Epochs, k + 1 \in Epochs
    PROVE  Evolved(StateAt(key, root, k)) = StateAt(key, root, k + 1)
<1> DEFINE n == key.p * key.q
           x == XAt(key, root, k)
           y == XAt(key, root, k + 1)
<1>1. StateAt(key, root, k) = State(n, x, k) /\ StateAt(key, root, k + 1) = State(n, y, k + 1)
    BY StateAtIs, Zenon
<1>2. (x * x) % n = y
    <2>1. root \in Nat /\ k \in Nat /\ Key(key)
        BY EpochsAreNat, FsprgAssumption, KeysAreKeys
    <2> QED
        BY <2>1, NextX, Zenon
<1>3. (k + 1) % EpochModulus = k + 1
    BY EpochsAreNat, Zenon
<1> HIDE DEF n, x, y
<1>4. Evolved(State(n, x, k)) = State(n, (x * x) % n, (k + 1) % EpochModulus)
    BY DEF Evolved, State
<1> QED
    BY <1>1, <1>2, <1>3, <1>4, Zenon

\* FSPRG_GenState0 makes the state before the first evolution.
LEMMA GenState0Is ==
    ASSUME NEW key \in PrimePairs, NEW root \in Roots
    PROVE  0 \in Epochs /\ GenState0(key, root) = StateAt(key, root, 0)
<1>1. 0 \in Epochs
    <2>1. EpochModulus \in Nat \ {0}
        BY EpochsAreNat
    <2> QED
        BY <2>1 DEF Epochs
<1>2. StateAt(key, root, 0) = State(key.p * key.q, XAt(key, root, 0), 0)
    BY <1>1, StateAtIs, Zenon
<1>3. GenSquare(key.p * key.q, root) = XAt(key, root, 0)
    <2>1. root \in Nat /\ Key(key)
        BY FsprgAssumption, KeysAreKeys
    <2> QED
        BY <2>1, FirstX, Zenon
<1> QED
    BY <1>1, <1>2, <1>3, Zenon DEF GenState0

\* FSPRG_Seek returns the state that as many evolutions reach, when all the bits of
\* the epoch were counted.
THEOREM SoughtIsStateAt ==
    ASSUME NEW key \in PrimePairs, NEW root \in Roots, NEW epoch \in Epochs,
           NEW n \in Nat, epoch < TwoTo(n)
    PROVE  Sought(key, root, epoch, n) = StateAt(key, root, epoch)
<1>1. root \in Nat /\ Key(key) /\ epoch \in Nat
    BY FsprgAssumption, KeysAreKeys, EpochsAreNat
<1>2. Sought(key, root, epoch, n) = State(key.p * key.q, XAt(key, root, epoch), epoch)
    BY <1>1, SoughtIs, Zenon
<1> QED
    BY <1>2, StateAtIs, Zenon

\* A larger exponent gives no smaller power of two.
LEMMA TwoGrows ==
    ASSUME NEW i \in Nat, NEW j \in Nat, i <= j
    PROVE  TwoTo(i) \in Nat /\ TwoTo(j) \in Nat /\ TwoTo(i) <= TwoTo(j)
<1>1. PICK d \in Nat : j = i + d
    <2>1. j - i \in Nat /\ j = i + (j - i)
        OBVIOUS
    <2> QED
        BY <2>1
<1> DEFINE a == TwoTo(i)
           b == TwoTo(d)
<1>2. a \in Nat /\ b \in Nat \ {0}
    BY TwoRec
<1>3. TwoTo(j) = a * b
    BY <1>1, TwoAdd, Zenon
<1> HIDE DEF a, b
<1>4. a * b \in Nat /\ a <= a * b
    BY <1>2
<1> QED
    BY <1>2, <1>3, <1>4 DEF a

\* The loop that counts ends at a value that exceeds the epoch within the width:
\* past the width the shift gives a power of two that came before, or 0.
LEMMA CountEndsBelow ==
    ASSUME NEW n \in Nat, NEW one \in ShiftedOne(n), NEW epoch \in Nat, one > epoch
    PROVE  \E r \in 0 .. Width - 1 : r <= n /\ epoch < TwoTo(r)
<1>0. Width \in Nat \ {0} /\ n \in Int
    BY WidthAssumption
<1>1. CASE n < Width
    <2>1. one = TwoTo(n) /\ TwoTo(n) \in Nat /\ n \in 0 .. Width - 1
        BY <1>0, <1>1, TwoRec DEF ShiftedOne
    <2> QED
        BY <2>1
<1>2. CASE ~ (n < Width)
    <2> DEFINE r == n % Width
    <2>1. r \in 0 .. Width - 1
        BY <1>0, SameMod, Zenon
    <2>2. one = 0 \/ one = TwoTo(r)
        BY <1>2 DEF ShiftedOne
    <2> HIDE DEF r
    <2>3. TwoTo(r) \in Nat /\ r <= n
        BY <1>0, <1>2, <2>1, TwoRec
    <2>4. epoch < TwoTo(r)
        BY <2>2, <2>3
    <2> QED
        BY <2>1, <2>3, <2>4
<1> QED
    BY <1>1, <1>2

------------------------------------------------------------------------------
(* The invariant.                                                              *)

\* The state of the signer's key after k evolutions, and of the key a seek is about.
Kept(k) == StateAt(keyOf[seed], rootOf[seed], k)
Asked == StateAt(keyOf[ask.seed], rootOf[ask.seed], ask.epoch)

SignerOnChain == seed # << >> => signer = Kept(age)
NotSetUp == seed = << >> => signer = NoState /\ age = 0 /\ ask = NoAsk /\ vpc = "idle"
SeekIsOpen == vpc # "idle" => ask.seed \in Seeds /\ ask.epoch \in Epochs
BitsCounted == vpc = "powers" => ask.epoch < TwoTo(bits)
LowEpoch == vpc \in {"powers", "done"} => ask.epoch < TwoTo(Width - 1)
FoundOnChain == found = IF vpc = "done" THEN Asked ELSE NoState

FsprgInv ==
    /\ TypeOK
    /\ SignerOnChain /\ NotSetUp
    /\ SeekIsOpen /\ BitsCounted /\ LowEpoch /\ FoundOnChain

\* A seed has the primes and the root it was given.
LEMMA KeyOfSeed ==
    ASSUME TypeOK, NEW s \in Seeds
    PROVE  keyOf[s] \in PrimePairs /\ rootOf[s] \in Roots
BY DEF TypeOK

\* No signer is evolved past the epochs.
LEMMA AgeIsEpoch ==
    ASSUME NEW k \in 0 .. MaxAge PROVE k \in Epochs
<1>1. EpochModulus \in Nat \ {0} /\ MaxAge \in Nat /\ MaxAge < EpochModulus
    BY EpochsAreNat
<1> QED
    BY <1>1 DEF Epochs

\* The invariant holds before setup_key().
LEMMA InitFsprg == Init => FsprgInv
<1> SUFFICES ASSUME Init PROVE FsprgInv
    OBVIOUS
<1>1. MaxAge \in Nat /\ Width \in Nat \ {0}
    BY EpochsAreNat, WidthAssumption
<1>2. TypeOK
    BY <1>1 DEF Init, TypeOK, NoState, NoAsk
<1>3. SignerOnChain /\ NotSetUp /\ SeekIsOpen /\ BitsCounted /\ LowEpoch /\ FoundOnChain
    BY DEF Init, SignerOnChain, NotSetUp, SeekIsOpen, BitsCounted, LowEpoch, FoundOnChain
<1> QED
    BY <1>2, <1>3 DEF FsprgInv

\* setup_key() keeps the invariant.
LEMMA SetupKeyKeeps ==
    ASSUME FsprgInv, NEW s \in Seeds, SetupKey(s) PROVE FsprgInv'
<1> USE DEF FsprgInv
<1>1. /\ seed = << >> /\ seed' = s /\ age' = 0 /\ s # << >>
      /\ signer' = GenState0(keyOf[s], rootOf[s])
      /\ UNCHANGED <<keyOf, rootOf, vpc, ask, bits, found>>
    BY FsprgAssumption DEF SetupKey
<1>2. keyOf[s] \in PrimePairs /\ rootOf[s] \in Roots
    BY KeyOfSeed
<1>3. signer' = StateAt(keyOf[s], rootOf[s], 0) /\ 0 \in Epochs
    BY <1>1, <1>2, GenState0Is, Zenon
<1>4. signer' \in States /\ signer'.x < signer'.n
    BY <1>2, <1>3, StateAtIs, Zenon
<1>5. TypeOK'
    <2>1. 0 \in 0 .. MaxAge
        BY EpochsAreNat
    <2> QED
        BY <1>1, <1>4, <2>1 DEF TypeOK
<1>6. SignerOnChain'
    BY <1>1, <1>3, Zenon DEF SignerOnChain, Kept
<1>7. NotSetUp' /\ SeekIsOpen' /\ BitsCounted' /\ LowEpoch'
    BY <1>1 DEF NotSetUp, SeekIsOpen, BitsCounted, LowEpoch
<1>8. FoundOnChain'
    BY <1>1, Zenon DEF FoundOnChain, Asked
<1> QED
    BY <1>5, <1>6, <1>7, <1>8

\* evolve() keeps the invariant.
LEMMA EvolveKeeps ==
    ASSUME FsprgInv, Evolve PROVE FsprgInv'
<1> USE DEF FsprgInv
<1>1. /\ seed # << >> /\ age < MaxAge /\ age' = age + 1 /\ signer' = Evolved(signer)
      /\ UNCHANGED <<keyOf, rootOf, seed, vpc, ask, bits, found>>
    BY DEF Evolve
<1>2. seed \in Seeds /\ age \in 0 .. MaxAge /\ age + 1 \in 0 .. MaxAge
    <2>1. MaxAge \in Nat
        BY EpochsAreNat
    <2> QED
        BY <1>1, <2>1 DEF TypeOK
<1>3. keyOf[seed] \in PrimePairs /\ rootOf[seed] \in Roots
    BY <1>2, KeyOfSeed
<1>4. age \in Epochs /\ age + 1 \in Epochs
    BY <1>2, AgeIsEpoch, Zenon
<1>5. signer = Kept(age)
    BY <1>1 DEF SignerOnChain
<1>6. signer' = Kept(age + 1)
    BY <1>1, <1>3, <1>4, <1>5, EvolvedIs, Zenon DEF Kept
<1>7. signer' \in States /\ signer'.x < signer'.n
    BY <1>3, <1>4, <1>6, StateAtIs, Zenon DEF Kept
<1>8. TypeOK'
    BY <1>1, <1>2, <1>7 DEF TypeOK
<1>9. SignerOnChain'
    BY <1>1, <1>6, Zenon DEF SignerOnChain, Kept
<1>10. NotSetUp' /\ SeekIsOpen' /\ BitsCounted' /\ LowEpoch'
    BY <1>1 DEF NotSetUp, SeekIsOpen, BitsCounted, LowEpoch
<1>11. FoundOnChain'
    BY <1>1, Zenon DEF FoundOnChain, Asked
<1> QED
    BY <1>8, <1>9, <1>10, <1>11

\* A step that leaves the signer alone leaves it on its chain.
LEMMA SignerStays ==
    ASSUME FsprgInv, UNCHANGED <<keyOf, rootOf, seed, signer, age>>
    PROVE  SignerOnChain'
BY Zenon DEF FsprgInv, SignerOnChain, Kept

\* The call of FSPRG_Seek keeps the invariant, whatever the seed.
LEMMA SeekStartsKeeps ==
    ASSUME FsprgInv, NEW s \in Seeds, NEW epoch \in Goals, NEW bound \in BOOLEAN,
           SeekStarts(s, epoch, bound)
    PROVE  FsprgInv'
<1> USE DEF FsprgInv
<1>1. /\ seed # << >> /\ vpc' = "count" /\ bits' = 0 /\ found' = NoState
      /\ ask' = [seed |-> s, epoch |-> epoch, bound |-> bound]
      /\ UNCHANGED <<keyOf, rootOf, seed, signer, age>>
    BY DEF SeekStarts
<1>2. epoch \in Epochs
    BY FsprgAssumption
<1>3. TypeOK'
    <2>1. 0 \in 0 .. 2 * Width - 1
        BY WidthAssumption
    <2>2. ask' \in [seed : Seeds \cup {<< >>}, epoch : Epochs \cup {-1}, bound : BOOLEAN]
        BY <1>1, <1>2
    <2>3. /\ keyOf' \in [Seeds -> PrimePairs] /\ rootOf' \in [Seeds -> Roots]
          /\ seed' \in Seeds \cup {<< >>} /\ age' \in 0 .. MaxAge
          /\ signer' \in States \cup {NoState}
          /\ seed' # << >> => signer' \in States /\ signer'.x < signer'.n
        BY <1>1 DEF TypeOK
    <2> QED
        BY <1>1, <2>1, <2>2, <2>3 DEF TypeOK
<1>4. SignerOnChain'
    BY <1>1, SignerStays
<1>5. NotSetUp' /\ SeekIsOpen' /\ BitsCounted' /\ LowEpoch' /\ FoundOnChain'
    BY <1>1, <1>2 DEF NotSetUp, SeekIsOpen, BitsCounted, LowEpoch, FoundOnChain
<1> QED
    BY <1>3, <1>4, <1>5

\* So do FSPRG_Seek and _fsprg.seek().
LEMMA SeekKeeps ==
    ASSUME FsprgInv, NEW epoch \in Goals, Seek(epoch) \/ PySeek(epoch)
    PROVE  FsprgInv'
<1>1. CASE Seek(epoch)
    <2>1. seed \in Seeds
        BY <1>1 DEF Seek, SeekStarts, FsprgInv, TypeOK
    <2> QED
        BY <1>1, <2>1, SeekStartsKeeps, Zenon DEF Seek
<1>2. CASE PySeek(epoch)
    <2>1. PICK s \in Seeds : SeekStarts(s, epoch, TRUE)
        BY <1>2, Zenon DEF PySeek
    <2> QED
        BY <2>1, SeekStartsKeeps, Zenon
<1> QED
    BY <1>1, <1>2

\* A turn of the counting loop keeps the invariant.
LEMMA CountBitKeeps ==
    ASSUME FsprgInv, CountBit PROVE FsprgInv'
<1> USE DEF FsprgInv
<1>1. /\ vpc = "count" /\ bits' = NextCount(bits)
      /\ UNCHANGED <<keyOf, rootOf, seed, signer, age, vpc, ask, found>>
    BY DEF CountBit
<1>2. bits' \in 0 .. 2 * Width - 1
    <2>1. bits \in 0 .. 2 * Width - 1
        BY DEF TypeOK
    <2> QED
        BY <1>1, <2>1, WidthAssumption DEF NextCount
<1>3. TypeOK'
    BY <1>1, <1>2 DEF TypeOK
<1>4. SignerOnChain'
    BY <1>1, SignerStays
<1>5. NotSetUp' /\ SeekIsOpen' /\ BitsCounted' /\ LowEpoch' /\ FoundOnChain'
    BY <1>1 DEF NotSetUp, SeekIsOpen, BitsCounted, LowEpoch, FoundOnChain
<1> QED
    BY <1>3, <1>4, <1>5

\* The end of the loop keeps the invariant: enough bits were counted.
LEMMA CountEndsKeeps ==
    ASSUME FsprgInv, CountEnds PROVE FsprgInv'
<1> USE DEF FsprgInv
<1>1. /\ vpc = "count" /\ vpc' = "powers"
      /\ UNCHANGED <<keyOf, rootOf, seed, signer, age, ask, bits, found>>
    BY DEF CountEnds
<1>2. PICK one \in ShiftedOne(bits) : one > ask.epoch
    BY DEF CountEnds
<1>3. ask.epoch < TwoTo(bits) /\ ask.epoch < TwoTo(Width - 1)
    <2>1. bits \in Nat /\ ask.epoch \in Nat
        <3>1. ask.epoch \in Epochs
            BY <1>1 DEF SeekIsOpen
        <3> QED
            BY <3>1, EpochsAreNat, WidthAssumption DEF TypeOK
    <2>2. PICK r \in 0 .. Width - 1 : r <= bits /\ ask.epoch < TwoTo(r)
        BY <1>2, <2>1, CountEndsBelow, Zenon
    <2>3. r \in Nat /\ Width - 1 \in Nat /\ r <= Width - 1
        BY WidthAssumption
    <2>4. TwoTo(r) \in Nat /\ TwoTo(bits) \in Nat /\ TwoTo(r) <= TwoTo(bits)
        BY <2>1, <2>2, <2>3, TwoGrows, Zenon
    <2>5. TwoTo(Width - 1) \in Nat /\ TwoTo(r) <= TwoTo(Width - 1)
        BY <2>3, TwoGrows, Zenon
    <2> QED
        BY <2>1, <2>2, <2>4, <2>5
<1>4. TypeOK'
    BY <1>1 DEF TypeOK
<1>5. SignerOnChain'
    BY <1>1, SignerStays
<1>6. NotSetUp' /\ SeekIsOpen'
    BY <1>1 DEF NotSetUp, SeekIsOpen
<1>7. BitsCounted' /\ LowEpoch' /\ FoundOnChain'
    BY <1>1, <1>3 DEF BitsCounted, LowEpoch, FoundOnChain
<1> QED
    BY <1>4, <1>5, <1>6, <1>7

\* FSPRG_Seek returns the state that was asked for.
LEMMA SeekReturnsKeeps ==
    ASSUME FsprgInv, SeekReturns PROVE FsprgInv' /\ found' = Asked
<1> USE DEF FsprgInv
<1>1. /\ vpc = "powers" /\ vpc' = "done"
      /\ found' = Sought(keyOf[ask.seed], rootOf[ask.seed], ask.epoch, bits)
      /\ UNCHANGED <<keyOf, rootOf, seed, signer, age, ask, bits>>
    BY DEF SeekReturns
<1>2. ask.seed \in Seeds /\ ask.epoch \in Epochs /\ bits \in Nat /\ ask.epoch < TwoTo(bits)
    <2>1. ask.seed \in Seeds /\ ask.epoch \in Epochs /\ ask.epoch < TwoTo(bits)
        BY <1>1 DEF SeekIsOpen, BitsCounted, LowEpoch
    <2>2. bits \in Nat
        BY WidthAssumption DEF TypeOK
    <2> QED
        BY <2>1, <2>2
<1>3. keyOf[ask.seed] \in PrimePairs /\ rootOf[ask.seed] \in Roots
    BY <1>2, KeyOfSeed
<1>4. found' = Asked
    BY <1>1, <1>2, <1>3, SoughtIsStateAt, Zenon DEF Asked
<1>5. found' \in States
    BY <1>2, <1>3, <1>4, StateAtIs, Zenon DEF Asked
<1>6. TypeOK'
    BY <1>1, <1>5 DEF TypeOK
<1>7. SignerOnChain'
    BY <1>1, SignerStays
<1>8. NotSetUp' /\ SeekIsOpen' /\ BitsCounted' /\ LowEpoch'
    BY <1>1 DEF NotSetUp, SeekIsOpen, BitsCounted, LowEpoch
<1>9. FoundOnChain'
    <2>1. Asked' = Asked
        BY <1>1, Zenon DEF Asked
    <2> QED
        BY <1>1, <1>4, <2>1, Zenon DEF FoundOnChain
<1> QED
    BY <1>4, <1>6, <1>7, <1>8, <1>9

\* A stuttering step keeps the invariant.
LEMMA StutterKeeps ==
    ASSUME FsprgInv, UNCHANGED vars PROVE FsprgInv'
<1> USE DEF FsprgInv, vars
<1>1. TypeOK'
    BY DEF TypeOK
<1>2. SignerOnChain'
    BY SignerStays
<1>3. NotSetUp' /\ SeekIsOpen' /\ BitsCounted' /\ LowEpoch'
    BY DEF NotSetUp, SeekIsOpen, BitsCounted, LowEpoch
<1>4. FoundOnChain'
    BY Zenon DEF FoundOnChain, Asked
<1> QED
    BY <1>1, <1>2, <1>3, <1>4

\* Every step keeps the invariant.
LEMMA NextFsprg == FsprgInv /\ [Next]_vars => FsprgInv'
<1> SUFFICES ASSUME FsprgInv, [Next]_vars PROVE FsprgInv'
    OBVIOUS
<1>1. ASSUME NEW s \in Seeds, SetupKey(s) PROVE FsprgInv'
    BY <1>1, SetupKeyKeeps
<1>2. ASSUME Evolve PROVE FsprgInv'
    BY <1>2, EvolveKeeps
<1>3. ASSUME NEW epoch \in Goals, Seek(epoch) \/ PySeek(epoch) PROVE FsprgInv'
    BY <1>3, SeekKeeps
<1>4. ASSUME Seeking PROVE FsprgInv'
    BY <1>4, CountBitKeeps, CountEndsKeeps, SeekReturnsKeeps DEF Seeking
<1>5. ASSUME UNCHANGED vars PROVE FsprgInv'
    BY <1>5, StutterKeeps
<1> QED
    BY <1>1, <1>2, <1>3, <1>4, <1>5, Zenon DEF Next

\* Every reachable state of Fsprg satisfies FsprgInv: the signer's state is the one
\* that its evolutions lead to, and a state that was found is the one that the seed
\* and the epoch of the seek stand for.
THEOREM FsprgInvariant == Spec => []FsprgInv
BY InitFsprg, NextFsprg, PTL DEF Spec

\* The variables of Fsprg keep their types: in particular the epoch of a state stays
\* within its width, and the square of the signer below its modulus.
THEOREM FsprgTypeOK == Spec => []TypeOK
<1>1. FsprgInv => TypeOK
    BY DEF FsprgInv
<1> QED
    BY <1>1, FsprgInvariant, PTL

\* A seek of FSPRG_Seek with the seed of the signer's key and the epoch of the signer
\* finds the state of the signer, and so the key that the signer signs with: the
\* shortcut of two exponents modulo p - 1 and q - 1 and the Chinese remainder agree
\* with squaring modulo n once per epoch, for all primes, roots and epochs.
THEOREM SeekFinds == Spec => []SeekFindsSigner
<1>1. FsprgInv => SeekFindsSigner
    <2> SUFFICES ASSUME FsprgInv, vpc = "done", ask.seed = seed, ask.epoch = signer.epoch
                 PROVE  KeyMaterial(found) = KeyMaterial(signer)
        BY DEF SeekFindsSigner
    <2>1. ask.seed \in Seeds /\ ask.epoch \in Epochs
        BY DEF FsprgInv, SeekIsOpen
    <2>2. seed # << >> /\ age \in 0 .. MaxAge
        BY <2>1, FsprgAssumption DEF FsprgInv, TypeOK
    <2>3. keyOf[seed] \in PrimePairs /\ rootOf[seed] \in Roots
        BY <2>1, KeyOfSeed DEF FsprgInv
    <2>4. signer = Kept(age) /\ found = Asked
        BY <2>2 DEF FsprgInv, SignerOnChain, FoundOnChain
    <2>5. signer.epoch = age
        <3>1. age \in Epochs
            BY <2>2, AgeIsEpoch
        <3>2. StateAt(keyOf[seed], rootOf[seed], age).epoch = age
            BY <2>3, <3>1, StateAtIs, Zenon
        <3> QED
            BY <2>4, <3>2, Zenon DEF Kept
    <2>6. found = signer
        BY <2>4, <2>5, Zenon DEF Kept, Asked
    <2> QED
        BY <2>6
<1> QED
    BY <1>1, FsprgInvariant, PTL

\* The loop of twopowmodphi that counts the bits of an epoch whose highest bit is
\* set never ends, whether the shift instruction takes a count past the width
\* modulo the width or leaves nothing.
THEOREM HighEpochsAreNotFound == Spec => []LowEpoch
<1>1. FsprgInv => LowEpoch
    BY DEF FsprgInv
<1> QED
    BY <1>1, FsprgInvariant, PTL

------------------------------------------------------------------------------
(* The refinement of KeyChain.                                                 *)

\* After setup_key(), Chain holds the states the signer goes through.
LEMMA ChainIsChain ==
    ASSUME FsprgInv, seed # << >>
    PROVE  /\ Chain \in [0 .. MaxAge -> States] /\ Chain # << >>
           /\ \A k \in 0 .. MaxAge : Chain[k] = Kept(k)
           /\ signer = Chain[age] /\ age \in 0 .. MaxAge
<1>1. seed \in Seeds /\ age \in 0 .. MaxAge /\ 0 \in 0 .. MaxAge
    BY EpochsAreNat DEF FsprgInv, TypeOK
<1>2. Chain = [k \in 0 .. MaxAge |-> Kept(k)]
    BY Zenon DEF Chain, Kept
<1>3. ASSUME NEW k \in 0 .. MaxAge PROVE Kept(k) \in States
    <2>1. keyOf[seed] \in PrimePairs /\ rootOf[seed] \in Roots
        BY <1>1, KeyOfSeed DEF FsprgInv
    <2>2. k \in Epochs
        BY AgeIsEpoch
    <2> QED
        BY <2>1, <2>2, StateAtIs, Zenon DEF Kept
<1>4. signer = Kept(age)
    BY DEF FsprgInv, SignerOnChain
<1>5. Chain # << >>
    <2>1. 0 \in DOMAIN Chain
        BY <1>1, <1>2
    <2>2. 0 \notin DOMAIN << >>
        OBVIOUS
    <2> QED
        BY <2>1, <2>2
<1> QED
    BY <1>1, <1>2, <1>3, <1>4, <1>5

\* The same, to be used of the next state too.
ChainFits ==
    seed # << >> => Chain \in [0 .. MaxAge -> States] /\ signer = Chain[age]

\* The same as a formula, for the state after a step.
LEMMA ChainAlwaysFits == FsprgInv => ChainFits
BY ChainIsChain DEF ChainFits

\* The chain depends on the key only.
LEMMA ChainStays ==
    ASSUME UNCHANGED <<keyOf, rootOf, seed>> PROVE Chain' = Chain
BY Zenon DEF Chain

\* What is wanted depends on the key and the call only.
LEMMA AskStays ==
    ASSUME UNCHANGED <<seed, ask>> PROVE OnChain' = OnChain /\ Want' = Want
BY Zenon DEF OnChain, Want

\* Before setup_key() the walk has not begun.
LEMMA ChainInit == Init => Walk!Init
<1> SUFFICES ASSUME Init PROVE Walk!Init
    OBVIOUS
<1>1. seed = << >> /\ signer = << >> /\ age = 0 /\ ~ OnChain
    BY DEF Init, OnChain, NoState
<1>2. Chain = << >> /\ Want = -1 /\ Shown = << >>
    BY <1>1, Zenon DEF Chain, Want, Shown
<1> QED
    BY <1>1, <1>2, Zenon DEF Walk!Init

\* The walk has a position for each number of evolutions.
LEMMA PositionsAre == MaxAge \in Nat /\ Walk!Positions = 0 .. MaxAge
<1>1. MaxAge \in Nat
    BY EpochsAreNat
<1> QED
    BY <1>1 DEF Walk!Positions

\* setup_key() lays the chain out.
LEMMA SetupKeyIsSetup ==
    ASSUME FsprgInv, FsprgInv', NEW s \in Seeds, SetupKey(s) PROVE Walk!Setup
<1>1. /\ seed = << >> /\ seed' = s /\ s # << >> /\ age' = 0
      /\ UNCHANGED <<keyOf, rootOf, vpc, ask, bits, found>>
    BY FsprgAssumption DEF SetupKey
<1>2. ask = NoAsk /\ age = 0
    BY <1>1 DEF FsprgInv, NotSetUp
<1>3. ~ OnChain /\ ~ OnChain'
    BY <1>1, <1>2 DEF OnChain, NoAsk
<1>4. Want' = Want /\ Shown' = Shown
    BY <1>3, Zenon DEF Want, Shown
<1>5. Chain = << >>
    BY <1>1, Zenon DEF Chain
<1>6. Chain' \in [0 .. MaxAge -> States] /\ signer' = Chain'[0]
    <2>1. seed' # << >>
        BY <1>1
    <2>2. ChainFits'
        BY ChainAlwaysFits, PTL
    <2>3. Chain' \in [0 .. MaxAge -> States] /\ signer' = Chain'[age']
        BY <2>1, <2>2 DEF ChainFits
    <2> QED
        BY <1>1, <2>3
<1>7. Chain' \in [0 .. MaxAge -> Walk!States]
    BY <1>6, EpochsAreNat DEF States, Walk!States
<1> QED
    BY <1>1, <1>2, <1>4, <1>5, <1>6, <1>7, PositionsAre, Zenon DEF Walk!Setup

\* evolve() advances on it.
LEMMA EvolveIsAdvance ==
    ASSUME FsprgInv, FsprgInv', Evolve PROVE Walk!Advance
<1>1. /\ seed # << >> /\ age < MaxAge /\ age' = age + 1
      /\ UNCHANGED <<keyOf, rootOf, seed, vpc, ask, bits, found>>
    BY DEF Evolve
<1>2. Chain' = Chain /\ Chain # << >> /\ OnChain' = OnChain /\ Want' = Want
    BY <1>1, ChainIsChain, ChainStays, AskStays
<1>3. Shown' = Shown
    BY <1>1, <1>2, Zenon DEF Shown
<1>4. signer' = Chain[age + 1]
    <2>1. seed' # << >>
        BY <1>1
    <2>2. ChainFits'
        BY ChainAlwaysFits, PTL
    <2>3. signer' = Chain'[age']
        BY <2>1, <2>2 DEF ChainFits
    <2> QED
        BY <1>1, <1>2, <2>3
<1>5. age + 1 \in 0 .. MaxAge
    <2>1. age \in 0 .. MaxAge
        BY <1>1, ChainIsChain
    <2> QED
        BY <1>1, <2>1, PositionsAre
<1> QED
    BY <1>1, <1>2, <1>3, <1>4, <1>5, PositionsAre, Zenon DEF Walk!Advance

\* A call of FSPRG_Seek asks for a position, or for none on this chain.
LEMMA SeekIsAsk ==
    ASSUME FsprgInv, NEW s \in Seeds, NEW epoch, NEW bound, SeekStarts(s, epoch, bound)
    PROVE  Walk!Ask
<1>1. /\ seed # << >> /\ found' = << >>
      /\ UNCHANGED <<keyOf, rootOf, seed, signer, age>>
    BY DEF SeekStarts, NoState
<1>2. Chain' = Chain /\ Chain # << >>
    BY <1>1, ChainIsChain, ChainStays
<1>3. Shown' = << >>
    BY <1>1, Zenon DEF Shown
<1>4. Want' \in 0 .. MaxAge \cup {-1}
    BY DEF Want, OnChain
<1> QED
    BY <1>1, <1>2, <1>3, <1>4, PositionsAre, Zenon DEF Walk!Ask

\* Its return finds the position that was asked for.
LEMMA SeekReturnsIsFind ==
    ASSUME FsprgInv, SeekReturns PROVE Walk!Find \/ UNCHANGED Walk!vars
<1>1. /\ UNCHANGED <<keyOf, rootOf, seed, signer, age, ask>> /\ found' = Asked
    BY SeekReturnsKeeps DEF SeekReturns
<1>2. Chain' = Chain /\ OnChain' = OnChain /\ Want' = Want
    BY <1>1, ChainStays, AskStays
<1>3. CASE OnChain
    <2>1. seed # << >> /\ ask.seed = seed /\ ask.epoch \in 0 .. MaxAge
        BY <1>3 DEF OnChain
    <2>2. Want = ask.epoch /\ Shown' = Asked
        BY <1>1, <1>2, <1>3, Zenon DEF Want, Shown
    <2>3. Chain[ask.epoch] = Asked
        <3>1. Chain[ask.epoch] = Kept(ask.epoch)
            BY <2>1, ChainIsChain
        <3> QED
            BY <2>1, <3>1, Zenon DEF Kept, Asked
    <2>4. Walk!Find
        BY <1>1, <1>2, <2>1, <2>2, <2>3, PositionsAre, Zenon DEF Walk!Find
    <2> QED
        BY <2>4
<1>4. CASE ~ OnChain
    <2>1. Shown' = Shown
        BY <1>2, <1>4, Zenon DEF Shown
    <2> QED
        BY <1>1, <1>2, <2>1 DEF Walk!vars
<1> QED
    BY <1>3, <1>4

\* The counting loop is invisible.
LEMMA RestIsStutter ==
    ASSUME UNCHANGED <<keyOf, rootOf, seed, signer, age, ask, found>>
    PROVE  UNCHANGED Walk!vars
<1>1. Chain' = Chain /\ OnChain' = OnChain /\ Want' = Want
    BY ChainStays, AskStays
<1>2. Shown' = Shown
    BY <1>1, Zenon DEF Shown
<1> QED
    BY <1>1, <1>2 DEF Walk!vars

\* Every step of the generator is a step of the walk, or none.
LEMMA ChainStep == FsprgInv /\ [Next]_vars => [Walk!Next]_(Walk!vars)
<1> SUFFICES ASSUME FsprgInv, [Next]_vars PROVE Walk!Next \/ UNCHANGED Walk!vars
    OBVIOUS
<1>0. FsprgInv'
    BY NextFsprg
<1>1. ASSUME NEW s \in Seeds, SetupKey(s) PROVE Walk!Next
    BY <1>0, <1>1, SetupKeyIsSetup DEF Walk!Next
<1>2. ASSUME Evolve PROVE Walk!Next
    BY <1>0, <1>2, EvolveIsAdvance DEF Walk!Next
<1>3. ASSUME NEW epoch \in Goals, Seek(epoch) \/ PySeek(epoch) PROVE Walk!Next
    <2>1. CASE Seek(epoch)
        <3>1. seed \in Seeds
            BY <2>1 DEF Seek, SeekStarts, FsprgInv, TypeOK
        <3> QED
            BY <2>1, <3>1, SeekIsAsk, Zenon DEF Seek, Walk!Next
    <2>2. CASE PySeek(epoch)
        BY <2>2, SeekIsAsk, Zenon DEF PySeek, Walk!Next
    <2> QED
        BY <1>3, <2>1, <2>2
<1>4. ASSUME Seeking PROVE Walk!Next \/ UNCHANGED Walk!vars
    <2>1. CASE CountBit \/ CountEnds
        BY <2>1, RestIsStutter DEF CountBit, CountEnds
    <2>2. CASE SeekReturns
        BY <2>2, SeekReturnsIsFind DEF Walk!Next
    <2> QED
        BY <1>4, <2>1, <2>2 DEF Seeking
<1>5. ASSUME UNCHANGED vars PROVE UNCHANGED Walk!vars
    BY <1>5, RestIsStutter DEF vars
<1> QED
    BY <1>1, <1>2, <1>3, <1>4, <1>5, Zenon DEF Next

\* The generator implements KeyChain: evolving walks a chain of states one by one, and
\* a seek with the seed of the key jumps to where as many evolutions would have led.
THEOREM GeneratorIsChain == Spec => ChainSpec
BY ChainInit, ChainStep, FsprgInvariant, PTL DEF Spec, ChainSpec, Walk!Spec
==============================================================================
