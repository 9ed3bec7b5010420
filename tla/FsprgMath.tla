------------------------------ MODULE FsprgMath ------------------------------
(* The arithmetic of the forward-secure pseudorandom generator in              *)
(* systemd/fsprg.c, on the natural numbers that gcrypt's MPIs stand for.       *)
EXTENDS Integers

CONSTANT Width     \* bits of an epoch (uint64_t in the code)

ASSUME WidthAssumption == Width \in Nat \ {0}

\* 2 to the k.
TwoTo(k) == LET two[i \in 0 .. k] == IF i = 0 THEN 1 ELSE 2 * two[i - 1] IN two[k]

EpochModulus == TwoTo(Width)
Epochs == 0 .. EpochModulus - 1

IsPrime(p) == p > 1 /\ \A d \in 2 .. p - 1 : p % d # 0

------------------------------------------------------------------------------
\* gcry_mpi_powm: b to the e (mod m).
PowMod(b, e, m) ==
    LET pow[k \in 0 .. e] == IF k = 0 THEN 1 % m ELSE (b * pow[k - 1]) % m
    IN  pow[e]

\* gcry_mpi_invm: the inverse of a (mod m).
InverseMod(a, m) == CHOOSE u \in 0 .. m - 1 : (a * u) % m = 1

\* The bit of m that 1 << k selects.
Bit(m, k) == (m \div TwoTo(k)) % 2

\* A turn of the loop of twopowmodphi squares, and doubles for a bit that is set.
Doubled(r, phi) == IF r + r >= phi THEN r + r - phi ELSE r + r
Turn(r, bit, phi) ==
    IF bit = 0 THEN (r * r) % phi ELSE Doubled((r * r) % phi, phi)

\* 2^m (mod p - 1) from the n low bits of m, from the highest.
TwoPowModPhi(m, n, p) ==
    LET r[k \in 0 .. n] == IF k = 0 THEN 1 ELSE Turn(r[k - 1], Bit(m, n - k), p - 1)
    IN  r[n]

\* Fault: the difference is not divided by p.
CrtComposeUndivided(xp, xq, p, q) == p * ((xq - xp) % q) + xp

\* The x below p * q with x = xp (mod p) and x = xq (mod q).
CrtCompose(xp, xq, p, q) ==
    LET a == (((xq - xp) % q) * InverseMod(p, q)) % q
    IN  p * a + xp

------------------------------------------------------------------------------
(* The generator.  A master key is a pair of primes; a state holds the modulus *)
(* n, a quadratic residue x and the epoch.                                     *)

State(n, x, epoch) == [n |-> n, x |-> x, epoch |-> epoch]

GenSquare(n, root) == (root * root) % n

GenState0(key, root) ==
    State(key.p * key.q, GenSquare(key.p * key.q, root), 0)

\* Fault: the square is not reduced.
EvolvedUnreduced(state) ==
    State(state.n, state.x * state.x, (state.epoch + 1) % EpochModulus)

Evolved(state) ==
    State(state.n, (state.x * state.x) % state.n, (state.epoch + 1) % EpochModulus)

\* FSPRG_Seek, once twopowmodphi has counted the bits of the epoch.
Sought(key, root, epoch, bits) ==
    LET x == GenSquare(key.p * key.q, root)
        xp == PowMod(x % key.p, TwoPowModPhi(epoch, bits, key.p), key.p)
        xq == PowMod(x % key.q, TwoPowModPhi(epoch, bits, key.q), key.q)
    IN  State(key.p * key.q, CrtCompose(xp, xq, key.p, key.q), epoch)

\* What FSPRG_GetKey hashes: two states give the same key when they agree on it.
KeyMaterial(state) == <<state.n, state.x, state.epoch>>

\* The reference: x0 squared k times is x0 to the 2^k, and x0 is root squared.
StateAt(key, root, k) ==
    State(key.p * key.q, PowMod(root, TwoTo(k + 1), key.p * key.q), k % EpochModulus)
==============================================================================
