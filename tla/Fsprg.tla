-------------------------------- MODULE Fsprg --------------------------------
(* The forward-secure generator of systemd/fsprg.c and its Python binding      *)
(* systemd/_fsprg.c, in the use they are made for: a signer sets a key up and  *)
(* evolves its state once per epoch; a verifier, which only has the            *)
(* verification key that setup_key() printed, seeks to the epochs it checks.   *)
EXTENDS FsprgMath, Sequences

CONSTANTS
    Seeds,         \* the seeds: sequences of bytes, all of one length
    PrimePairs,    \* what genprime3mod4 may find for a seed: records with p and q
    Roots,         \* what det_randomize may return for a seed's square root
    Goals,         \* the epochs that are sought
    MaxAge         \* bound on the calls of evolve()

ASSUME FsprgAssumption ==
    /\ Seeds # {} /\ << >> \notin Seeds
    /\ \A k \in PrimePairs :
        /\ k.p \in Nat /\ IsPrime(k.p) /\ k.p % 4 = 3 /\ k.p > 3
        /\ k.q \in Nat /\ IsPrime(k.q) /\ k.q % 4 = 3 /\ k.q > 3
        /\ k.p # k.q
    /\ Roots \subseteq Nat
    /\ Goals \subseteq Epochs
    /\ MaxAge \in Epochs

VARIABLES
    keyOf,         \* the primes a seed generates: SHA-256 and a prime search
    rootOf,        \* the square root a seed generates: SHA-256
    seed,          \* the seed of the signer's key, << >> before setup_key()
    signer,        \* the state the signer holds
    age,           \* how often it was evolved
    vpc,           \* where the verifier is in FSPRG_Seek
    ask,           \* the seed and the epoch FSPRG_Seek was called with, and
                   \* whether _fsprg.seek() called it
    bits,          \* n in twopowmodphi, while it counts the bits of the epoch
    found          \* the state it was given

vars == <<keyOf, rootOf, seed, signer, age, vpc, ask, bits, found>>

NoState == << >>
NoAsk == [seed |-> << >>, epoch |-> -1, bound |-> FALSE]
States == [n : Nat, x : Nat, epoch : Epochs]

\* (1ULL << k): undefined when k is the width of the type or more.  The shift
\* instruction uses k modulo the width, or leaves nothing.
ShiftedOne(k) == IF k < Width THEN {TwoTo(k)} ELSE {0, TwoTo(k % Width)}

\* Fault: the counter does not advance.
NextCountStuck(k) == k

\* n++.  Past the width of the type, n and n + Width are not told apart.
NextCount(k) == IF k + 1 = 2 * Width THEN Width ELSE k + 1

------------------------------------------------------------------------------
SetupKey(s) ==
    /\ seed = << >>
    /\ seed' = s
    /\ signer' = GenState0(keyOf[s], rootOf[s])
    /\ age' = 0
    /\ UNCHANGED <<keyOf, rootOf, vpc, ask, bits, found>>

\* FSPRG_Evolve.  _fsprg.evolve() makes a new list: called with something else than a
\* list of integers it raises, and a call that raises is a step that changes nothing.
Evolve ==
    /\ seed # << >> /\ age < MaxAge
    /\ signer' = Evolved(signer)
    /\ age' = age + 1
    /\ UNCHANGED <<keyOf, rootOf, seed, vpc, ask, bits, found>>

\* So is a call of _fsprg.seek() that raises for its arguments: it has sought nothing.
SeekStarts(s, epoch, bound) ==
    /\ seed # << >> /\ vpc \in {"idle", "done"}
    /\ vpc' = "count"
    /\ ask' = [seed |-> s, epoch |-> epoch, bound |-> bound]
    /\ bits' = 0
    /\ found' = NoState
    /\ UNCHANGED <<keyOf, rootOf, seed, signer, age>>

\* FSPRG_Seek with the seed of the key.
Seek(epoch) == SeekStarts(seed, epoch, FALSE)

\* _fsprg.seek() with the well-formed verification key of the signer: of
\* what parse_verification_key read, only the first byte reaches the seed.  The
\* others are what the stack holds.
PySeek(epoch) ==
    /\ seed # << >>
    /\ \E s \in Seeds : s[1] = seed[1] /\ SeekStarts(s, epoch, TRUE)

\* Fault: one bit is left out.
CountEndsEarly ==
    /\ vpc = "count"
    /\ \E one \in ShiftedOne(bits + 1) : one > ask.epoch
    /\ vpc' = "powers"
    /\ UNCHANGED <<keyOf, rootOf, seed, signer, age, ask, bits, found>>

\* twopowmodphi: for (n = 0; (1ULL << n) <= m; n++).
CountBit ==
    /\ vpc = "count"
    /\ \E one \in ShiftedOne(bits) : one <= ask.epoch
    /\ bits' = NextCount(bits)
    /\ UNCHANGED <<keyOf, rootOf, seed, signer, age, vpc, ask, found>>

CountEnds ==
    /\ vpc = "count"
    /\ \E one \in ShiftedOne(bits) : one > ask.epoch
    /\ vpc' = "powers"
    /\ UNCHANGED <<keyOf, rootOf, seed, signer, age, ask, bits, found>>

SeekReturns ==
    /\ vpc = "powers"
    /\ found' = Sought(keyOf[ask.seed], rootOf[ask.seed], ask.epoch, bits)
    /\ vpc' = "done"
    /\ UNCHANGED <<keyOf, rootOf, seed, signer, age, ask, bits>>

------------------------------------------------------------------------------
Init ==
    /\ keyOf \in [Seeds -> PrimePairs]
    /\ rootOf \in [Seeds -> Roots]
    /\ seed = << >> /\ signer = NoState /\ age = 0
    /\ vpc = "idle" /\ ask = NoAsk /\ bits = 0 /\ found = NoState

Seeking == CountBit \/ CountEnds \/ SeekReturns

Next ==
    \/ \E s \in Seeds : SetupKey(s)
    \/ Evolve
    \/ \E epoch \in Goals : Seek(epoch) \/ PySeek(epoch)
    \/ Seeking

Spec == Init /\ [][Next]_vars
FairSpec == Spec /\ WF_vars(Seeking)

------------------------------------------------------------------------------
TypeOK ==
    /\ keyOf \in [Seeds -> PrimePairs]
    /\ rootOf \in [Seeds -> Roots]
    /\ seed \in Seeds \cup {<< >>}
    /\ age \in 0 .. MaxAge
    /\ signer \in States \cup {NoState}
    /\ seed # << >> => signer \in States /\ signer.x < signer.n
    /\ vpc \in {"idle", "count", "powers", "done"}
    /\ ask \in [seed : Seeds \cup {<< >>}, epoch : Epochs \cup {-1}, bound : BOOLEAN]
    /\ bits \in 0 .. 2 * Width - 1
    /\ found \in States \cup {NoState}

\* A verifier that seeks to the epoch of the signer, with the seed of the signer's
\* key, holds the signer's state, and so derives the key the signer signs with.
SeekFindsSigner ==
    (vpc = "done" /\ ask.seed = seed /\ ask.epoch = signer.epoch)
    => KeyMaterial(found) = KeyMaterial(signer)

\* "Seek to any arbitrary state (by providing msk together with seed from
\* GenState0)" (fsprg.h): so does one that calls _fsprg.seek() with the
\* verification key of the signer.
BindingFindsSigner ==
    (vpc = "done" /\ ask.bound /\ ask.epoch = signer.epoch)
    => KeyMaterial(found) = KeyMaterial(signer)

\* A seek to an epoch whose highest bit is clear ends.  One to a higher epoch does
\* not: no 1ULL << n is above it, and twopowmodphi counts for ever.
SeekEnds ==
    (vpc = "count" /\ ask.epoch < TwoTo(Width - 1)) ~> (vpc = "done")

\* The generator implements a chain of states: evolving walks it, and seeking
\* with the seed of the key jumps to where as many evolutions would have led.
Chain ==
    IF seed = << >> THEN << >>
    ELSE [k \in 0 .. MaxAge |-> StateAt(keyOf[seed], rootOf[seed], k)]
OnChain == seed # << >> /\ ask.seed = seed /\ ask.epoch \in 0 .. MaxAge
Want == IF OnChain THEN ask.epoch ELSE -1
Shown == IF OnChain THEN found ELSE << >>
Walk == INSTANCE KeyChain WITH
    Length <- MaxAge + 1, chain <- Chain, pos <- age, want <- Want, found <- Shown
ChainSpec == Walk!Spec
==============================================================================
