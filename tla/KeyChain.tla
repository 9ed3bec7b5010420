------------------------------- MODULE KeyChain -------------------------------
(* What the forward-secure generator promises: the states of a key form a      *)
(* chain, fixed when the key is set up.  The signer goes along it one state at *)
(* a time; whoever has the verification key jumps to any state of the chain.   *)
EXTENDS Integers

CONSTANTS Length   \* the states of a chain are numbered 0 .. Length - 1

VARIABLES
    chain,         \* the chain of the key, or << >> before it is set up
    pos,           \* the position of the signer
    signer,        \* the state the signer holds
    want,          \* the position a verifier asked for with the key, or -1
    found          \* the state it was given, or << >>

vars == <<chain, pos, signer, want, found>>

Positions == 0 .. Length - 1
States == [n : Nat, x : Nat, epoch : Nat]

Init ==
    /\ chain = << >> /\ pos = 0 /\ signer = << >>
    /\ want = -1 /\ found = << >>

Setup ==
    /\ chain = << >>
    /\ chain' \in [Positions -> States]
    /\ signer' = chain'[0]
    /\ UNCHANGED <<pos, want, found>>

Advance ==
    /\ chain # << >> /\ pos + 1 \in Positions
    /\ pos' = pos + 1
    /\ signer' = chain[pos + 1]
    /\ UNCHANGED <<chain, want, found>>

Ask ==
    /\ chain # << >>
    /\ want' \in Positions \cup {-1}
    /\ found' = << >>
    /\ UNCHANGED <<chain, pos, signer>>

Find ==
    /\ want \in Positions
    /\ found' = chain[want]
    /\ UNCHANGED <<chain, pos, signer, want>>

Next == Setup \/ Advance \/ Ask \/ Find

Spec == Init /\ [][Next]_vars
==============================================================================
