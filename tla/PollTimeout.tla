----------------------------- MODULE PollTimeout -----------------------------
(* absolute_timeout() of systemd/pyutil.c: the deadline that libsystemd gives, *)
(* on the monotonic clock, as the timeout that poll() takes.                   *)
EXTENDS Integers

CONSTANTS
    PerMs,         \* units of the clock in a unit of poll(): 1000
    IntMax         \* the greatest int: 2^31 - 1

ASSUME PollAssumption == PerMs \in Nat \ {0} /\ IntMax \in Nat \ {0}

Never == -1        \* the deadline (uint64_t) -1: there is none
Forever == -1      \* the timeout with which poll() waits for an event only

\* The cast to int keeps the low bits.
Int32(x) ==
    LET low == x % (2 * (IntMax + 1))
    IN  IF low > IntMax THEN low - 2 * (IntMax + 1) ELSE low

\* Fault: rounded down, the deadline has not passed when poll() returns.
RoundedDown(t, n) ==
    IF t = Never THEN Forever
    ELSE IF t > n THEN Int32((t - n) \div PerMs) ELSE 0

\* t is the deadline, n the time now.
AbsoluteTimeout(t, n) ==
    IF t = Never THEN Forever
    ELSE IF t > n THEN Int32((t - n + PerMs - 1) \div PerMs) ELSE 0

\* How long poll() sleeps at most when no event comes.
Sleep(ms) == IF ms < 0 THEN Forever ELSE ms * PerMs
==============================================================================
