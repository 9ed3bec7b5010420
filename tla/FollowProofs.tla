----------------------------- MODULE FollowProofs -----------------------------
(* Theorems about JournalFollow: the deadline of a client that polls, for      *)
(* clocks and ints of any size and any distance between two looks at the       *)
(* journal; and the order in which a client is handed the entries, however     *)
(* many there are.                                                             *)
EXTENDS JournalFollow, JournalReaderProofs, TLAPS

LEMMA Division ==
    ASSUME NEW x \in Nat, NEW b \in Nat \ {0}, NEW q \in Int, q = x \div b
    PROVE  b * q <= x /\ x < b * q + b
OBVIOUS

LEMMA Quotient == \A x \in Nat, b \in Nat \ {0} : x \div b \in Int
OBVIOUS

LEMMA Products ==
    ASSUME NEW b \in Nat \ {0}, NEW q \in Int
    PROVE  b * q = q * b /\ (q <= -1 => b * q <= -b)
OBVIOUS

\* Division that rounds up.
LEMMA RoundedUp ==
    ASSUME NEW a \in Nat, NEW b \in Nat \ {0}
    PROVE  LET q == (a + b - 1) \div b
           IN  q \in Nat /\ q * b >= a /\ q * b < a + b
<1> DEFINE x == a + b - 1
           q == x \div b
<1>1. x \in Nat
    OBVIOUS
<1>2. q \in Int
    BY <1>1, Quotient
<1> HIDE DEF q
<1>3. b * q <= x /\ x < b * q + b
    BY <1>1, <1>2, Division DEF q
<1>4. b * q \in Int /\ b * q = q * b /\ (q <= -1 => b * q <= -b)
    BY <1>2, Products
<1>5. q \in Nat
    BY <1>1, <1>2, <1>3, <1>4
<1>6. q * b >= a /\ q * b < a + b
    BY <1>3, <1>4
<1> QED
    BY <1>5, <1>6 DEF q

LEMMA Remainder == ASSUME NEW x \in Nat, NEW b \in Nat, x < b PROVE x % b = x
OBVIOUS

\* An int that fits is not changed by the cast.
LEMMA SmallInts ==
    ASSUME NEW x \in Nat, x <= IntMax
    PROVE  Int32(x) = x
<1>1. 2 * (IntMax + 1) \in Nat /\ x < 2 * (IntMax + 1)
    BY PollAssumption
<1>2. x % (2 * (IntMax + 1)) = x
    BY <1>1, Remainder
<1> QED
    BY <1>2, PollAssumption DEF Int32

LEMMA Monotone ==
    ASSUME NEW b \in Nat, NEW q \in Nat, NEW n \in Nat, q >= n + 1
    PROVE  q * b >= (n + 1) * b /\ (n + 1) * b = b * n + b
OBVIOUS

\* A deadline that poll() can wait for is rounded up to the next millisecond.
LEMMA TimeoutRounds ==
    ASSUME NEW t \in Nat, NEW n \in Nat, t <= PerMs * IntMax
    PROVE  LET sleep == Sleep(AbsoluteTimeout(t, n))
           IN  /\ sleep \in Nat /\ n + sleep >= t
               /\ sleep = 0 \/ n + sleep < t + PerMs
<1> USE PollAssumption
<1>0. t # Never
    BY DEF Never
<1>1. CASE t <= n
    <2>1. AbsoluteTimeout(t, n) = 0
        BY <1>0, <1>1 DEF AbsoluteTimeout
    <2>2. Sleep(0) = 0
        BY DEF Sleep
    <2> QED
        BY <1>1, <2>1, <2>2
<1>2. CASE t > n
    <2> DEFINE q == (t - n + PerMs - 1) \div PerMs
    <2>0. t - n \in Nat
        BY <1>2
    <2>1. q \in Nat /\ q * PerMs >= t - n /\ q * PerMs < t - n + PerMs
        BY <2>0, RoundedUp, Zenon
    <2> HIDE DEF q
    <2>2. q <= IntMax
        <3> SUFFICES ASSUME q >= IntMax + 1 PROVE FALSE
            BY <2>1
        <3>1. q * PerMs >= PerMs * IntMax + PerMs
            BY <2>1, Monotone
        <3>2. PerMs * IntMax \in Int
            OBVIOUS
        <3> QED
            BY <2>1, <3>1, <3>2
    <2>3. AbsoluteTimeout(t, n) = q
        BY <1>0, <1>2, <2>1, <2>2, SmallInts DEF AbsoluteTimeout, q
    <2>4. Sleep(q) = q * PerMs
        BY <2>1 DEF Sleep
    <2> QED
        BY <2>1, <2>3, <2>4
<1> QED
    BY <1>1, <1>2

------------------------------------------------------------------------------
(* While the client is in poll() no call is under way, so that nothing but     *)
(* the clock and journald moves.                                               *)

NapType ==
    /\ clock \in Nat /\ clock <= Capped
    /\ nap \in Int /\ (mode = "remote" => nap = Awake \/ nap >= 0)
Napping ==
    nap # Awake => mode # "wait" /\ Registered /\ \A t \in Threads : pc[t] = "idle"
NapInv == NapType /\ Napping /\ DeadlineKept

LEMMA InitNap == FollowInit => NapInv
BY FollowAssumption, PollAssumption
DEF FollowInit, NapInv, NapType, Napping, DeadlineKept, Capped, Awake

\* A step of a client that is not in poll().
LEMMA AwakeSteps ==
    ASSUME NapInv, nap' = Awake, mode' = mode, clock' \in {0, clock}
    PROVE  NapInv'
BY FollowAssumption, PollAssumption
DEF NapInv, NapType, Napping, DeadlineKept, Capped, Awake

\* Whoever is back from libsystemd was not in poll().
LEMMA ReturnsAwake ==
    ASSUME NapInv, NEW t \in Threads, CallReturns(t)
    PROVE  nap = Awake
<1>1. pc[t] # "idle"
    BY DEF CallReturns, OpenStores, OpenReturns, OpenFails, CloseClears, ReturnsClosed,
        ReturnsFreed, ReturnsError, NextMoves, NextEnds, GetAll, GetRealtime, GetMonotonic,
        GetStamp, GetCursor, BootReturns, SeekReturns, MatchFails, MatchAdds, MatchEnds,
        UniqueReturns, UniqueValues, CatalogReturns, CatalogMissing, ProcessReturns,
        WaitReturns, Inside, InLib
<1> QED
    BY <1>1 DEF NapInv, Napping

LEMMA NextNap == NapInv /\ [FollowNext]_followVars => NapInv'
<1> SUFFICES ASSUME NapInv, [FollowNext]_followVars PROVE NapInv'
    OBVIOUS
<1>a. NapType /\ Napping /\ DeadlineKept
    BY DEF NapInv
<1>b. Recheck \in Nat /\ PerMs \in Nat \ {0} /\ Recheck <= PerMs * IntMax /\ Capped \in Nat
    BY FollowAssumption, PollAssumption DEF Capped
<1>1. CASE Writes
    BY <1>1, <1>a
    DEF Writes, readerVars, pollVars, NapInv, NapType, Napping, DeadlineKept, Deadline, Registered
<1>2. CASE Tick
    <2>1. /\ mode = "remote" /\ mode' = mode /\ UNCHANGED vars
          /\ clock' = IF clock < Capped THEN clock + 1 ELSE clock
          /\ nap' = IF nap > 0 THEN nap - 1 ELSE nap
        BY <1>2 DEF Tick
    <2>2. Deadline = Recheck /\ Deadline' = Recheck
        BY <2>1 DEF Deadline
    <2>3. NapType'
        BY <1>a, <1>b, <2>1 DEF NapType, Awake
    <2>4. nap' # Awake => nap # Awake
        BY <1>a, <2>1 DEF NapType, Awake
    <2>5. Napping'
        BY <1>a, <2>1, <2>4 DEF Napping, Registered, vars
    <2>6. DeadlineKept'
        BY <1>a, <1>b, <2>1, <2>2, <2>4 DEF DeadlineKept, NapType, Capped, Never, Awake
    <2> QED
        BY <2>3, <2>5, <2>6 DEF NapInv
<1>3. ASSUME NEW t \in Threads, Polls(t) PROVE NapInv'
    <2>1. /\ mode # "wait" /\ AtEnd(t) /\ Registered /\ UNCHANGED <<vars, mode, clock>>
          /\ nap' = Sleep(AbsoluteTimeout(Deadline, clock))
        BY <1>3 DEF Polls
    <2>2. \A u \in Threads : u = t
        BY FollowAssumption
    <2>3. Napping'
        BY <2>1, <2>2 DEF Napping, Registered, AtEnd, Idle, vars
    <2>4. CASE mode = "remote"
        <3>1. Deadline = Recheck /\ Deadline' = Recheck
            BY <2>1, <2>4 DEF Deadline
        <3>2. /\ nap' \in Nat /\ clock + nap' >= Recheck
              /\ nap' = 0 \/ clock + nap' < Recheck + PerMs
            BY <1>a, <1>b, <2>1, <3>1, TimeoutRounds DEF NapType
        <3> QED
            BY <1>a, <2>1, <2>3, <3>1, <3>2 DEF NapInv, NapType, DeadlineKept
    <2>5. CASE mode # "remote"
        <3>1. Deadline = Never /\ Deadline' = Never
            BY <2>1, <2>5 DEF Deadline
        <3>2. nap' = Forever
            BY <2>1, <3>1 DEF AbsoluteTimeout, Sleep, Forever
        <3> QED
            BY <1>a, <2>1, <2>3, <2>5, <3>1, <3>2 DEF NapInv, NapType, DeadlineKept, Forever
    <2> QED
        BY <2>4, <2>5
<1>4. ASSUME NEW t \in Threads, Reads(t) \/ Waits(t) \/ Registers(t) \/ Wakes(t) PROVE NapInv'
    <2>1. Waits(t) \/ Registers(t) => nap = Awake
        BY <1>a DEF Waits, Registers, Napping
    <2> QED
        BY <1>4, <2>1, AwakeSteps DEF Reads, Waits, Registers, Wakes, pollVars
<1>5. ASSUME NEW t \in Threads, Processes(t) \/ ProcessFails(t) \/ Others(t) PROVE NapInv'
    <2>1. nap = Awake
        BY <1>5, ReturnsAwake DEF Processes, ProcessFails, Others, CallReturns
    <2> QED
        BY <1>5, <2>1, AwakeSteps DEF Processes, ProcessFails, Others, pollVars
<1>6. CASE UNCHANGED followVars
    BY <1>6, <1>a
    DEF followVars, pollVars, vars, NapInv, NapType, Napping, DeadlineKept, Deadline, Registered
<1> QED
    BY <1>1, <1>2, <1>3, <1>4, <1>5, <1>6 DEF FollowNext, Goes

\* A client that polls with a deadline is never woken before it, nor a
\* millisecond after it, as long as the deadline is one that poll() can wait for.
THEOREM DeadlineAlwaysKept == FollowSpec => []DeadlineKept
<1>1. NapInv => DeadlineKept
    BY DEF NapInv
<1> QED
    BY <1>1, InitNap, NextNap, PTL DEF FollowSpec

------------------------------------------------------------------------------
(* The order of the entries.  The client never seeks: what it was handed is    *)
(* behind the location of its handle.                                          *)

Reading == {"getall"} \cup Stamps

\* The one handle stays open, and each call captures it.
HandleStays ==
    /\ j = 1 /\ lib[1].st = "open"
    /\ lib[1].loc.type \in {"head", "discrete"}
    /\ \A t \in Threads :
        /\ pc[t] \in {"idle", "next", "process", "wait"} \cup Reading
        /\ pc[t] \in {"next", "process", "wait"} => call[t].held = 1
        /\ pc[t] = "next" => call[t].skip = 1

\* Before the first move nothing was handed out; after it, nothing ahead; and of
\* the entry that is being read, not even that one.
Behindhand ==
    /\ lib[1].loc.type = "head" => got = {}
    /\ \A k \in got : k <= lib[1].loc.at
    /\ \A t \in Threads :
        /\ pc[t] \in Reading => lib[1].loc.type = "discrete" /\ \A k \in got : k < lib[1].loc.at
        /\ pc[t] \in Stamps => part[t].fields = lib[1].loc.at

OrderInv == TypeInv /\ HandleStays /\ Behindhand

\* There is a first handle.
LEMMA OneHandle == 1 \in HandleIds /\ 1 # NULL
BY ReaderAssumption DEF HandleIds, NULL

\* The client is alone.
LEMMA OneActor == \A t, u \in Threads : t = u
BY FollowAssumption

\* At first nothing was handed out, and the handle is at the head.
LEMMA InitOrder == FollowInit => OrderInv
<1> SUFFICES ASSUME FollowInit PROVE OrderInv
    OBVIOUS
<1>1. JournalTypeOK
    BY BoundsAssumption DEF FollowInit, JournalInit, JournalTypeOK, Files
<1>2. lib \in [HandleIds -> Handles]
    BY <1>1, HandleTypes DEF FollowInit
<1>3. NoCall \in CallRecords /\ NoDict \in Dicts /\ Plain("None") \in Results
    BY LocTypes, PlainTypes DEF NoCall, CallRecords, NoDict, Dicts, Kinds
<1>4. TypeInv
    BY <1>1, <1>2, <1>3, OneHandle
    DEF FollowInit, TypeInv, TypeOK, FieldsFirst, Results, PCs, Stamps
<1>5. lib[1] = Opened /\ Opened.st = "open" /\ Opened.loc = Loc("head", 0)
    BY OneHandle DEF FollowInit, Opened, Unused
<1>6. HandleStays /\ Behindhand
    BY <1>5 DEF FollowInit, HandleStays, Behindhand, Loc, Reading, Stamps
<1> QED
    BY <1>4, <1>6 DEF OrderInv

\* The location of the handle is a number.
LEMMA LocationType ==
    ASSUME TypeInv
    PROVE  /\ lib \in [HandleIds -> Handles] /\ 1 \in HandleIds /\ lib[1] \in Handles
           /\ lib[1].loc.at \in Int
<1>1. lib \in [HandleIds -> Handles] /\ 1 \in HandleIds /\ lib[1] \in Handles
    BY OneHandle DEF TypeInv, TypeOK
<1>2. lib[1].loc \in Locs
    BY <1>1 DEF Handles
<1>3. lib[1].loc.at \in 0 .. MaxEntries
    BY <1>2 DEF Locs
<1>4. lib[1].loc.at \in Int
    BY <1>3, BoundsAssumption
<1> QED
    BY <1>1, <1>4

------------------------------------------------------------------------------
\* Beginning a call moves nothing.
LEMMA BeginsOrder ==
    ASSUME OrderInv, TypeInv', NEW t \in Threads, NEW where \in {"next", "process", "wait"},
           NEW args, Begins(t, where, args), args.held = j, where = "next" => args.skip = 1
    PROVE  OrderInv'
<1>1. /\ pc'[t] = where /\ call'[t] = args
      /\ UNCHANGED <<j, lib, part, got>>
    BY Zenon DEF Begins, OrderInv, TypeInv, TypeOK
<1>2. \A u \in Threads : u = t
    BY OneActor
<1>3. HandleStays'
    BY <1>1, <1>2 DEF OrderInv, HandleStays
<1>4. Behindhand'
    BY <1>1, <1>2 DEF OrderInv, Behindhand, Reading, Stamps
<1> QED
    BY <1>3, <1>4 DEF OrderInv

\* Nor does the end of one that leaves the location alone.
LEMMA EndsOrder ==
    ASSUME OrderInv, TypeInv', NEW t \in Threads, NEW r, Ends(t, r), UNCHANGED <<j, got>>,
           lib'[1].st = lib[1].st, lib'[1].loc = lib[1].loc
    PROVE  OrderInv'
<1>1. pc'[t] = "idle"
    BY DEF Ends, OrderInv, TypeInv, TypeOK
<1>2. \A u \in Threads : u = t
    BY OneActor
<1>3. HandleStays'
    BY <1>1, <1>2 DEF OrderInv, HandleStays
<1>4. Behindhand'
    BY <1>1, <1>2 DEF OrderInv, Behindhand, Reading, Stamps
<1> QED
    BY <1>3, <1>4 DEF OrderInv

\* Bringing a handle up to date leaves it open and where it is.
LEMMA UpToDate ==
    ASSUME NEW h \in Handles
    PROVE  /\ Watched(h).st = h.st /\ Watched(h).loc = h.loc
           /\ Processed(h).st = h.st /\ Processed(h).loc = h.loc
BY DEF Handles, Watched, Processed

\* What the client does keeps the types: it is what the Reader does, but for the
\* one argument it gives get_next().
LEMMA FollowKeepsTypes ==
    ASSUME TypeInv, [FollowNext]_followVars PROVE TypeInv'
<1>1. CASE Writes
    <2>1. JournaldStep
        BY <1>1, Zenon DEF Writes, JournaldStep, Journald
    <2> QED
        BY <2>1, NextTypes DEF Next
<1>2. CASE Tick \/ UNCHANGED followVars \/ \E t \in Threads : Polls(t)
    <2>1. UNCHANGED vars
        BY <1>2 DEF Tick, Polls, followVars
    <2> QED
        BY <2>1, NextTypes
<1>3. ASSUME NEW t \in Threads, Reads(t) PROVE TypeInv'
    <2>1. [NoCall EXCEPT !.held = j, !.skip = 1] \in CallRecords
        <3>1. \A s \in Int : [NoCall EXCEPT !.held = j, !.skip = s] \in CallRecords
            BY CallTypes, Zenon DEF TypeInv
        <3>2. PICK s \in Int : s = 1
            OBVIOUS
        <3> QED
            BY <3>1, <3>2, Zenon
    <2>2. Begins(t, "next", [NoCall EXCEPT !.held = j, !.skip = 1])
        BY <1>3 DEF Reads, GetNext
    <2> QED
        BY <2>1, <2>2, BeginsTypes DEF InLib
<1>4. ASSUME NEW t \in Threads, Waits(t) \/ Registers(t) \/ Wakes(t) \/ Processes(t)
      PROVE  TypeInv'
    <2>1. \/ Fileno(t) \/ Process(t) \/ \E forever \in BOOLEAN : Wait(t, forever)
          \/ ProcessReturns(t) \/ WaitReturns(t)
        BY <1>4 DEF Waits, Registers, Wakes, Processes
    <2> QED
        BY <2>1, FollowTypes
<1>5. ASSUME NEW t \in Threads, ProcessFails(t) \/ Others(t) PROVE TypeInv'
    <2>1. CallReturns(t)
        BY <1>5 DEF ProcessFails, Others, CallReturns
    <2> QED
        BY <2>1, NextTypes DEF Next
<1> QED
    BY <1>1, <1>2, <1>3, <1>4, <1>5 DEF FollowNext, Goes

\* The entry that can be read is the one the handle is at.
LEMMA ReadableIs ==
    ASSUME OrderInv, Readable # 0
    PROVE  Readable = lib[1].loc.at
BY OneHandle DEF OrderInv, HandleStays, Readable, Current

\* A move lands ahead of everything that was handed out.
LEMMA MoveOrder ==
    ASSUME OrderInv, TypeInv', NEW t \in Threads, NextMoves(t) PROVE OrderInv'
<1>1. call[t].held = 1 /\ call[t].skip = 1 /\ pc[t] = "next"
    BY DEF NextMoves, Inside, OrderInv, HandleStays
<1>2. PICK i \in DOMAIN log : LandsAt(lib[1], 1, i) /\ lib' = [lib EXCEPT ![1].loc = Loc("discrete", i)]
    BY <1>1, Zenon DEF NextMoves
<1>3. lib[1] \in Handles /\ lib'[1].loc = Loc("discrete", i) /\ lib'[1].st = lib[1].st
    <2>1. lib \in [HandleIds -> Handles] /\ 1 \in HandleIds /\ lib[1] \in Handles
        BY LocationType DEF OrderInv
    <2>2. lib'[1] = [lib[1] EXCEPT !.loc = Loc("discrete", i)]
        BY <1>2, <2>1
    <2> QED
        BY <2>1, <2>2 DEF Handles
<1>4. i \in Ahead(lib[1])
    BY <1>2 DEF LandsAt
<1>5. \A k \in got : k < i
    <2>1. CASE lib[1].loc.type = "head"
        BY <2>1 DEF OrderInv, Behindhand
    <2>2. CASE lib[1].loc.type = "discrete"
        <3>1. i > lib[1].loc.at
            BY <1>4, <2>2 DEF Ahead
        <3>2. i \in Int /\ lib[1].loc.at \in Int /\ \A k \in got : k \in Int
            <4>1. log \in Seq(Entries) /\ got \subseteq Ids /\ MaxEntries \in Nat
                BY BoundsAssumption DEF OrderInv, TypeInv, TypeOK, JournalTypeOK
            <4>2. lib[1].loc.at \in Int
                BY LocationType DEF OrderInv
            <4> QED
                BY <1>2, <4>1, <4>2 DEF Ids
        <3> QED
            BY <3>1, <3>2 DEF OrderInv, Behindhand
    <2> QED
        BY <2>1, <2>2 DEF OrderInv, HandleStays
<1>6. pc'[t] = "getall" /\ UNCHANGED <<j, part, got>>
    BY DEF NextMoves, OrderInv, TypeInv, TypeOK
<1>7. \A u \in Threads : u = t
    BY OneActor
<1>8. HandleStays'
    BY <1>3, <1>6, <1>7 DEF OrderInv, HandleStays, Loc, Reading
<1>9. Behindhand'
    <2>1. lib'[1].loc.type = "discrete" /\ lib'[1].loc.at = i
        BY <1>3 DEF Loc
    <2>2. \A k \in got : k <= i
        <3>1. i \in Int /\ \A k \in got : k \in Int
            BY <1>2, BoundsAssumption DEF OrderInv, TypeInv, TypeOK, JournalTypeOK, Ids
        <3> QED
            BY <1>5, <3>1
    <2> QED
        BY <1>5, <1>6, <1>7, <2>1, <2>2 DEF Behindhand, Stamps
<1> QED
    BY <1>8, <1>9 DEF OrderInv

\* Each part of an entry is read at the location; handing the entry out makes it
\* the last that was.
LEMMA PartOrder ==
    ASSUME OrderInv, TypeInv', NEW t \in Threads,
           GetAll(t) \/ GetRealtime(t) \/ GetMonotonic(t)
    PROVE  OrderInv'
<1>1. /\ UNCHANGED <<j, lib, got>> /\ pc[t] \in Reading
      /\ \/ \E r : Ends(t, r)
         \/ /\ pc'[t] \in Stamps /\ call' = call
            /\ part'[t].fields = IF pc[t] = "getall" THEN Readable ELSE part[t].fields
            /\ Readable # 0
    <2>1. pc \in [Threads -> PCs] /\ part \in [Threads -> Dicts]
        BY DEF OrderInv, TypeInv, TypeOK
    <2>2. CASE GetAll(t)
        BY <2>1, <2>2 DEF GetAll, Reading, Stamps, Dicts
    <2>3. CASE GetRealtime(t) \/ GetMonotonic(t)
        BY <2>1, <2>3 DEF GetRealtime, GetMonotonic, GetStamp, Reading, Stamps, Dicts
    <2> QED
        BY <2>2, <2>3
<1>2. CASE \E r : Ends(t, r)
    BY <1>1, <1>2, EndsOrder
<1>3. CASE ~ \E r : Ends(t, r)
    <2>1. part'[t].fields = lib[1].loc.at
        BY <1>1, <1>3, ReadableIs DEF OrderInv, Behindhand, Reading
    <2>2. \A u \in Threads : u = t
        BY OneActor
    <2>3. HandleStays'
        BY <1>1, <1>3, <2>2 DEF OrderInv, HandleStays, Reading, Stamps
    <2>4. Behindhand'
        BY <1>1, <1>3, <2>1, <2>2 DEF OrderInv, Behindhand, Reading, Stamps
    <2> QED
        BY <2>3, <2>4 DEF OrderInv
<1> QED
    BY <1>2, <1>3

\* What is handed out is the entry at the location.
LEMMA CursorOrder ==
    ASSUME OrderInv, TypeInv', NEW t \in Threads, GetCursor(t) PROVE OrderInv'
<1>1. /\ UNCHANGED <<j, lib>> /\ pc[t] = "cursor" /\ (\E r : Ends(t, r))
      /\ got' = got \/ got' = got \cup {part[t].fields}
    BY DEF GetCursor
<1>2. CASE got' = got
    BY <1>1, <1>2, EndsOrder
<1>3. CASE got' = got \cup {part[t].fields}
    <2>1. pc'[t] = "idle"
        BY <1>1 DEF Ends, OrderInv, TypeInv, TypeOK
    <2>2. part[t].fields = lib[1].loc.at /\ lib[1].loc.type = "discrete"
        BY <1>1 DEF OrderInv, Behindhand, Reading, Stamps
    <2>3. lib[1].loc.at \in Int
        BY LocationType DEF OrderInv
    <2>4. \A u \in Threads : u = t
        BY OneActor
    <2>5. HandleStays'
        BY <1>1, <2>1, <2>4 DEF OrderInv, HandleStays
    <2>6. Behindhand'
        BY <1>1, <1>3, <2>1, <2>2, <2>3, <2>4 DEF OrderInv, Behindhand, Reading, Stamps
    <2> QED
        BY <2>5, <2>6 DEF OrderInv
<1> QED
    BY <1>1, <1>2, <1>3

\* The client makes no other calls, and none of those it makes finds the handle
\* gone.
LEMMA ReturnOrder ==
    ASSUME OrderInv, TypeInv', NEW t \in Threads, CallReturns(t) PROVE OrderInv'
<1>1. /\ pc[t] \in {"next", "process", "wait"} \cup Reading
      /\ pc[t] \in {"next", "process", "wait"} => call[t].held = 1
      /\ lib[1].st = "open" /\ 1 # NULL /\ "open" # "freed"
      /\ lib \in [HandleIds -> Handles] /\ 1 \in HandleIds
    <2>1. pc[t] # "idle"
        BY DEF CallReturns, OpenStores, OpenReturns, OpenFails, CloseClears, ReturnsClosed,
            ReturnsFreed, ReturnsError, NextMoves, NextEnds, GetAll, GetRealtime,
            GetMonotonic, GetStamp, GetCursor, BootReturns, SeekReturns, MatchFails,
            MatchAdds, MatchEnds, UniqueReturns, UniqueValues, CatalogReturns,
            CatalogMissing, ProcessReturns, WaitReturns, Inside, InLib
    <2> QED
        BY <2>1, OneHandle DEF OrderInv, HandleStays, TypeInv, TypeOK
<1>2. \/ ReturnsError(t) \/ NextMoves(t) \/ NextEnds(t)
      \/ GetAll(t) \/ GetRealtime(t) \/ GetMonotonic(t) \/ GetCursor(t)
      \/ ProcessReturns(t) \/ WaitReturns(t)
    BY <1>1 DEF CallReturns, OpenStores, OpenReturns, OpenFails, CloseClears,
        ReturnsClosed, ReturnsFreed, BootReturns, SeekReturns, MatchFails, MatchAdds,
        MatchEnds, UniqueReturns, UniqueValues, CatalogReturns, CatalogMissing, Inside,
        Reading, Stamps, InLib
<1>3. CASE ReturnsError(t)
    BY <1>3, EndsOrder DEF ReturnsError
<1>4. CASE NextEnds(t)
    BY <1>4, EndsOrder DEF NextEnds
<1>5. CASE ProcessReturns(t) \/ WaitReturns(t)
    <2>1. /\ UNCHANGED <<j, got>> /\ \E r : Ends(t, r)
          /\ lib' = [lib EXCEPT ![1] = Processed(lib[1])] \/ lib' = [lib EXCEPT ![1] = Watched(lib[1])]
        BY <1>1, <1>5 DEF ProcessReturns, WaitReturns, Inside
    <2>2. lib'[1].st = lib[1].st /\ lib'[1].loc = lib[1].loc
        BY <1>1, <2>1, UpToDate
    <2> QED
        BY <2>1, <2>2, EndsOrder
<1> QED
    BY <1>2, <1>3, <1>4, <1>5, MoveOrder, PartOrder, CursorOrder

\* Every step keeps the order.
LEMMA NextOrder == OrderInv /\ [FollowNext]_followVars => OrderInv'
<1> SUFFICES ASSUME OrderInv, [FollowNext]_followVars PROVE OrderInv'
    OBVIOUS
<1>0. TypeInv'
    BY FollowKeepsTypes DEF OrderInv
<1>1. CASE UNCHANGED readerVars
    BY <1>0, <1>1 DEF OrderInv, HandleStays, Behindhand, readerVars
<1>2. CASE Writes \/ Tick \/ UNCHANGED followVars \/ \E t \in Threads : Polls(t)
    BY <1>1, <1>2 DEF Writes, Tick, Polls, followVars, vars, readerVars
<1>3. ASSUME NEW t \in Threads, Reads(t) PROVE OrderInv'
    BY <1>0, <1>3, BeginsOrder DEF Reads, GetNext, NoCall
<1>4. ASSUME NEW t \in Threads, Waits(t) \/ Wakes(t) PROVE OrderInv'
    BY <1>0, <1>4, BeginsOrder DEF Waits, Wakes, Wait, Process, NoCall
<1>5. ASSUME NEW t \in Threads, Registers(t) PROVE OrderInv'
    <2>1. /\ j = 1 /\ 1 # NULL /\ lib[1] \in Handles /\ lib \in [HandleIds -> Handles] /\ 1 \in HandleIds
        BY OneHandle DEF OrderInv, HandleStays, TypeInv, TypeOK
    <2>2. /\ UNCHANGED <<j, got>> /\ \E r : Ends(t, r)
          /\ lib' = lib \/ lib' = [lib EXCEPT ![1] = Watched(lib[1])]
        BY <1>5, <2>1 DEF Registers, Fileno
    <2>3. lib'[1].st = lib[1].st /\ lib'[1].loc = lib[1].loc
        BY <2>1, <2>2, UpToDate
    <2> QED
        BY <1>0, <2>2, <2>3, EndsOrder
<1>6. ASSUME NEW t \in Threads, Processes(t) \/ ProcessFails(t) \/ Others(t) PROVE OrderInv'
    <2>1. CallReturns(t)
        BY <1>6 DEF Processes, ProcessFails, Others, CallReturns
    <2> QED
        BY <1>0, <2>1, ReturnOrder
<1> QED
    BY <1>2, <1>3, <1>4, <1>5, <1>6 DEF FollowNext, Goes

\* A client that follows the journal is handed every entry at most once and in
\* the order they were written, however long it runs, whatever get_next() raised
\* in between and whatever journald rotated and vacuumed.
THEOREM FollowedInOrder == FollowSpec => FollowInOrder
<1> DEFINE Later ==
        \A t \in Threads :
            (pc[t] = "cursor" /\ pc'[t] = "idle" /\ ret'[t].kind = "entry")
            => \A k \in got : k < ret'[t].entry.fields
<1>1. OrderInv /\ [FollowNext]_followVars => [Later]_followVars
    <2> SUFFICES ASSUME OrderInv, FollowNext, NEW t \in Threads, pc[t] = "cursor",
                        pc'[t] = "idle", ret'[t].kind = "entry"
                 PROVE  \A k \in got : k < ret'[t].entry.fields
        BY DEF followVars
    <2>1. \A u \in Threads : u = t
        BY OneActor
    <2>2. ret \in [Threads -> Results] /\ part \in [Threads -> Dicts] /\ pc \in [Threads -> PCs]
        BY DEF OrderInv, TypeInv, TypeOK, Results
    <2>3. PICK r : ret' = [ret EXCEPT ![t] = r] /\ (r.kind = "entry" => r.entry.fields = part[t].fields)
        <3>1. CallReturns(t)
            BY <2>1 DEF FollowNext, Writes, Tick, Goes, Reads, Waits, Registers, Polls, Wakes,
                GetNext, Wait, Fileno, Process, Processes, ProcessFails, Others, CallReturns,
                Begins, AtOnce, Idle, readerVars, vars
        <3>2. GetCursor(t)
            BY <3>1 DEF CallReturns, OpenStores, OpenReturns, OpenFails, CloseClears,
                ReturnsClosed, ReturnsFreed, ReturnsError, NextMoves, NextEnds, GetAll,
                GetRealtime, GetMonotonic, GetStamp, BootReturns, SeekReturns, MatchFails,
                MatchAdds, MatchEnds, UniqueReturns, UniqueValues, CatalogReturns,
                CatalogMissing, ProcessReturns, WaitReturns, Inside, InLib
        <3> QED
            BY <2>2, <3>2 DEF GetCursor, Ends, Result, Plain, Dicts
    <2>4. ret'[t].entry.fields = part[t].fields
        BY <2>2, <2>3
    <2> QED
        BY <2>4 DEF OrderInv, Behindhand, Reading, Stamps
<1>2. FollowSpec => [][Later]_followVars
    BY <1>1, InitOrder, NextOrder, PTL DEF FollowSpec
<1> QED
    BY <1>2 DEF FollowInOrder
==============================================================================
