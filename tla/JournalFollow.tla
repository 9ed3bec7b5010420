---------------------------- MODULE JournalFollow ----------------------------
(* A client, alone in its process, that follows the journal with a Reader:     *)
(* read to the end, sleep until something changes, read on.                    *)
(*                                                                             *)
(*   "wait"    sleeps in Reader.wait();                                        *)
(*   "poll"    registers the Reader with select.poll(), sleeps there for       *)
(*             get_timeout_ms() and calls process() when it wakes;             *)
(*   "remote"  does the same with a journal that another host writes over a    *)
(*             network file system: no event tells of an entry, and libsystemd *)
(*             gives a deadline to look again.                                 *)
EXTENDS JournalReader, PollTimeout

CONSTANTS
    Modes,         \* which of the three clients there are
    Recheck        \* the clock units between two looks at a remote journal: 2 s

ASSUME FollowAssumption ==
    /\ \E t \in Threads : Threads = {t}
    /\ Modes \subseteq {"wait", "poll", "remote"}
    /\ Recheck \in Nat /\ Recheck <= PerMs * IntMax

VARIABLES
    mode,          \* the client
    clock,         \* the time since its handle last processed its events
    nap            \* what is left of its poll(), Forever, or Awake

pollVars == <<mode, clock, nap>>
followVars == <<vars, pollVars>>

Awake == -2
Capped == Recheck + PerMs      \* bound on the clock: the deadline is long past

\* A client begins with an open Reader, which has yet to look at the journal.
FollowInit ==
    /\ JournalInit
    /\ j = 1
    /\ lib = [h \in HandleIds |-> IF h = 1 THEN Opened ELSE Unused]
    /\ pc = [t \in Threads |-> "idle"]
    /\ call = [t \in Threads |-> NoCall]
    /\ part = [t \in Threads |-> NoDict]
    /\ ret = [t \in Threads |-> Plain("None")]
    /\ ub = {}
    /\ got = {}
    /\ mode \in Modes
    /\ clock = Capped
    /\ nap = Awake

\* Nothing is left to read; a call that raised is made again.
AtEnd(t) == Idle(t) /\ ret[t].kind = "end"
Registered == lib[j].watching

Reads(t) ==
    /\ ~AtEnd(t) /\ nap = Awake
    /\ GetNext(t, 1) /\ UNCHANGED pollVars

Waits(t) ==
    /\ mode = "wait" /\ AtEnd(t)
    /\ Wait(t, TRUE) /\ UNCHANGED pollVars

\* p.register(j, j.get_events()): both ask libsystemd for the descriptor, which
\* sets up the watch, or fails.  What came before it has to be read first.
Registers(t) ==
    /\ mode # "wait" /\ AtEnd(t) /\ ~Registered
    /\ Fileno(t) /\ UNCHANGED pollVars

\* sd_journal_get_timeout: no deadline for a journal on local disks.
Deadline == IF mode = "remote" THEN Recheck ELSE Never

\* p.poll(j.get_timeout_ms())
Polls(t) ==
    /\ mode # "wait" /\ AtEnd(t) /\ Registered /\ nap = Awake
    /\ nap' = Sleep(AbsoluteTimeout(Deadline, clock))
    /\ UNCHANGED <<vars, mode, clock>>

\* The descriptor is readable: the kernel saw a local file change.
Event == mode = "poll" /\ Change(lib[j]) # "NOP"

Wakes(t) ==
    /\ nap # Awake /\ (Event \/ nap = 0)
    /\ nap' = Awake
    /\ Process(t) /\ UNCHANGED <<mode, clock>>

\* Fault: the events stay where they are.
ProcessesNothing(t) ==
    /\ Inside(t, "process")
    /\ Ends(t, Plain(Change(lib[call[t].held])))
    /\ UNCHANGED <<log, disk, j, lib, ub, got, mode, nap, clock>>

\* What process() returns is not looked at: the client reads on in any case.
Processes(t) ==
    /\ ProcessReturns(t)
    /\ clock' = 0
    /\ UNCHANGED <<mode, nap>>

Goes(t) == Reads(t) \/ Waits(t) \/ Registers(t) \/ Polls(t) \/ Wakes(t)

\* The clock matters to a client with a deadline only.
Tick ==
    /\ mode = "remote"
    /\ clock < Capped \/ nap > 0
    /\ clock' = IF clock < Capped THEN clock + 1 ELSE clock
    /\ nap' = IF nap > 0 THEN nap - 1 ELSE nap
    /\ UNCHANGED <<vars, mode>>

\* A remote host rotates unseen; that libsystemd would have to find out itself.
Writes ==
    /\ IF mode = "remote" THEN (\E c \in Contents : Write(c)) ELSE Journald
    /\ UNCHANGED <<readerVars, pollVars>>

Others(t) ==
    /\ pc[t] # "process" /\ CallReturns(t) /\ UNCHANGED pollVars

\* libsystemd cannot read its events.
ProcessFails(t) == pc[t] = "process" /\ ReturnsError(t) /\ UNCHANGED pollVars

FollowNext ==
    \/ Writes
    \/ Tick
    \/ \E t \in Threads : Goes(t) \/ Processes(t) \/ ProcessFails(t) \/ Others(t)

\* The client goes on, time passes, and libsystemd does not fail for ever.
FollowSpec ==
    /\ FollowInit /\ [][FollowNext]_followVars
    /\ WF_followVars(Tick)
    /\ \A t \in Threads :
        /\ WF_followVars(Goes(t))
        /\ SF_followVars(Registers(t) /\ ret'[t].kind = "None")
        /\ WF_followVars((GetAll(t) \/ GetRealtime(t) \/ GetMonotonic(t) \/ GetCursor(t))
                            /\ UNCHANGED pollVars)
        /\ SF_followVars((NextMoves(t) \/ NextEnds(t)) /\ UNCHANGED pollVars)
        /\ SF_followVars(WaitReturns(t) /\ UNCHANGED pollVars)
        /\ SF_followVars(Processes(t))

------------------------------------------------------------------------------
\* get_next() gives up on it, or hides it.
Lost(i) == log[i].content.data \in {"none", "broken", "odd"}

\* Every entry that is written is handed to a client that follows the journal,
\* unless its file is vacuumed or get_next() raises for the entry itself: no
\* rotation, no entry written between the end of get_next() and wait() or
\* poll(), no error and no silent file system is in the way (Reader.wait,
\* journal.py; get_timeout_ms, _reader.c).
FollowerGetsAll ==
    \A i \in Ids :
        (i \in DOMAIN log)
        ~> (i \in got \/ (i \in DOMAIN log /\ (log[i].file \notin disk \/ Lost(i))))

\* A client that follows the journal is handed every entry at most once and in
\* the order they were written, whatever get_next() raised in between.
FollowInOrder ==
    [][\A t \in Threads :
        (pc[t] = "cursor" /\ pc'[t] = "idle" /\ ret'[t].kind = "entry")
        => \A k \in got : k < ret'[t].entry.fields]_followVars

\* A client that polls with a deadline is woken once the deadline has passed and
\* not a millisecond later: an earlier wakeup would find nothing to look at and
\* poll again at once, a missing one would sleep through a remote entry
\* (absolute_timeout, pyutil.c).
DeadlineKept ==
    (nap # Awake /\ Deadline # Never) =>
        /\ nap >= 0
        /\ clock + nap >= Deadline
        /\ nap = 0 \/ clock + nap < Deadline + PerMs

\* A client that polls a local journal comes to rest when journald does:
\* process() resets the readability of the descriptor (process, _reader.c).
PollerRests == mode = "poll" => <>[](nap = Forever)
==============================================================================
