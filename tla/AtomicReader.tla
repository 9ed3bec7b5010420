----------------------------- MODULE AtomicReader -----------------------------
(* What systemd.journal.Reader promises to the program that uses it: every     *)
(* method is one atomic step on one handle, and get_next() hands out exactly   *)
(* the entry it moved to, with every field, timestamp and cursor read from it. *)
EXTENDS SdJournal

CONSTANTS
    Skips,         \* the arguments of get_next() and get_previous()
    MatchArgs,     \* the arguments of add_match(): sequences of matches and of BadMatch
    Levels,        \* the arguments of log_level()
    BadMatch       \* a match string that libsystemd refuses

VARIABLES
    handle,        \* the reader's handle, Unused when it is closed
    out            \* what the last call gave: an entry, the end or anything else

vars == <<log, disk, handle, out>>

Whole(i) == [fields |-> i, realtime |-> i, monotonic |-> i, cursor |-> i]
Nothing == Whole(0)
Other == [kind |-> "other", entry |-> Nothing]
End == [kind |-> "end", entry |-> Nothing]

\* An entry none of whose fields can be read is taken for the end; one that
\* cannot be extracted or converted makes the call raise.
Given(i) ==
    CASE log[i].content.data = "none"              -> End
      [] log[i].content.data \in {"broken", "odd"} -> Other
      [] log[i].content.data \in {"whole", "cut"}  -> [kind |-> "entry", entry |-> Whole(i)]

IsOpen == handle.st = "open"

Init ==
    /\ JournalInit
    /\ handle = Unused
    /\ out = Other

Open ==
    /\ ~IsOpen
    /\ handle' = Opened
    /\ out' \in {out, Other}

Close ==
    /\ handle' = Unused
    /\ out' \in {out, Other}

\* A call that failed, or had no effect on the handle.
Answer ==
    /\ out' = Other
    /\ UNCHANGED handle

GetNext ==
    /\ IsOpen
    /\ \E skip \in (Skips \cup {-s : s \in Skips}) \ {0} :
        \/ /\ NothingThere(handle, skip)
           /\ out' = End
           /\ UNCHANGED handle
        \/ \E i \in DOMAIN log :
            /\ LandsAt(handle, skip, i)
            /\ handle' = [handle EXCEPT !.loc = Loc("discrete", i)]
            /\ out' = Given(i)

Seek ==
    /\ IsOpen
    /\ \E loc \in Locs : handle' = [handle EXCEPT !.loc = loc]
    /\ out' = Other

\* add_match() adds what comes before the first match that is refused.
AddMatch ==
    /\ IsOpen
    /\ \E args \in MatchArgs :
        LET good == {k \in DOMAIN args : \A n \in 1 .. k : args[n] # BadMatch}
        IN  handle' = [handle EXCEPT !.filter = WithMatches(@, {args[k] : k \in good})]
    /\ out' \in {out, Other}

\* log_level() adds a match for every priority up to the level.
LogLevel ==
    /\ IsOpen
    /\ \E level \in Levels \cap (0 .. 7) :
        handle' = [handle EXCEPT !.filter = WithMatches(@, {"PRIORITY"} \X (0 .. level))]
    /\ out' \in {out, Other}

Refilter ==
    /\ IsOpen
    /\ \E filter \in {WithDisjunction(handle.filter), WithConjunction(handle.filter), NoFilter} :
        handle' = [handle EXCEPT !.filter = filter]
    /\ out' = Other

\* query_unique() leaves its field in the handle, and nothing else changes.
Query ==
    /\ IsOpen
    /\ \E field \in FieldNames : handle' = [handle EXCEPT !.unique = field]
    /\ out' = out

Update ==
    /\ IsOpen
    /\ handle' \in {Watched(handle), Processed(handle)}
    /\ out' = Other

Next ==
    \/ Journald /\ UNCHANGED <<handle, out>>
    \/ /\ Open \/ Close \/ Answer \/ GetNext \/ Seek \/ AddMatch \/ LogLevel \/ Refilter
          \/ Query \/ Update
       /\ UNCHANGED <<log, disk>>

Spec == Init /\ [][Next]_vars
==============================================================================
