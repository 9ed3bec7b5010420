----------------------------- MODULE LoginClient -----------------------------
(* A client that keeps a list of logind's or machined's up to date with a      *)
(* Monitor.  As in the example of docs/login.rst it opens the Monitor,         *)
(* registers it with select.poll(), asks for the list, calls poll() without a  *)
(* timeout (get_timeout_ms() is always -1) and asks again; before it does, it  *)
(* resets the wakeup state.  Other actors share the Monitor and may close it   *)
(* at any time; the client then opens it once more.                            *)
EXTENDS LoginMonitor

CONSTANTS
    client         \* the actor that polls

VARIABLES
    wants,         \* the kind of names it keeps a list of
    step,          \* the call it makes next
    seen           \* its list, if it could be read

clientVars == <<wants, step, seen>>
watchVars == <<loginVars, clientVars>>

Steps == {"open", "register", "list", "poll", "asleep", "over"}
Unreadable == [answer |-> "ValueError", names |-> {}]

\* Only the client opens the Monitor and resets its wakeup state.
ASSUME ClientAssumption ==
    /\ client \in Threads
    /\ \A t \in Threads \ {client} : Calls[t] \cap {"new", "reinit", "flush"} = {}
    /\ "reinit" \notin Calls[client]

At(s) == step = s /\ Idle(client)
Last == ret[client].answer

\* The first attempt may name a category that does not exist.
Opens ==
    /\ At("open")
    /\ \E c \in {wants, Any} \cup (IF Last = "none" THEN {"unknown"} ELSE {}) : New(client, c)
    /\ step' = "register" /\ UNCHANGED <<wants, seen>>

\* p.register(m, m.get_events()); again, when a question of an open Monitor failed.
Registers ==
    /\ (At("register") /\ Last = "None") \/ (At("list") /\ Last \in Errors /\ monitor # NULL)
    /\ Asks(client)
    /\ step' = "list" /\ UNCHANGED <<wants, seen>>

\* __init__ raised, or somebody closed the Monitor.
StartsAgain ==
    /\ \/ At("register") /\ Last # "None"
       \/ At("list") /\ Last \in Errors /\ monitor = NULL
       \/ At("asleep") /\ monitor = NULL
    /\ step' = "open" /\ UNCHANGED <<loginVars, wants, seen>>

\* After poll() or for the first time; or again, when the last attempt failed.
AsksForList ==
    /\ (At("list") /\ Last \notin Errors) \/ (At("poll") /\ Last \in Errors)
    /\ Lists(client, wants)
    /\ step' = "poll" /\ UNCHANGED <<wants, seen>>

\* p.poll()
Polls ==
    /\ At("poll") /\ Last \notin Errors
    /\ seen' = ret[client]
    /\ step' = "asleep" /\ UNCHANGED <<loginVars, wants>>

\* The descriptor became readable.
Wakes ==
    /\ At("asleep") /\ monitor # NULL /\ lib[monitor].pending
    /\ Flush(client)
    /\ step' = "list" /\ UNCHANGED <<wants, seen>>

Leaves == At("asleep") /\ step' = "over" /\ UNCHANGED <<loginVars, wants, seen>>

ClientGoes == Opens \/ Registers \/ StartsAgain \/ AsksForList \/ Polls \/ Wakes

ClientInit ==
    /\ LoginInit
    /\ wants \in Kinds /\ step = "open" /\ seen = Plain("none")

ClientNext ==
    \/ ClientGoes \/ Leaves
    \/ (step = "over" /\ Dealloc /\ UNCHANGED clientVars)
    \/ (Logind /\ UNCHANGED clientVars)
    \/ \E t \in Threads :
        /\ Returning(t) \/ (t # client /\ (Close(t) \/ Exit(t) \/ Asks(t)))
        /\ UNCHANGED clientVars

\* A step of the client, unless it is a question that libsystemd fails to answer.
ClientSucceeds ==
    \/ Opens \/ StartsAgain \/ Polls \/ Wakes
    \/ Registers /\ (monitor = NULL \/ ret'[client].answer \notin Errors)
    \/ AsksForList /\ ret'[client].answer \notin Errors
    \/ Returning(client) /\ UNCHANGED clientVars

\* The client goes on, libsystemd does not fail for ever, and a close() comes to
\* its second statement.  The GIL is fair: SF, since others may take it to close
\* the Monitor again and again.
ClientSpec ==
    /\ ClientInit /\ [][ClientNext]_watchVars
    /\ SF_watchVars(ClientSucceeds)
    /\ SF_watchVars(NewStores(client) /\ UNCHANGED clientVars)
    /\ SF_watchVars(FlushReturns(client) /\ UNCHANGED clientVars)
    /\ WF_watchVars((\E t \in Threads : CloseClears(t)) /\ UNCHANGED clientVars)

------------------------------------------------------------------------------
TypeOK ==
    /\ LoginTypeOK
    /\ wants \in Kinds /\ step \in Steps /\ seen \in Results

\* What there is to see: a name that is not UTF-8 makes all of them unreadable.
InSight ==
    IF BadName \in world[wants] /\ wants # "uid" THEN Unreadable
    ELSE [answer |-> "list", names |-> world[wants]]

\* While the client sleeps and nothing is there to wake it, its list is what
\* logind has: no change between two of its calls is ever slept through (flush,
\* login.c: "Reset the wakeup state of the monitor object").
SleeperIsCurrent ==
    (step = "asleep" /\ monitor # NULL) =>
        (lib[monitor].st = "open" /\ ~lib[monitor].pending => seen = InSight)

Exhausted == monitor = NULL /\ \A h \in MonitorIds : lib[h].st # "unused"
Aborted == \E t \in Threads : pc[t] = "aborted"

\* When logind comes to rest the client does too: flush() takes away what woke it.
ClientRests == <>[](step \in {"asleep", "over"} \/ Exhausted \/ Aborted)
==============================================================================
