----------------------------- MODULE LoginMonitor -----------------------------
(* systemd.login: the lists of seats, sessions, users and machines, and the    *)
(* Monitor object that tells when one of them changes (systemd/login.c).       *)
(*                                                                             *)
(* Only __init__() and flush() release the GIL, and __init__() has             *)
(* sd_login_monitor_new() write self->monitor while it is released.  flush()   *)
(* is two steps, which capture self->monitor and use it; __init__() is three:  *)
(* the call, the store, the return.  close() is two statements, between which  *)
(* nobody else has the GIL.  All other calls are one step of their thread.     *)
EXTENDS Integers

CONSTANTS
    Threads,       \* the actors that share a Monitor
    Calls,         \* the methods each of them calls
    Kinds,         \* what logind and machined keep: "seat", "session", "uid", "machine"
    Names,         \* the names of each kind
    BadName,       \* one of them that is not UTF-8
    MaxMonitors,   \* bound on the monitors opened by one object
    MaxChanges     \* bound on the changes of logind and machined

ASSUME LoginAssumption ==
    /\ Threads # {}
    /\ BadName \in Names
    /\ MaxMonitors \in Nat \ {0} /\ MaxChanges \in Nat

VARIABLES
    host,          \* the build and the interpreter: they never change
    world,         \* the names of each kind there are
    changes,       \* how often they have changed
    monitor,       \* self->monitor
    lib,           \* libsystemd's monitors
    pc,            \* where each actor is in its call
    held,          \* the monitor that flush() captured
    category,      \* the argument of __init__()
    ret,           \* what the last call of each actor returned or raised
    ub             \* the ways in which a freed monitor was used

objectVars == <<host, monitor, pc, held, category, ret, ub>>
loginVars == <<host, world, changes, monitor, lib, pc, held, category, ret, ub>>

NULL == 0
MonitorIds == 1 .. MaxMonitors
Any == "any"                   \* category=None
Categories == Kinds \cup {Any, "unknown"}

\* asserts: assert() is compiled in (no NDEBUG).  overlap: the actors are threads;
\* if not, they are one thread and its signal handlers.
Hosts == [asserts : BOOLEAN, overlap : BOOLEAN]

\* crossed: it was stored while a close() was between its two statements.
Monitors ==
    [st : {"unused", "open", "freed"}, watches : SUBSET Kinds, pending : BOOLEAN,
     crossed : BOOLEAN]
Unused == [st |-> "unused", watches |-> {}, pending |-> FALSE, crossed |-> FALSE]

\* The places inside a call, where others may be at work.
Inside == {"new", "opened", "flush", "closing"}

\* set_error() without a message for -EINVAL.
Errors == {"OSError", "MemoryError"}
Answers == {"none", "None", "int", "list", "ValueError", "TypeError"} \cup Errors
Results == [answer : Answers, names : SUBSET Names]
Plain(answer) == [answer |-> answer, names |-> {}]

------------------------------------------------------------------------------
(* logind, machined and libsystemd *)

\* What a category watches; None watches everything.
Watches(c) == IF c = Any THEN Kinds ELSE {c}

\* A name appears or goes; the kernel tells the monitors in the same instant.
Change(kind, name) ==
    /\ changes < MaxChanges
    /\ changes' = changes + 1
    /\ world' = [world EXCEPT ![kind] = IF name \in @ THEN @ \ {name} ELSE @ \cup {name}]
    /\ lib' = [h \in MonitorIds |->
        IF lib[h].st = "open" /\ kind \in lib[h].watches
        THEN [lib[h] EXCEPT !.pending = TRUE] ELSE lib[h]]
    /\ UNCHANGED objectVars

------------------------------------------------------------------------------
Idle(t) == pc[t] = "idle"

\* Fault: signal handlers run while a call is inside libsystemd.
Interrupts(t) == TRUE

\* Nobody else is at work in the thread of t: a signal handler returns to the
\* call that it interrupted.
Alone(t) == host.overlap \/ \A u \in Threads \ {t} : pc[u] \notin Inside

\* t has the GIL, which a close() keeps until it is over.
Runs(t) == Alone(t) /\ \A u \in Threads \ {t} : pc[u] # "closing"

\* A call on self->monitor under the GIL: undefined when it was freed.
Touch == ub' = IF monitor # NULL /\ lib[monitor].st # "open" THEN ub \cup {"stale"} ELSE ub

Ends(t, r) ==
    /\ pc' = [pc EXCEPT ![t] = "idle"]
    /\ ret' = [ret EXCEPT ![t] = r]
    /\ UNCHANGED <<host, held, category>>

\* Monitor.__init__.  A client calls it once for an object, or after close(); one
\* that calls "reinit" also on an open Monitor.
New(t, c) ==
    /\ "new" \in Calls[t] /\ Idle(t) /\ Runs(t)
    /\ monitor = NULL \/ "reinit" \in Calls[t]
    /\ pc' = [pc EXCEPT ![t] = "new"]
    /\ category' = [category EXCEPT ![t] = c]
    /\ UNCHANGED <<host, world, changes, monitor, lib, held, ret, ub>>

\* sd_login_monitor_new(category, &self->monitor)
NewStores(t) ==
    /\ pc[t] = "new" /\ Alone(t) /\ category[t] # "unknown"
    /\ \E h \in MonitorIds :
        /\ lib[h].st = "unused" /\ \A k \in 1 .. h - 1 : lib[k].st # "unused"
        /\ monitor' = h
        /\ lib' = [lib EXCEPT ![h] =
            [st |-> "open", watches |-> Watches(category[t]), pending |-> FALSE,
             crossed |-> \E u \in Threads : pc[u] = "closing"]]
    /\ pc' = [pc EXCEPT ![t] = "opened"]
    /\ UNCHANGED <<host, world, changes, held, category, ret, ub>>

NewReturns(t) ==
    /\ pc[t] = "opened" /\ Runs(t)
    /\ Ends(t, Plain("None"))
    /\ UNCHANGED <<world, changes, monitor, lib, ub>>

\* Fault: the error code is left in self->monitor.
NewFailsBadly(t) ==
    /\ pc[t] = "new" /\ Runs(t)
    /\ monitor' = -22
    /\ Ends(t, Plain("OSError"))
    /\ UNCHANGED <<world, changes, lib, ub>>

\* Bad arguments, "Invalid category", or another error of sd_login_monitor_new().
NewFails(t) ==
    /\ pc[t] = "new" /\ Runs(t)
    /\ \E e \in IF category[t] = "unknown" THEN {"ValueError"} ELSE {"TypeError"} \cup Errors :
        Ends(t, Plain(e))
    /\ UNCHANGED <<world, changes, monitor, lib, ub>>

\* sd_login_monitor_unref(self->monitor), which accepts NULL.
Frees ==
    /\ lib' = [h \in MonitorIds |-> IF h = monitor THEN [Unused EXCEPT !.st = "freed"] ELSE lib[h]]
    /\ Touch

\* Fault: the monitor is only forgotten.
ClosesForgetting(t) ==
    /\ Idle(t) /\ Runs(t)
    /\ pc' = [pc EXCEPT ![t] = "closing"]
    /\ UNCHANGED <<host, world, changes, monitor, lib, held, category, ret, ub>>

\* Monitor_close(): the monitor is freed ...
Closes(t) ==
    /\ Idle(t) /\ Runs(t)
    /\ Frees
    /\ pc' = [pc EXCEPT ![t] = "closing"]
    /\ UNCHANGED <<host, world, changes, monitor, held, category, ret>>

\* Fault: self->monitor is not reset.
ClosesKeepingPointer(t) ==
    /\ pc[t] = "closing" /\ Runs(t)
    /\ Ends(t, Plain("None"))
    /\ UNCHANGED <<world, changes, monitor, lib, ub>>

\* ... and then whatever self->monitor refers to is forgotten.
CloseClears(t) ==
    /\ pc[t] = "closing" /\ Runs(t)
    /\ monitor' = NULL
    /\ Ends(t, Plain("None"))
    /\ UNCHANGED <<world, changes, lib, ub>>

Close(t) == "close" \in Calls[t] /\ Closes(t)

\* __exit__ hands its arguments on to close(), which asserts that it has none.
Exit(t) ==
    /\ "exit" \in Calls[t]
    /\ \/ ~host.asserts /\ Closes(t)
       \/ /\ host.asserts /\ Idle(t) /\ Runs(t)
          /\ pc' = [u \in Threads |-> "aborted"]
          /\ UNCHANGED <<host, world, changes, monitor, lib, held, category, ret, ub>>

\* Monitor_dealloc, once no frame refers to the object.
Dealloc ==
    /\ \E t \in Threads : "dealloc" \in Calls[t]
    /\ \A t \in Threads : Idle(t)
    /\ Frees
    /\ pc' = [t \in Threads |-> "gone"]
    /\ UNCHANGED <<host, world, changes, monitor, held, category, ret>>

\* fileno(), get_events(), get_timeout(), get_timeout_ms(): one question each.
\* Only get_timeout() may answer None, for no timeout.
Asks(t) ==
    /\ "ask" \in Calls[t] /\ Idle(t) /\ Runs(t)
    /\ \E a \in IF monitor = NULL THEN {"OSError"} ELSE {"int", "None"} \cup Errors :
        Ends(t, Plain(a))
    /\ Touch
    /\ UNCHANGED <<world, changes, monitor, lib>>

Flush(t) ==
    /\ "flush" \in Calls[t] /\ Idle(t) /\ Runs(t)
    /\ pc' = [pc EXCEPT ![t] = "flush"]
    /\ held' = [held EXCEPT ![t] = monitor]
    /\ UNCHANGED <<host, world, changes, monitor, lib, category, ret, ub>>

\* Fault: the wakeup state is left as it is.
FlushesNothing(t) ==
    /\ pc[t] = "flush" /\ Runs(t) /\ held[t] # NULL /\ lib[held[t]].st = "open"
    /\ Ends(t, Plain("None"))
    /\ UNCHANGED <<world, changes, monitor, lib, ub>>

\* libsystemd reads the events until there are none.
FlushReturns(t) ==
    /\ pc[t] = "flush" /\ Runs(t) /\ held[t] # NULL /\ lib[held[t]].st = "open"
    /\ lib' = [lib EXCEPT ![held[t]].pending = FALSE]
    /\ Ends(t, Plain("None"))
    /\ UNCHANGED <<world, changes, monitor, ub>>

\* What it returns is not looked at: neither an error nor -EINVAL for NULL.
FlushFails(t) ==
    /\ pc[t] = "flush" /\ Runs(t)
    /\ held[t] = NULL \/ lib[held[t]].st = "open"
    /\ Ends(t, Plain("None"))
    /\ UNCHANGED <<world, changes, monitor, lib, ub>>

\* The monitor was freed under it.
FlushFreed(t) ==
    /\ pc[t] = "flush" /\ Runs(t) /\ held[t] # NULL /\ lib[held[t]].st = "freed"
    /\ ub' = ub \cup {"raced"}
    /\ Ends(t, Plain("None"))
    /\ UNCHANGED <<world, changes, monitor, lib>>

\* Fault: the loop ends before it reaches the first name.
CopiedButOne(names) == names \ {n \in names : n = CHOOSE first \in names : TRUE}

\* for (r--; r >= 0; r--): every item of the vector goes into the list.
Copied(names) == names

\* seats(), sessions(), machine_names() and uids() need no Monitor.
Lists(t, kind) ==
    /\ "list" \in Calls[t] /\ Idle(t) /\ Runs(t)
    /\ \/ \E e \in Errors : Ends(t, Plain(e))
       \/ /\ BadName \in world[kind] /\ kind # "uid"
          /\ Ends(t, Plain("ValueError"))
       \/ /\ BadName \notin world[kind] \/ kind = "uid"
          /\ Ends(t, [answer |-> "list", names |-> Copied(world[kind])])
    /\ UNCHANGED <<world, changes, monitor, lib, ub>>

LoginInit ==
    /\ host \in Hosts
    /\ world = [k \in Kinds |-> {}] /\ changes = 0
    /\ monitor = NULL /\ lib = [h \in MonitorIds |-> Unused]
    /\ pc = [t \in Threads |-> "idle"] /\ held = [t \in Threads |-> NULL]
    /\ category = [t \in Threads |-> Any]
    /\ ret = [t \in Threads |-> Plain("none")] /\ ub = {}

Logind == \E kind \in Kinds, name \in Names : Change(kind, name)

Calling(t) ==
    \/ \E c \in Categories : New(t, c)
    \/ Close(t) \/ Exit(t) \/ Asks(t) \/ Flush(t)
    \/ \E kind \in Kinds : Lists(t, kind)

Returning(t) ==
    \/ NewStores(t) \/ NewReturns(t) \/ NewFails(t)
    \/ FlushReturns(t) \/ FlushFails(t) \/ FlushFreed(t)
    \/ CloseClears(t)

LoginNext == Logind \/ Dealloc \/ \E t \in Threads : Calling(t) \/ Returning(t)

LoginSpec == LoginInit /\ [][LoginNext]_loginVars

------------------------------------------------------------------------------
LoginTypeOK ==
    /\ host \in Hosts
    /\ world \in [Kinds -> SUBSET Names] /\ changes \in 0 .. MaxChanges
    /\ monitor \in {NULL} \cup MonitorIds /\ lib \in [MonitorIds -> Monitors]
    /\ pc \in [Threads -> {"idle", "gone", "aborted"} \cup Inside]
    /\ held \in [Threads -> {NULL} \cup MonitorIds]
    /\ category \in [Threads -> Categories]
    /\ ret \in [Threads -> Results] /\ ub \subseteq {"stale", "raced"}

\* close(), __exit__ and the destructor leave no stale pointer behind: no later
\* call follows self->monitor to a monitor that was freed or frees it again, in
\* whichever thread and whatever the build.
NoStaleMonitor == "stale" \notin ub

\* In one thread and its signal handlers no call uses a freed monitor at all:
\* flush(), which releases the GIL, cannot be overtaken by close() there.
NoUseAfterFree == ~host.overlap => ub = {}

\* close() and __exit__ free the one monitor the object refers to (Monitor_close:
\* "Free resources allocated by this Monitor object"): none is forgotten while it
\* is open, but for one that the __init__() of another thread stored between the
\* two statements of a close().
NoMonitorLeak ==
    \A h \in MonitorIds :
        (lib[h].st = "open" /\ monitor # h) => (host.overlap /\ lib[h].crossed)
==============================================================================
