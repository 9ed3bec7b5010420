----------------------------- MODULE LoginProofs -----------------------------
(* Theorems about LoginMonitor and LoginClient, for any number of actors,      *)
(* kinds, names and monitors, for both builds and with or without threads that *)
(* overlap.                                                                    *)
EXTENDS LoginClient, TLAPS

\* What a call that is over leaves in the variables of its actor.
LEMMA EndsTypes ==
    ASSUME LoginTypeOK, NEW t \in Threads, NEW r \in Results, Ends(t, r)
    PROVE  /\ host' \in Hosts /\ held' \in [Threads -> {NULL} \cup MonitorIds]
           /\ pc' \in [Threads -> {"idle", "gone", "aborted"} \cup Inside]
           /\ category' \in [Threads -> Categories] /\ ret' \in [Threads -> Results]
BY DEF LoginTypeOK, Ends

\* The results without names.
LEMMA PlainTypes == \A a \in Answers : Plain(a) \in Results
BY DEF Plain, Results

\* The monitors and ub after the Monitor's was freed.
LEMMA FreesTypes ==
    ASSUME LoginTypeOK, Frees
    PROVE  lib' \in [MonitorIds -> Monitors] /\ ub' \subseteq {"stale", "raced"}
BY DEF LoginTypeOK, Frees, Touch, Unused, Monitors

LEMMA InitTypes == LoginInit => LoginTypeOK
<1> SUFFICES ASSUME LoginInit PROVE LoginTypeOK
    OBVIOUS
<1>1. Plain("none") \in Results
    BY PlainTypes DEF Answers
<1> QED
    BY <1>1, LoginAssumption
    DEF LoginInit, LoginTypeOK, Unused, Monitors, Categories, MonitorIds

\* Every step keeps the state well formed.
LEMMA LoginTypes ==
    ASSUME LoginTypeOK, [LoginNext]_loginVars
    PROVE  LoginTypeOK'
<1>0. \A a \in {"None", "int", "list", "OSError", "ValueError", "TypeError", "MemoryError"} :
        Plain(a) \in Results
    BY PlainTypes DEF Answers, Errors
<1>a. Touch => ub' \subseteq {"stale", "raced"}
    BY DEF Touch, LoginTypeOK
<1>1. ASSUME NEW kind \in Kinds, NEW name \in Names, Change(kind, name)
      PROVE  LoginTypeOK'
    <2>1. lib' \in [MonitorIds -> Monitors]
        BY <1>1 DEF Change, LoginTypeOK, Monitors
    <2>2. changes' \in 0 .. MaxChanges
        BY <1>1, LoginAssumption DEF Change, LoginTypeOK
    <2>3. world' \in [Kinds -> SUBSET Names]
        BY <1>1 DEF Change, LoginTypeOK
    <2> QED
        BY <1>1, <2>1, <2>2, <2>3 DEF Change, objectVars, LoginTypeOK
<1>2. CASE Dealloc
    BY <1>2, FreesTypes DEF Dealloc, LoginTypeOK
<1>3. ASSUME NEW t \in Threads, NEW c \in Categories, New(t, c) PROVE LoginTypeOK'
    BY <1>3 DEF New, LoginTypeOK, Inside
<1>4. ASSUME NEW t \in Threads, Closes(t) PROVE LoginTypeOK'
    BY <1>4, FreesTypes DEF Closes, LoginTypeOK, Inside
<1>5. ASSUME NEW t \in Threads, Exit(t) PROVE LoginTypeOK'
    BY <1>4, <1>5 DEF Exit, LoginTypeOK
<1>6. ASSUME NEW t \in Threads, Asks(t) PROVE LoginTypeOK'
    <2>1. PICK a \in {"OSError", "MemoryError", "int", "None"} : Ends(t, Plain(a))
        BY <1>6 DEF Asks, Errors
    <2> QED
        BY <1>0, <1>6, <1>a, <2>1, EndsTypes DEF Asks, LoginTypeOK
<1>7. ASSUME NEW t \in Threads, Flush(t) PROVE LoginTypeOK'
    BY <1>7 DEF Flush, LoginTypeOK, Inside
<1>8. ASSUME NEW t \in Threads, NEW kind \in Kinds, Lists(t, kind) PROVE LoginTypeOK'
    <2>1. [answer |-> "list", names |-> Copied(world[kind])] \in Results
        BY DEF Copied, Results, Answers, LoginTypeOK
    <2>2. PICK r \in Results : Ends(t, r)
        BY <1>0, <1>8, <2>1 DEF Lists, Errors
    <2> QED
        BY <1>8, <2>2, EndsTypes DEF Lists, LoginTypeOK
<1>9. ASSUME NEW t \in Threads, NewStores(t) PROVE LoginTypeOK'
    <2>1. Watches(category[t]) \in SUBSET Kinds
        BY <1>9 DEF NewStores, Watches, Categories, LoginTypeOK
    <2>2. PICK h \in MonitorIds, c \in BOOLEAN : monitor' = h /\ lib' = [lib EXCEPT ![h] =
            [st |-> "open", watches |-> Watches(category[t]), pending |-> FALSE, crossed |-> c]]
        BY <1>9 DEF NewStores
    <2>3. lib' \in [MonitorIds -> Monitors]
        BY <2>1, <2>2 DEF LoginTypeOK, Monitors
    <2> QED
        BY <1>9, <2>2, <2>3 DEF NewStores, LoginTypeOK, Inside
<1>10. ASSUME NEW t \in Threads, NewFails(t) PROVE LoginTypeOK'
    <2>1. PICK e \in {"ValueError", "TypeError", "OSError", "MemoryError"} : Ends(t, Plain(e))
        BY <1>10 DEF NewFails, Errors
    <2> QED
        BY <1>0, <1>10, <2>1, EndsTypes DEF NewFails, LoginTypeOK
<1>11. ASSUME NEW t \in Threads, FlushReturns(t) PROVE LoginTypeOK'
    <2>1. lib' \in [MonitorIds -> Monitors]
        BY <1>11, ZenonT(30) DEF FlushReturns, LoginTypeOK, Monitors
    <2> QED
        BY <1>0, <1>11, <2>1, EndsTypes DEF FlushReturns, LoginTypeOK
<1>12. ASSUME NEW t \in Threads,
              NewReturns(t) \/ FlushFails(t) \/ FlushFreed(t) \/ CloseClears(t)
       PROVE  LoginTypeOK'
    BY <1>0, <1>12, EndsTypes DEF NewReturns, FlushFails, FlushFreed, CloseClears, LoginTypeOK
<1>13. CASE UNCHANGED loginVars
    BY <1>13 DEF loginVars, LoginTypeOK
<1> QED
    BY <1>1, <1>2, <1>3, <1>4, <1>5, <1>6, <1>7, <1>8, <1>9, <1>10, <1>11, <1>12, <1>13
    DEF LoginNext, Logind, Calling, Returning, Close

------------------------------------------------------------------------------
(* While anybody can still call the Monitor, self->monitor is NULL or open, or *)
(* close() is between its statements, which it is in one actor at most.        *)
(* Without overlap one actor at most is inside a call, and the monitor it      *)
(* flushes is still the Monitor's.                                             *)

Closing == \E t \in Threads : pc[t] = "closing"
GoneTogether == (\E t \in Threads : pc[t] = "gone") => (\A t \in Threads : pc[t] = "gone")
PointerOpen ==
    ((\E t \in Threads : pc[t] # "gone") /\ ~Closing) =>
        (monitor # NULL => lib[monitor].st = "open")
OneCloses == \A t, u \in Threads : (pc[t] = "closing" /\ pc[u] = "closing") => t = u
OneInside ==
    ~host.overlap => \A t, u \in Threads : (pc[t] \in Inside /\ pc[u] \in Inside) => t = u
HeldIsCurrent ==
    ~host.overlap => \A t \in Threads : pc[t] = "flush" => held[t] = monitor

Lives == GoneTogether /\ PointerOpen /\ OneCloses /\ OneInside /\ HeldIsCurrent
PointerInv == LoginTypeOK /\ Lives /\ NoStaleMonitor /\ NoUseAfterFree

LEMMA InitPointer == LoginInit => PointerInv
<1> SUFFICES ASSUME LoginInit PROVE PointerInv
    OBVIOUS
<1>1. \A t \in Threads : pc[t] = "idle"
    BY DEF LoginInit
<1>2. "idle" \notin Inside
    BY DEF Inside
<1> QED
    BY <1>1, <1>2, InitTypes
    DEF LoginInit, PointerInv, Lives, GoneTogether, PointerOpen, OneCloses, OneInside,
        HeldIsCurrent, NoStaleMonitor, NoUseAfterFree

\* A step of an actor that is at work leaves all parts true if it keeps the
\* status of the monitors and self->monitor.
Quiet(t) ==
    /\ pc[t] \notin {"gone", "closing"} /\ Runs(t) /\ host' = host /\ monitor' = monitor
    /\ \E where \in {"idle", "new", "flush"} : pc' = [pc EXCEPT ![t] = where]
    /\ \A u \in Threads \ {t} : held'[u] = held[u]
    /\ pc'[t] = "flush" => held'[t] = monitor
    /\ \A h \in MonitorIds : lib'[h].st = lib[h].st
    /\ \/ ub' = ub
       \/ Touch
       \/ /\ pc[t] = "flush" /\ held[t] # NULL /\ lib[held[t]].st = "freed"
          /\ ub' = ub \cup {"raced"}

LEMMA QuietSteps ==
    ASSUME LoginTypeOK, NEW t \in Threads,
           \/ \E c \in Categories : New(t, c)
           \/ Asks(t) \/ Flush(t) \/ \E kind \in Kinds : Lists(t, kind)
           \/ NewReturns(t) \/ NewFails(t)
           \/ FlushReturns(t) \/ FlushFails(t) \/ FlushFreed(t)
    PROVE  Quiet(t)
<1> USE DEF LoginTypeOK
<1>1. ASSUME NEW r, Ends(t, r), pc[t] \notin {"gone", "closing"}, Runs(t), monitor' = monitor, ub' = ub \/ Touch,
             \A h \in MonitorIds : lib'[h].st = lib[h].st
      PROVE  Quiet(t)
    BY <1>1 DEF Ends, Quiet
<1>2. ASSUME NEW c \in Categories, New(t, c) PROVE Quiet(t)
    BY <1>2 DEF New, Idle, Quiet
<1>3. CASE Asks(t)
    <2>1. \E r : Ends(t, r)
        BY <1>3 DEF Asks
    <2> QED
        BY <1>1, <1>3, <2>1 DEF Asks, Idle
<1>4. CASE Flush(t)
    BY <1>4 DEF Flush, Idle, Quiet
<1>5. ASSUME NEW kind \in Kinds, Lists(t, kind) PROVE Quiet(t)
    <2>1. \E r : Ends(t, r)
        BY <1>5 DEF Lists
    <2> QED
        BY <1>1, <1>5, <2>1 DEF Lists, Idle
<1>6. CASE NewReturns(t) \/ NewFails(t)
    <2>1. \E r : Ends(t, r)
        BY <1>6 DEF NewReturns, NewFails
    <2> QED
        BY <1>1, <1>6, <2>1 DEF NewReturns, NewFails
<1>7. CASE FlushReturns(t)
    <2>1. \A h \in MonitorIds : lib'[h].st = lib[h].st
        BY <1>7 DEF FlushReturns, Monitors
    <2> QED
        BY <1>1, <1>7, <2>1 DEF FlushReturns
<1>8. CASE FlushFails(t)
    BY <1>1, <1>8 DEF FlushFails
<1>9. CASE FlushFreed(t)
    BY <1>9 DEF FlushFreed, Ends, Quiet
<1> QED
    BY <1>2, <1>3, <1>4, <1>5, <1>6, <1>7, <1>8, <1>9

LEMMA NextPointer ==
    ASSUME PointerInv, [LoginNext]_loginVars
    PROVE  PointerInv'
<1>a. /\ LoginTypeOK /\ LoginTypeOK' /\ NoStaleMonitor /\ NoUseAfterFree
      /\ GoneTogether /\ PointerOpen /\ OneCloses /\ OneInside /\ HeldIsCurrent
    BY LoginTypes DEF PointerInv, Lives
<1>b. /\ pc \in [Threads -> {"idle", "gone", "aborted"} \cup Inside]
      /\ monitor \in {NULL} \cup MonitorIds /\ lib \in [MonitorIds -> Monitors]
      /\ held \in [Threads -> {NULL} \cup MonitorIds]
    BY <1>a DEF LoginTypeOK
<1>c. /\ "idle" \notin Inside /\ "gone" \notin Inside /\ "aborted" \notin Inside
      /\ Inside = {"new", "opened", "flush", "closing"}
    BY DEF Inside
<1>d. ASSUME NEW t \in Threads, Alone(t), ~host.overlap
      PROVE  \A u \in Threads \ {t} : pc[u] \notin Inside
    BY <1>d DEF Alone
<1>e. ASSUME NEW t \in Threads, Runs(t)
      PROVE  Alone(t) /\ \A u \in Threads \ {t} : pc[u] # "closing"
    BY <1>e DEF Runs
<1> DEFINE Rest == Lives /\ NoStaleMonitor /\ NoUseAfterFree
<1> USE DEF Lives, Closing
<1>1. ASSUME NEW kind \in Kinds, NEW name \in Names, Change(kind, name) PROVE Rest'
    <2>1. \A h \in MonitorIds : lib'[h].st = lib[h].st
        BY <1>1, <1>b DEF Change, Monitors
    <2>2. UNCHANGED <<host, monitor, pc, held, ub>>
        BY <1>1 DEF Change, objectVars
    <2>3. monitor # NULL => lib'[monitor].st = lib[monitor].st
        BY <1>b, <2>1
    <2> QED
        BY <1>a, <2>2, <2>3
        DEF GoneTogether, PointerOpen, OneCloses, OneInside, HeldIsCurrent,
            NoStaleMonitor, NoUseAfterFree
<1>2. ASSUME UNCHANGED loginVars PROVE Rest'
    BY <1>2, <1>a DEF loginVars, GoneTogether, PointerOpen, OneCloses, OneInside,
        HeldIsCurrent, NoStaleMonitor, NoUseAfterFree
<1>3. ASSUME Dealloc PROVE Rest'
    <2>1. (\E t \in Threads : pc[t] # "gone") /\ ~Closing
        BY <1>3, LoginAssumption DEF Dealloc, Idle
    <2>2. ub' = ub
        BY <1>3, <1>a, <2>1 DEF Dealloc, Frees, Touch, PointerOpen
    <2>3. \A u \in Threads : pc'[u] = "gone"
        BY <1>3 DEF Dealloc
    <2>4. host' = host
        BY <1>3 DEF Dealloc
    <2> QED
        BY <1>a, <1>c, <2>2, <2>3, <2>4
        DEF GoneTogether, PointerOpen, OneCloses, OneInside, HeldIsCurrent,
            NoStaleMonitor, NoUseAfterFree
<1>4. ASSUME NEW t \in Threads, Closes(t) PROVE Rest'
    <2>1. /\ Runs(t) /\ pc[t] = "idle" /\ pc' = [pc EXCEPT ![t] = "closing"]
          /\ host' = host /\ held' = held /\ monitor' = monitor
        BY <1>4 DEF Closes, Idle
    <2>2. \A u \in Threads : pc[u] # "closing"
        BY <1>e, <2>1
    <2>3. ub' = ub
        BY <1>4, <1>a, <2>1, <2>2 DEF Closes, Frees, Touch, PointerOpen
    <2>4. \A u \in Threads : pc'[u] # "gone" /\ (pc'[u] = "closing" <=> u = t)
        BY <1>a, <1>b, <2>1, <2>2 DEF GoneTogether
    <2>5. ~host.overlap => \A u \in Threads \ {t} : pc'[u] \notin Inside
        BY <1>b, <1>d, <1>e, <2>1
    <2> QED
        BY <1>a, <1>c, <2>1, <2>3, <2>4, <2>5
        DEF GoneTogether, PointerOpen, OneCloses, OneInside, HeldIsCurrent,
            NoStaleMonitor, NoUseAfterFree
<1>5. ASSUME NEW t \in Threads, CloseClears(t) PROVE Rest'
    <2>1. /\ Runs(t) /\ pc[t] = "closing" /\ pc' = [pc EXCEPT ![t] = "idle"]
          /\ host' = host /\ held' = held /\ monitor' = NULL /\ ub' = ub
        BY <1>5 DEF CloseClears, Ends
    <2>2. \A u \in Threads : pc'[u] # "gone" /\ pc'[u] # "closing"
        BY <1>a, <1>b, <1>e, <2>1 DEF GoneTogether
    <2>3. ~host.overlap => \A u \in Threads : pc'[u] \notin Inside
        BY <1>b, <1>c, <1>d, <1>e, <2>1
    <2> QED
        BY <1>a, <1>c, <2>1, <2>2, <2>3
        DEF GoneTogether, PointerOpen, OneCloses, OneInside, HeldIsCurrent,
            NoStaleMonitor, NoUseAfterFree
<1>6. ASSUME NEW t \in Threads, NewStores(t) PROVE Rest'
    <2>1. /\ Alone(t) /\ pc[t] = "new" /\ pc' = [pc EXCEPT ![t] = "opened"]
          /\ host' = host /\ held' = held /\ ub' = ub
        BY <1>6 DEF NewStores
    <2>2. lib'[monitor'].st = "open"
        <3>1. PICK h \in MonitorIds, c \in BOOLEAN : monitor' = h /\ lib' = [lib EXCEPT ![h] =
                [st |-> "open", watches |-> Watches(category[t]), pending |-> FALSE,
                 crossed |-> c]]
            BY <1>6 DEF NewStores
        <3> QED
            BY <1>b, <3>1
    <2>3. \A u \in Threads : pc'[u] # "gone" /\ (pc'[u] = "closing" <=> pc[u] = "closing")
        BY <1>a, <1>b, <2>1 DEF GoneTogether
    <2>4. ~host.overlap => \A u \in Threads \ {t} : pc'[u] \notin Inside
        BY <1>b, <1>d, <2>1
    <2>5. pc'[t] # "flush"
        BY <1>b, <2>1
    <2> QED
        BY <1>a, <1>c, <2>1, <2>2, <2>3, <2>4, <2>5
        DEF GoneTogether, PointerOpen, OneCloses, OneInside, HeldIsCurrent,
            NoStaleMonitor, NoUseAfterFree
<1>7. ASSUME NEW t \in Threads, Exit(t) PROVE Rest'
    <2>1. CASE ~host.asserts
        BY <1>4, <1>7, <2>1 DEF Exit
    <2>2. CASE host.asserts
        <3>1. /\ \A u \in Threads : pc'[u] = "aborted"
              /\ UNCHANGED <<host, monitor, lib, held, ub>> /\ pc[t] = "idle" /\ Runs(t)
            BY <1>7, <2>2 DEF Exit, Idle
        <3>2. \A u \in Threads : pc[u] # "closing"
            BY <1>e, <3>1
        <3> QED
            BY <1>a, <1>c, <3>1, <3>2
            DEF GoneTogether, PointerOpen, OneCloses, OneInside, HeldIsCurrent,
                NoStaleMonitor, NoUseAfterFree
    <2> QED
        BY <1>7, <2>1, <2>2 DEF Exit
<1>8. ASSUME NEW t \in Threads, Quiet(t) PROVE Rest'
    <2>1. /\ pc[t] \notin {"gone", "closing"} /\ Runs(t) /\ host' = host /\ monitor' = monitor
          /\ \A h \in MonitorIds : lib'[h].st = lib[h].st
        BY <1>8 DEF Quiet
    <2>2. \A u \in Threads :
            pc[u] \notin {"gone", "closing"} /\ pc'[u] \notin {"gone", "closing"}
        BY <1>8, <1>a, <1>b, <1>e DEF Quiet, GoneTogether
    <2>3. monitor # NULL => lib[monitor].st = "open" /\ lib'[monitor].st = "open"
        BY <1>a, <1>b, <2>1, <2>2 DEF PointerOpen
    <2>4. \A u \in Threads \ {t} : pc'[u] = pc[u] /\ held'[u] = held[u]
        BY <1>8, <1>b DEF Quiet
    <2>5. GoneTogether' /\ PointerOpen' /\ OneCloses'
        BY <2>1, <2>2, <2>3 DEF GoneTogether, PointerOpen, OneCloses
    <2>6. OneInside' /\ HeldIsCurrent'
        BY <1>8, <1>c, <1>d, <1>e, <2>1, <2>4 DEF Quiet, OneInside, HeldIsCurrent
    <2>7. NoStaleMonitor' /\ NoUseAfterFree'
        BY <1>8, <1>a, <2>1, <2>3 DEF Quiet, Touch, HeldIsCurrent, NoStaleMonitor, NoUseAfterFree
    <2> QED
        BY <2>5, <2>6, <2>7
<1>9. ASSUME NEW t \in Threads, Calling(t) \/ Returning(t) PROVE Rest'
    BY <1>4, <1>5, <1>6, <1>7, <1>8, <1>9, <1>a, QuietSteps DEF Calling, Returning, Close
<1> QED
    BY <1>1, <1>2, <1>3, <1>9, <1>a DEF LoginNext, Logind, PointerInv

\* No call follows self->monitor to a freed monitor, however many actors share it.
THEOREM MonitorNeverStale == LoginSpec => []NoStaleMonitor
<1>1. PointerInv => NoStaleMonitor
    BY DEF PointerInv
<1>2. PointerInv /\ [LoginNext]_loginVars => PointerInv'
    BY NextPointer
<1> QED
    BY <1>1, <1>2, InitPointer, PTL DEF LoginSpec

\* In one thread and its signal handlers no call uses a freed monitor.
THEOREM MonitorNeverFreedInUse == LoginSpec => []NoUseAfterFree
<1>1. PointerInv => NoUseAfterFree
    BY DEF PointerInv
<1>2. PointerInv /\ [LoginNext]_loginVars => PointerInv'
    BY NextPointer
<1> QED
    BY <1>1, <1>2, InitPointer, PTL DEF LoginSpec

------------------------------------------------------------------------------
(* The client.  It alone opens and flushes the Monitor, so that the monitor it *)
(* has watches what it wants, and a list it was given and has not looked at    *)
(* yet is current or will wake it.                                             *)

OthersOutside == \A t \in Threads \ {client} : pc[t] \notin {"new", "opened", "flush"}
OpensWhenClosed ==
    pc[client] = "new" => monitor = NULL /\ category[client] \in {wants, Any, "unknown"}
OpensThenRegisters == pc[client] \in {"new", "opened"} => step = "register"
FlushesThenLists == pc[client] = "flush" => step = "list"
WatchesWanted ==
    monitor # NULL => (lib[monitor].st = "open" => wants \in lib[monitor].watches)
ListIsCurrent ==
    (step = "poll" /\ Last \notin Errors /\ monitor # NULL) =>
        (lib[monitor].st = "open" /\ ~lib[monitor].pending => ret[client] = InSight)

\* A monitor that a close() is about to forget was stored under it.
CrossedIsKnown ==
    (Closing /\ monitor # NULL) =>
        (lib[monitor].st = "open" => lib[monitor].crossed /\ host.overlap)

StaysAlive == step # "over" => pc[client] # "gone"

Follows ==
    /\ StaysAlive /\ OthersOutside /\ OpensWhenClosed /\ OpensThenRegisters
    /\ FlushesThenLists /\ WatchesWanted /\ ListIsCurrent /\ SleeperIsCurrent
    /\ CrossedIsKnown /\ NoMonitorLeak

ClientInv == TypeOK /\ PointerInv /\ Follows

\* What the client does to the Monitor is what any actor may do.
LEMMA ClientSteps ==
    ASSUME TypeOK, [ClientNext]_watchVars
    PROVE  [LoginNext]_loginVars
<1>1. client \in Threads /\ wants \in Kinds
    BY ClientAssumption DEF TypeOK
<1>2. CASE ClientGoes
    <2>1. CASE Opens
        <3>1. PICK c \in {wants, Any, "unknown"} : New(client, c)
            BY <2>1 DEF Opens
        <3>2. c \in Categories
            BY <1>1 DEF Categories
        <3> QED
            BY <1>1, <3>1, <3>2 DEF LoginNext, Calling
    <2>2. CASE Registers \/ AsksForList \/ Wakes
        BY <1>1, <2>2 DEF Registers, AsksForList, Wakes, LoginNext, Calling
    <2>3. CASE StartsAgain \/ Polls
        BY <2>3 DEF StartsAgain, Polls
    <2> QED
        BY <1>2, <2>1, <2>2, <2>3 DEF ClientGoes
<1>3. CASE Leaves
    BY <1>3 DEF Leaves
<1>4. CASE UNCHANGED watchVars
    BY <1>4 DEF watchVars
<1> QED
    BY <1>2, <1>3, <1>4 DEF ClientNext, LoginNext, Calling

LEMMA InitClient == ClientInit => ClientInv
<1> SUFFICES ASSUME ClientInit PROVE ClientInv
    OBVIOUS
<1>1. Plain("none") \in Results
    BY PlainTypes DEF Answers
<1>2. \A t \in Threads : pc[t] = "idle"
    BY DEF ClientInit, LoginInit
<1>3. TypeOK
    BY <1>1, InitTypes DEF ClientInit, TypeOK, Steps
<1>4. Follows
    BY <1>2, ClientAssumption
    DEF ClientInit, LoginInit, Follows, OthersOutside, OpensWhenClosed, OpensThenRegisters,
        FlushesThenLists, WatchesWanted, ListIsCurrent, SleeperIsCurrent, CrossedIsKnown,
        NoMonitorLeak, StaysAlive, Unused
<1> QED
    BY <1>3, <1>4, InitPointer DEF ClientInit, ClientInv

\* A change of what the client wants is pending in its monitor; another one is
\* out of its sight.
LEMMA ChangeFollows ==
    ASSUME ClientInv, Logind, UNCHANGED clientVars
    PROVE  Follows'
<1>1. PICK kind \in Kinds, name \in Names : Change(kind, name)
    BY DEF Logind
<1>2. /\ monitor \in {NULL} \cup MonitorIds /\ lib \in [MonitorIds -> Monitors]
      /\ world \in [Kinds -> SUBSET Names] /\ wants \in Kinds
    BY DEF ClientInv, TypeOK, LoginTypeOK
<1>3. UNCHANGED <<host, monitor, pc, category, ret, step, wants, seen>>
    BY <1>1 DEF Change, objectVars, clientVars
<1>4. \A h \in MonitorIds : /\ lib'[h].st = lib[h].st /\ lib'[h].watches = lib[h].watches
                            /\ lib'[h].crossed = lib[h].crossed
    BY <1>1, <1>2 DEF Change, Monitors
<1>5. WatchesWanted' /\ CrossedIsKnown' /\ NoMonitorLeak'
    BY <1>2, <1>3, <1>4
    DEF ClientInv, Follows, WatchesWanted, CrossedIsKnown, Closing, NoMonitorLeak
<1>6. ASSUME monitor # NULL, lib'[monitor].st = "open", ~lib'[monitor].pending
      PROVE  lib[monitor].st = "open" /\ ~lib[monitor].pending /\ InSight' = InSight
    <2>0. lib[monitor].st = "open"
        BY <1>2, <1>4, <1>6
    <2>1. wants \in lib[monitor].watches
        BY <1>6, <2>0 DEF ClientInv, Follows, WatchesWanted
    <2>2. lib[monitor] \in Monitors /\ monitor \in MonitorIds
        BY <1>2, <1>6
    <2>3. kind # wants
        BY <1>1, <1>6, <2>0, <2>1, <2>2 DEF Change, Monitors
    <2>4. ~lib[monitor].pending
        BY <1>1, <1>6, <2>2 DEF Change, Monitors
    <2>5. world'[wants] = world[wants]
        BY <1>1, <1>2, <2>3 DEF Change
    <2> QED
        BY <1>3, <2>0, <2>4, <2>5 DEF InSight
<1>7. ListIsCurrent' /\ SleeperIsCurrent'
    <2>1. ListIsCurrent /\ SleeperIsCurrent
        BY DEF ClientInv, Follows
    <2> QED
        BY <1>3, <1>6, <2>1 DEF ListIsCurrent, SleeperIsCurrent, Last
<1> QED
    BY <1>3, <1>5, <1>7
    DEF ClientInv, Follows, StaysAlive, OthersOutside, OpensWhenClosed, OpensThenRegisters,
        FlushesThenLists

\* The client's own calls, which are made between two calls of the others.
LEMMA GoesFollows ==
    ASSUME ClientInv, ClientGoes \/ Leaves
    PROVE  Follows'
<1>a. /\ StaysAlive /\ OthersOutside /\ OpensWhenClosed /\ OpensThenRegisters
      /\ FlushesThenLists /\ WatchesWanted /\ ListIsCurrent /\ SleeperIsCurrent
      /\ CrossedIsKnown /\ NoMonitorLeak
    BY DEF ClientInv, Follows
<1>b. /\ client \in Threads /\ "reinit" \notin Calls[client]
      /\ pc \in [Threads -> {"idle", "gone", "aborted"} \cup Inside]
      /\ ret \in [Threads -> Results] /\ category \in [Threads -> Categories]
    BY ClientAssumption DEF ClientInv, TypeOK, LoginTypeOK
<1>d. ASSUME NEW r, Ends(client, r), Idle(client)
      PROVE  /\ pc'[client] = "idle" /\ ret'[client] = r
             /\ \A t \in Threads \ {client} : pc'[t] = pc[t]
    BY <1>b, <1>d DEF Ends
<1> USE DEF Follows, StaysAlive, OthersOutside, OpensWhenClosed, OpensThenRegisters,
        FlushesThenLists, WatchesWanted, ListIsCurrent, SleeperIsCurrent, CrossedIsKnown,
        NoMonitorLeak, Last, Closing
<1>1. CASE Opens
    <2>1. PICK c \in {wants, Any, "unknown"} : New(client, c)
        BY <1>1 DEF Opens
    <2>2. /\ monitor = NULL /\ pc' = [pc EXCEPT ![client] = "new"]
          /\ category' = [category EXCEPT ![client] = c]
          /\ UNCHANGED <<host, monitor, lib>>
        BY <1>b, <2>1 DEF New
    <2>3. step' = "register" /\ UNCHANGED <<wants, seen>>
        BY <1>1 DEF Opens
    <2> QED
        BY <1>a, <1>b, <2>2, <2>3
<1>2. CASE Registers
    <2>1. PICK r : Ends(client, r)
        BY <1>2 DEF Registers, Asks
    <2>2. step' = "list" /\ UNCHANGED <<host, monitor, lib, wants, seen>> /\ Idle(client)
        BY <1>2 DEF Registers, Asks, Ends
    <2> QED
        BY <1>a, <1>d, <2>1, <2>2
<1>3. CASE StartsAgain
    <2>1. /\ step' = "open" /\ pc[client] = "idle"
          /\ UNCHANGED <<host, monitor, lib, pc, wants, seen>>
        BY <1>3 DEF StartsAgain, At, Idle, loginVars
    <2> QED
        BY <1>a, <2>1
<1>4. CASE AsksForList
    <2>1. /\ step' = "poll" /\ UNCHANGED <<host, monitor, lib, world, wants, seen>> /\ Idle(client)
          /\ Lists(client, wants)
        BY <1>4 DEF AsksForList, Lists, Ends
    <2>2. PICK r : Ends(client, r) /\ (r.answer \in Errors \/ r = InSight)
        BY <2>1 DEF Lists, InSight, Unreadable, Plain, Copied, Errors
    <2>3. InSight' = InSight
        BY <2>1 DEF InSight
    <2> QED
        BY <1>a, <1>d, <2>1, <2>2, <2>3
<1>5. CASE Polls
    <2>1. /\ step = "poll" /\ Last \notin Errors /\ step' = "asleep" /\ seen' = ret[client]
          /\ UNCHANGED <<host, monitor, lib, pc, world, wants>> /\ pc[client] = "idle"
        BY <1>5 DEF Polls, At, Idle, loginVars
    <2>2. InSight' = InSight
        BY <2>1 DEF InSight
    <2> QED
        BY <1>a, <2>1, <2>2
<1>6. CASE Wakes
    <2>1. /\ step' = "list" /\ pc' = [pc EXCEPT ![client] = "flush"]
          /\ UNCHANGED <<host, monitor, lib, wants, seen>>
        BY <1>6 DEF Wakes, Flush
    <2> QED
        BY <1>a, <1>b, <2>1
<1>7. CASE Leaves
    <2>1. /\ step' = "over" /\ pc[client] = "idle"
          /\ UNCHANGED <<host, monitor, lib, pc, wants, seen>>
        BY <1>7 DEF Leaves, At, Idle, loginVars
    <2> QED
        BY <1>a, <2>1
<1> QED
    BY <1>1, <1>2, <1>3, <1>4, <1>5, <1>6, <1>7 DEF ClientGoes

\* The returns of its calls, and the calls of the others.
LEMMA ReturnFollows ==
    ASSUME ClientInv, UNCHANGED clientVars,
           \/ Returning(client)
           \/ \E t \in Threads : CloseClears(t)
           \/ \E t \in Threads \ {client} : Closes(t) \/ Exit(t) \/ Asks(t)
    PROVE  Follows'
<1>a. /\ StaysAlive /\ OthersOutside /\ OpensWhenClosed /\ OpensThenRegisters
      /\ FlushesThenLists /\ WatchesWanted /\ ListIsCurrent /\ SleeperIsCurrent
      /\ CrossedIsKnown /\ NoMonitorLeak
    BY DEF ClientInv, Follows
<1>b. /\ client \in Threads
      /\ pc \in [Threads -> {"idle", "gone", "aborted"} \cup Inside]
      /\ ret \in [Threads -> Results] /\ category \in [Threads -> Categories]
      /\ lib \in [MonitorIds -> Monitors] /\ monitor \in {NULL} \cup MonitorIds
      /\ held \in [Threads -> {NULL} \cup MonitorIds] /\ wants \in Kinds
    BY ClientAssumption DEF ClientInv, TypeOK, LoginTypeOK
<1>e. UNCHANGED <<step, wants, seen>>
    BY DEF clientVars
<1> USE DEF Follows, StaysAlive, OthersOutside, OpensWhenClosed, OpensThenRegisters,
        FlushesThenLists, WatchesWanted, ListIsCurrent, SleeperIsCurrent, CrossedIsKnown,
        NoMonitorLeak, Last, Closing
<1>1. CASE NewStores(client)
    <2>1. /\ step = "register" /\ monitor = NULL /\ category[client] \in {wants, Any}
          /\ pc' = [pc EXCEPT ![client] = "opened"] /\ Alone(client) /\ pc[client] = "new"
          /\ host' = host
        BY <1>1, <1>a DEF NewStores
    <2>2. PICK h \in MonitorIds : monitor' = h /\ lib' = [lib EXCEPT ![h] =
            [st |-> "open", watches |-> Watches(category[client]), pending |-> FALSE,
             crossed |-> Closing]]
        BY <1>1 DEF NewStores
    <2>3. wants \in Watches(category[client])
        BY <1>b, <2>1 DEF Watches
    <2>4. lib'[h].st = "open" /\ wants \in lib'[h].watches /\ lib'[h].crossed = Closing
        BY <1>b, <2>2, <2>3
    <2>5. Closing' => Closing /\ host.overlap
        <3>1. \A t \in Threads : pc'[t] = "closing" => (t # client /\ pc[t] = "closing")
            BY <1>b, <2>1
        <3> QED
            BY <2>1, <3>1 DEF Alone, Inside
    <2>6. NoMonitorLeak'
        <3>1. \A k \in MonitorIds \ {h} : lib'[k] = lib[k] /\ monitor # k
            BY <1>b, <2>1, <2>2 DEF NULL, MonitorIds
        <3> QED
            BY <1>a, <2>1, <2>2, <3>1
    <2> QED
        BY <1>a, <1>b, <1>e, <2>1, <2>2, <2>4, <2>5, <2>6
<1>2. CASE NewReturns(client) \/ NewFails(client)
    <2>1. /\ step = "register" /\ UNCHANGED <<host, monitor, lib>>
          /\ pc' = [pc EXCEPT ![client] = "idle"]
        BY <1>2, <1>a DEF NewReturns, NewFails, Ends
    <2> QED
        BY <1>a, <1>b, <1>e, <2>1
<1>3. CASE FlushReturns(client)
    <2>1. /\ step = "list" /\ monitor' = monitor /\ host' = host
          /\ pc' = [pc EXCEPT ![client] = "idle"]
        BY <1>3, <1>a DEF FlushReturns, Ends
    <2>2. \A h \in MonitorIds : /\ lib'[h].st = lib[h].st /\ lib'[h].watches = lib[h].watches
                                /\ lib'[h].crossed = lib[h].crossed
        BY <1>3, <1>b DEF FlushReturns, Monitors
    <2> QED
        BY <1>a, <1>b, <1>e, <2>1, <2>2
<1>4. CASE FlushFails(client) \/ FlushFreed(client)
    <2>1. /\ step = "list" /\ UNCHANGED <<host, monitor, lib>>
          /\ pc' = [pc EXCEPT ![client] = "idle"]
        BY <1>4, <1>a DEF FlushFails, FlushFreed, Ends
    <2> QED
        BY <1>a, <1>b, <1>e, <2>1
<1>5. ASSUME NEW t \in Threads \ {client}, Closes(t) PROVE Follows'
    <2>1. /\ pc' = [pc EXCEPT ![t] = "closing"]
          /\ UNCHANGED <<host, world, monitor, category, ret>>
        BY <1>5 DEF Closes
    <2>2. \A h \in MonitorIds :
            IF h = monitor THEN lib'[h].st = "freed" ELSE lib'[h] = lib[h]
        BY <1>5, <1>a DEF Closes, Frees, Unused
    <2>3. monitor # NULL => lib'[monitor].st = "freed"
        BY <1>b, <2>2
    <2> QED
        BY <1>a, <1>b, <1>e, <2>1, <2>2, <2>3
<1>6. ASSUME NEW t \in Threads, CloseClears(t) PROVE Follows'
    <2>1. /\ pc' = [pc EXCEPT ![t] = "idle"] /\ monitor' = NULL /\ pc[t] = "closing"
          /\ UNCHANGED <<host, world, lib, category>>
        BY <1>6 DEF CloseClears, Ends
    <2>2. NoMonitorLeak'
        BY <1>a, <1>b, <2>1
    <2> QED
        BY <1>a, <1>b, <1>e, <2>1, <2>2
<1>7. ASSUME NEW t \in Threads \ {client}, Exit(t) PROVE Follows'
    <2>1. CASE ~host.asserts
        BY <1>5, <1>7, <2>1 DEF Exit
    <2>2. CASE host.asserts
        <3>1. /\ \A u \in Threads : pc'[u] = "aborted"
              /\ UNCHANGED <<host, world, monitor, lib, category, ret>>
            BY <1>7, <2>2 DEF Exit
        <3>2. InSight' = InSight
            BY <1>e, <3>1 DEF InSight
        <3> QED
            BY <1>a, <1>b, <1>e, <3>1, <3>2
    <2> QED
        BY <1>7, <2>1, <2>2 DEF Exit
<1>8. ASSUME NEW t \in Threads \ {client}, Asks(t) PROVE Follows'
    <2>1. /\ \A u \in Threads : pc'[u] = IF u = t THEN "idle" ELSE pc[u]
          /\ UNCHANGED <<host, world, monitor, lib, category>> /\ ret'[client] = ret[client]
        BY <1>8, <1>b DEF Asks, Ends
    <2>2. InSight' = InSight
        BY <1>e, <2>1 DEF InSight
    <2> QED
        BY <1>a, <1>b, <1>e, <2>1, <2>2
<1> QED
    BY <1>b, <1>1, <1>2, <1>3, <1>4, <1>5, <1>6, <1>7, <1>8 DEF Returning

LEMMA NextClient == ClientInv /\ [ClientNext]_watchVars => ClientInv'
<1> SUFFICES ASSUME ClientInv, [ClientNext]_watchVars PROVE ClientInv'
    OBVIOUS
<1>1. PointerInv' /\ LoginTypeOK'
    BY ClientSteps, NextPointer DEF ClientInv, PointerInv
<1>2. wants' \in Kinds /\ step' \in Steps /\ seen' \in Results
    <2>1. CASE ClientGoes \/ Leaves
        BY <2>1, ClientAssumption
        DEF ClientInv, TypeOK, LoginTypeOK, Steps, ClientGoes, Leaves, Opens, Registers,
            StartsAgain, AsksForList, Polls, Wakes
    <2>2. CASE UNCHANGED clientVars
        BY <2>2 DEF ClientInv, TypeOK, clientVars
    <2> QED
        BY <2>1, <2>2 DEF ClientNext, watchVars, clientVars
<1>3. Follows'
    <2>1. CASE ClientGoes \/ Leaves
        BY <2>1, GoesFollows
    <2>2. CASE Logind /\ UNCHANGED clientVars
        BY <2>2, ChangeFollows
    <2>3. CASE step = "over" /\ Dealloc /\ UNCHANGED clientVars
        <3>1. /\ step' = "over" /\ monitor' = monitor /\ host' = host
              /\ \A t \in Threads : pc'[t] = "gone"
            BY <2>3 DEF Dealloc, clientVars
        <3>2. \A h \in MonitorIds :
                IF h = monitor THEN lib'[h].st = "freed" ELSE lib'[h] = lib[h]
            BY <2>3 DEF Dealloc, Frees, Unused
        <3>3. monitor \in {NULL} \cup MonitorIds /\ NoMonitorLeak
            BY DEF ClientInv, TypeOK, LoginTypeOK, Follows
        <3>4. NoMonitorLeak'
            BY <3>1, <3>2, <3>3 DEF NoMonitorLeak
        <3> QED
            BY <3>1, <3>2, <3>3, <3>4, ClientAssumption
            DEF Follows, StaysAlive, OthersOutside, OpensWhenClosed, OpensThenRegisters,
                FlushesThenLists, WatchesWanted, ListIsCurrent, SleeperIsCurrent,
                CrossedIsKnown, Closing
    <2>4. ASSUME NEW t \in Threads, UNCHANGED clientVars,
                 Returning(t) \/ (t # client /\ (Close(t) \/ Exit(t) \/ Asks(t)))
          PROVE  Follows'
        <3>1. Returning(t) => pc[t] \in {"new", "opened", "flush"} \/ CloseClears(t)
            BY DEF Returning, NewStores, NewReturns, NewFails, FlushReturns, FlushFails, FlushFreed
        <3>2. Returning(t) => t = client \/ CloseClears(t)
            BY <3>1 DEF ClientInv, Follows, OthersOutside
        <3> QED
            BY <2>4, <3>2, ReturnFollows DEF Close
    <2>5. CASE UNCHANGED watchVars
        BY <2>5
        DEF watchVars, loginVars, clientVars, ClientInv, Follows, StaysAlive, OthersOutside,
            OpensWhenClosed, OpensThenRegisters, FlushesThenLists, WatchesWanted, ListIsCurrent,
            SleeperIsCurrent, CrossedIsKnown, Closing, NoMonitorLeak, InSight, Last
    <2> QED
        BY <2>1, <2>2, <2>3, <2>4, <2>5 DEF ClientNext
<1> QED
    BY <1>1, <1>2, <1>3 DEF ClientInv, TypeOK

\* In every reachable state of the client and its Monitor the variables have their types.
THEOREM ClientTypeCorrect == ClientSpec => []TypeOK
<1>1. ClientInv => TypeOK
    BY DEF ClientInv
<1> QED
    BY <1>1, InitClient, NextClient, PTL DEF ClientSpec

\* A client that sleeps with nothing to wake it has a current list, whoever
\* closes the Monitor under it and whether or not threads overlap.
THEOREM SleeperNeverStale == ClientSpec => []SleeperIsCurrent
<1>1. ClientInv => SleeperIsCurrent
    BY DEF ClientInv, Follows
<1> QED
    BY <1>1, InitClient, NextClient, PTL DEF ClientSpec

\* The object forgets no open monitor, but one that its __init__() stored in
\* another thread, between the two statements of a close().
THEOREM MonitorNeverLeaks == ClientSpec => []NoMonitorLeak
<1>1. ClientInv => NoMonitorLeak
    BY DEF ClientInv, Follows
<1> QED
    BY <1>1, InitClient, NextClient, PTL DEF ClientSpec
==============================================================================
