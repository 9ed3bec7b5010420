---------------------------- MODULE DaemonProofs ----------------------------
(* Theorems about Daemon, for any processes, any number of descriptors and any *)
(* arguments of notify().                                                      *)
EXTENDS Daemon, FiniteSetTheorems, TLAPS

\* LISTEN_FDNAMES as the manager or a wrapper of its sets it.
NameLists == {[i \in 1 .. k |-> <<"name", i>>] : k \in 0 .. MaxFds}
Environments == [pid : SUBSET Procs, fds : 0 .. MaxFds, names : NameLists]
Datagrams == [sender : Procs, named : Seq(Int), fds : Seq(Int)]

Shapes ==
    /\ live \subseteq Procs
    /\ listen \in [Procs -> Environments] /\ notifySocket \in [Procs -> BOOLEAN]
    /\ open \in [Procs -> SUBSET Fds] /\ cloexec \in [Procs -> SUBSET Fds]
    /\ given \in [Procs -> SUBSET Fds]
    /\ inbox \in Seq(Datagrams)

\* LISTEN_PID names a process only if LISTEN_FDS counts what the manager passed it.
Addressed == \A p \in Procs : listen[p].pid = {p} => given[p] = Passed(listen[p].fds)

\* What was asked to be unset is unset, and stays so.
Forgotten ==
    /\ \A p \in took : listen[p] = Unset
    /\ \A p \in hushed : ~notifySocket[p]

DaemonInv == TypeOK /\ Shapes /\ Addressed /\ Forgotten

------------------------------------------------------------------------------
\* The manager passes as many descriptors as LISTEN_FDS says.
LEMMA PassedCardinality == \A n \in Nat : Cardinality(Passed(n)) = n
BY FS_Interval DEF Passed, LISTEN_FDS_START

LEMMA UnsetIsEnvironment == Unset \in Environments
<1>1. << >> \in NameLists
    <2>1. [i \in 1 .. 0 |-> <<"name", i>>] = << >>
        OBVIOUS
    <2> QED
        BY <2>1, DaemonAssumption DEF NameLists
<1> QED
    BY <1>1, DaemonAssumption DEF Unset, Environments

LEMMA InitDaemon == Init => DaemonInv
<1> SUFFICES ASSUME Init PROVE DaemonInv
    OBVIOUS
<1>1. Shapes
    BY UnsetIsEnvironment DEF Init, Shapes
<1>2. TypeOK
    BY DaemonAssumption DEF Init, TypeOK, Unset
<1>3. Addressed /\ Forgotten
    BY DEF Init, Addressed, Forgotten, Unset
<1> QED
    BY <1>1, <1>2, <1>3 DEF DaemonInv

\* What both listen_fds() calls leave behind.
LEMMA ListensKeeps ==
    ASSUME DaemonInv, NEW p \in Procs, NEW unset \in BOOLEAN, Listens(p, unset, unset),
           reply'.answer \in {"OSError", "descriptors"}
    PROVE  DaemonInv'
<1> USE DEF DaemonInv
<1>1. Valid(p) \subseteq open[p]
    BY DEF Valid, Found, Passed, LISTEN_FDS_START, Shapes, Environments
<1>2. cloexec' \in [Procs -> SUBSET Fds] /\ \A q \in Procs : cloexec'[q] \subseteq open[q]
    BY <1>1 DEF Listens, Shapes, TypeOK
<1>3. listen' \in [Procs -> Environments]
    BY UnsetIsEnvironment DEF Listens, Forgets, Shapes
<1>4. \A q \in Procs : listen'[q] = listen[q] \/ listen'[q] = Unset
    BY DEF Listens, Forgets, Shapes
<1>5. Shapes'
    BY <1>2, <1>3 DEF Listens, Shapes
<1>6. TypeOK'
    BY <1>2, <1>4, DaemonAssumption DEF Listens, TypeOK, Unset
<1>7. Addressed'
    BY <1>4 DEF Listens, Addressed, Unset
<1>8. Forgotten'
    BY <1>4 DEF Listens, Forgets, Forgotten, Shapes, TypeOK
<1> QED
    BY <1>5, <1>6, <1>7, <1>8

\* Every step keeps the invariant.
LEMMA NextDaemon ==
    ASSUME DaemonInv, [Next]_vars
    PROVE  DaemonInv'
<1> USE DEF DaemonInv
<1>1. ASSUME NEW p \in Procs, NEW n \in 0 .. MaxFds, NEW k \in 0 .. MaxFds,
             Start(p, n, [i \in 1 .. k |-> <<"name", i>>])
      PROVE  DaemonInv'
    <2> DEFINE names == [i \in 1 .. k |-> <<"name", i>>]
               environment == IF n = 0 THEN Unset ELSE [pid |-> {p}, fds |-> n, names |-> names]
    <2>1. names \in NameLists
        BY DEF NameLists
    <2>2. environment \in Environments
        BY <2>1, UnsetIsEnvironment DEF Environments
    <2>3. Passed(n) \subseteq Fds
        BY DaemonAssumption DEF Passed, Fds, LISTEN_FDS_START
    <2>4. p \notin live /\ live' = live \cup {p} /\ listen' = [listen EXCEPT ![p] = environment]
        BY <1>1 DEF Start
    <2>5. Shapes'
        BY <1>1, <2>2, <2>3, <2>4 DEF Start, Shapes
    <2>6. environment.pid \subseteq {p} /\ environment.fds \in 0 .. MaxFds
        BY DaemonAssumption DEF Unset
    <2>7. TypeOK'
        BY <1>1, <2>3, <2>4, <2>6 DEF Start, TypeOK, Shapes
    <2>8. environment.pid = {p} => environment.fds = n
        BY DEF Unset
    <2>9. Addressed'
        BY <1>1, <2>4, <2>8 DEF Start, Addressed, Shapes
    <2>10. Forgotten'
        BY <1>1, <2>4 DEF Start, Forgotten, Shapes, TypeOK
    <2> QED
        BY <2>5, <2>7, <2>9, <2>10
<1>2. ASSUME NEW p \in Procs, NEW child \in Procs, Fork(p, child) PROVE DaemonInv'
    <2>1. Shapes'
        BY <1>2 DEF Fork, Shapes
    <2>2. TypeOK'
        BY <1>2 DEF Fork, TypeOK, Shapes
    <2>3. listen'[child].pid # {child}
        BY <1>2 DEF Fork, TypeOK, Shapes
    <2>4. Addressed'
        BY <1>2, <2>3 DEF Fork, Addressed, Shapes
    <2>5. Forgotten'
        BY <1>2 DEF Fork, Forgotten, Shapes, TypeOK
    <2> QED
        BY <2>1, <2>2, <2>4, <2>5
<1>3. ASSUME NEW p \in Procs, Exec(p) PROVE DaemonInv'
    BY <1>3 DEF Exec, environ, asked, Shapes, TypeOK, Addressed, Forgotten
<1>4. ASSUME NEW p \in Procs, NEW fd \in open[p], CloseFd(p, fd) PROVE DaemonInv'
    BY <1>4 DEF CloseFd, environ, asked, Shapes, TypeOK, Addressed, Forgotten
<1>5. ASSUME NEW p \in Procs, NEW unset \in BOOLEAN, ListenFds(p, unset) PROVE DaemonInv'
    BY <1>5, ListensKeeps DEF ListenFds, Raise, Reply
<1>6. ASSUME NEW p \in Procs, NEW unset \in BOOLEAN, ListenFdsWithNames(p, unset)
      PROVE  DaemonInv'
    BY <1>6, ListensKeeps DEF ListenFdsWithNames, PassedOn, Raise, Reply
<1>7. ASSUME NEW p \in Procs, NEW pid \in PidArgs, NEW fds \in FdArgs, NotifyRaises(p, pid, fds)
      PROVE  DaemonInv'
    BY <1>7 DEF NotifyRaises, Raise, Reply, environ, asked, Shapes, TypeOK, Addressed, Forgotten
<1>8. ASSUME NEW p \in Procs, NEW pid \in PidArgs, NEW fds \in FdArgs, NEW unset \in BOOLEAN,
             Notify(p, unset, pid, fds)
      PROVE  DaemonInv'
    <2>1. fds \in Seq(Int) /\ \A i \in DOMAIN fds : Cut(fds[i]) = fds[i]
        BY <1>8, DaemonAssumption DEF Notify, Converts
    <2>2. [i \in DOMAIN fds |-> Cut(fds[i])] \in Seq(Int)
        <3>1. [i \in DOMAIN fds |-> Cut(fds[i])] = fds
            BY <2>1
        <3> QED
            BY <2>1, <3>1
    <2>3. inbox' \in Seq(Datagrams) /\ Len(inbox') <= MaxSent
        <3>1. CASE UNCHANGED inbox
            BY <3>1 DEF Shapes, TypeOK
        <3>2. CASE /\ Len(inbox) < MaxSent
                   /\ inbox' = Append(inbox, [sender |-> p, named |-> fds,
                                              fds |-> [i \in DOMAIN fds |-> Cut(fds[i])]])
            <4>1. [sender |-> p, named |-> fds, fds |-> [i \in DOMAIN fds |-> Cut(fds[i])]]
                    \in Datagrams
                BY <2>1, <2>2 DEF Datagrams
            <4> QED
                BY <3>2, <4>1, DaemonAssumption DEF Shapes
        <3> QED
            BY <1>8, <3>1, <3>2 DEF Notify
    <2>4. Shapes'
        BY <1>8, <2>3 DEF Notify, Shapes
    <2>5. reply'.answer \in {"OSError", "True", "False"}
        BY <1>8 DEF Notify, Raise, Reply
    <2>6. TypeOK' /\ Addressed'
        BY <1>8, <2>3, <2>5 DEF Notify, TypeOK, Addressed, Shapes
    <2>7. Forgotten'
        <3>1. \A q \in Procs : notifySocket'[q] => notifySocket[q] /\ (q = p => ~unset)
            BY <1>8, Zenon DEF Notify, Shapes
        <3>2. \A q \in hushed' : q \in Procs /\ (q \in hushed \/ (q = p /\ unset))
            BY <1>8 DEF Notify, Shapes, TypeOK
        <3>3. took' = took /\ listen' = listen
            BY <1>8 DEF Notify
        <3> QED
            BY <3>1, <3>2, <3>3 DEF Forgotten
    <2> QED
        BY <2>4, <2>6, <2>7
<1>9. CASE UNCHANGED vars
    BY <1>9 DEF vars, Shapes, TypeOK, Addressed, Forgotten, Found
<1> QED
    BY <1>1, <1>2, <1>3, <1>4, <1>5, <1>6, <1>7, <1>8, <1>9 DEF Next

\* The environment and the descriptors of every process are well formed, what
\* execve() closes is open, and LISTEN_PID names processes that live.
THEOREM DaemonTypeOK == Spec => []TypeOK
<1>1. DaemonInv => TypeOK
    BY DEF DaemonInv
<1> QED
    BY <1>1, InitDaemon, NextDaemon, PTL DEF Spec

------------------------------------------------------------------------------
\* What a process finds is what the manager passed to it.
LEMMA FoundIsGiven ==
    ASSUME DaemonInv, NEW p \in Procs
    PROVE  /\ Found(p) \subseteq given[p]
           /\ Cardinality(Found(p)) \in Nat
           /\ FdRange(Cardinality(Found(p))) = Found(p)
<1>1. CASE listen[p].pid = {p}
    <2>1. listen[p].fds \in Nat /\ Found(p) = Passed(listen[p].fds)
        BY <1>1, DaemonAssumption DEF DaemonInv, Shapes, Environments, Found
    <2>2. Cardinality(Found(p)) = listen[p].fds
        BY <2>1, PassedCardinality
    <2> QED
        BY <1>1, <2>1, <2>2 DEF DaemonInv, Addressed, FdRange, Passed
<1>2. CASE listen[p].pid # {p}
    <2>1. Found(p) = {} /\ Cardinality(Found(p)) = 0
        BY <1>2, FS_EmptySet DEF Found
    <2> QED
        BY <2>1 DEF FdRange, LISTEN_FDS_START
<1> QED
    BY <1>1, <1>2

\* Unless sd_listen_fds_with_names() refuses them there is a name for each.
LEMMA NamesLength ==
    ASSUME DaemonInv, NEW p \in Procs, ~Mismatch(p)
    PROVE  /\ Names(p) \in Seq({Unnamed} \cup {<<"name", i>> : i \in Nat})
           /\ Len(Names(p)) = Cardinality(Found(p))
           /\ \A i \in 1 .. Len(Names(p)) : Names(p)[i] \in {<<"name", i>>, Unnamed}
<1>1. PICK k \in 0 .. MaxFds : listen[p].names = [i \in 1 .. k |-> <<"name", i>>]
    BY DEF DaemonInv, Shapes, Environments, NameLists
<1>2. k \in Nat /\ Cardinality(Found(p)) \in Nat
    BY FoundIsGiven, DaemonAssumption
<1>3. Len(listen[p].names) = k
    BY <1>1, <1>2
<1>4. CASE Found(p) = {} \/ listen[p].names = << >>
    BY <1>2, <1>4 DEF Names
<1>5. CASE Found(p) # {} /\ listen[p].names # << >>
    <2>1. k # 0
        BY <1>1, <1>2, <1>5
    <2>2. Names(p) = [i \in 1 .. k |-> <<"name", i>>]
        BY <1>1, <1>5 DEF Names
    <2>3. k = Cardinality(Found(p))
        BY <1>3, <1>5, <2>1 DEF Mismatch
    <2> QED
        BY <1>2, <2>2, <2>3
<1> QED
    BY <1>4, <1>5

\* A call that does not fail has found every descriptor of the range open.
LEMMA FoundIsOpen ==
    ASSUME DaemonInv, NEW p \in Procs, ~Fails(p)
    PROVE  Found(p) \subseteq open[p]
<1> SUFFICES ASSUME NEW fd \in Found(p) PROVE fd \in open[p]
    OBVIOUS
<1>1. fd \in Int /\ LISTEN_FDS_START <= fd /\ LISTEN_FDS_START \in Int
    <2>1. fd \in FdRange(Cardinality(Found(p))) /\ Cardinality(Found(p)) \in Nat
        BY FoundIsGiven
    <2> QED
        BY <2>1 DEF FdRange, LISTEN_FDS_START
<1>2. LISTEN_FDS_START .. fd \subseteq open[p]
    BY DEF Fails, Valid
<1> QED
    BY <1>1, <1>2

\* The reply of a call that hands descriptors over is one of two.
LEMMA ListenReplies ==
    ASSUME DaemonInv, NEW p \in Procs, NEW unset \in BOOLEAN,
           ListenFds(p, unset) \/ ListenFdsWithNames(p, unset)
    PROVE  /\ reply'.proc = {p}
           /\ \/ DOMAIN reply'.fds = {}
              \/ ~Fails(p) /\ DOMAIN reply'.fds = Found(p)
<1>1. CASE ListenFds(p, unset)
    BY <1>1, FoundIsGiven DEF ListenFds, Raise, Reply
<1>2. CASE ListenFdsWithNames(p, unset)
    <2>1. CASE Fails(p) \/ Mismatch(p)
        BY <1>2, <2>1 DEF ListenFdsWithNames, Raise, Reply
    <2>2. CASE ~Fails(p) /\ ~Mismatch(p)
        <3>1. reply'.proc = {p} /\ reply'.fds = ByFd(Names(p))
            BY <1>2, <2>2 DEF ListenFdsWithNames, Reply
        <3>2. DOMAIN ByFd(Names(p)) = FdRange(Cardinality(Found(p)))
            BY <2>2, NamesLength DEF ByFd
        <3> QED
            BY <2>2, <3>1, <3>2, FoundIsGiven
    <2> QED
        BY <2>1, <2>2
<1> QED
    BY <1>1, <1>2

------------------------------------------------------------------------------
\* A process is handed only descriptors that the manager passed to it and that
\* are open, and execve() will close them.
THEOREM DaemonOnlyAddressee == Spec => OnlyAddressee
<1> DEFINE Step == reply' # reply => \A p \in reply'.proc :
                DOMAIN reply'.fds \subseteq given[p] \cap open'[p] \cap cloexec'[p]
<1>1. ASSUME DaemonInv, [Next]_vars PROVE [Step]_vars
    <2> SUFFICES ASSUME reply' # reply, NEW q \in reply'.proc
                 PROVE  DOMAIN reply'.fds \subseteq given[q] \cap open'[q] \cap cloexec'[q]
        OBVIOUS
    <2>1. ASSUME NEW p \in Procs, NEW unset \in BOOLEAN,
                 ListenFds(p, unset) \/ ListenFdsWithNames(p, unset)
          PROVE  DOMAIN reply'.fds \subseteq given[q] \cap open'[q] \cap cloexec'[q]
        <3>1. q = p
            BY <1>1, <2>1, ListenReplies
        <3>2. open' = open /\ cloexec' = [cloexec EXCEPT ![p] = @ \cup Valid(p)]
            BY <2>1 DEF ListenFds, ListenFdsWithNames, Listens
        <3>3. CASE ~Fails(p) /\ DOMAIN reply'.fds = Found(p)
            <4>1. Found(p) \subseteq open[p]
                BY <1>1, <3>3, FoundIsOpen
            <4>2. Found(p) \subseteq cloexec'[p]
                BY <1>1, <3>2, <3>3 DEF Fails, DaemonInv, Shapes
            <4> QED
                BY <1>1, <3>1, <3>2, <3>3, <4>1, <4>2, FoundIsGiven
        <3> QED
            BY <1>1, <2>1, <3>3, ListenReplies
    <2>2. ASSUME NEW p \in Procs, NEW pid \in PidArgs, NEW fds \in FdArgs,
                 NotifyRaises(p, pid, fds) \/ \E unset \in BOOLEAN : Notify(p, unset, pid, fds)
          PROVE  DOMAIN reply'.fds = {}
        <3>1. \E answer \in {"OverflowError", "OSError", "True", "False"} :
                Reply(p, answer, << >>)
            BY <2>2, Zenon DEF NotifyRaises, Notify, Raise
        <3> QED
            BY <3>1 DEF Reply
    <2> QED
        BY <1>1, <2>1, <2>2 DEF Next, Start, Fork, Exec, CloseFd, vars
<1> QED
    BY <1>1, InitDaemon, NextDaemon, PTL DEF Spec, OnlyAddressee

\* A process that asked for the environment to be unset, and one forked from it
\* since, is handed nothing again.
THEOREM DaemonTakenOnce == Spec => TakenOnce
<1> DEFINE Step == \A p \in took, unset \in BOOLEAN :
                ListenFds(p, unset) \/ ListenFdsWithNames(p, unset) => reply'.fds = << >>
<1>1. ASSUME DaemonInv PROVE Step
    <2> SUFFICES ASSUME NEW p \in took, NEW unset \in BOOLEAN,
                        ListenFds(p, unset) \/ ListenFdsWithNames(p, unset)
                 PROVE  reply'.fds = << >>
        OBVIOUS
    <2>1. p \in Procs /\ listen[p] = Unset
        BY <1>1 DEF DaemonInv, Forgotten, TypeOK, Shapes
    <2>2. Found(p) = {}
        BY <2>1 DEF Found, Unset
    <2>3. Cardinality(Found(p)) = 0 /\ FdRange(0) = {}
        BY <2>2, FS_EmptySet DEF FdRange, LISTEN_FDS_START
    <2>4. [fd \in {} |-> Unnamed] = << >>
        OBVIOUS
    <2>5. CASE ListenFds(p, unset)
        BY <2>3, <2>4, <2>5 DEF ListenFds, Raise, Reply
    <2>6. CASE ListenFdsWithNames(p, unset)
        <3>1. Names(p) = << >>
            BY <2>2, <2>3 DEF Names
        <3>2. ByFd(<< >>) = << >>
            BY <2>3 DEF ByFd
        <3> QED
            BY <2>6, <3>1, <3>2 DEF ListenFdsWithNames, Raise, Reply
    <2> QED
        BY <2>5, <2>6
<1> QED
    BY <1>1, InitDaemon, NextDaemon, PTL DEF Spec, TakenOnce

\* The name that a descriptor comes with is the one at its place.
THEOREM DaemonNamesInOrder == Spec => NamesInOrder
<1> DEFINE Step == \A p \in live, unset \in BOOLEAN :
                ListenFdsWithNames(p, unset) => \A fd \in DOMAIN reply'.fds :
                    reply'.fds[fd] \in {<<"name", fd - LISTEN_FDS_START + 1>>, Unnamed}
<1>1. ASSUME DaemonInv PROVE Step
    <2> SUFFICES ASSUME NEW p \in live, NEW unset \in BOOLEAN, ListenFdsWithNames(p, unset),
                        NEW fd \in DOMAIN reply'.fds
                 PROVE  reply'.fds[fd] \in {<<"name", fd - LISTEN_FDS_START + 1>>, Unnamed}
        OBVIOUS
    <2>1. p \in Procs
        BY <1>1 DEF DaemonInv, Shapes
    <2>2. ~(Fails(p) \/ Mismatch(p)) /\ reply'.fds = ByFd(Names(p))
        BY DEF ListenFdsWithNames, Raise, Reply
    <2>3. Len(Names(p)) \in Nat
        BY <1>1, <2>1, <2>2, NamesLength, FoundIsGiven
    <2>4. fd \in FdRange(Len(Names(p))) /\ reply'.fds[fd] = Names(p)[fd - LISTEN_FDS_START + 1]
        BY <2>2 DEF ByFd
    <2>5. fd - LISTEN_FDS_START + 1 \in 1 .. Len(Names(p))
        BY <2>3, <2>4 DEF FdRange, LISTEN_FDS_START
    <2> QED
        BY <1>1, <2>1, <2>2, <2>4, <2>5, NamesLength
<1> QED
    BY <1>1, InitDaemon, NextDaemon, PTL DEF Spec, NamesInOrder

\* Nobody who asked sd_notify() to unset NOTIFY_SOCKET sends, and what is sent carries
\* the descriptors that were named.
THEOREM DaemonSentAsAsked == Spec => SentAsAsked
<1> DEFINE Step == inbox' # inbox =>
                LET sent == inbox'[Len(inbox')]
                IN  sent.sender \notin hushed /\ sent.fds = sent.named
<1>1. ASSUME DaemonInv, [Next]_vars PROVE [Step]_vars
    <2> SUFFICES ASSUME inbox' # inbox
                 PROVE  /\ inbox'[Len(inbox')].sender \notin hushed
                        /\ inbox'[Len(inbox')].fds = inbox'[Len(inbox')].named
        OBVIOUS
    <2>1. PICK p \in Procs, pid \in PidArgs, fds \in FdArgs, unset \in BOOLEAN :
            Notify(p, unset, pid, fds)
        BY <1>1
        DEF Next, Start, Fork, Exec, CloseFd, ListenFds, ListenFdsWithNames, Listens,
            NotifyRaises, vars
    <2> DEFINE sent == [sender |-> p, named |-> fds, fds |-> [i \in DOMAIN fds |-> Cut(fds[i])]]
    <2>2. notifySocket[p] /\ inbox' = Append(inbox, sent)
        BY <2>1 DEF Notify
    <2>3. inbox'[Len(inbox')] = sent
        BY <1>1, <2>2 DEF DaemonInv, Shapes
    <2>4. p \notin hushed
        BY <1>1, <2>2 DEF DaemonInv, Forgotten
    <2>5. [i \in DOMAIN fds |-> Cut(fds[i])] = fds
        BY <2>1, DaemonAssumption DEF Notify, Converts
    <2> QED
        BY <2>3, <2>4, <2>5
<1> QED
    BY <1>1, InitDaemon, NextDaemon, PTL DEF Spec, SentAsAsked
==============================================================================
