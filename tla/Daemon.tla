-------------------------------- MODULE Daemon --------------------------------
(* Descriptors and a notification socket that a service is handed in its       *)
(* environment: listen_fds(), listen_fds_with_names() and notify() of          *)
(* systemd/daemon.py and systemd/_daemon.c.                                    *)
(*                                                                             *)
(* The service manager starts processes; a process may fork, execute another   *)
(* program in its place and close descriptors between its calls.  The calls    *)
(* keep the interpreter's lock, so that each is a step of its process.         *)
EXTENDS Integers, Sequences, FiniteSets

CONSTANTS
    Procs,         \* process ids
    Services,      \* those of the processes that the manager starts
    MaxFds,        \* how many descriptors the manager passes at most
    MaxSent,       \* bound on the datagrams the manager receives
    IntMax,        \* the greatest C int
    PidArgs,       \* the values of notify's pid=: integers of any size
    FdArgs,        \* the values of its fds=: sequences of integers of any size,
                   \* << >> if it is not given
    HavePidNotify, HavePidNotifyWithFds    \* what the libsystemd built against has

ASSUME DaemonAssumption ==
    /\ Services \subseteq Procs /\ MaxFds \in Nat \ {0} /\ MaxSent \in Nat /\ IntMax \in Nat
    /\ PidArgs \subseteq Int /\ FdArgs \subseteq Seq(Int)
    /\ HavePidNotify \in BOOLEAN /\ HavePidNotifyWithFds \in BOOLEAN

VARIABLES
    live,          \* the processes that were started or forked
    listen,        \* LISTEN_PID, LISTEN_FDS and LISTEN_FDNAMES of each process
    notifySocket,  \* whether NOTIFY_SOCKET is set
    open,          \* its open descriptors
    cloexec,       \* those of them that execve() closes
    reply,         \* what the last call returned, and to whom
    inbox,         \* the datagrams that the manager received
    given,         \* the descriptors that the manager passed to each process
    took, hushed   \* the processes that asked for the environment to be unset, by
                   \* listen_fds() and by notify(), and those forked from them since

environ == <<listen, notifySocket>>
asked == <<given, took, hushed>>
vars == <<live, listen, notifySocket, open, cloexec, reply, inbox, given, took, hushed>>

LISTEN_FDS_START == 3
Passed(n) == LISTEN_FDS_START .. LISTEN_FDS_START + n - 1
Fds == Passed(MaxFds)
Unset == [pid |-> {}, fds |-> 0, names |-> << >>]
Unnamed == <<"unknown", 0>>
\* (int) value
Cut(value) == ((value + IntMax + 1) % (2 * IntMax + 2)) - IntMax - 1

------------------------------------------------------------------------------
(* libsystemd and the kernel *)

\* The manager passes n descriptors; a wrapper may have set names of its own.
Start(p, n, names) ==
    /\ p \in Services \ live /\ live' = live \cup {p}
    /\ listen' = [listen EXCEPT ![p] =
                    IF n = 0 THEN Unset ELSE [pid |-> {p}, fds |-> n, names |-> names]]
    /\ notifySocket' = [notifySocket EXCEPT ![p] = TRUE]
    /\ given' = [given EXCEPT ![p] = Passed(n)]
    /\ open' = [open EXCEPT ![p] = Passed(n)] /\ cloexec' = [cloexec EXCEPT ![p] = {}]
    /\ UNCHANGED <<reply, inbox, took, hushed>>

\* fork(): everything is inherited, LISTEN_PID too, but the child has its own pid.
Fork(p, child) ==
    /\ p \in live /\ child \notin live /\ live' = live \cup {child}
    /\ listen' = [listen EXCEPT ![child] = listen[p]]
    /\ notifySocket' = [notifySocket EXCEPT ![child] = notifySocket[p]]
    /\ open' = [open EXCEPT ![child] = open[p]]
    /\ cloexec' = [cloexec EXCEPT ![child] = cloexec[p]]
    /\ took' = took \cup {c \in {child} : p \in took}
    /\ hushed' = hushed \cup {c \in {child} : p \in hushed}
    /\ UNCHANGED <<reply, inbox, given>>

\* execve() keeps the pid and the environment.
Exec(p) ==
    /\ p \in live
    /\ open' = [open EXCEPT ![p] = @ \ cloexec[p]]
    /\ cloexec' = [cloexec EXCEPT ![p] = {}]
    /\ UNCHANGED <<live, environ, reply, inbox, asked>>

CloseFd(p, fd) ==
    /\ p \in live /\ fd \in open[p]
    /\ open' = [open EXCEPT ![p] = @ \ {fd}] /\ cloexec' = [cloexec EXCEPT ![p] = @ \ {fd}]
    /\ UNCHANGED <<live, environ, reply, inbox, asked>>

\* sd_listen_fds(): the descriptors of this process, and those of them that it sets
\* FD_CLOEXEC on, which ends at one that is closed.
Found(p) == IF listen[p].pid = {p} THEN Passed(listen[p].fds) ELSE {}
\* Fault: whether they are open is not looked at.
ValidUnchecked(p) == Found(p)
Valid(p) == {fd \in Found(p) : LISTEN_FDS_START .. fd \subseteq open[p]}
Fails(p) == Valid(p) # Found(p)

\* unsetenv_all(), which the library calls whatever the outcome.
Forgets(p, unset) == listen' = [listen EXCEPT ![p] = IF unset THEN Unset ELSE @]

\* sd_listen_fds_with_names() refuses names that are not one for each descriptor.
Mismatch(p) == Found(p) # {} /\ Len(listen[p].names) \notin {0, Cardinality(Found(p))}
Names(p) == IF Found(p) = {} \/ listen[p].names = << >>
            THEN [i \in 1 .. Cardinality(Found(p)) |-> Unnamed] ELSE listen[p].names

------------------------------------------------------------------------------
(* systemd.daemon *)

Reply(p, answer, fds) == reply' = [proc |-> {p}, answer |-> answer, fds |-> fds]
Raise(p, error) == Reply(p, error, << >>)

\* Fault: one descriptor too many.
FdRangeAndOne(num) == LISTEN_FDS_START .. LISTEN_FDS_START + num

\* list(range(LISTEN_FDS_START, LISTEN_FDS_START + num))
FdRange(num) == LISTEN_FDS_START .. LISTEN_FDS_START + num - 1

\* What both calls do to the environment and the descriptors.
Listens(p, unset, passedOn) ==
    /\ p \in live /\ Forgets(p, passedOn)
    /\ took' = IF unset THEN took \cup {p} ELSE took
    /\ cloexec' = [cloexec EXCEPT ![p] = @ \cup Valid(p)]
    /\ UNCHANGED <<live, notifySocket, open, inbox, given, hushed>>

ListenFds(p, unset) ==
    /\ Listens(p, unset, unset)
    /\ IF Fails(p) THEN Raise(p, "OSError")
       ELSE Reply(p, "descriptors", [fd \in FdRange(Cardinality(Found(p))) |-> Unnamed])

\* Fault: composite[i], whose first item is the number of descriptors.
ByFdShifted(names) == [fd \in FdRange(Len(names)) |->
    IF fd = LISTEN_FDS_START THEN <<"count", Len(names)>> ELSE names[fd - LISTEN_FDS_START]]

\* {i + LISTEN_FDS_START: composite[1 + i]}
ByFd(names) == [fd \in FdRange(Len(names)) |-> names[fd - LISTEN_FDS_START + 1]]

\* Fault: the extension's own default, which leaves the environment in place.
ExtensionDefault(unset) == FALSE

\* The wrapper passes its argument, TRUE by default, on to the extension.
PassedOn(unset) == unset

ListenFdsWithNames(p, unset) ==
    /\ Listens(p, unset, PassedOn(unset))
    /\ IF Fails(p) \/ Mismatch(p) THEN Raise(p, "OSError")
       ELSE Reply(p, "descriptors", ByFd(Names(p)))

\* Fault: a descriptor that does not fit is cut to an int.
ConvertsPid(pid, fds) == Cut(pid) = pid /\ pid >= 0

\* What notify() reads from its arguments before it calls the library.
Converts(pid, fds) == Cut(pid) = pid /\ pid >= 0 /\ \A i \in DOMAIN fds : Cut(fds[i]) = fds[i]

\* Another process and descriptors need a libsystemd that knows of them (-ENOSYS).
Supported(pid, fds) ==
    IF fds = << >> THEN pid = 0 \/ HavePidNotify ELSE HavePidNotifyWithFds

\* The library is not called and the environment stays, unset_environment or not.
NotifyRaises(p, pid, fds) ==
    /\ p \in live /\ ~(Converts(pid, fds) /\ Supported(pid, fds))
    /\ Raise(p, IF Converts(pid, fds) THEN "OSError" ELSE "OverflowError")
    /\ UNCHANGED <<live, environ, open, cloexec, inbox, asked>>

\* notify(status, unset_environment, pid, fds); sd_notify() unsets NOTIFY_SOCKET
\* whatever the outcome.
Notify(p, unset, pid, fds) ==
    /\ p \in live /\ Converts(pid, fds) /\ Supported(pid, fds)
    /\ IF ~notifySocket[p] THEN Reply(p, "False", << >>) /\ UNCHANGED inbox
       ELSE \/ Raise(p, "OSError") /\ UNCHANGED inbox
            \/ /\ \A i \in DOMAIN fds : Cut(fds[i]) \in open[p]
               /\ Len(inbox) < MaxSent
               /\ inbox' = Append(inbox, [sender |-> p, named |-> fds,
                                          fds |-> [i \in DOMAIN fds |-> Cut(fds[i])]])
               /\ Reply(p, "True", << >>)
    /\ notifySocket' = [notifySocket EXCEPT ![p] = @ /\ ~unset]
    /\ hushed' = IF unset THEN hushed \cup {p} ELSE hushed
    /\ UNCHANGED <<live, listen, open, cloexec, given, took>>

Init ==
    /\ live = {} /\ took = {} /\ hushed = {} /\ inbox = << >>
    /\ reply = [proc |-> {}, answer |-> "none", fds |-> << >>]
    /\ listen = [p \in Procs |-> Unset] /\ notifySocket = [p \in Procs |-> FALSE]
    /\ open = [p \in Procs |-> {}] /\ given = [p \in Procs |-> {}] /\ cloexec = [p \in Procs |-> {}]

Next == \E p \in Procs :
    \/ \E n, k \in 0 .. MaxFds : Start(p, n, [i \in 1 .. k |-> <<"name", i>>])
    \/ \E child \in Procs : Fork(p, child)
    \/ Exec(p) \/ \E fd \in open[p] : CloseFd(p, fd)
    \/ \E unset \in BOOLEAN : ListenFds(p, unset) \/ ListenFdsWithNames(p, unset)
    \/ \E pid \in PidArgs, fds \in FdArgs :
        NotifyRaises(p, pid, fds) \/ \E unset \in BOOLEAN : Notify(p, unset, pid, fds)

Spec == Init /\ [][Next]_vars

------------------------------------------------------------------------------
\* Of what execve() closes, everything is open; the environment speaks of a process
\* that lives, and only those were handed anything that the manager started.
TypeOK ==
    /\ reply.answer \in {"none", "descriptors", "OSError", "OverflowError", "True", "False"}
    /\ took \cup hushed \subseteq live /\ Len(inbox) <= MaxSent
    /\ \A p \in Procs :
        /\ cloexec[p] \subseteq open[p] /\ open[p] \subseteq Fds /\ given[p] \subseteq Fds
        /\ listen[p].pid \subseteq live /\ listen[p].fds \in 0 .. MaxFds
        /\ p \notin live => open[p] = {} /\ listen[p] = Unset /\ ~notifySocket[p]

\* Descriptors are handed only to the process that the manager passed them to, not
\* to its children, and those it is handed are open and will not survive execve().
OnlyAddressee == [][reply' # reply => \A p \in reply'.proc :
    DOMAIN reply'.fds \subseteq given[p] \cap open'[p] \cap cloexec'[p]]_vars

\* Who asked listen_fds() or listen_fds_with_names() to unset the environment gets
\* descriptors from neither again, nor do its children.
TakenOnce == [][\A p \in took, unset \in BOOLEAN :
    ListenFds(p, unset) \/ ListenFdsWithNames(p, unset) => reply'.fds = << >>]_vars

\* Each descriptor has the name at its place in LISTEN_FDNAMES.
NamesInOrder == [][\A p \in live, unset \in BOOLEAN :
    ListenFdsWithNames(p, unset) => \A fd \in DOMAIN reply'.fds :
        reply'.fds[fd] \in {<<"name", fd - LISTEN_FDS_START + 1>>, Unnamed}]_vars

\* After the library was asked to unset the environment (a notify() that raises before
\* it calls sd_notify() has not asked it) the process sends nothing, nor do those it
\* forks; and a datagram carries the descriptors that the caller named.
SentAsAsked == [][inbox' # inbox =>
    LET sent == inbox'[Len(inbox')]
    IN  sent.sender \notin hushed /\ sent.fds = sent.named]_vars
==============================================================================
