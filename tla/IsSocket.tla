------------------------------- MODULE IsSocket -------------------------------
(* A service looks for the sockets that it was passed: is_socket_sockaddr()    *)
(* and is_socket_inet() of systemd/daemon.py and systemd/_daemon.c.  It puts   *)
(* the text of an address together and asks whether a descriptor is bound to   *)
(* it.  Type and listening state are always left open.                         *)
EXTENDS SockAddr

CONSTANTS
    Sockets,       \* the sockets, by descriptor; ports are numbers here
    Fds,           \* the descriptors that are asked about, some of them closed
    PortArgs,      \* the values of is_socket_inet's port=: ints
    FlowArgs,      \* the values of flowinfo=
    HaveIsSocketSockaddr,  \* whether libsystemd has sd_is_socket_sockaddr()
    MaxPieces      \* bound on the length of a text

ASSUME IsSocketAssumption ==
    /\ DOMAIN Sockets \subseteq Fds /\ PortArgs \subseteq Int /\ FlowArgs \subseteq Nat
    /\ \A fd \in DOMAIN Sockets : Sockets[fd].port \in 0 .. PortMax
    /\ HaveIsSocketSockaddr \in BOOLEAN /\ MaxPieces \in Nat

VARIABLES
    ipv6,          \* whether the kernel supports IPv6: it never changes
    text,          \* the text, as far as it was put together
    reply          \* the last question about it, and its answer

vars == <<ipv6, text, reply>>
Answers == {"none", "True", "False", "ValueError", "OSError"}
NoReply == [call |-> "none", fd |-> 0, arg |-> 0, answer |-> "none"]

\* Whether two pieces next to each other would be another one.
Melts(v, w) == {v, w} \subseteq Words \/ {v, w} \subseteq {Colon, Colons}

Appends(w) ==
    /\ Len(text) < MaxPieces /\ (text # << >> => ~Melts(text[Len(text)], w))
    /\ text' = Append(text, w) /\ reply' = NoReply /\ UNCHANGED ipv6

\* The calls keep nothing: one question about a text is enough.
Reply(call, fd, arg, answer) ==
    /\ reply = NoReply
    /\ reply' = [call |-> call, fd |-> fd, arg |-> arg, answer |-> answer]
    /\ UNCHANGED <<ipv6, text>>

\* sd_is_socket_sockaddr() compares what it is given, in network byte order, with
\* getsockname(); it ignores a port, a flowinfo and a scope that are 0.
SdIsSocketSockaddr(fd, address, flowinfo) ==
    LET s == Sockets[fd]
    IN  IF fd \notin DOMAIN Sockets THEN "OSError"
        ELSE IF /\ s.family = address.family
                /\ address.host = s.host
                /\ address.port \in {0, HtoBe16(s.port)}
                /\ address.family = "inet6" =>
                       flowinfo \in {0, s.flowinfo} /\ address.scope \in {0, s.scope}
        THEN "True" ELSE "False"

SdIsSocketInet(fd, port) ==
    IF fd \notin DOMAIN Sockets THEN "OSError"
    ELSE IF port \in {0, Sockets[fd].port} THEN "True" ELSE "False"

\* Fault: no exception is set for the other errors.
ErrorOfInvalid(e) == IF e = "EINVAL" THEN "ValueError" ELSE "SystemError"

\* set_error() with a message for -EINVAL
ErrorOf(e) == IF e = "EINVAL" THEN "ValueError" ELSE "OSError"

IsSocketSockaddr(fd, flowinfo) ==
    LET address == ParseSockaddr(text, ipv6)
    IN  Reply("sockaddr", fd, flowinfo,
            IF address.err # "none" THEN ErrorOf(address.err)
            ELSE IF flowinfo # 0 /\ address.family # "inet6" THEN ErrorOf("EINVAL")
            ELSE IF ~HaveIsSocketSockaddr THEN ErrorOf("ENOSYS")
            ELSE SdIsSocketSockaddr(fd, address, flowinfo))

\* Fault: a port that does not fit is cut to uint16_t.
CutPort(port) == TRUE

\* port < 0 || port > UINT16_MAX
ValidPort(port) == port \in 0 .. PortMax

\* It asks nothing of the text: one question before the first piece is enough.
IsSocketInet(fd, port) ==
    /\ text = << >>
    /\ Reply("inet", fd, port,
            IF ~ValidPort(port) THEN ErrorOf("EINVAL")
            ELSE SdIsSocketInet(fd, port % (PortMax + 1)))

Init == ipv6 \in BOOLEAN /\ text = << >> /\ reply = NoReply

Next ==
    \/ \E w \in Pieces : Appends(w)
    \/ \E fd \in Fds, flowinfo \in FlowArgs : IsSocketSockaddr(fd, flowinfo)
    \/ \E fd \in Fds, port \in PortArgs : IsSocketInet(fd, port)

Spec == Init /\ [][Next]_vars

------------------------------------------------------------------------------
TypeOK ==
    /\ ipv6 \in BOOLEAN /\ reply.answer \in Answers /\ Len(text) <= MaxPieces
    /\ \A i \in DOMAIN text : text[i] \in Pieces

Wrapping == \E i \in DOMAIN text : Wraps(text[i])

\* Every text in one of the notations is read as the address that it denotes, and
\* every other one is refused (parse_sockaddr), but for the numbers that wrap.
ParsesAsWritten ==
    LET read == ParseSockaddr(text, ipv6)
    IN  ~Wrapping =>
            {[n EXCEPT !.port = HtoBe16(@)] : n \in Denoted(text, ipv6)}
            = {a \in {read} : a.err = "none"}

\* Where libsystemd has the call, is_socket_sockaddr() is true of exactly the
\* descriptors that are bound to what the text denotes, whether or not the kernel
\* knows IPv6, and flowinfo= is refused for IPv4.  is_socket_inet() is never true of
\* another port than was asked for.
AnswersForTheSocket ==
    /\ reply.call = "sockaddr" /\ ~Wrapping =>
        (reply.answer = "True" <=>
            /\ HaveIsSocketSockaddr /\ reply.fd \in DOMAIN Sockets
            /\ \E n \in Denoted(text, ipv6) :
                LET s == Sockets[reply.fd]
                IN  /\ n.family = s.family /\ n.host = s.host
                    /\ n.port \in {0, s.port} /\ n.scope \in {0, s.scope}
                    /\ reply.arg # 0 => n.family = "inet6" /\ s.flowinfo = reply.arg)
    /\ reply.call = "inet" /\ reply.answer = "True" =>
        reply.arg \in {0, Sockets[reply.fd].port}
==============================================================================
