------------------------------- MODULE SockAddr -------------------------------
(* Addresses of sockets as they are written in unit files: parse_sockaddr()    *)
(* and what it calls (systemd/util.c), for is_socket_sockaddr().               *)
(*                                                                             *)
(* A text is a sequence of pieces [kind, of]: a bracket, a colon, two colons,  *)
(* an IPv4 address, an IPv6 address in full, a name, or a number.  No two      *)
(* addresses, names or numbers are next to each other, as they would be one,   *)
(* and no two colons are, as they are the piece "::".  "number" is one that    *)
(* strtoul() accepts as it is, a "minus" is one that begins with the minus     *)
(* sign, a "blank_minus" one with a blank before the minus sign.  No interface *)
(* has a bracket, a colon or a blank in its name.                              *)
EXTENDS Integers, Sequences, FiniteSetsExt

CONSTANTS
    Byte,          \* how many values a byte has, of which a port has two
    UIntMax,       \* the greatest unsigned int
    ULongMax,      \* the greatest unsigned long
    Words,         \* the addresses, names and numbers that occur
    NumberNames,   \* those of the numbers that if_nametoindex() finds
    TooLong,       \* the words of more than IF_NAMESIZE - 1 characters
    InetPton6      \* the addresses that inet_pton(AF_INET6) finds in texts: a full
                   \* one, or with "::", such as ::, ::1, fe80:: and ::1.2.3.4

ASSUME SockAddrAssumption ==
    /\ Byte \in Nat \ {0} /\ UIntMax \in Nat /\ ULongMax \in Nat
    /\ Byte * Byte - 1 < UIntMax /\ UIntMax < ULongMax
    /\ \A w \in Words : /\ w.kind \in {"v4", "v6", "name", "number", "minus", "blank_minus"}
                        /\ w.of \in Nat
    /\ NumberNames \subseteq {w \in Words : w.kind \in {"number", "minus"}}
    /\ \A w \in Words :
        w.kind \in {"number", "minus", "blank_minus"} /\ w.of > ULongMax => w \in TooLong

Piece(kind, of) == [kind |-> kind, of |-> of]
Open == Piece("open", 0)
Close == Piece("close", 0)
Colon == Piece("colon", 0)
Colons == Piece("colons", 0)   \* "::"
Pieces == Words \cup {Open, Close, Colon, Colons}

ASSUME InetPton6Assumption ==
    \A t \in DOMAIN InetPton6 : t \in Seq(Words \cup {Colon, Colons})

\* The address 0 is the wildcard, the port 0 and the scope 0 any.
Address(family, host, port, scope) ==
    [err |-> "none", family |-> family, host |-> host, port |-> port, scope |-> scope]
Error(e) == [Address("none", 0, 0, 0) EXCEPT !.err = e]
Wildcard == 0

\* Where the first piece of one of the kinds is, 0 if there is none.
FirstOf(s, kinds) ==
    LET at == {i \in DOMAIN s : s[i].kind \in kinds} IN IF at = {} THEN 0 ELSE Min(at)

PortMax == Byte * Byte - 1
HtoBe16(port) == (port % Byte) * Byte + port \div Byte

\* Of a name that is too long it may find the interface that the first part names.
IfNameToIndex(w) ==
    IF w.kind = "name" THEN w.of ELSE IF w \in NumberNames THEN 1 ELSE 0

\* safe_atou(): strtoul() takes a minus sign for the unsigned negation, and only one
\* that the text begins with is refused.
SafeAtou(s) ==
    LET negative == s[1].kind # "number"
        l == IF negative THEN (ULongMax + 1 - s[1].of) % (ULongMax + 1) ELSE s[1].of
        Fails(e) == [err |-> e, u |-> 0]
    IN  IF s = << >> \/ s[1].kind \notin {"number", "minus", "blank_minus"} THEN Fails("EINVAL")
        ELSE IF s[1].of > ULongMax THEN Fails("ERANGE")
        ELSE IF Len(s) > 1 THEN Fails("EINVAL")
        ELSE IF s[1].kind = "minus" \/ l > UIntMax THEN Fails("ERANGE")
        ELSE [err |-> "none", u |-> l]

\* Fault: a port that is too great is cut to uint16_t.
WithPortCut(s, address) ==
    LET r == SafeAtou(s)
    IN  IF r.err # "none" THEN Error(r.err)
        ELSE [address EXCEPT !.port = HtoBe16(r.u % (PortMax + 1))]

\* The address with the port that s says; what is wrong with s comes first.
WithPort(s, address) ==
    LET r == SafeAtou(s)
    IN  IF r.err # "none" THEN Error(r.err)
        ELSE IF r.u \notin 1 .. PortMax THEN Error("EINVAL")
        ELSE [address EXCEPT !.port = HtoBe16(r.u)]

\* assign_address(), without the port
AssignAddress(s) ==
    IF Len(s) # 1 THEN Error("EINVAL")
    ELSE IF s[1].kind = "v4" THEN Address("inet", s[1].of, 0, 0)
    ELSE IF s[1] \in TooLong THEN Error("EINVAL")
    ELSE IF IfNameToIndex(s[1]) # 0 THEN Address("inet6", Wildcard, 0, IfNameToIndex(s[1]))
    ELSE Error("EINVAL")

Bracketed(s) ==
    LET end == FirstOf(s, {"close"})
        inside == SubSeq(s, 2, end - 1)
        rest == SubSeq(s, end + 1, Len(s))
        address == Address("inet6", InetPton6[inside], 0, 0)
    IN  IF end = 0 \/ inside \notin DOMAIN InetPton6 THEN Error("EINVAL")
        ELSE IF rest = << >> THEN address
        ELSE IF rest[1] # Colon THEN Error("EINVAL")
        ELSE WithPort(Tail(rest), address)

\* The first colon may be one of "::" or of an IPv6 address; no number comes after that.
Unbracketed(s, ipv6) ==
    LET colon == FirstOf(s, {"colon", "colons", "v6"})
    IN  IF colon # 0
        THEN IF s[colon] # Colon THEN Error("EINVAL")
             ELSE WithPort(SubSeq(s, colon + 1, Len(s)), AssignAddress(SubSeq(s, 1, colon - 1)))
        ELSE IF SafeAtou(s).err # "none" THEN AssignAddress(s)
        ELSE WithPort(s, Address(IF ipv6 THEN "inet6" ELSE "inet", Wildcard, 0, 0))

ParseSockaddr(s, ipv6) ==
    IF s # << >> /\ s[1] = Open THEN Bracketed(s) ELSE Unbracketed(s, ipv6)

------------------------------------------------------------------------------
(* The notations: [x:.....:z], w.x.y.z or the name of an interface, each with  *)
(* :p or without, or just a port.                                              *)

Hosts ==
    {[text |-> <<Open>> \o t \o <<Close>>, is |-> Address("inet6", InetPton6[t], 0, 0)]
        : t \in DOMAIN InetPton6}
    \cup {[text |-> <<w>>, is |-> Address("inet", w.of, 0, 0)]
        : w \in {v \in Words : v.kind = "v4"}}
    \cup {[text |-> <<w>>, is |-> Address("inet6", Wildcard, 0, IfNameToIndex(w))]
        : w \in {v \in Words \ TooLong : IfNameToIndex(v) # 0}}
Ports == {w \in Words : w.kind = "number" /\ w.of \in 1 .. PortMax}

\* A number is a port, or else a bad one, before it is the name of an interface.
JustHosts == {h \in Hosts : ~(h.text[1].kind = "number" /\ h.text[1].of <= UIntMax)}
HostWithPort(h, p) ==
    [text |-> h.text \o <<Colon, p>>, is |-> [h.is EXCEPT !.port = p.of]]
HostsWithPorts == {HostWithPort(h, p) : h \in Hosts, p \in Ports}
JustPorts(family) ==
    {[text |-> <<p>>, is |-> Address(family, Wildcard, p.of, 0)] : p \in Ports}

\* Ports are in host byte order here.
Notations == [ipv6 \in BOOLEAN |->
    JustHosts \cup HostsWithPorts \cup JustPorts(IF ipv6 THEN "inet6" ELSE "inet")]
Denoted(s, ipv6) == {n.is : n \in {m \in Notations[ipv6] : m.text = s}}

\* A blank before the minus sign makes a great negative number a small positive one.
Wraps(w) == w.kind = "blank_minus" /\ w.of <= ULongMax /\ ULongMax + 1 - w.of <= UIntMax
==============================================================================
