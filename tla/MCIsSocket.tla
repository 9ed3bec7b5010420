------------------------------ MODULE MCIsSocket ------------------------------
(* An instance of IsSocket for TLC: bytes of two values, ports of two bytes,   *)
(* unsigned ints of three bits and unsigned longs of four.                     *)
(*                                                                             *)
(* The names are fe80, which is no interface, eth0, which is one, and one that *)
(* is too long but begins with the name of one.  The number 2 is a port and    *)
(* the name of an interface, 9 is too great for a port but names one, and 16   *)
(* begins with the name of one.  The IPv6 address in full is ::2.              *)
EXTENDS IsSocket

Some(kind, values) == {Piece(kind, n) : n \in values}
SomeWords ==
    Some("v4", {1}) \cup Some("v6", {2}) \cup Some("name", {0, 2, 3})
    \cup Some("number", {0, 2, 6, 9, 16})
    \cup Some("minus", {13}) \cup Some("blank_minus", {13})
Shadowed == Some("number", {2, 9, 16})
Long == Some("name", {3}) \cup Some("number", {16})

\* The hexadecimal groups, and every IPv6 address in a text of at most three pieces.
Groups == Some("name", {0}) \cup Some("number", {0, 2, 6, 9})
Group(w) == IF w.kind = "name" THEN 10 ELSE w.of
SomeAddresses ==
    [t \in {<<Piece("v6", 2)>>, <<Colons>>, <<Colons, Piece("v4", 1)>>}
           \cup {<<Colons, g>> : g \in Groups} \cup {<<g, Colons>> : g \in Groups}
           \cup {<<g, Colons, w>> : g \in Groups, w \in Groups \cup {Piece("v4", 1)}} |->
        LET High == IF t[1] \in Groups THEN 1000 * Group(t[1]) ELSE 0
            last == t[Len(t)]
            Low == IF last = Colons THEN 0
                   ELSE IF last \in Groups THEN Group(last) ELSE 100 * last.of
        IN  IF Len(t) = 1 THEN t[1].of ELSE High + Low]

Socket(family, host, port, scope, flowinfo) ==
    [family |-> family, host |-> host, port |-> port, scope |-> scope, flowinfo |-> flowinfo]
SomeSockets == [fd \in 3 .. 5 |->
    CASE fd = 3 -> Socket("inet", 1, 2, 0, 0)
      [] fd = 4 -> Socket("inet6", 2, 1, 0, 1)
      [] OTHER -> Socket("inet6", Wildcard, 2, 2, 0)]
SomePorts == {-1, 0, 1, 2, 6}
==============================================================================
