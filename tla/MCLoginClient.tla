---------------------------- MODULE MCLoginClient ----------------------------
(* An instance of LoginClient for TLC: a client and another actor, which may   *)
(* close the Monitor or leave a with block.                                    *)
EXTENDS LoginClient

CONSTANTS other

LoginCalls == [t \in Threads |->
    IF t = client THEN {"new", "ask", "flush", "list", "dealloc"}
    ELSE {"close", "exit"}]
==============================================================================
