--------------------------- MODULE MCJournalFollow ---------------------------
(* Instances of JournalFollow for TLC. *)
EXTENDS JournalFollow

CONSTANTS main, badMatch

Entry(data) == [data |-> data]
Readables == {Entry("whole"), Entry("odd")}
Unreadables == {Entry("whole"), Entry("none")}
None == {}
FollowCalls == [t \in Threads |-> {"get_next", "wait", "fileno", "process"}]
==============================================================================
