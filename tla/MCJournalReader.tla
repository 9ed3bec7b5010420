--------------------------- MODULE MCJournalReader ---------------------------
(* Instances of JournalReader for TLC. *)
EXTENDS JournalReader

CONSTANTS main, other, badMatch

Entry(data, priority, unit) == [data |-> data, PRIORITY |-> priority, UNIT |-> unit]

Plainest == {Entry("whole", 0, "a")}
Various == {Entry("whole", 0, "a"), Entry("none", 1, "a"), Entry("broken", 0, "a")}
TwoValues == {Entry("whole", 0, "a"), Entry("whole", 1, "b"), Entry("odd", 0, "a")}

Pri(p) == <<"PRIORITY", p>>
Unit(u) == <<"UNIT", u>>
NoMatches == {}
OneLevel == {Pri(0)}
FieldMatches == {Pri(0), Pri(1), Unit("a"), Unit("b")}
LevelArgs == {<<Pri(0)>>}
RefusedArgs == {<<Pri(0), badMatch, Pri(1)>>}

\* One thread that moves about and filters, in a journal that rotates.
OwnCalls == [t \in Threads |->
    {"open", "close", "dealloc", "get_next", "get_previous", "seek_head", "seek_tail",
     "seek_realtime", "seek_cursor", "add_match", "log_level", "add_disjunction",
     "flush_matches", "fileno", "wait"}]
\* A thread that queries the values of a field, and a signal handler that queries
\* those of another or closes the Reader.
HandlerCalls == [t \in Threads |->
    IF t = main THEN {"open", "query_unique", "add_match", "add_conjunction"}
    ELSE {"close", "query_unique"}]
\* Two threads, one of which closes the Reader under the other and opens it again.
SharedCalls == [t \in Threads |->
    IF t = main
    THEN {"open", "reinit", "dealloc", "get_next", "seek_monotonic", "query_unique",
          "get_catalog", "test_cursor", "get", "enumerate_fields", "get_usage", "process"}
    ELSE {"open", "close"}]
==============================================================================
