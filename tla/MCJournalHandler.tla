--------------------------- MODULE MCJournalHandler ---------------------------
(* An instance of JournalHandler for TLC: records at the levels that have a    *)
(* name and next to them, and records with whatever else a record may carry.   *)
EXTENDS JournalHandler

AtLevel == {<<"at 9", 9>>, <<"at 10", 10>>, <<"at 11", 11>>, <<"at 19", 19>>, <<"at 20", 20>>,
            <<"at 21", 21>>, <<"at 29", 29>>, <<"at 30", 30>>, <<"at 31", 31>>, <<"at 39", 39>>,
            <<"at 40", 40>>, <<"at 41", 41>>, <<"at 49", 49>>, <<"at 50", 50>>, <<"at 51", 51>>}
Plain == {p[1] : p \in AtLevel}
AllRecords == Plain \cup {"failure", "queued", "terse", "request", "urgent", "broken", "number"}
Levels == [r \in AllRecords |->
    IF r \in Plain THEN (CHOOSE p \in AtLevel : p[1] = r)[2]
    ELSE IF r = "request" THEN 15 ELSE IF r = "terse" THEN 60 ELSE 40]
OwnFields == [r \in AllRecords |->
    CASE r = "failure" -> {"UNIT"} [] r = "request" -> {"MESSAGE_ID", "CODE_ARGS"}
      [] r = "urgent" -> {"PRIORITY"} [] r = "number" -> {"MESSAGE_ID"} [] OTHER -> {}]
Texts == {"failure", "queued"}
Infos == {"failure", "terse"}
Requests == {"request", "failure"}
ByHand == {"at 20"}
Broken == {"broken"}
Numbers == {"number"}

Names == {"UNIT", "EXCEPTION_TEXT", "EXCEPTION_INFO", "CODE_ARGS", "LOGGER",
          "SYSLOG_IDENTIFIER", "MESSAGE_ID"}
SomeSettings == {{}, {"UNIT", "EXCEPTION_TEXT"}, {"LOGGER"}, {"SYSLOG_IDENTIFIER", "MESSAGE_ID"},
                 {"a name with blanks"}}
SomeCalls == {{}, {"CODE_LINE"}, {"PRIORITY", "CODE_FILE", "CODE_FUNC"}}
==============================================================================
