---------------------------- MODULE JournalHandler ----------------------------
(* Sending to the journal: send() and JournalHandler of systemd/journal.py     *)
(* over sendv() of systemd/_journal.c.                                         *)
(*                                                                             *)
(* A field is its name, a value is the place it comes from: <<"record", r>>    *)
(* for what log record r carries, <<"handler", h>> for what handler h was      *)
(* constructed with.  Several threads log; logging.Handler.handle() holds the  *)
(* handler's lock around emit(), and sendv() keeps the interpreter's lock, so  *)
(* a call of emit() is a step.                                                 *)
EXTENDS Integers, Sequences, FiniteSets

CONSTANTS
    Handlers, Records,
    Level,         \* record.levelno
    Own,           \* the names of the fields that a record carries (its extra)
    WithText,      \* the records whose exc_text is not empty
    WithInfo,      \* the records whose exc_info is not empty
    WithArgs,      \* the records with arguments
    WithoutFunc,   \* the records whose funcName is None
    Malformed,     \* the records whose message cannot be formatted
    Unsendable,    \* the records that carry a value sendv() or send() refuses
    Settings,      \* the sets of names a handler may be constructed with
    ValidNames,    \* the names that _valid_field_name() accepts
    Calls,         \* the sets of names that send() is called with directly
    MaxSent        \* bound on the calls of emit() and send()

ASSUME HandlerAssumption ==
    /\ Level \in [Records -> Int]
    /\ Own \in [Records -> SUBSET STRING]
    /\ Settings \subseteq SUBSET STRING /\ Calls \subseteq SUBSET STRING
    /\ "SYSLOG_IDENTIFIER" \in ValidNames
    /\ MaxSent \in Nat

VARIABLES
    extra,         \* self._extra of each handler that was constructed
    journal,       \* the entries that journald was sent
    refused        \* the records given to handleError(), the calls of send() that raised

vars == <<extra, journal, refused>>

Location == {"CODE_FILE", "CODE_LINE", "CODE_FUNC"}
\* The parameters of send() that emit() passes itself.
Keywords == Location \cup {"PRIORITY", "LOGGER", "THREAD_NAME", "PROCESS_NAME"}
Taken == Keywords \cup {"MESSAGE"}

All(names, value) == [f \in names |-> value]

\* A dict: what d has, and of the other what d has not.
d ++ other ==
    [f \in DOMAIN d \cup DOMAIN other |-> IF f \in DOMAIN d THEN d[f] ELSE other[f]]

------------------------------------------------------------------------------
\* Fault: a level that has a name is mapped like the next one above it.
MapPriorityBelow(level) ==
    CASE level < 10 -> 7 [] level \in 10 .. 19 -> 6 [] level \in 20 .. 29 -> 4
      [] level \in 30 .. 39 -> 3 [] level \in 40 .. 49 -> 2 [] OTHER -> 1

\* Levels of the logging module to LOG_DEBUG (7) .. LOG_ALERT (1).
MapPriority(level) ==
    CASE level <= 10 -> 7 [] level \in 11 .. 20 -> 6 [] level \in 21 .. 30 -> 4
      [] level \in 31 .. 40 -> 3 [] level \in 41 .. 50 -> 2 [] OTHER -> 1

\* Fault: any name is taken.
AnyFieldName(name) == TRUE

ValidFieldName(name) == name \in ValidNames

\* JournalHandler(**kwargs); an invalid name raises and makes no handler.
Construct(h, names) ==
    /\ h \notin DOMAIN extra
    /\ \A name \in names : ValidFieldName(name)
    /\ extra' = All({h}, All(names, <<"handler", h>>)
                            ++ All({"SYSLOG_IDENTIFIER"}, <<"argv", h>>)) ++ extra
    /\ UNCHANGED <<journal, refused>>

\* What emit() takes from the record besides its own fields.
Noted(r) ==
    All((IF r \in WithText THEN {"EXCEPTION_TEXT"} ELSE {})
            \cup (IF r \in WithInfo THEN {"EXCEPTION_INFO"} ELSE {})
            \cup (IF r \in WithArgs THEN {"CODE_ARGS"} ELSE {}), <<"noted", r>>)

\* Fault: the handler's fields are put in last.
HandlerFirst(h, r) == extra[h] ++ All(Own[r], <<"record", r>>) ++ Noted(r)

\* extras: the record's own fields come before what is noted, and that before the
\* handler's.
Extras(h, r) == All(Own[r], <<"record", r>>) ++ Noted(r) ++ extra[h]

\* Fault: extras is self._extra, not a copy of it.
SharedExtra(h, r) == Extras(h, r)

\* emit() fills a copy: self._extra stays what it was.
KeptExtra(h, r) == extra[h]

\* The keyword arguments that are not None.
Named(r) ==
    All(Keywords \ (IF r \in WithoutFunc THEN {"CODE_FUNC", "PRIORITY"} ELSE {"PRIORITY"}),
        <<"logged", r>>)
        ++ All({"PRIORITY"}, <<"logged", MapPriority(Level[r])>>)

\* Fault: each part of the location that was not given is filled in.
LocatedByPart(fields) == fields ++ All(Location, <<"stack", "caller">>)

\* send() adds its caller's location if none was given.
Located(fields) ==
    IF Location \cap DOMAIN fields = {}
    THEN fields ++ All(Location, <<"stack", "caller">>) ELSE fields

Refuse(h, r, why) ==
    /\ refused' = Append(refused, [handler |-> h, record |-> r, why |-> why])
    /\ UNCHANGED journal

\* send() and sendv(): a value that is not a text or not encoded, or an error of
\* sd_journal_sendv(), raises, and nothing was sent.
Sendv(h, r, sendable, fields) ==
    \/ ~sendable /\ Refuse(h, r, "value")
    \/ sendable /\ Refuse(h, r, "sd_journal_sendv")
    \/ /\ sendable
       /\ journal' = Append(journal, [handler |-> h, record |-> r, fields |-> fields])
       /\ UNCHANGED refused

\* JournalHandler.emit: whatever raises ends in handleError().
Emit(h, r) ==
    /\ h \in DOMAIN extra /\ Len(journal) + Len(refused) < MaxSent
    /\ IF r \in Malformed
       THEN Refuse(h, r, "format") /\ UNCHANGED extra
       ELSE /\ extra' = [extra EXCEPT ![h] = KeptExtra(h, r)]
            /\ IF DOMAIN Extras(h, r) \cap Taken # {}
               THEN Refuse(h, r, "keyword given twice")
               ELSE Sendv(h, r, r \notin Unsendable, Located(Named(r) ++ Extras(h, r)))

\* send() called without a handler, with any values: what is raised goes to its caller.
Send(names, sendable) ==
    /\ Len(journal) + Len(refused) < MaxSent
    /\ "MESSAGE" \notin names
    /\ Sendv("none", "none", sendable, Located(All(names, <<"call", "args">>)))
    /\ UNCHANGED extra

Init == extra = << >> /\ journal = << >> /\ refused = << >>

Next ==
    \/ \E h \in Handlers, names \in Settings : Construct(h, names)
    \/ \E h \in Handlers, r \in Records : Emit(h, r)
    \/ \E names \in Calls, sendable \in BOOLEAN : Send(names, sendable)

Spec == Init /\ [][Next]_vars

------------------------------------------------------------------------------
Logged == {journal[i] : i \in {j \in DOMAIN journal : journal[j].handler # "none"}}
Sent == {journal[i] : i \in DOMAIN journal}

\* The names that a handler was given are valid ones; an entry or a refusal is of a
\* record and a handler that was constructed, or of a direct call.
TypeOK ==
    /\ DOMAIN extra \subseteq Handlers
    /\ \A h \in DOMAIN extra : DOMAIN extra[h] \subseteq ValidNames
    /\ \A e \in Logged : /\ e.handler \in DOMAIN extra /\ e.record \in Records
                         /\ e.fields["PRIORITY"][2] \in 1 .. 7
    /\ \A i \in DOMAIN refused :
        <<refused[i].handler, refused[i].record>>
            \in ((DOMAIN extra) \X Records) \cup {<<"none", "none">>}

\* No entry has a field of another record, or of a handler other than its own: one
\* record's exception or arguments do not turn up in the entries after it.
OwnFieldsOnly == \A e \in Logged : \A f \in DOMAIN e.fields \ {"PRIORITY"} :
    e.fields[f] \in {"record", "noted", "logged"} \X {e.record}
                        \cup {"handler", "argv"} \X {e.handler}

\* emit(): "defaults", "higher priority", "explicit arguments".  What a record
\* carries is sent as it carries it, whatever the handler was given.
RecordBeforeHandler == \A e \in Logged :
    /\ Own[e.record] \subseteq DOMAIN e.fields
    /\ \A f \in Own[e.record] : e.fields[f] = <<"record", e.record>>
    /\ \A f \in DOMAIN Noted(e.record) : e.fields[f] # <<"handler", e.handler>>

\* The three parts of a location are of one place, never some of the caller's
\* stack and some of the arguments.
OneLocation == \A e \in Sent :
    Cardinality({e.fields[f] : f \in Location \cap DOMAIN e.fields}) = 1

\* A record of a higher level is never less urgent, and the levels with a name
\* have the priority of that name.
PrioritiesOrdered == \A d, e \in Logged :
    LET urgency(x) == x.fields["PRIORITY"][2]
        named == {<<10, 7>>, <<20, 6>>, <<30, 4>>, <<40, 3>>, <<50, 2>>}
    IN  /\ Level[d.record] <= Level[e.record] => urgency(d) >= urgency(e)
        /\ \A pair \in named : Level[d.record] = pair[1] => urgency(d) = pair[2]
==============================================================================
