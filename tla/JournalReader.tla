---------------------------- MODULE JournalReader ----------------------------
(* systemd.journal.Reader: the class of systemd/journal.py over the extension  *)
(* type of systemd/_reader.c.                                                  *)
(*                                                                             *)
(* One Reader object is used by the actors in Threads, each of which makes one *)
(* call at a time.  A call of the extension that releases the GIL is two steps *)
(* here: it captures self->j, then libsystemd does its work and the call       *)
(* returns.  __init__() is three, since libsystemd writes self->j before the   *)
(* GIL is taken again, and close() is two statements, between which nobody     *)
(* else has the GIL.  Any other call that keeps the GIL is one step.           *)
(* A Python method is the sequence of the extension calls it makes: the        *)
(* interpreter may run another thread, or a signal handler, between any two of *)
(* them.                                                                       *)
(*                                                                             *)
(* Overlap = TRUE: the actors are threads, any of which may run while another  *)
(* is inside libsystemd.  Overlap = FALSE: they are one thread and its signal  *)
(* handlers, which the interpreter only runs between two bytecodes.            *)
EXTENDS SdJournal

CONSTANTS
    Threads,       \* the actors that share the Reader
    Overlap,       \* whether one of them runs while another is inside libsystemd
    Calls,         \* the methods each of them calls
    Skips,         \* the arguments of get_next() and get_previous()
    MatchArgs,     \* the arguments of add_match(): sequences of matches and of BadMatch
    Levels,        \* the arguments of log_level()
    BadMatch,      \* a match string that libsystemd refuses
    MaxHandles     \* bound on the handles opened by one Reader

ASSUME ReaderAssumption ==
    /\ Threads # {}
    /\ Overlap \in BOOLEAN
    /\ Skips \subseteq Int
    /\ MatchArgs \subseteq Seq(Matches \cup {BadMatch})
    /\ BadMatch \notin Matches
    /\ Levels \subseteq Int
    /\ \A l \in Levels : \A p \in 0 .. l : l \in 0 .. 7 => <<"PRIORITY", p>> \in Matches
    /\ MaxHandles \in Nat \ {0}

VARIABLES
    j,             \* self->j: the handle of the Reader, NULL when it is closed
    lib,           \* libsystemd's handles
    pc,            \* where each actor is in its call
    call,          \* the arguments of that call, and the handle it captured
    part,          \* the dictionary get_next() is building
    ret,           \* what the last call of each actor returned or raised
    ub,            \* the ways in which a freed handle was used
    got            \* the entries handed out so far

readerVars == <<j, lib, pc, call, part, ret, ub, got>>
vars == <<log, disk, j, lib, pc, call, part, ret, ub, got>>

NULL == 0
HandleIds == 1 .. MaxHandles

\* Fault: values are enumerated in a call after that which queries.
MessageOnly == {"opened", "message_id"}

\* Inside libsystemd, with the GIL released; and back from there in the same
\* call, which goes on with the GIL (or, "opened", waits for it).
InLib == {"open", "next", "boot", "seek", "process", "wait", "unique", "catalog"}
Second == {"opened", "values", "message_id"}
Stamps == {"realtime", "monotonic", "cursor"}
PCs == {"idle", "match", "getall", "closing", "gone"} \cup InLib \cup Second \cup Stamps

\* A dictionary under construction: the entry each of its parts was read from.
Dicts == [fields : {0} \cup Ids, realtime : {0} \cup Ids,
          monotonic : {0} \cup Ids, cursor : {0} \cup Ids]
NoDict == [fields |-> 0, realtime |-> 0, monotonic |-> 0, cursor |-> 0]

\* set_error(): what a negative errno raises, but for an -EINVAL with a message.
Errors == {"OSError", "MemoryError"}
\* What arguments that do not convert, or do not go together, raise.
BadArguments == {"TypeError", "OverflowError", "ValueError"}
Kinds == {"none", "entry", "end", "None", "values", "True", "False", "NOP", "APPEND",
          "INVALIDATE", "KeyError", "IndexError"} \cup Errors \cup BadArguments
Result(kind, entry) == [kind |-> kind, entry |-> entry, values |-> {}]
Plain(kind) == Result(kind, NoDict)

CallRecords == [held : {NULL} \cup HandleIds, skip : Int, to : Locs,
                forever : BOOLEAN, level : Int, todo : Seq(Matches \cup {BadMatch}),
                field : FieldNames \cup {""}]
NoCall == [held |-> NULL, skip |-> 0, to |-> Loc("head", 0), forever |-> FALSE,
           level |-> -1, todo |-> << >>, field |-> ""]

Idle(t) == pc[t] = "idle"

\* Fault: signal handlers run while a call is inside libsystemd.
Interrupts(t) == TRUE

\* Nobody else is in the middle of an extension call in the thread of t.
Alone(t) ==
    Overlap \/ \A u \in Threads \ {t} : pc[u] \notin InLib \cup Second \cup {"closing"}

\* The interpreter runs t: it has the GIL, which a close() keeps until it is over.
Runs(t) == Alone(t) /\ \A u \in Threads \ {t} : pc[u] # "closing"

Begins(t, where, args) ==
    /\ Idle(t) /\ Runs(t)
    /\ pc' = [pc EXCEPT ![t] = where]
    /\ call' = [call EXCEPT ![t] = args]
    /\ UNCHANGED <<log, disk, j, lib, part, ret, ub, got>>

\* The call of t is over and its result is r.
Ends(t, r) ==
    /\ pc' = [pc EXCEPT ![t] = "idle"]
    /\ call' = [call EXCEPT ![t] = NoCall]
    /\ part' = [part EXCEPT ![t] = NoDict]
    /\ ret' = [ret EXCEPT ![t] = r]

\* A call that keeps the GIL from its first line to its last.
AtOnce(t) == Idle(t) /\ Runs(t)

\* t is inside libsystemd, with a handle that is still open.
Inside(t, where) ==
    /\ pc[t] = where /\ Runs(t)
    /\ call[t].held # NULL /\ lib[call[t].held].st = "open"

\* A call on self->j under the GIL: undefined when j points to a freed handle.
Touch == ub' = IF j # NULL /\ lib[j].st # "open" THEN ub \cup {"stale"} ELSE ub

------------------------------------------------------------------------------
(* Opening and closing *)

\* Reader.__init__.  A client opens a Reader once, or again after close(); one
\* that calls "reinit" runs __init__ on an open Reader too.
Open(t) ==
    /\ "open" \in Calls[t]
    /\ j = NULL \/ "reinit" \in Calls[t]
    /\ Begins(t, "open", NoCall)

\* sd_journal_open(&self->j, flags) and its variants.
OpenStores(t) ==
    /\ pc[t] = "open" /\ Alone(t)
    /\ \E h \in HandleIds :
        /\ lib[h].st = "unused" /\ \A k \in 1 .. h - 1 : lib[k].st # "unused"
        /\ j' = h
        /\ lib' = [lib EXCEPT ![h] = Opened]
    /\ pc' = [pc EXCEPT ![t] = "opened"]
    /\ UNCHANGED <<log, disk, call, part, ret, ub, got>>

OpenReturns(t) ==
    /\ pc[t] = "opened" /\ Runs(t)
    /\ Ends(t, Plain("None"))
    /\ UNCHANGED <<log, disk, j, lib, ub, got>>

\* Fault: the error code is left in self->j.
OpenFailsBadly(t) ==
    /\ pc[t] = "open" /\ Runs(t)
    /\ j' = -22
    /\ Ends(t, Plain("OSError"))
    /\ UNCHANGED <<log, disk, lib, ub, got>>

\* Bad arguments (path and files together, say) or an error of sd_journal_open.
OpenFails(t) ==
    /\ pc[t] = "open" /\ Runs(t)
    /\ \E e \in BadArguments \cup Errors : Ends(t, Plain(e))
    /\ UNCHANGED <<log, disk, j, lib, ub, got>>

\* sd_journal_close(self->j), which accepts NULL.
Frees ==
    /\ lib' = [h \in HandleIds |-> IF h = j THEN Freed ELSE lib[h]]
    /\ Touch

\* Fault: close() resets self->j without closing the handle.
CloseForgetsHandle(t) ==
    /\ "close" \in Calls[t] /\ Begins(t, "closing", [NoCall EXCEPT !.held = j])

\* Reader_close(): the handle is freed ...
CloseFrees(t) ==
    /\ "close" \in Calls[t] /\ AtOnce(t)
    /\ Frees
    /\ pc' = [pc EXCEPT ![t] = "closing"]
    /\ call' = [call EXCEPT ![t] = [NoCall EXCEPT !.held = j]]
    /\ UNCHANGED <<log, disk, j, part, ret, got>>

\* Fault: close() does not reset self->j.
CloseKeepsPointer(t) ==
    /\ pc[t] = "closing" /\ Runs(t)
    /\ Ends(t, Plain("None"))
    /\ UNCHANGED <<log, disk, j, lib, ub, got>>

\* ... and then whatever self->j refers to is forgotten.
CloseClears(t) ==
    /\ pc[t] = "closing" /\ Runs(t)
    /\ j' = NULL
    /\ Ends(t, Plain("None"))
    /\ UNCHANGED <<log, disk, lib, ub, got>>

\* Reader_dealloc, once no frame refers to the object.
Dealloc ==
    /\ \E t \in Threads : "dealloc" \in Calls[t]
    /\ \A t \in Threads : Idle(t)
    /\ Frees
    /\ pc' = [t \in Threads |-> "gone"]
    /\ UNCHANGED <<log, disk, j, call, part, ret, got>>

------------------------------------------------------------------------------
(* What any call that releases the GIL may come back with, whatever it does *)

\* What -EINVAL raises: query_unique() and, of the seeks, seek_cursor() have a
\* message for it.
Refused(t) ==
    CASE pc[t] = "unique" -> {"ValueError"}
      [] pc[t] = "seek"   -> {"OSError", "ValueError"}
      [] OTHER            -> {"OSError"}

\* It captured a NULL handle: libsystemd answers -EINVAL.
ReturnsClosed(t) ==
    /\ pc[t] \in InLib \ {"open", "boot"} /\ Runs(t)
    /\ call[t].held = NULL
    /\ \E e \in Refused(t) : Ends(t, Plain(e))
    /\ UNCHANGED <<log, disk, j, lib, ub, got>>

\* Its handle was freed while it was inside: undefined behaviour.
ReturnsFreed(t) ==
    /\ pc[t] \in InLib \ {"open", "boot"} /\ Runs(t)
    /\ call[t].held # NULL /\ lib[call[t].held].st = "freed"
    /\ ub' = ub \cup {"raced"}
    /\ Ends(t, Plain("OSError"))
    /\ UNCHANGED <<log, disk, j, lib, got>>

\* libsystemd returned another negative errno.
ReturnsError(t) ==
    /\ \E where \in InLib \ {"open", "boot"} : Inside(t, where)
    /\ \E e \in Refused(t) \cup Errors : Ends(t, Plain(e))
    /\ UNCHANGED <<log, disk, j, lib, ub, got>>

------------------------------------------------------------------------------
(* get_next() and get_previous() *)

\* Fault: one entry too far.
GetNextButOne(t, skip) ==
    /\ "get_next" \in Calls[t] /\ skip # 0
    /\ Begins(t, "next", [NoCall EXCEPT !.held = j, !.skip = skip + 1])

GetNext(t, skip) ==
    /\ "get_next" \in Calls[t] /\ skip # 0
    /\ Begins(t, "next", [NoCall EXCEPT !.held = j, !.skip = skip])

GetPrevious(t, skip) ==
    /\ "get_previous" \in Calls[t] /\ -skip # 0
    /\ Begins(t, "next", [NoCall EXCEPT !.held = j, !.skip = -skip])

ZeroSkip(t) ==
    /\ {"get_next", "get_previous"} \cap Calls[t] # {} /\ 0 \in Skips /\ AtOnce(t)
    /\ Ends(t, Plain("ValueError"))
    /\ UNCHANGED <<log, disk, j, lib, ub, got>>

\* _next() is True: on to _get_all().
NextMoves(t) ==
    /\ Inside(t, "next")
    /\ \E i \in DOMAIN log :
        /\ LandsAt(lib[call[t].held], call[t].skip, i)
        /\ lib' = [lib EXCEPT ![call[t].held].loc = Loc("discrete", i)]
    /\ pc' = [pc EXCEPT ![t] = "getall"]
    /\ call' = [call EXCEPT ![t] = NoCall]
    /\ UNCHANGED <<log, disk, j, part, ret, ub, got>>

\* Fault: the end of the journal takes the reader back to its head.
NextEndsRewinds(t) ==
    /\ Inside(t, "next")
    /\ NothingThere(lib[call[t].held], call[t].skip)
    /\ lib' = [lib EXCEPT ![call[t].held].loc = Loc("head", 0)]
    /\ Ends(t, Plain("end"))
    /\ UNCHANGED <<log, disk, j, ub, got>>

\* _next() is False: dict().
NextEnds(t) ==
    /\ Inside(t, "next")
    /\ NothingThere(lib[call[t].held], call[t].skip)
    /\ Ends(t, Plain("end"))
    /\ UNCHANGED <<log, disk, j, lib, ub, got>>

\* The entry whose data the extension reads for a call on self->j.
Readable == IF j = NULL THEN 0 ELSE Current(lib[j])

\* _get_all(): SD_JOURNAL_FOREACH_DATA stops at an error as it does at the end,
\* and an empty dictionary is what get_next() returns at the end of the journal.
\* extract() raises for a field without "=".
GetAll(t) ==
    /\ pc[t] = "getall" /\ Runs(t)
    /\ IF Readable = 0 \/ log[Readable].content.data = "none"
       THEN Ends(t, Plain("end"))
       ELSE IF log[Readable].content.data = "broken"
       THEN Ends(t, Plain("OSError"))
       ELSE /\ part' = [part EXCEPT ![t].fields = Readable]
            /\ pc' = [pc EXCEPT ![t] = "realtime"]
            /\ UNCHANGED <<call, ret>>
    /\ Touch
    /\ UNCHANGED <<log, disk, j, lib, got>>

\* _get_realtime() and _get_monotonic().
GetStamp(t, s, then) ==
    /\ pc[t] = s /\ Runs(t)
    /\ IF Readable = 0
       THEN Ends(t, Plain("OSError"))
       ELSE /\ part' = [part EXCEPT ![t][s] = Readable]
            /\ pc' = [pc EXCEPT ![t] = then]
            /\ UNCHANGED <<call, ret>>
    /\ Touch
    /\ UNCHANGED <<log, disk, j, lib, got>>

GetRealtime(t) == GetStamp(t, "realtime", "monotonic")
GetMonotonic(t) == GetStamp(t, "monotonic", "cursor")

\* Fault: the handle is moved on before the cursor is read.
GetCursorOfNext(t) ==
    /\ pc[t] = "cursor" /\ Runs(t)
    /\ Readable # 0
    /\ \E i \in DOMAIN log :
        /\ LandsAt(lib[j], 1, i)
        /\ lib' = [lib EXCEPT ![j].loc = Loc("discrete", i)]
        /\ Ends(t, Result("entry", [part[t] EXCEPT !.cursor = i]))
    /\ got' = got \cup {part[t].fields}
    /\ Touch
    /\ UNCHANGED <<log, disk, j>>

\* _get_cursor(), then _convert_entry() on what is now a private dictionary: only
\* a ValueError of a converter is caught there.
GetCursor(t) ==
    /\ pc[t] = "cursor" /\ Runs(t)
    /\ IF Readable = 0
       THEN Ends(t, Plain("OSError")) /\ UNCHANGED got
       ELSE IF log[part[t].fields].content.data = "odd"
       THEN Ends(t, Plain("OverflowError")) /\ UNCHANGED got
       ELSE /\ Ends(t, Result("entry", [part[t] EXCEPT !.cursor = Readable]))
            /\ got' = got \cup {part[t].fields}
    /\ Touch
    /\ UNCHANGED <<log, disk, j, lib>>

------------------------------------------------------------------------------
(* Seeking *)

SeekTo(t, loc) == Begins(t, "seek", [NoCall EXCEPT !.held = j, !.to = loc])

SeekHead(t) == "seek_head" \in Calls[t] /\ SeekTo(t, Loc("head", 0))
SeekTail(t) == "seek_tail" \in Calls[t] /\ SeekTo(t, Loc("tail", 0))
SeekRealtime(t, i) == "seek_realtime" \in Calls[t] /\ SeekTo(t, Loc("seek", i))
SeekCursor(t, i) == "seek_cursor" \in Calls[t] /\ i \in got /\ SeekTo(t, Loc("seek", i))

\* Without a bootid, sd_id128_get_boot() is asked for it first.
SeekMonotonic(t, i) ==
    /\ "seek_monotonic" \in Calls[t]
    /\ \/ SeekTo(t, Loc("seek", i))
       \/ Begins(t, "boot", [NoCall EXCEPT !.to = Loc("seek", i)])

BootReturns(t) ==
    /\ pc[t] = "boot" /\ Runs(t)
    /\ \/ /\ pc' = [pc EXCEPT ![t] = "seek"]
          /\ call' = [call EXCEPT ![t].held = j]
          /\ UNCHANGED <<part, ret>>
       \/ \E e \in Errors : Ends(t, Plain(e))
    /\ UNCHANGED <<log, disk, j, lib, ub, got>>

SeekReturns(t) ==
    /\ Inside(t, "seek")
    /\ lib' = [lib EXCEPT ![call[t].held].loc = call[t].to]
    /\ Ends(t, Plain("None"))
    /\ UNCHANGED <<log, disk, j, ub, got>>

------------------------------------------------------------------------------
(* Matches *)

\* add_match(), and messageid_match(), this_boot(), this_machine() over it.
AddMatch(t, args) ==
    "add_match" \in Calls[t] /\ Begins(t, "match", [NoCall EXCEPT !.todo = args])

\* log_level(): one match for every priority up to the level.
LogLevel(t, level) ==
    /\ "log_level" \in Calls[t]
    /\ IF level \in 0 .. 7
       THEN Begins(t, "match", [NoCall EXCEPT !.level = level,
                !.todo = [p \in 1 .. level + 1 |-> <<"PRIORITY", p - 1>>]])
       ELSE /\ AtOnce(t) /\ Ends(t, Plain("ValueError"))
            /\ UNCHANGED <<log, disk, j, lib, ub, got>>

\* Fault: a refused match is passed over.
MatchGoesOn(t) ==
    /\ pc[t] = "match" /\ Runs(t)
    /\ call[t].todo # << >> /\ Head(call[t].todo) = BadMatch
    /\ call' = [call EXCEPT ![t].todo = Tail(@)]
    /\ UNCHANGED <<log, disk, j, lib, pc, part, ret, ub, got>>

\* One turn of the loop: a call of _Reader.add_match().  A failing call ("Invalid
\* match") leaves the matches that were added before it.
MatchFails(t) ==
    /\ pc[t] = "match" /\ Runs(t)
    /\ call[t].todo # << >> /\ (j = NULL \/ Head(call[t].todo) = BadMatch)
    /\ Ends(t, Plain("ValueError"))
    /\ Touch
    /\ UNCHANGED <<log, disk, j, lib, got>>

MatchAdds(t) ==
    /\ pc[t] = "match" /\ Runs(t)
    /\ call[t].todo # << >> /\ j # NULL /\ Head(call[t].todo) # BadMatch
    /\ lib' = [lib EXCEPT ![j].filter = WithMatches(@, {Head(call[t].todo)})]
    /\ call' = [call EXCEPT ![t].todo = Tail(@)]
    /\ Touch
    /\ UNCHANGED <<log, disk, j, pc, part, ret, got>>

MatchEnds(t) ==
    /\ pc[t] = "match" /\ Runs(t) /\ call[t].todo = << >>
    /\ Ends(t, Plain("None"))
    /\ UNCHANGED <<log, disk, j, lib, ub, got>>

\* A change of the filter made in one call under the GIL.
Refilters(t, filter, whenClosed) ==
    /\ AtOnce(t)
    /\ IF j = NULL
       THEN Ends(t, Plain(whenClosed)) /\ UNCHANGED lib
       ELSE Ends(t, Plain("None")) /\ lib' = [lib EXCEPT ![j].filter = filter]
    /\ Touch
    /\ UNCHANGED <<log, disk, j, got>>

Filter == IF j = NULL THEN NoFilter ELSE lib[j].filter

AddDisjunction(t) ==
    /\ "add_disjunction" \in Calls[t] /\ TermsLeft(Filter)
    /\ Refilters(t, WithDisjunction(Filter), "OSError")

AddConjunction(t) ==
    /\ "add_conjunction" \in Calls[t] /\ TermsLeft(Filter)
    /\ Refilters(t, WithConjunction(Filter), "OSError")

\* sd_journal_flush_matches() returns nothing: a closed Reader does not show.
FlushMatches(t) == "flush_matches" \in Calls[t] /\ Refilters(t, NoFilter, "None")

------------------------------------------------------------------------------
(* Questions about the entry and about the whole journal *)

QueryUnique(t, field) ==
    /\ "query_unique" \in Calls[t]
    /\ Begins(t, "unique", [NoCall EXCEPT !.held = j, !.field = field])

\* libsystemd notes the field in the handle; the GIL is yet to be taken again.
UniqueReturns(t) ==
    /\ Inside(t, "unique")
    /\ lib' = [lib EXCEPT ![call[t].held].unique = call[t].field]
    /\ pc' = [pc EXCEPT ![t] = "values"]
    /\ UNCHANGED <<log, disk, j, call, part, ret, ub, got>>

\* SD_JOURNAL_FOREACH_UNIQUE on what self->j is now: a NULL handle gives nothing.
\* A value without "=" raises, and one that a converter does not take may.
UniqueValues(t) ==
    /\ pc[t] = "values" /\ Runs(t)
    /\ \/ \E found \in IF j = NULL THEN {{}} ELSE Enumerated(lib[j]) :
            Ends(t, [Plain("values") EXCEPT !.values = found])
       \/ /\ j # NULL /\ lib[j].unique # ""
          /\ \E i \in InFiles(lib[j]) :
                /\ log[i].content.data \in {"broken", "odd"}
                /\ Ends(t, Plain(IF log[i].content.data = "broken" THEN "ValueError"
                                 ELSE "OverflowError"))
    /\ Touch
    /\ UNCHANGED <<log, disk, j, lib, got>>

GetCatalog(t) ==
    "get_catalog" \in Calls[t] /\ Begins(t, "catalog", [NoCall EXCEPT !.held = j])

\* A text, or none (-ENOENT): then the entry's MESSAGE_ID is asked for.
CatalogReturns(t) ==
    /\ Inside(t, "catalog")
    /\ \/ Ends(t, Plain("None"))
       \/ pc' = [pc EXCEPT ![t] = "message_id"] /\ UNCHANGED <<call, part, ret>>
    /\ UNCHANGED <<log, disk, j, lib, ub, got>>

\* KeyError with the id, IndexError without one.
CatalogMissing(t) ==
    /\ pc[t] = "message_id" /\ Runs(t)
    /\ \E e \in IF Readable = 0 THEN {"OSError"} ELSE {"KeyError", "IndexError"} \cup Errors :
        Ends(t, Plain(e))
    /\ Touch
    /\ UNCHANGED <<log, disk, j, lib, got>>

\* One question, asked and answered with the GIL held.
Asks(t, method, closed, answers) ==
    /\ method \in Calls[t] /\ AtOnce(t)
    /\ \E a \in IF j = NULL THEN {closed} ELSE answers : Ends(t, Plain(a))
    /\ Touch
    /\ UNCHANGED <<log, disk, j, lib, got>>

\* _get(): the name may be invalid, the field missing, or the entry out of reach.
Get(t) == Asks(t, "get", "ValueError",
    {"ValueError"} \cup Errors \cup IF Readable = 0 THEN {} ELSE {"None", "KeyError"})

TestCursor(t, i) ==
    /\ i \in got
    /\ Asks(t, "test_cursor", "OSError",
            Errors \cup IF Readable = 0 THEN {} ELSE IF Readable = i THEN {"True"} ELSE {"False"})

\* enumerate_fields() has a message for -EINVAL.
EnumerateFields(t) == Asks(t, "enumerate_fields", "ValueError", {"None"} \cup Errors)
GetUsage(t) == Asks(t, "get_usage", "OSError", {"None"} \cup Errors)

------------------------------------------------------------------------------
(* Following the journal *)

\* fileno(), and get_events() and get_timeout(), which ask for the descriptor.
Fileno(t) ==
    /\ "fileno" \in Calls[t] /\ AtOnce(t)
    /\ \/ j = NULL /\ Ends(t, Plain("OSError")) /\ UNCHANGED lib
       \/ j # NULL /\ Ends(t, Plain("None")) /\ lib' = [lib EXCEPT ![j] = Watched(@)]
       \/ j # NULL /\ (\E e \in Errors : Ends(t, Plain(e))) /\ UNCHANGED lib
    /\ Touch
    /\ UNCHANGED <<log, disk, j, got>>

Process(t) == "process" \in Calls[t] /\ Begins(t, "process", [NoCall EXCEPT !.held = j])

ProcessReturns(t) ==
    /\ Inside(t, "process")
    /\ Ends(t, Plain(Change(lib[call[t].held])))
    /\ lib' = [lib EXCEPT ![call[t].held] = Processed(@)]
    /\ UNCHANGED <<log, disk, j, ub, got>>

\* wait(timeout): forever stands for timeout=None, which becomes -1.
Wait(t, forever) ==
    "wait" \in Calls[t] /\ Begins(t, "wait", [NoCall EXCEPT !.held = j, !.forever = forever])

\* The first wait sets up the watch and returns at once.  Later ones return with
\* a change, or without one when the timeout has passed.
WaitReturns(t) ==
    /\ Inside(t, "wait")
    /\ LET h == lib[call[t].held]
       IN  \/ /\ ~h.watching
              /\ Ends(t, Plain(IF h.known # disk THEN "INVALIDATE" ELSE "APPEND"))
              /\ lib' = [lib EXCEPT ![call[t].held] = Watched(h)]
           \/ /\ h.watching
              /\ Change(h) # "NOP" \/ ~call[t].forever
              /\ Ends(t, Plain(Change(h)))
              /\ lib' = [lib EXCEPT ![call[t].held] = Processed(h)]
    /\ UNCHANGED <<log, disk, j, ub, got>>

------------------------------------------------------------------------------
Init ==
    /\ JournalInit
    /\ j = NULL
    /\ lib = [h \in HandleIds |-> Unused]
    /\ pc = [t \in Threads |-> "idle"]
    /\ call = [t \in Threads |-> NoCall]
    /\ part = [t \in Threads |-> NoDict]
    /\ ret = [t \in Threads |-> Plain("none")]
    /\ ub = {}
    /\ got = {}

JournaldStep == Journald /\ UNCHANGED readerVars

CallBegins(t) ==
    \/ Open(t) \/ CloseFrees(t)
    \/ \E skip \in Skips : GetNext(t, skip) \/ GetPrevious(t, skip)
    \/ ZeroSkip(t)
    \/ SeekHead(t) \/ SeekTail(t)
    \/ \E i \in Ids : SeekRealtime(t, i) \/ SeekMonotonic(t, i) \/ SeekCursor(t, i)
    \/ \E args \in MatchArgs : AddMatch(t, args)
    \/ \E level \in Levels : LogLevel(t, level)
    \/ AddDisjunction(t) \/ AddConjunction(t) \/ FlushMatches(t)
    \/ \E field \in FieldNames : QueryUnique(t, field)
    \/ GetCatalog(t) \/ Get(t) \/ (\E i \in Ids : TestCursor(t, i))
    \/ EnumerateFields(t) \/ GetUsage(t)
    \/ Fileno(t) \/ Process(t) \/ \E forever \in BOOLEAN : Wait(t, forever)

CallReturns(t) ==
    \/ OpenStores(t) \/ OpenReturns(t) \/ OpenFails(t) \/ CloseClears(t)
    \/ ReturnsClosed(t) \/ ReturnsFreed(t) \/ ReturnsError(t)
    \/ NextMoves(t) \/ NextEnds(t)
    \/ GetAll(t) \/ GetRealtime(t) \/ GetMonotonic(t) \/ GetCursor(t)
    \/ BootReturns(t) \/ SeekReturns(t)
    \/ MatchFails(t) \/ MatchAdds(t) \/ MatchEnds(t)
    \/ UniqueReturns(t) \/ UniqueValues(t) \/ CatalogReturns(t) \/ CatalogMissing(t)
    \/ ProcessReturns(t) \/ WaitReturns(t)

Next ==
    \/ JournaldStep
    \/ Dealloc
    \/ \E t \in Threads : CallBegins(t) \/ CallReturns(t)

Spec == Init /\ [][Next]_vars

------------------------------------------------------------------------------
TypeOK ==
    /\ JournalTypeOK
    /\ j \in {NULL} \cup HandleIds
    /\ lib \in [HandleIds -> Handles]
    /\ pc \in [Threads -> PCs]
    /\ call \in [Threads -> CallRecords]
    /\ part \in [Threads -> Dicts]
    /\ ret \in [Threads -> [kind : Kinds, entry : Dicts, values : SUBSET Data]]
    /\ ub \subseteq {"stale", "raced"}
    /\ got \subseteq Ids

\* close() and the destructor leave no stale pointer behind: no later call, in
\* whichever thread, follows self->j to a handle that was freed or frees it a
\* second time.
NoStaleUse == "stale" \notin ub

\* In one thread and its signal handlers no call uses a freed handle at all.
NoUseAfterFree == ub = {}

\* close() frees the handle that the Reader refers to (Reader_close: "Free
\* resources allocated by this Reader object"): an open handle is only lost to an
\* __init__() that opens another one over it, or when one is stored by another
\* thread while close() is freeing the one before.
NoHandleLeak ==
    [][\A h \in HandleIds :
        (j = h /\ lib[h].st = "open" /\ j' # h /\ lib'[h].st = "open") =>
            \E t \in Threads :
                \/ pc[t] = "open" /\ pc'[t] = "opened"
                \/ pc[t] = "closing" /\ call[t].held # h]_vars

\* An entry that get_next() returns has its fields, both timestamps and the
\* cursor from one journal entry, although each is read by a call of its own.
EntryFromOneRecord ==
    \A t \in Threads : ret[t].kind = "entry" =>
        LET e == ret[t].entry
        IN  /\ e.fields # 0
            /\ e.realtime = e.fields /\ e.monotonic = e.fields /\ e.cursor = e.fields

------------------------------------------------------------------------------
(* With a single actor the Reader implements AtomicReader.  The abstract step  *)
(* of get_next() is the move inside libsystemd: what the calls after it will   *)
(* return is settled then, whatever journald does in between; memory does not  *)
(* run short in them, nor in the calls of add_match().                         *)

Self == CHOOSE t \in Threads : TRUE

\* add_match() is settled when it is called: the matches before a refused one.
Before(args) == {args[i] : i \in {k \in DOMAIN args : \A n \in 1 .. k : args[n] # BadMatch}}

HandleNow ==
    IF j = NULL \/ lib[j].st # "open" THEN Unused
    ELSE IF pc[Self] = "match"
    THEN [lib[j] EXCEPT !.filter = WithMatches(@, Before(call[Self].todo))]
    ELSE lib[j]

Out(kind, entry) == [kind |-> kind, entry |-> entry]
OutNow ==
    IF pc[Self] \in {"getall"} \cup Stamps
    THEN IF Readable = 0 \/ log[Readable].content.data = "none" THEN Out("end", NoDict)
         ELSE IF log[Readable].content.data \in {"broken", "odd"} THEN Out("other", NoDict)
         ELSE Out("entry", [fields |-> Readable, realtime |-> Readable,
                            monotonic |-> Readable, cursor |-> Readable])
    ELSE IF ret[Self].kind \in {"entry", "end"} THEN Out(ret[Self].kind, ret[Self].entry)
    ELSE Out("other", NoDict)

Atomic == INSTANCE AtomicReader WITH handle <- HandleNow, out <- OutNow

\* Seen from outside, every method of a Reader that is not shared is atomic.
AtomicSpec == Atomic!Spec

------------------------------------------------------------------------------
\* query_unique() returns all the values its field has in the journal and nothing
\* else, whatever the matches and the location ("Note this does not respect any
\* journal matches", _reader.c, query_unique), although the field is stored in
\* the handle in one phase and enumerated from there in another.
UniqueIsComplete ==
    [][\A t \in Threads :
        (pc[t] = "values" /\ pc'[t] = "idle" /\ ~Damaged(lib[call[t].held]))
        => ret'[t].values = UniqueData(lib[call[t].held], call[t].field)]_vars

==============================================================================
