------------------------------ MODULE SdJournal ------------------------------
(* The journal and libsystemd, the two parts that are not in this repository,  *)
(* modelled from how systemd/_reader.c and systemd/journal.py use them.        *)
(*                                                                             *)
(* The journal is an append-only sequence of entries.  Each entry sits in one  *)
(* numbered file; journald appends to the newest file, rotates to a new one    *)
(* and vacuums the oldest.  A handle (sd_journal * ) sees the entries of the   *)
(* files it knows, whether or not they are still on disk; it learns of new and *)
(* of vacuumed files when it processes its events.                             *)
EXTENDS Integers, Sequences, FiniteSets, FiniteSetsExt

CONSTANTS
    Contents,      \* what an entry may hold: records with a field "data" and the matched fields
    Matches,       \* the matches a client may add, as <<field, value>>
    MaxEntries,    \* bound on the entries journald writes
    MaxFiles,      \* bound on the files journald rotates through
    MaxTerms       \* bound on the terms a filter is made of

VARIABLES
    log,           \* the entries ever written, oldest first
    disk           \* the numbers of the journal files on disk

journalVars == <<log, disk>>

\* data says what reading an entry meets: all of its fields can be enumerated
\* ("whole"), only the first ones ("cut") or not even the first ("none"); one of
\* them has no "=" ("broken") or a value no converter takes ("odd").
ASSUME ContentsAssumption ==
    /\ Contents # {}
    /\ \A c \in Contents : c.data \in {"whole", "cut", "none", "broken", "odd"}
    /\ \A c \in Contents, m \in Matches : m[1] # "" /\ m[1] \in DOMAIN c

ASSUME BoundsAssumption ==
    /\ MaxEntries \in Nat
    /\ MaxFiles \in Nat \ {0}
    /\ MaxTerms \in Nat \ {0}

Ids == 1 .. MaxEntries
Files == 1 .. MaxFiles
Entries == [file : Files, content : Contents]

\* The fields that matches name, and all they may hold.
FieldNames == {m[1] : m \in Matches}
Data == {<<f, c[f]>> : f \in FieldNames, c \in Contents}

------------------------------------------------------------------------------
(* Match filters: a conjunction of disjunctions of terms; a term asks, for     *)
(* every field it names, for one of the values it gives that field.            *)

Terms == SUBSET Matches
Clauses == Seq(Terms) \ {<< >>}
Filters == Seq(Clauses) \ {<< >>}
NoFilter == << << {} >> >>

Accepts(term, c) ==
    \A m \in term : \E o \in term : o[1] = m[1] /\ c[o[1]] = o[2]

Passes(filter, c) ==
    \A k \in DOMAIN filter :
        LET terms == {filter[k][d] : d \in DOMAIN filter[k]} \ {{}}
        IN  terms = {} \/ \E term \in terms : Accepts(term, c)

LastClause(filter) == filter[Len(filter)]
LastTerm(filter) == LastClause(filter)[Len(LastClause(filter))]

\* sd_journal_add_match, once or more often: into the open term.
WithMatches(filter, ms) ==
    LET clause == LastClause(filter)
    IN  [filter EXCEPT ![Len(filter)] =
            [clause EXCEPT ![Len(clause)] = LastTerm(filter) \cup ms]]

\* sd_journal_add_disjunction, sd_journal_add_conjunction: open a new term or a
\* new clause, unless the open one is still empty.
WithDisjunction(filter) ==
    IF LastTerm(filter) = {} THEN filter
    ELSE [filter EXCEPT ![Len(filter)] = Append(@, {})]

WithConjunction(filter) ==
    IF LastClause(filter) = << {} >> THEN filter ELSE Append(filter, << {} >>)

TermsLeft(filter) == Len(filter) + Len(LastClause(filter)) <= MaxTerms

------------------------------------------------------------------------------
(* Handles.  A location is symbolic until the reader moves: "head" and "tail"  *)
(* are the ends of what is visible then, "seek" is the place of an entry that  *)
(* is yet to be reached and "discrete" is the entry the reader is at.          *)

Loc(type, at) == [type |-> type, at |-> at]
Locs == [type : {"head", "tail", "seek", "discrete"}, at : 0 .. MaxEntries]

Handles == [st : {"unused", "open", "freed"}, loc : Locs, filter : Filters,
            known : SUBSET Files, watching : BOOLEAN, seen : 0 .. MaxEntries,
            unique : FieldNames \cup {""}]

Unused == [st |-> "unused", loc |-> Loc("head", 0), filter |-> NoFilter,
           known |-> {}, watching |-> FALSE, seen |-> 0, unique |-> ""]

Freed == [Unused EXCEPT !.st = "freed"]

\* sd_journal_open and its variants: the files now on disk, nothing watched yet.
Opened == [Unused EXCEPT !.st = "open", !.known = disk]

Visible(h) ==
    {i \in DOMAIN log : log[i].file \in h.known /\ Passes(h.filter, log[i].content)}

\* The entries a move can reach, ahead of the location and behind it.
Ahead(h) ==
    CASE h.loc.type = "head"     -> Visible(h)
      [] h.loc.type = "tail"     -> {i \in Visible(h) : \A k \in Visible(h) : k <= i}
      [] h.loc.type = "seek"     -> {i \in Visible(h) : i >= h.loc.at}
      [] h.loc.type = "discrete" -> {i \in Visible(h) : i > h.loc.at}

Behind(h) ==
    CASE h.loc.type = "head"     -> {i \in Visible(h) : \A k \in Visible(h) : i <= k}
      [] h.loc.type = "tail"     -> Visible(h)
      [] h.loc.type = "seek"     -> {i \in Visible(h) : i <= h.loc.at}
      [] h.loc.type = "discrete" -> {i \in Visible(h) : i < h.loc.at}

\* sd_journal_next_skip, sd_journal_previous_skip: as many steps as asked for or
\* as there are entries for, whichever is less.  The place i is where that ends.
LandsAt(h, skip, i) ==
    IF skip > 0
    THEN /\ i \in Ahead(h)
         /\ \/ Cardinality({k \in Ahead(h) : k <= i}) = skip
            \/ /\ Cardinality(Ahead(h)) < skip
               /\ \A k \in Ahead(h) : k <= i
    ELSE /\ i \in Behind(h)
         /\ \/ Cardinality({k \in Behind(h) : k >= i}) = -skip
            \/ /\ Cardinality(Behind(h)) < -skip
               /\ \A k \in Behind(h) : k >= i

NothingThere(h, skip) == IF skip > 0 THEN Ahead(h) = {} ELSE Behind(h) = {}

\* The entry whose data can be read: the one the reader is at, unless its file
\* was dropped.  0 stands for none (-EADDRNOTAVAIL).
Current(h) ==
    IF h.loc.type = "discrete" /\ h.loc.at \in DOMAIN log /\ log[h.loc.at].file \in h.known
    THEN h.loc.at ELSE 0

\* sd_journal_enumerate_unique, until it returns 0 or an error: what the field of
\* the last sd_journal_query_unique holds in the files of the handle, whatever
\* its filter.  A damaged file ends the enumeration early.
InFiles(h) == {i \in DOMAIN log : log[i].file \in h.known}
Damaged(h) == \E i \in InFiles(h) : log[i].content.data # "whole"
UniqueData(h, field) == {<<field, log[i].content[field]>> : i \in InFiles(h)}

Enumerated(h) ==
    IF h.unique = "" THEN {{}}
    ELSE IF Damaged(h) THEN SUBSET UniqueData(h, h.unique)
    ELSE {UniqueData(h, h.unique)}

\* What sd_journal_process finds: nothing before the handle is watched.
Change(h) ==
    CASE ~h.watching                            -> "NOP"
      [] h.watching /\ h.known # disk           -> "INVALIDATE"
      [] h.watching /\ h.known = disk /\ Len(log) > h.seen -> "APPEND"
      [] OTHER                                  -> "NOP"

Processed(h) ==
    IF h.watching THEN [h EXCEPT !.known = disk, !.seen = Len(log)] ELSE h

\* sd_journal_get_fd: the first call sets up the watch and rescans the directory.
Watched(h) ==
    IF h.watching THEN h
    ELSE [h EXCEPT !.watching = TRUE, !.known = disk, !.seen = Len(log)]

------------------------------------------------------------------------------
(* journald *)

Write(content) ==
    /\ Len(log) < MaxEntries
    /\ log' = Append(log, [file |-> Max(disk), content |-> content])
    /\ UNCHANGED disk

Rotate ==
    /\ Max(disk) < MaxFiles
    /\ disk' = disk \cup {Max(disk) + 1}
    /\ UNCHANGED log

Vacuum ==
    /\ Cardinality(disk) > 1
    /\ disk' = disk \ {Min(disk)}
    /\ UNCHANGED log

JournalInit == log = << >> /\ disk = {1}
Journald == (\E c \in Contents : Write(c)) \/ Rotate \/ Vacuum

JournalTypeOK == log \in Seq(Entries) /\ Len(log) <= MaxEntries /\ disk \in (SUBSET Files) \ {{}}
==============================================================================
