------------------------- MODULE JournalReaderProofs -------------------------
(* Theorems about JournalReader, for any number of actors, entries, files and  *)
(* handles: the state is always well formed; no stale pointer is followed; in  *)
(* one thread with its signal handlers, no handle is used after it was freed;  *)
(* close() loses no handle but one that another thread stores meanwhile; the   *)
(* methods give what they promise; and a Reader that one actor uses implements *)
(* AtomicReader.                                                               *)
EXTENDS JournalReader, SequenceTheorems, FiniteSetTheorems, WellFoundedInduction, TLAPS

------------------------------------------------------------------------------
(* The operators of SdJournal return what is well formed.                      *)

\* A set of file numbers that is not empty has a least element.
LEMMA LeastFile ==
    ASSUME NEW S \in SUBSET Nat, S # {}
    PROVE  Min(S) \in S /\ \A y \in S : Min(S) <= y
<1>1. PICK x \in S : \A y \in S : ~ (<<y, x>> \in OpToRel(<, Nat))
    BY NatLessThanWellFounded, WFMin
<1>2. ASSUME NEW y \in S PROVE x <= y
    <2>1. x \in Nat /\ y \in Nat
        OBVIOUS
    <2>2. ~ (y < x)
        BY <1>1, <2>1 DEF OpToRel
    <2> QED
        BY <2>1, <2>2
<1> QED
    BY <1>2 DEF Min

\* A set of file numbers below a bound has a greatest one.
LEMMA GreatestFile ==
    ASSUME NEW n \in Nat, NEW S \in SUBSET (1 .. n), S # {}
    PROVE  Max(S) \in S /\ \A y \in S : y <= Max(S)
<1> DEFINE T == {n - x : x \in S}
<1>1. \A x \in S : x \in Nat /\ x <= n /\ n - x \in Nat
    BY SMT
<1>2. T \in SUBSET Nat /\ T # {}
    BY <1>1
<1>3. Min(T) \in T /\ \A y \in T : Min(T) <= y
    <2> HIDE DEF T
    <2> QED
        BY <1>2, LeastFile
<1>4. PICK x \in S : Min(T) = n - x
    BY <1>3
<1>5. \A y \in S : n - x <= n - y
    BY <1>3, <1>4
<1>6. \A y \in S : x >= y
    BY <1>1, <1>5
<1> QED
    BY <1>1, <1>6 DEF Max

------------------------------------------------------------------------------
\* What is at the end of a sequence that is not empty, and what replacing it or
\* appending to it gives.
LEMMA LastOfSeq ==
    ASSUME NEW S, NEW s \in Seq(S) \ {<< >>}, NEW e \in S
    PROVE  /\ s[Len(s)] \in S
           /\ [s EXCEPT ![Len(s)] = e] \in Seq(S) \ {<< >>}
           /\ Append(s, e) \in Seq(S) \ {<< >>}
<1>1. Len(s) \in 1 .. Len(s)
    BY EmptySeq, LenProperties
<1>2. [s EXCEPT ![Len(s)] = e] \in Seq(S) /\ Len([s EXCEPT ![Len(s)] = e]) = Len(s)
    BY <1>1, ExceptSeq
<1>3. Append(s, e) \in Seq(S) /\ Len(Append(s, e)) = Len(s) + 1
    OBVIOUS
<1>4. Len(<< >>) = 0
    OBVIOUS
<1> QED
    BY <1>1, <1>2, <1>3, <1>4, ElementOfSeq

\* A new handle lets everything pass.
LEMMA NoFilterType == NoFilter \in Filters
BY DEF NoFilter, Terms, Clauses, Filters

\* The match filters are closed under the calls that change them.
LEMMA FilterTypes ==
    ASSUME NEW filter \in Filters
    PROVE  /\ \A ms \in SUBSET Matches : WithMatches(filter, ms) \in Filters
           /\ WithDisjunction(filter) \in Filters
           /\ WithConjunction(filter) \in Filters
<1>1. {} \in Terms /\ << {} >> \in Clauses
    BY DEF Terms, Clauses, Filters
<1>2. LastClause(filter) \in Clauses
    BY LastOfSeq, <1>1 DEF Filters, LastClause
<1>3. LastTerm(filter) \in Terms
    BY LastOfSeq, <1>1, <1>2 DEF LastTerm, Clauses
<1>4. WithDisjunction(filter) \in Filters
    <2>1. Append(LastClause(filter), {}) \in Clauses
        BY LastOfSeq, <1>1, <1>2 DEF Clauses
    <2>2. [filter EXCEPT ![Len(filter)] = Append(LastClause(filter), {})] \in Filters
        BY LastOfSeq, <2>1 DEF Filters
    <2> QED
        BY <2>2 DEF WithDisjunction, LastClause
<1>5. WithConjunction(filter) \in Filters
    BY LastOfSeq, <1>1 DEF WithConjunction, Filters
<1>6. ASSUME NEW ms \in SUBSET Matches PROVE WithMatches(filter, ms) \in Filters
    <2> DEFINE term == LastTerm(filter) \cup ms
               clause == [LastClause(filter) EXCEPT ![Len(LastClause(filter))] = term]
    <2>1. term \in Terms
        BY <1>3 DEF Terms
    <2>2. clause \in Clauses
        <3> HIDE DEF term
        <3> QED
            BY LastOfSeq, <1>2, <2>1 DEF Clauses
    <2>3. [filter EXCEPT ![Len(filter)] = clause] \in Filters
        <3> HIDE DEF clause
        <3> QED
            BY LastOfSeq, <2>2 DEF Filters
    <2> QED
        BY <2>3 DEF WithMatches
<1> QED
    BY <1>4, <1>5, <1>6

------------------------------------------------------------------------------
\* The locations a handle can be given.
LEMMA LocTypes ==
    /\ Loc("head", 0) \in Locs /\ Loc("tail", 0) \in Locs
    /\ \A i \in Ids : Loc("seek", i) \in Locs /\ Loc("discrete", i) \in Locs
BY BoundsAssumption DEF Loc, Locs, Ids

\* A handle that is new, freed or brought up to date is a handle.
LEMMA HandleTypes ==
    ASSUME JournalTypeOK
    PROVE  /\ Unused \in Handles /\ Freed \in Handles /\ Opened \in Handles
           /\ \A h \in Handles : Watched(h) \in Handles /\ Processed(h) \in Handles
<1>1. disk \in SUBSET Files /\ Len(log) \in 0 .. MaxEntries
    BY LenProperties DEF JournalTypeOK
<1>2. Unused \in Handles
    BY LocTypes, BoundsAssumption, NoFilterType DEF Unused, Handles
<1> QED
    BY <1>1, <1>2 DEF Unused, Freed, Opened, Watched, Processed, Handles

\* What a reader reads is an entry of the journal, or nothing.
LEMMA CurrentType ==
    ASSUME JournalTypeOK, NEW h \in Handles
    PROVE  Current(h) \in {0} \cup DOMAIN log /\ DOMAIN log \subseteq Ids
<1>1. DOMAIN log = 1 .. Len(log) /\ Len(log) \in 0 .. MaxEntries
    BY LenProperties DEF JournalTypeOK
<1>2. DOMAIN log \subseteq Ids
    BY <1>1, BoundsAssumption DEF Ids
<1> QED
    BY <1>2 DEF Current

------------------------------------------------------------------------------
\* Whatever journald does, the journal stays well formed.
LEMMA JournaldTypes ==
    ASSUME JournalTypeOK, Journald
    PROVE  JournalTypeOK'
<1> USE DEF JournalTypeOK
<1>1. disk \in SUBSET (1 .. MaxFiles) /\ disk # {} /\ MaxFiles \in Nat
    BY BoundsAssumption DEF Files
<1>2. Max(disk) \in disk /\ Max(disk) \in 1 .. MaxFiles
    BY <1>1, GreatestFile
<1>3. Min(disk) \in disk
    BY <1>1, LeastFile
<1>4. ASSUME NEW c \in Contents, Write(c) PROVE JournalTypeOK'
    <2>1. [file |-> Max(disk), content |-> c] \in Entries
        BY <1>1, <1>2 DEF Entries, Files
    <2>2. log' \in Seq(Entries) /\ Len(log') = Len(log) + 1
        BY <1>4, <2>1 DEF Write
    <2> QED
        BY <1>4, <2>2, BoundsAssumption, LenProperties DEF Write
<1>5. CASE Rotate
    <2>1. Max(disk) + 1 \in Files
        <3>1. Max(disk) < MaxFiles
            BY <1>5 DEF Rotate
        <3> QED
            BY <1>1, <1>2, <3>1 DEF Files
    <2> QED
        BY <1>5, <2>1 DEF Rotate
<1>6. CASE Vacuum
    <2>1. disk # {Min(disk)}
        <3>1. disk = {Min(disk)} => Cardinality(disk) = 1
            BY FS_Singleton, Zenon
        <3>2. Cardinality(disk) > 1
            BY <1>6 DEF Vacuum
        <3> QED
            BY <3>1, <3>2
    <2> QED
        BY <1>3, <1>6, <2>1 DEF Vacuum
<1> QED
    BY <1>4, <1>5, <1>6 DEF Journald

------------------------------------------------------------------------------
(* The state of the Reader is well formed.                                     *)

Results == [kind : Kinds, entry : Dicts, values : SUBSET Data]

\* A dictionary whose timestamps are being read already has its fields.
FieldsFirst == \A t \in Threads : pc[t] \in Stamps => part[t].fields # 0

TypeInv == TypeOK /\ FieldsFirst

------------------------------------------------------------------------------
\* What a call that is over leaves in the variables of its actor.
LEMMA EndsTypes ==
    ASSUME TypeInv, NEW t \in Threads, NEW r \in Results, Ends(t, r)
    PROVE  /\ pc' \in [Threads -> PCs] /\ call' \in [Threads -> CallRecords]
           /\ part' \in [Threads -> Dicts] /\ ret' \in [Threads -> Results]
           /\ FieldsFirst'
<1>1. NoCall \in CallRecords
    BY LocTypes DEF NoCall, CallRecords
<1>2. NoDict \in Dicts
    BY DEF NoDict, Dicts
<1>3. "idle" \in PCs \ Stamps
    BY DEF PCs, Stamps, InLib, Second
<1> QED
    BY <1>1, <1>2, <1>3 DEF Ends, TypeInv, TypeOK, FieldsFirst, Results

\* The results without an entry.
LEMMA PlainTypes == \A k \in Kinds : Plain(k) \in Results
BY DEF Plain, Result, Results, NoDict, Dicts

\* What a call that begins leaves: only pc and call change.
LEMMA BeginsTypes ==
    ASSUME TypeInv, NEW t \in Threads, NEW where \in InLib \cup {"match", "closing"},
           NEW args \in CallRecords, Begins(t, where, args)
    PROVE  TypeInv'
<1>1. where \in PCs \ Stamps
    BY DEF PCs, Stamps, InLib
<1> QED
    BY <1>1 DEF Begins, TypeInv, TypeOK, FieldsFirst, JournalTypeOK

\* The handles after one of them changed.
LEMMA LibTypes ==
    ASSUME TypeOK, NEW k \in HandleIds
    PROVE  /\ \A loc \in Locs : [lib EXCEPT ![k].loc = loc] \in [HandleIds -> Handles]
           /\ \A f \in Filters : [lib EXCEPT ![k].filter = f] \in [HandleIds -> Handles]
           /\ \A h \in Handles : [lib EXCEPT ![k] = h] \in [HandleIds -> Handles]
           /\ \A f \in FieldNames \cup {""} : [lib EXCEPT ![k].unique = f] \in [HandleIds -> Handles]
<1>1. lib \in [HandleIds -> Handles] /\ lib[k] \in Handles
    BY DEF TypeOK
<1>2. \A h \in Handles : [lib EXCEPT ![k] = h] \in [HandleIds -> Handles]
    BY <1>1
<1>3. \A loc \in Locs : [lib EXCEPT ![k].loc = loc] \in [HandleIds -> Handles]
    <2>1. \A loc \in Locs : [lib[k] EXCEPT !.loc = loc] \in Handles
        BY <1>1 DEF Handles
    <2> QED
        BY <1>2, <2>1
<1>4. \A f \in Filters : [lib EXCEPT ![k].filter = f] \in [HandleIds -> Handles]
    <2>1. \A f \in Filters : [lib[k] EXCEPT !.filter = f] \in Handles
        BY <1>1 DEF Handles
    <2> QED
        BY <1>2, <2>1
<1>5. \A f \in FieldNames \cup {""} : [lib EXCEPT ![k].unique = f] \in [HandleIds -> Handles]
    <2>1. \A f \in FieldNames \cup {""} : [lib[k] EXCEPT !.unique = f] \in Handles
        BY <1>1 DEF Handles
    <2> QED
        BY <1>2, <2>1
<1> QED
    BY <1>2, <1>3, <1>4, <1>5

\* The handles and ub after the handle of the Reader was freed.
LEMMA FreesTypes ==
    ASSUME TypeOK, Frees
    PROVE  lib' \in [HandleIds -> Handles] /\ ub' \subseteq {"stale", "raced"}
BY HandleTypes DEF TypeOK, Frees, Touch

\* The call records the methods make.
LEMMA CallTypes ==
    ASSUME TypeOK
    PROVE  /\ NoCall \in CallRecords
           /\ \A s \in Int : [NoCall EXCEPT !.held = j, !.skip = s] \in CallRecords
           /\ \A loc \in Locs :
                /\ [NoCall EXCEPT !.held = j, !.to = loc] \in CallRecords
                /\ [NoCall EXCEPT !.to = loc] \in CallRecords
           /\ \A f \in BOOLEAN : [NoCall EXCEPT !.held = j, !.forever = f] \in CallRecords
           /\ [NoCall EXCEPT !.held = j] \in CallRecords
           /\ \A f \in FieldNames : [NoCall EXCEPT !.held = j, !.field = f] \in CallRecords
           /\ \A todo \in Seq(Matches \cup {BadMatch}) :
                /\ [NoCall EXCEPT !.todo = todo] \in CallRecords
                /\ \A l \in Int : [NoCall EXCEPT !.level = l, !.todo = todo] \in CallRecords
<1>1. NoCall \in CallRecords
    BY LocTypes DEF NoCall, CallRecords
<1>2. j \in {NULL} \cup HandleIds
    BY DEF TypeOK
<1> QED
    BY <1>1, <1>2 DEF CallRecords

------------------------------------------------------------------------------
\* The Reader starts with variables of their types.
THEOREM InitTypes == Init => TypeInv
<1> SUFFICES ASSUME Init PROVE TypeInv
    OBVIOUS
<1>1. JournalTypeOK
    BY BoundsAssumption DEF Init, JournalInit, JournalTypeOK, Files
<1>2. Plain("none") \in Results
    BY PlainTypes DEF Kinds, BadArguments, Errors
<1>3. \A k \in HandleIds : lib[k] = Unused /\ Unused \in Handles
    BY <1>1, HandleTypes DEF Init
<1>4. NoCall \in CallRecords /\ NoDict \in Dicts /\ "idle" \in PCs \ Stamps
    BY LocTypes DEF NoCall, CallRecords, NoDict, Dicts, PCs, InLib, Stamps
<1> QED
    BY <1>1, <1>2, <1>3, <1>4 DEF Init, TypeInv, TypeOK, FieldsFirst, Results

\* Opening and closing keep the state well formed, and so does a call that comes
\* back empty-handed.
LEMMA LifetimeTypes ==
    ASSUME TypeInv, NEW t \in Threads,
           \/ Open(t) \/ OpenStores(t) \/ OpenReturns(t) \/ OpenFails(t)
           \/ CloseFrees(t) \/ CloseClears(t)
           \/ ReturnsClosed(t) \/ ReturnsFreed(t) \/ ReturnsError(t)
    PROVE  TypeInv'
<1> USE DEF TypeInv
<1>0. \A k \in {"None"} \cup Errors \cup BadArguments : Plain(k) \in Results
    BY PlainTypes DEF Kinds
<1>a. Refused(t) \subseteq Errors \cup BadArguments
    BY DEF Refused, Errors, BadArguments
<1>b. {"opened", "closing"} \subseteq PCs \ Stamps
    BY DEF PCs, Second, Stamps
<1>1. CASE Open(t)
    BY <1>1, BeginsTypes, CallTypes DEF Open, InLib
<1>2. CASE OpenStores(t)
    <2>1. PICK h \in HandleIds : j' = h /\ lib' = [lib EXCEPT ![h] = Opened]
        BY <1>2 DEF OpenStores
    <2>2. lib' \in [HandleIds -> Handles]
        BY <2>1, HandleTypes, LibTypes DEF TypeOK
    <2> QED
        BY <1>2, <1>b, <2>1, <2>2 DEF OpenStores, TypeOK, JournalTypeOK, FieldsFirst
<1>3. CASE OpenReturns(t)
    BY <1>0, <1>3, EndsTypes DEF OpenReturns, TypeOK, JournalTypeOK, Results
<1>4. CASE OpenFails(t)
    <2>1. PICK e \in BadArguments \cup Errors : Ends(t, Plain(e))
        BY <1>4 DEF OpenFails
    <2> QED
        BY <1>0, <1>4, <2>1, EndsTypes DEF OpenFails, TypeOK, JournalTypeOK, Results
<1>5. CASE CloseFrees(t)
    <2>1. [NoCall EXCEPT !.held = j] \in CallRecords
        BY CallTypes
    <2> QED
        BY <1>5, <1>b, <2>1, FreesTypes DEF CloseFrees, TypeOK, JournalTypeOK, FieldsFirst
<1>6. CASE CloseClears(t)
    BY <1>0, <1>6, EndsTypes DEF CloseClears, TypeOK, JournalTypeOK, Results
<1>7. CASE ReturnsClosed(t)
    <2>1. PICK e \in Refused(t) : Ends(t, Plain(e))
        BY <1>7 DEF ReturnsClosed
    <2> QED
        BY <1>0, <1>7, <1>a, <2>1, EndsTypes DEF ReturnsClosed, TypeOK, JournalTypeOK, Results
<1>8. CASE ReturnsFreed(t)
    <2>1. Plain("OSError") \in Results
        BY <1>0 DEF Errors
    <2> QED
        BY <1>8, <2>1, EndsTypes DEF ReturnsFreed, TypeOK, JournalTypeOK, Results
<1>9. CASE ReturnsError(t)
    <2>1. PICK e \in Refused(t) \cup Errors : Ends(t, Plain(e))
        BY <1>9 DEF ReturnsError
    <2> QED
        BY <1>0, <1>9, <1>a, <2>1, EndsTypes DEF ReturnsError, TypeOK, JournalTypeOK, Results
<1> QED
    BY <1>1, <1>2, <1>3, <1>4, <1>5, <1>6, <1>7, <1>8, <1>9

\* So does every step of get_next() and get_previous().
LEMMA GetTypes ==
    ASSUME TypeInv, NEW t \in Threads,
           \/ \E skip \in Skips : GetNext(t, skip) \/ GetPrevious(t, skip)
           \/ ZeroSkip(t) \/ NextMoves(t) \/ NextEnds(t)
           \/ GetAll(t) \/ GetRealtime(t) \/ GetMonotonic(t) \/ GetCursor(t)
    PROVE  TypeInv'
<1> USE DEF TypeInv
<1>0. \A k \in {"end", "OSError", "ValueError", "OverflowError"} : Plain(k) \in Results
    BY PlainTypes DEF Kinds, BadArguments, Errors
<1>a. Readable \in {0} \cup Ids
    BY CurrentType DEF Readable, TypeOK
<1>b. Touch => ub' \subseteq {"stale", "raced"}
    BY DEF Touch, TypeOK
<1>1. ASSUME NEW skip \in Skips, GetNext(t, skip) PROVE TypeInv'
    <2>1. skip \in Int
        BY ReaderAssumption
    <2> QED
        BY <1>1, <2>1, BeginsTypes, CallTypes DEF GetNext, InLib
<1>2. ASSUME NEW skip \in Skips, GetPrevious(t, skip) PROVE TypeInv'
    <2>1. -skip \in Int
        BY ReaderAssumption
    <2> QED
        BY <1>2, <2>1, BeginsTypes, CallTypes DEF GetPrevious, InLib
<1>3. CASE ZeroSkip(t)
    BY <1>0, <1>3, EndsTypes DEF ZeroSkip, TypeOK, JournalTypeOK, Results
<1>4. CASE NextMoves(t)
    <2>1. PICK i \in DOMAIN log :
            lib' = [lib EXCEPT ![call[t].held].loc = Loc("discrete", i)]
        BY <1>4 DEF NextMoves
    <2>2. call[t].held \in HandleIds
        BY <1>4 DEF NextMoves, Inside, TypeOK, CallRecords
    <2>3. lib' \in [HandleIds -> Handles]
        BY <2>1, <2>2, LibTypes, LocTypes, CurrentType DEF TypeOK, Handles
    <2>4. "getall" \in PCs \ Stamps
        BY DEF PCs, Stamps
    <2> QED
        BY <1>4, <2>3, <2>4, CallTypes DEF NextMoves, TypeOK, JournalTypeOK, FieldsFirst
<1>5. CASE NextEnds(t)
    BY <1>0, <1>5, EndsTypes DEF NextEnds, TypeOK, JournalTypeOK, Results
<1>6. CASE GetAll(t)
    <2>1. CASE Readable = 0 \/ log[Readable].content.data = "none"
        BY <1>0, <1>6, <1>b, <2>1, EndsTypes DEF GetAll, TypeOK, JournalTypeOK, Results
    <2>3. CASE /\ ~ (Readable = 0 \/ log[Readable].content.data = "none")
               /\ log[Readable].content.data = "broken"
        BY <1>0, <1>6, <1>b, <2>3, EndsTypes DEF GetAll, TypeOK, JournalTypeOK, Results
    <2>2. CASE ~ (Readable = 0 \/ log[Readable].content.data \in {"none", "broken"})
        <3>1. part' = [part EXCEPT ![t].fields = Readable] /\ pc' = [pc EXCEPT ![t] = "realtime"]
            BY <1>6, <2>2 DEF GetAll
        <3>2. part' \in [Threads -> Dicts] /\ pc' \in [Threads -> PCs]
            BY <1>a, <3>1, ZenonT(30) DEF TypeOK, Dicts, PCs, Stamps
        <3>3. FieldsFirst'
            BY <2>2, <3>1 DEF TypeOK, Dicts, FieldsFirst
        <3> QED
            BY <1>6, <1>b, <2>2, <3>2, <3>3 DEF GetAll, TypeOK, JournalTypeOK
    <2> QED
        BY <2>1, <2>2, <2>3
<1>7. ASSUME NEW s \in {"realtime", "monotonic"}, NEW then \in Stamps, GetStamp(t, s, then)
      PROVE  TypeInv'
    <2>1. CASE Readable = 0
        BY <1>0, <1>7, <1>b, <2>1, EndsTypes DEF GetStamp, TypeOK, JournalTypeOK, Results
    <2>2. CASE Readable # 0
        <3>1. part' = [part EXCEPT ![t][s] = Readable] /\ pc' = [pc EXCEPT ![t] = then]
            BY <1>7, <2>2 DEF GetStamp
        <3>2. part' \in [Threads -> Dicts] /\ pc' \in [Threads -> PCs]
            BY <1>a, <3>1 DEF TypeOK, Dicts, PCs
        <3>3. \A u \in Threads : part'[u].fields = part[u].fields
            BY <3>1 DEF TypeOK, Dicts
        <3>4. FieldsFirst'
            BY <1>7, <3>1, <3>3 DEF TypeOK, FieldsFirst, GetStamp, Stamps
        <3> QED
            BY <1>7, <1>b, <2>2, <3>2, <3>4 DEF GetStamp, TypeOK, JournalTypeOK
    <2> QED
        BY <2>1, <2>2
<1>8. CASE GetCursor(t)
    <2>1. CASE Readable = 0
        BY <1>0, <1>8, <1>b, <2>1, EndsTypes DEF GetCursor, TypeOK, JournalTypeOK, Results
    <2>3. CASE Readable # 0 /\ log[part[t].fields].content.data = "odd"
        BY <1>0, <1>8, <1>b, <2>3, EndsTypes DEF GetCursor, TypeOK, JournalTypeOK, Results
    <2>2. CASE Readable # 0 /\ log[part[t].fields].content.data # "odd"
        <3>1. Result("entry", [part[t] EXCEPT !.cursor = Readable]) \in Results
            <4>1. part[t] \in Dicts
                BY DEF TypeOK
            <4>2. [part[t] EXCEPT !.cursor = Readable] \in Dicts
                BY <1>a, <4>1 DEF Dicts
            <4> QED
                BY <4>2 DEF Result, Results, Kinds, BadArguments
        <3>2. part[t].fields \in Ids
            BY <1>8 DEF GetCursor, FieldsFirst, Stamps, TypeOK, Dicts
        <3> QED
            BY <1>8, <1>b, <2>2, <3>1, <3>2, EndsTypes
            DEF GetCursor, TypeOK, JournalTypeOK, Results
    <2> QED
        BY <2>1, <2>2, <2>3
<1> QED
    BY <1>1, <1>2, <1>3, <1>4, <1>5, <1>6, <1>7, <1>8 DEF GetRealtime, GetMonotonic, Stamps

\* So does seeking.
LEMMA SeekTypes ==
    ASSUME TypeInv, NEW t \in Threads,
           \/ SeekHead(t) \/ SeekTail(t)
           \/ \E i \in Ids : SeekRealtime(t, i) \/ SeekMonotonic(t, i) \/ SeekCursor(t, i)
           \/ BootReturns(t) \/ SeekReturns(t)
    PROVE  TypeInv'
<1> USE DEF TypeInv
<1>0. Plain("None") \in Results /\ \A e \in Errors : Plain(e) \in Results
    BY PlainTypes DEF Kinds
<1>1. ASSUME NEW loc \in Locs, SeekTo(t, loc) PROVE TypeInv'
    BY <1>1, BeginsTypes, CallTypes DEF SeekTo, InLib
<1>2. CASE SeekHead(t) \/ SeekTail(t)
    BY <1>1, <1>2, LocTypes DEF SeekHead, SeekTail
<1>3. ASSUME NEW i \in Ids, SeekRealtime(t, i) \/ SeekCursor(t, i) PROVE TypeInv'
    BY <1>1, <1>3, LocTypes DEF SeekRealtime, SeekCursor
<1>4. ASSUME NEW i \in Ids, SeekMonotonic(t, i) PROVE TypeInv'
    <2>1. Loc("seek", i) \in Locs
        BY LocTypes
    <2>2. CASE Begins(t, "boot", [NoCall EXCEPT !.to = Loc("seek", i)])
        BY <2>1, <2>2, BeginsTypes, CallTypes DEF InLib
    <2> QED
        BY <1>1, <1>4, <2>1, <2>2 DEF SeekMonotonic
<1>5. CASE BootReturns(t)
    <2>1. ASSUME NEW e \in Errors, Ends(t, Plain(e)) PROVE TypeInv'
        BY <1>0, <1>5, <2>1, EndsTypes DEF BootReturns, TypeOK, JournalTypeOK, Results
    <2>2. CASE pc' = [pc EXCEPT ![t] = "seek"] /\ call' = [call EXCEPT ![t].held = j]
               /\ UNCHANGED <<part, ret>>
        <3>1. call' \in [Threads -> CallRecords]
            BY <2>2, ZenonT(60) DEF TypeOK, CallRecords
        <3>2. "seek" \in PCs \ Stamps
            BY DEF PCs, InLib, Stamps
        <3> QED
            BY <1>5, <2>2, <3>1, <3>2 DEF BootReturns, TypeOK, JournalTypeOK, FieldsFirst
    <2> QED
        BY <1>5, <2>1, <2>2 DEF BootReturns
<1>6. CASE SeekReturns(t)
    <2>1. call[t].held \in HandleIds /\ call[t].to \in Locs
        BY <1>6 DEF SeekReturns, Inside, TypeOK, CallRecords
    <2>2. lib' \in [HandleIds -> Handles]
        BY <1>6, <2>1, LibTypes DEF SeekReturns
    <2> QED
        BY <1>0, <1>6, <2>2, EndsTypes DEF SeekReturns, TypeOK, JournalTypeOK, Results
<1> QED
    BY <1>2, <1>3, <1>4, <1>5, <1>6

\* So do the calls that change the match filter.
LEMMA MatchTypes ==
    ASSUME TypeInv, NEW t \in Threads,
           \/ \E args \in MatchArgs : AddMatch(t, args)
           \/ \E level \in Levels : LogLevel(t, level)
           \/ MatchFails(t) \/ MatchAdds(t) \/ MatchEnds(t)
           \/ AddDisjunction(t) \/ AddConjunction(t) \/ FlushMatches(t)
    PROVE  TypeInv'
<1> USE DEF TypeInv
<1>0. \A k \in {"None", "OSError", "ValueError"} : Plain(k) \in Results
    BY PlainTypes DEF Kinds, BadArguments, Errors
<1>a. Touch => ub' \subseteq {"stale", "raced"}
    BY DEF Touch, TypeOK
<1>b. Filter \in Filters
    BY NoFilterType DEF Filter, TypeOK, Handles
<1>1. ASSUME NEW args \in MatchArgs, AddMatch(t, args) PROVE TypeInv'
    <2>1. args \in Seq(Matches \cup {BadMatch})
        BY ReaderAssumption
    <2>2. [NoCall EXCEPT !.todo = args] \in CallRecords
        BY <2>1, CallTypes
    <2> QED
        BY <1>1, <2>2, BeginsTypes DEF AddMatch
<1>2. ASSUME NEW level \in Levels, LogLevel(t, level) PROVE TypeInv'
    <2>1. CASE level \in 0 .. 7
        <3> DEFINE todo == [p \in 1 .. level + 1 |-> <<"PRIORITY", p - 1>>]
        <3>1. \A p \in 1 .. level + 1 : p - 1 \in 0 .. level
            BY <2>1
        <3>2. \A p \in 1 .. level + 1 : <<"PRIORITY", p - 1>> \in Matches \cup {BadMatch}
            BY <2>1, <3>1, ReaderAssumption
        <3>3. todo \in Seq(Matches \cup {BadMatch})
            BY <2>1, <3>2, IsASeq
        <3> HIDE DEF todo
        <3>4. [NoCall EXCEPT !.level = level, !.todo = todo] \in CallRecords
            <4>1. level \in Int
                BY ReaderAssumption
            <4> QED
                BY <3>3, <4>1, CallTypes
        <3>5. Begins(t, "match", [NoCall EXCEPT !.level = level, !.todo = todo])
            BY <1>2, <2>1 DEF LogLevel, todo
        <3> QED
            BY <3>4, <3>5, BeginsTypes
    <2>2. CASE level \notin 0 .. 7
        BY <1>0, <1>2, <2>2, EndsTypes DEF LogLevel, TypeOK, JournalTypeOK, Results
    <2> QED
        BY <2>1, <2>2
<1>3. CASE MatchFails(t) \/ MatchEnds(t)
    BY <1>0, <1>3, <1>a, EndsTypes DEF MatchFails, MatchEnds, TypeOK, JournalTypeOK, Results
<1>6. CASE MatchAdds(t)
    <2>1. call[t].todo \in Seq(Matches \cup {BadMatch})
        BY DEF TypeOK, CallRecords
    <2>2. /\ {Head(call[t].todo)} \in SUBSET Matches
          /\ Tail(call[t].todo) \in Seq(Matches \cup {BadMatch})
        BY <1>6, <2>1, HeadTailProperties DEF MatchAdds
    <2>3. j \in HandleIds /\ lib[j].filter \in Filters
        BY <1>6 DEF MatchAdds, TypeOK, Handles
    <2>4. WithMatches(lib[j].filter, {Head(call[t].todo)}) \in Filters
        BY <2>2, <2>3, FilterTypes
    <2>5. lib' = [lib EXCEPT ![j].filter = WithMatches(lib[j].filter, {Head(call[t].todo)})]
        BY <1>6 DEF MatchAdds
    <2>6. lib' \in [HandleIds -> Handles]
        BY <2>3, <2>4, <2>5, LibTypes
    <2>7. call' = [call EXCEPT ![t].todo = Tail(call[t].todo)]
        BY <1>6 DEF MatchAdds
    <2>8. call' \in [Threads -> CallRecords]
        BY <2>2, <2>7, ZenonT(30) DEF TypeOK, CallRecords
    <2> QED
        BY <1>6, <1>a, <2>6, <2>8 DEF MatchAdds, TypeOK, JournalTypeOK, FieldsFirst
<1>4. ASSUME NEW f \in Filters, NEW whenClosed \in {"None", "OSError"}, Refilters(t, f, whenClosed)
      PROVE  TypeInv'
    <2>1. lib' \in [HandleIds -> Handles]
        <3>1. lib' = lib \/ (j \in HandleIds /\ lib' = [lib EXCEPT ![j].filter = f])
            BY <1>4 DEF Refilters, TypeOK
        <3>2. CASE lib' = lib
            BY <3>2 DEF TypeOK
        <3>3. CASE j \in HandleIds /\ lib' = [lib EXCEPT ![j].filter = f]
            BY <3>3, LibTypes
        <3> QED
            BY <3>1, <3>2, <3>3
    <2>2. \E k \in {"None", "OSError"} : Ends(t, Plain(k))
        BY <1>4 DEF Refilters
    <2> QED
        BY <1>0, <1>4, <1>a, <2>1, <2>2, EndsTypes DEF Refilters, TypeOK, JournalTypeOK, Results
<1>5. CASE AddDisjunction(t) \/ AddConjunction(t) \/ FlushMatches(t)
    BY <1>4, <1>5, <1>b, FilterTypes, NoFilterType
    DEF AddDisjunction, AddConjunction, FlushMatches
<1> QED
    BY <1>1, <1>2, <1>3, <1>5, <1>6

\* So do the calls that follow the journal.
LEMMA FollowTypes ==
    ASSUME TypeInv, NEW t \in Threads,
           \/ Fileno(t) \/ Process(t) \/ \E forever \in BOOLEAN : Wait(t, forever)
           \/ ProcessReturns(t) \/ WaitReturns(t)
    PROVE  TypeInv'
<1> USE DEF TypeInv
<1>0. \A k \in {"None", "NOP", "APPEND", "INVALIDATE"} \cup Errors : Plain(k) \in Results
    BY PlainTypes DEF Kinds
<1>a. Touch => ub' \subseteq {"stale", "raced"}
    BY DEF Touch, TypeOK
<1>b. \A h \in Handles : Watched(h) \in Handles /\ Processed(h) \in Handles
    BY HandleTypes DEF TypeOK
<1>c. \A h : Change(h) \in {"NOP", "APPEND", "INVALIDATE"}
    BY DEF Change
<1>1. CASE Fileno(t)
    <2>1. lib' \in [HandleIds -> Handles]
        <3>1. CASE lib' = lib
            BY <3>1 DEF TypeOK
        <3>2. CASE j # NULL /\ lib' = [lib EXCEPT ![j] = Watched(lib[j])]
            <4>1. j \in HandleIds /\ Watched(lib[j]) \in Handles
                BY <1>b, <3>2 DEF TypeOK
            <4> QED
                BY <3>2, <4>1, LibTypes
        <3> QED
            BY <1>1, <3>1, <3>2 DEF Fileno
    <2>2. \E k \in {"None"} \cup Errors : Ends(t, Plain(k))
        BY <1>1 DEF Fileno, Errors
    <2> QED
        BY <1>0, <1>1, <1>a, <2>1, <2>2, EndsTypes DEF Fileno, TypeOK, JournalTypeOK, Results
<1>2. CASE Process(t)
    BY <1>2, BeginsTypes, CallTypes DEF Process, InLib
<1>3. ASSUME NEW forever \in BOOLEAN, Wait(t, forever) PROVE TypeInv'
    BY <1>3, BeginsTypes, CallTypes DEF Wait, InLib
<1>4. CASE ProcessReturns(t)
    <2>1. call[t].held \in HandleIds /\ lib[call[t].held] \in Handles
        BY <1>4 DEF ProcessReturns, Inside, TypeOK, CallRecords
    <2>2. lib' \in [HandleIds -> Handles]
        BY <1>4, <1>b, <2>1, LibTypes DEF ProcessReturns
    <2> QED
        BY <1>0, <1>4, <1>c, <2>2, EndsTypes DEF ProcessReturns, TypeOK, JournalTypeOK, Results
<1>5. CASE WaitReturns(t)
    <2>1. call[t].held \in HandleIds /\ lib[call[t].held] \in Handles
        BY <1>5 DEF WaitReturns, Inside, TypeOK, CallRecords
    <2>2. lib' \in [HandleIds -> Handles]
        <3>1. \/ lib' = [lib EXCEPT ![call[t].held] = Watched(lib[call[t].held])]
              \/ lib' = [lib EXCEPT ![call[t].held] = Processed(lib[call[t].held])]
            BY <1>5 DEF WaitReturns
        <3>2. /\ Watched(lib[call[t].held]) \in Handles
              /\ Processed(lib[call[t].held]) \in Handles
            BY <1>b, <2>1
        <3>3. PICK h \in Handles : lib' = [lib EXCEPT ![call[t].held] = h]
            BY <3>1, <3>2
        <3> QED
            BY <2>1, <3>3, LibTypes
    <2>3. \E k \in {"NOP", "APPEND", "INVALIDATE"} : Ends(t, Plain(k))
        BY <1>5, <1>c DEF WaitReturns
    <2> QED
        BY <1>0, <1>5, <2>2, <2>3, EndsTypes DEF WaitReturns, TypeOK, JournalTypeOK, Results
<1> QED
    BY <1>1, <1>2, <1>3, <1>4, <1>5

\* What a question may be answered with.
Replies == {"None", "True", "False", "KeyError", "ValueError"} \cup Errors

\* What an enumeration finds is data of the journal.
LEMMA EnumeratedType ==
    ASSUME JournalTypeOK, NEW h \in Handles, NEW found \in Enumerated(h)
    PROVE  found \subseteq Data
<1>1. \A i \in DOMAIN log : log[i].content \in Contents
    <2>1. \A i \in DOMAIN log : log[i] \in Entries
        BY ElementOfSeq, LenProperties DEF JournalTypeOK
    <2> QED
        BY <2>1 DEF Entries
<1>2. \A f \in FieldNames : UniqueData(h, f) \subseteq Data
    BY <1>1 DEF UniqueData, InFiles, Data
<1>3. h.unique \in FieldNames \cup {""}
    BY DEF Handles
<1> QED
    BY <1>2, <1>3 DEF Enumerated

\* So do the questions about the entry and about the whole journal.
LEMMA QueryTypes ==
    ASSUME TypeInv, NEW t \in Threads,
           \/ \E field \in FieldNames : QueryUnique(t, field)
           \/ UniqueReturns(t) \/ UniqueValues(t)
           \/ GetCatalog(t) \/ CatalogReturns(t) \/ CatalogMissing(t)
           \/ Get(t) \/ (\E i \in Ids : TestCursor(t, i))
           \/ EnumerateFields(t) \/ GetUsage(t)
    PROVE  TypeInv'
<1> USE DEF TypeInv
<1>0. \A k \in {"None", "True", "False", "KeyError", "IndexError"} \cup Errors \cup BadArguments :
            Plain(k) \in Results
    BY PlainTypes DEF Kinds
<1>a. Touch => ub' \subseteq {"stale", "raced"}
    BY DEF Touch, TypeOK
<1>b. {"values", "message_id"} \subseteq PCs \ Stamps
    BY DEF PCs, Second, Stamps
<1>1. ASSUME NEW field \in FieldNames, QueryUnique(t, field) PROVE TypeInv'
    BY <1>1, BeginsTypes, CallTypes DEF QueryUnique, InLib
<1>2. CASE UniqueReturns(t)
    <2>1. call[t].held \in HandleIds /\ call[t].field \in FieldNames \cup {""}
        BY <1>2 DEF UniqueReturns, Inside, TypeOK, CallRecords
    <2>2. lib' \in [HandleIds -> Handles]
        BY <1>2, <2>1, LibTypes DEF UniqueReturns
    <2> QED
        BY <1>2, <1>b, <2>2 DEF UniqueReturns, TypeOK, JournalTypeOK, FieldsFirst
<1>3. CASE UniqueValues(t)
    <2>1. ASSUME NEW found \in IF j = NULL THEN {{}} ELSE Enumerated(lib[j]),
                 Ends(t, [Plain("values") EXCEPT !.values = found])
          PROVE  TypeInv'
        <3>1. found \subseteq Data
            BY <2>1, EnumeratedType DEF TypeOK
        <3>2. Plain("values") \in Results
            BY PlainTypes DEF Kinds
        <3>3. [Plain("values") EXCEPT !.values = found] \in Results
            BY <3>1, <3>2 DEF Results
        <3> QED
            BY <1>3, <1>a, <2>1, <3>3, EndsTypes
            DEF UniqueValues, TypeOK, JournalTypeOK, Results
    <2>2. ASSUME NEW k \in BadArguments, Ends(t, Plain(k)) PROVE TypeInv'
        BY <1>0, <1>3, <1>a, <2>2, EndsTypes DEF UniqueValues, TypeOK, JournalTypeOK, Results
    <2>3. {"ValueError", "OverflowError"} \subseteq BadArguments
        BY DEF BadArguments
    <2> QED
        BY <1>3, <2>1, <2>2, <2>3 DEF UniqueValues
<1>4. CASE GetCatalog(t)
    BY <1>4, BeginsTypes, CallTypes DEF GetCatalog, InLib
<1>5. CASE CatalogReturns(t)
    <2>1. CASE Ends(t, Plain("None"))
        BY <1>0, <1>5, <2>1, EndsTypes DEF CatalogReturns, TypeOK, JournalTypeOK, Results
    <2>2. CASE pc' = [pc EXCEPT ![t] = "message_id"] /\ UNCHANGED <<call, part, ret>>
        BY <1>5, <1>b, <2>2 DEF CatalogReturns, TypeOK, JournalTypeOK, FieldsFirst
    <2> QED
        BY <1>5, <2>1, <2>2 DEF CatalogReturns
<1>6. CASE CatalogMissing(t)
    <2>1. PICK e \in {"KeyError", "IndexError"} \cup Errors : Ends(t, Plain(e))
        BY <1>6 DEF CatalogMissing, Errors
    <2> QED
        BY <1>0, <1>6, <1>a, <2>1, EndsTypes DEF CatalogMissing, TypeOK, JournalTypeOK, Results
<1>7. ASSUME NEW method, NEW closed \in Replies, NEW answers \in SUBSET Replies,
             Asks(t, method, closed, answers)
      PROVE  TypeInv'
    <2>1. PICK a \in Replies : Ends(t, Plain(a))
        BY <1>7 DEF Asks
    <2>2. Plain(a) \in Results
        BY <1>0, <2>1 DEF Replies, BadArguments
    <2> QED
        BY <1>7, <1>a, <2>1, <2>2, EndsTypes DEF Asks, TypeOK, JournalTypeOK, Results
<1>8. CASE Get(t) \/ EnumerateFields(t) \/ GetUsage(t)
    BY <1>7, <1>8 DEF Get, EnumerateFields, GetUsage, Replies, Errors
<1>9. ASSUME NEW i \in Ids, TestCursor(t, i) PROVE TypeInv'
    BY <1>7, <1>9 DEF TestCursor, Replies, Errors
<1> QED
    BY <1>1, <1>2, <1>3, <1>4, <1>5, <1>6, <1>8, <1>9

------------------------------------------------------------------------------
LEMMA NextTypes == TypeInv /\ [Next]_vars => TypeInv'
<1> SUFFICES ASSUME TypeInv, [Next]_vars PROVE TypeInv'
    OBVIOUS
<1>1. CASE JournaldStep
    BY <1>1, JournaldTypes DEF JournaldStep, readerVars, TypeInv, TypeOK, FieldsFirst
<1>2. CASE Dealloc
    <2>1. "gone" \in PCs \ Stamps
        BY DEF PCs, Stamps
    <2> QED
        BY <1>2, <2>1, FreesTypes DEF Dealloc, TypeInv, TypeOK, JournalTypeOK, FieldsFirst
<1>3. ASSUME NEW t \in Threads, CallBegins(t) PROVE TypeInv'
    BY <1>3, LifetimeTypes, GetTypes, SeekTypes, MatchTypes, QueryTypes, FollowTypes
    DEF CallBegins
<1>4. ASSUME NEW t \in Threads, CallReturns(t) PROVE TypeInv'
    BY <1>4, LifetimeTypes, GetTypes, SeekTypes, MatchTypes, QueryTypes, FollowTypes
    DEF CallReturns
<1>5. CASE UNCHANGED vars
    BY <1>5 DEF vars, TypeInv, TypeOK, JournalTypeOK, FieldsFirst
<1> QED
    BY <1>1, <1>2, <1>3, <1>4, <1>5 DEF Next

\* In every reachable state the variables have their types: the handle of the
\* Reader is one of libsystemd's or NULL, the filters keep their open term, and
\* what was handed out are entries of the journal.
THEOREM TypeCorrect == Spec => []TypeOK
<1>1. TypeInv => TypeOK
    BY DEF TypeInv
<1> QED
    BY <1>1, InitTypes, NextTypes, PTL DEF Spec

------------------------------------------------------------------------------
(* The life of handles.  All steps of an actor but sd_journal_open() and the   *)
(* two of close() are quiet: they open and free no handle and leave self->j    *)
(* alone, and what they captured of it is what it is now.                      *)

\* Where an actor may be without having stored, freed or forgotten a handle.
Calm == PCs \ {"gone", "opened", "closing"}

Quiet(t) ==
    /\ pc[t] \notin {"gone", "closing"} /\ Runs(t)
    /\ \E where \in Calm : pc' = [pc EXCEPT ![t] = where]
    /\ \E args \in CallRecords : call' = [call EXCEPT ![t] = args]
    /\ pc'[t] \in InLib \ {"open", "boot"} => call'[t].held = j
    /\ pc'[t] = "open" => (j = NULL \/ "reinit" \in Calls[t])
    /\ j' = j
    /\ \A h \in HandleIds : lib'[h].st = lib[h].st
    /\ \/ ub' = ub
       \/ Touch
       \/ /\ pc[t] \in InLib \ {"open", "boot"}
          /\ call[t].held # NULL /\ lib[call[t].held].st = "freed"
          /\ ub' = ub \cup {"raced"}

\* A call that begins is quiet if it captured self->j, or nothing.
LEMMA BeginsQuiet ==
    ASSUME TypeInv, NEW t \in Threads, NEW where \in InLib \cup {"match"},
           NEW args \in CallRecords, Begins(t, where, args),
           where \in InLib \ {"open", "boot"} => args.held = j,
           where = "open" => (j = NULL \/ "reinit" \in Calls[t])
    PROVE  Quiet(t)
<1>1. where \in Calm
    BY DEF Calm, PCs, InLib
<1> QED
    BY <1>1 DEF Begins, Idle, Quiet, TypeInv, TypeOK

\* A call that ends is quiet if it changed no handle's status.
LEMMA EndsQuiet ==
    ASSUME TypeInv, NEW t \in Threads, NEW r, Ends(t, r),
           pc[t] \notin {"gone", "closing"}, Runs(t), j' = j, ub' = ub \/ Touch,
           \A h \in HandleIds : lib'[h].st = lib[h].st
    PROVE  Quiet(t)
<1>1. "idle" \in Calm /\ "idle" \notin InLib \cup {"open"}
    BY DEF Calm, PCs, InLib, Second, Stamps
<1>2. NoCall \in CallRecords
    BY CallTypes DEF TypeInv
<1> QED
    BY <1>1, <1>2 DEF Ends, Quiet, TypeInv, TypeOK

\* A handle that is moved, filtered or brought up to date keeps its status.
LEMMA StatusKept ==
    ASSUME TypeOK, NEW k \in HandleIds
    PROVE  \A h \in HandleIds :
            /\ \A loc : [lib EXCEPT ![k].loc = loc][h].st = lib[h].st
            /\ \A f : [lib EXCEPT ![k].filter = f][h].st = lib[h].st
            /\ \A f : [lib EXCEPT ![k].unique = f][h].st = lib[h].st
            /\ [lib EXCEPT ![k] = Watched(lib[k])][h].st = lib[h].st
            /\ [lib EXCEPT ![k] = Processed(lib[k])][h].st = lib[h].st
BY DEF TypeOK, Handles, Watched, Processed

LEMMA LifetimeQuiet ==
    ASSUME TypeInv, NEW t \in Threads,
           \/ Open(t) \/ OpenReturns(t) \/ OpenFails(t)
           \/ ReturnsClosed(t) \/ ReturnsFreed(t) \/ ReturnsError(t)
    PROVE  Quiet(t)
<1>0. {"gone", "closing", "idle"} \cap InLib = {} /\ "open" \in InLib /\ "idle" \in Calm
    BY DEF Calm, InLib, PCs, Second, Stamps
<1>1. CASE Open(t)
    <2>1. NoCall \in CallRecords
        BY CallTypes DEF TypeInv
    <2> QED
        BY <1>0, <1>1, <2>1, BeginsQuiet DEF Open
<1>2. CASE OpenReturns(t) \/ OpenFails(t)
    BY <1>0, <1>2, EndsQuiet DEF OpenReturns, OpenFails
<1>3. CASE ReturnsClosed(t)
    BY <1>0, <1>3, EndsQuiet DEF ReturnsClosed
<1>4. CASE ReturnsFreed(t)
    <2>1. NoCall \in CallRecords
        BY CallTypes DEF TypeInv
    <2> QED
        BY <1>0, <1>4, <2>1 DEF ReturnsFreed, Ends, Quiet, TypeInv, TypeOK
<1>5. CASE ReturnsError(t)
    BY <1>0, <1>5, EndsQuiet DEF ReturnsError, Inside
<1> QED
    BY <1>1, <1>2, <1>3, <1>4, <1>5

LEMMA GetQuiet ==
    ASSUME TypeInv, NEW t \in Threads,
           \/ \E skip \in Skips : GetNext(t, skip) \/ GetPrevious(t, skip)
           \/ ZeroSkip(t) \/ NextMoves(t) \/ NextEnds(t)
           \/ GetAll(t) \/ GetRealtime(t) \/ GetMonotonic(t) \/ GetCursor(t)
    PROVE  Quiet(t)
<1>0. /\ {"gone", "closing"} \cap (InLib \cup Stamps) = {}
      /\ {"idle", "getall"} \cup Stamps \subseteq Calm \ InLib
    BY DEF Calm, InLib, PCs, Second, Stamps
<1>a. pc \in [Threads -> PCs] /\ call \in [Threads -> CallRecords]
    BY DEF TypeInv, TypeOK
<1>1. ASSUME NEW s \in Int, Begins(t, "next", [NoCall EXCEPT !.held = j, !.skip = s])
      PROVE  Quiet(t)
    <2>1. [NoCall EXCEPT !.held = j, !.skip = s] \in CallRecords
        BY CallTypes DEF TypeInv
    <2>2. [NoCall EXCEPT !.held = j, !.skip = s].held = j
        BY DEF NoCall
    <2> QED
        BY <1>1, <2>1, <2>2, BeginsQuiet DEF InLib
<1>2. ASSUME NEW skip \in Skips, GetNext(t, skip) \/ GetPrevious(t, skip) PROVE Quiet(t)
    <2>1. skip \in Int /\ -skip \in Int
        BY ReaderAssumption
    <2> QED
        BY <1>1, <1>2, <2>1 DEF GetNext, GetPrevious
<1>3. CASE ZeroSkip(t)
    BY <1>3, EndsQuiet DEF ZeroSkip, AtOnce, Idle
<1>4. CASE NextMoves(t)
    <2>1. call[t].held \in HandleIds
        BY <1>4, <1>a DEF NextMoves, Inside, CallRecords
    <2>2. \A h \in HandleIds : lib'[h].st = lib[h].st
        BY <1>4, <2>1, StatusKept DEF NextMoves, TypeInv
    <2>3. NoCall \in CallRecords
        BY CallTypes DEF TypeInv
    <2> QED
        BY <1>0, <1>4, <1>a, <2>2, <2>3 DEF NextMoves, Inside, InLib, Quiet
<1>5. CASE NextEnds(t)
    BY <1>5, EndsQuiet DEF NextEnds, Inside
<1>6. CASE GetAll(t)
    <2>1. CASE Readable = 0 \/ log[Readable].content.data = "none"
        BY <1>6, <2>1, EndsQuiet DEF GetAll
    <2>3. CASE log[Readable].content.data = "broken"
        BY <1>6, <2>3, EndsQuiet DEF GetAll
    <2>2. CASE ~ (Readable = 0 \/ log[Readable].content.data \in {"none", "broken"})
        <3>1. pc' = [pc EXCEPT ![t] = "realtime"] /\ call' = [call EXCEPT ![t] = call[t]]
            BY <1>6, <1>a, <2>2 DEF GetAll
        <3> QED
            BY <1>0, <1>6, <1>a, <3>1 DEF GetAll, Quiet, Stamps
    <2> QED
        BY <2>1, <2>2, <2>3
<1>7. ASSUME NEW s \in {"realtime", "monotonic"}, NEW then \in Stamps, GetStamp(t, s, then)
      PROVE  Quiet(t)
    <2>1. CASE Readable = 0
        BY <1>7, <2>1, EndsQuiet DEF GetStamp
    <2>2. CASE Readable # 0
        <3>1. pc' = [pc EXCEPT ![t] = then] /\ call' = [call EXCEPT ![t] = call[t]]
            BY <1>7, <1>a, <2>2 DEF GetStamp
        <3> QED
            BY <1>0, <1>7, <1>a, <3>1 DEF GetStamp, Quiet, InLib
    <2> QED
        BY <2>1, <2>2
<1>8. CASE GetCursor(t)
    <2>1. \E r : Ends(t, r)
        BY <1>8 DEF GetCursor
    <2> QED
        BY <1>8, <2>1, EndsQuiet DEF GetCursor
<1> QED
    BY <1>2, <1>3, <1>4, <1>5, <1>6, <1>7, <1>8 DEF GetRealtime, GetMonotonic, Stamps

LEMMA SeekQuiet ==
    ASSUME TypeInv, NEW t \in Threads,
           \/ SeekHead(t) \/ SeekTail(t)
           \/ \E i \in Ids : SeekRealtime(t, i) \/ SeekMonotonic(t, i) \/ SeekCursor(t, i)
           \/ BootReturns(t) \/ SeekReturns(t)
    PROVE  Quiet(t)
<1>a. pc \in [Threads -> PCs] /\ call \in [Threads -> CallRecords]
    BY DEF TypeInv, TypeOK
<1>1. ASSUME NEW loc \in Locs, SeekTo(t, loc) PROVE Quiet(t)
    <2>1. [NoCall EXCEPT !.held = j, !.to = loc] \in CallRecords
        BY CallTypes DEF TypeInv
    <2>2. [NoCall EXCEPT !.held = j, !.to = loc].held = j
        BY DEF NoCall
    <2> QED
        BY <1>1, <2>1, <2>2, BeginsQuiet DEF SeekTo, InLib
<1>2. CASE SeekHead(t) \/ SeekTail(t)
    BY <1>1, <1>2, LocTypes DEF SeekHead, SeekTail
<1>3. ASSUME NEW i \in Ids, SeekRealtime(t, i) \/ SeekCursor(t, i) PROVE Quiet(t)
    BY <1>1, <1>3, LocTypes DEF SeekRealtime, SeekCursor
<1>4. ASSUME NEW i \in Ids, SeekMonotonic(t, i) PROVE Quiet(t)
    <2>1. CASE Begins(t, "boot", [NoCall EXCEPT !.to = Loc("seek", i)])
        <3>1. [NoCall EXCEPT !.to = Loc("seek", i)] \in CallRecords
            BY CallTypes, LocTypes DEF TypeInv
        <3> QED
            BY <2>1, <3>1, BeginsQuiet DEF InLib
    <2> QED
        BY <1>1, <1>4, <2>1, LocTypes DEF SeekMonotonic
<1>5. CASE BootReturns(t)
    <2>1. ASSUME NEW e \in Errors, Ends(t, Plain(e)) PROVE Quiet(t)
        BY <1>5, <2>1, EndsQuiet DEF BootReturns
    <2>2. CASE pc' = [pc EXCEPT ![t] = "seek"] /\ call' = [call EXCEPT ![t].held = j]
        <3>1. [call[t] EXCEPT !.held = j] \in CallRecords
            <4>1. j \in {NULL} \cup HandleIds /\ call[t] \in CallRecords
                BY <1>a DEF TypeInv, TypeOK
            <4> QED
                BY <4>1 DEF CallRecords
        <3>2. "seek" \in Calm /\ "seek" # "open"
            BY DEF Calm, PCs, InLib
        <3>3. call'[t].held = j
            BY <1>a, <2>2 DEF CallRecords
        <3> QED
            BY <1>5, <1>a, <2>2, <3>1, <3>2, <3>3 DEF BootReturns, Quiet
    <2> QED
        BY <1>5, <2>1, <2>2 DEF BootReturns
<1>6. CASE SeekReturns(t)
    <2>1. call[t].held \in HandleIds
        BY <1>6, <1>a DEF SeekReturns, Inside, CallRecords
    <2>2. \A h \in HandleIds : lib'[h].st = lib[h].st
        BY <1>6, <2>1, StatusKept DEF SeekReturns, TypeInv
    <2> QED
        BY <1>6, <2>2, EndsQuiet DEF SeekReturns, Inside
<1> QED
    BY <1>2, <1>3, <1>4, <1>5, <1>6

LEMMA MatchQuiet ==
    ASSUME TypeInv, NEW t \in Threads,
           \/ \E args \in MatchArgs : AddMatch(t, args)
           \/ \E level \in Levels : LogLevel(t, level)
           \/ MatchFails(t) \/ MatchAdds(t) \/ MatchEnds(t)
           \/ AddDisjunction(t) \/ AddConjunction(t) \/ FlushMatches(t)
    PROVE  Quiet(t)
<1>a. pc \in [Threads -> PCs] /\ call \in [Threads -> CallRecords]
    BY DEF TypeInv, TypeOK
<1>b. "match" \in Calm \ (InLib \cup {"open"})
    BY DEF Calm, InLib, PCs, Second, Stamps
<1>1. ASSUME \E args : Begins(t, "match", args), TypeInv' PROVE Quiet(t)
    <2>1. PICK args : Begins(t, "match", args)
        BY <1>1
    <2>2. call'[t] \in CallRecords /\ call' = [call EXCEPT ![t] = call'[t]]
        BY <1>1, <1>a, <2>1 DEF Begins, TypeInv, TypeOK
    <2> QED
        BY <1>a, <1>b, <2>1, <2>2 DEF Begins, Idle, Quiet
<1>2. TypeInv'
    BY MatchTypes
<1>3. ASSUME NEW args \in MatchArgs, AddMatch(t, args) PROVE Quiet(t)
    BY <1>1, <1>2, <1>3 DEF AddMatch
<1>4. ASSUME NEW level \in Levels, LogLevel(t, level) PROVE Quiet(t)
    <2>1. CASE level \in 0 .. 7
        BY <1>1, <1>2, <1>4, <2>1 DEF LogLevel
    <2>2. CASE level \notin 0 .. 7
        BY <1>4, <2>2, EndsQuiet DEF LogLevel, AtOnce, Idle
    <2> QED
        BY <2>1, <2>2
<1>5. CASE MatchFails(t) \/ MatchEnds(t)
    <2>1. lib' = lib /\ j' = j /\ (ub' = ub \/ Touch) /\ \E r : Ends(t, r)
        BY <1>5 DEF MatchFails, MatchEnds
    <2> QED
        BY <1>5, <2>1, EndsQuiet DEF MatchFails, MatchEnds
<1>8. CASE MatchAdds(t)
    <2>1. j \in HandleIds
        BY <1>8 DEF MatchAdds, TypeInv, TypeOK
    <2>2. \A h \in HandleIds : lib'[h].st = lib[h].st
        <3>1. \E f : lib' = [lib EXCEPT ![j].filter = f]
            BY <1>8 DEF MatchAdds
        <3> QED
            BY <2>1, <3>1, StatusKept DEF TypeInv
    <2>3. call'[t] \in CallRecords /\ call' = [call EXCEPT ![t] = call'[t]]
        BY <1>2, <1>8, <1>a DEF MatchAdds, TypeInv, TypeOK
    <2>4. pc' = [pc EXCEPT ![t] = "match"]
        BY <1>8, <1>a DEF MatchAdds
    <2> QED
        BY <1>8, <1>a, <1>b, <2>2, <2>3, <2>4 DEF MatchAdds, Quiet
<1>6. ASSUME NEW f, NEW whenClosed, Refilters(t, f, whenClosed) PROVE Quiet(t)
    <2>1. \A h \in HandleIds : lib'[h].st = lib[h].st
        <3>1. lib' = lib \/ (j \in HandleIds /\ lib' = [lib EXCEPT ![j].filter = f])
            BY <1>6 DEF Refilters, TypeInv, TypeOK
        <3>2. CASE lib' = lib
            BY <3>2
        <3>3. CASE j \in HandleIds /\ lib' = [lib EXCEPT ![j].filter = f]
            BY <3>3, StatusKept DEF TypeInv
        <3> QED
            BY <3>1, <3>2, <3>3
    <2>2. \E r : Ends(t, r)
        BY <1>6 DEF Refilters
    <2> QED
        BY <1>6, <2>1, <2>2, EndsQuiet DEF Refilters, AtOnce, Idle
<1>7. CASE AddDisjunction(t) \/ AddConjunction(t) \/ FlushMatches(t)
    BY <1>6, <1>7 DEF AddDisjunction, AddConjunction, FlushMatches
<1> QED
    BY <1>3, <1>4, <1>5, <1>7, <1>8

LEMMA FollowQuiet ==
    ASSUME TypeInv, NEW t \in Threads,
           \/ Fileno(t) \/ Process(t) \/ \E forever \in BOOLEAN : Wait(t, forever)
           \/ ProcessReturns(t) \/ WaitReturns(t)
    PROVE  Quiet(t)
<1>0. {"process", "wait"} \subseteq InLib /\ {"gone", "closing"} \cap InLib = {}
    BY DEF InLib
<1>1. CASE Fileno(t)
    <2>1. \A h \in HandleIds : lib'[h].st = lib[h].st
        BY <1>1, StatusKept DEF Fileno, TypeInv, TypeOK
    <2>2. \E r : Ends(t, r)
        BY <1>1 DEF Fileno
    <2> QED
        BY <1>1, <2>1, <2>2, EndsQuiet DEF Fileno, AtOnce, Idle
<1>2. CASE Process(t)
    <2>1. [NoCall EXCEPT !.held = j] \in CallRecords /\ [NoCall EXCEPT !.held = j].held = j
        BY CallTypes DEF TypeInv, NoCall
    <2> QED
        BY <1>0, <1>2, <2>1, BeginsQuiet DEF Process
<1>3. ASSUME NEW forever \in BOOLEAN, Wait(t, forever) PROVE Quiet(t)
    <2>1. [NoCall EXCEPT !.held = j, !.forever = forever] \in CallRecords
        BY CallTypes DEF TypeInv
    <2>2. [NoCall EXCEPT !.held = j, !.forever = forever].held = j
        BY DEF NoCall
    <2> QED
        BY <1>0, <1>3, <2>1, <2>2, BeginsQuiet DEF Wait
<1>4. CASE ProcessReturns(t)
    <2>1. call[t].held \in HandleIds
        BY <1>4 DEF ProcessReturns, Inside, TypeInv, TypeOK, CallRecords
    <2>2. \A h \in HandleIds : lib'[h].st = lib[h].st
        BY <1>4, <2>1, StatusKept DEF ProcessReturns, TypeInv
    <2> QED
        BY <1>0, <1>4, <2>2, EndsQuiet DEF ProcessReturns, Inside
<1>5. CASE WaitReturns(t)
    <2>1. call[t].held \in HandleIds
        BY <1>5 DEF WaitReturns, Inside, TypeInv, TypeOK, CallRecords
    <2>2. \A h \in HandleIds : lib'[h].st = lib[h].st
        <3>1. \/ lib' = [lib EXCEPT ![call[t].held] = Watched(lib[call[t].held])]
              \/ lib' = [lib EXCEPT ![call[t].held] = Processed(lib[call[t].held])]
            BY <1>5 DEF WaitReturns
        <3>2. CASE lib' = [lib EXCEPT ![call[t].held] = Watched(lib[call[t].held])]
            BY <2>1, <3>2, StatusKept DEF TypeInv
        <3>3. CASE lib' = [lib EXCEPT ![call[t].held] = Processed(lib[call[t].held])]
            BY <2>1, <3>3, StatusKept DEF TypeInv
        <3> QED
            BY <3>1, <3>2, <3>3
    <2>3. \E r : Ends(t, r)
        BY <1>5 DEF WaitReturns
    <2> QED
        BY <1>0, <1>5, <2>2, <2>3, EndsQuiet DEF WaitReturns, Inside
<1> QED
    BY <1>1, <1>2, <1>3, <1>4, <1>5

LEMMA QueryQuiet ==
    ASSUME TypeInv, NEW t \in Threads,
           \/ \E field \in FieldNames : QueryUnique(t, field)
           \/ UniqueReturns(t) \/ UniqueValues(t)
           \/ GetCatalog(t) \/ CatalogReturns(t) \/ CatalogMissing(t)
           \/ Get(t) \/ (\E i \in Ids : TestCursor(t, i))
           \/ EnumerateFields(t) \/ GetUsage(t)
    PROVE  Quiet(t)
<1>a. pc \in [Threads -> PCs] /\ call \in [Threads -> CallRecords]
    BY DEF TypeInv, TypeOK
<1>b. /\ {"unique", "catalog"} \subseteq InLib /\ {"gone", "closing"} \cap InLib = {}
      /\ {"values", "message_id"} \subseteq Calm \ InLib
    BY DEF Calm, InLib, Second, Stamps, PCs
<1>1. ASSUME NEW field \in FieldNames, QueryUnique(t, field) PROVE Quiet(t)
    <2>1. [NoCall EXCEPT !.held = j, !.field = field] \in CallRecords
        BY CallTypes DEF TypeInv
    <2>2. [NoCall EXCEPT !.held = j, !.field = field].held = j
        BY DEF NoCall
    <2> QED
        BY <1>1, <1>b, <2>1, <2>2, BeginsQuiet DEF QueryUnique
<1>2. CASE UniqueReturns(t)
    <2>1. call[t].held \in HandleIds
        BY <1>2, <1>a DEF UniqueReturns, Inside, CallRecords
    <2>2. \A h \in HandleIds : lib'[h].st = lib[h].st
        BY <1>2, <2>1, StatusKept DEF UniqueReturns, TypeInv
    <2>3. pc' = [pc EXCEPT ![t] = "values"] /\ call' = [call EXCEPT ![t] = call[t]]
        BY <1>2, <1>a DEF UniqueReturns
    <2> QED
        BY <1>2, <1>a, <1>b, <2>2, <2>3 DEF UniqueReturns, Inside, InLib, Quiet
<1>3. CASE UniqueValues(t)
    <2>1. \E r : Ends(t, r)
        BY <1>3 DEF UniqueValues
    <2> QED
        BY <1>3, <2>1, EndsQuiet DEF UniqueValues
<1>4. CASE GetCatalog(t)
    <2>1. [NoCall EXCEPT !.held = j] \in CallRecords /\ [NoCall EXCEPT !.held = j].held = j
        BY CallTypes DEF TypeInv, NoCall
    <2> QED
        BY <1>4, <1>b, <2>1, BeginsQuiet DEF GetCatalog
<1>5. CASE CatalogReturns(t)
    <2>1. CASE Ends(t, Plain("None"))
        BY <1>5, <2>1, EndsQuiet DEF CatalogReturns, Inside
    <2>2. CASE pc' = [pc EXCEPT ![t] = "message_id"] /\ UNCHANGED call
        <3>1. call' = [call EXCEPT ![t] = call[t]]
            BY <1>a, <2>2
        <3> QED
            BY <1>5, <1>a, <1>b, <2>2, <3>1 DEF CatalogReturns, Inside, InLib, Quiet
    <2> QED
        BY <1>5, <2>1, <2>2 DEF CatalogReturns
<1>6. CASE CatalogMissing(t)
    <2>1. \E r : Ends(t, r)
        BY <1>6 DEF CatalogMissing
    <2> QED
        BY <1>6, <2>1, EndsQuiet DEF CatalogMissing
<1>7. ASSUME NEW method, NEW closed, NEW answers, Asks(t, method, closed, answers)
      PROVE  Quiet(t)
    <2>1. \E r : Ends(t, r)
        BY <1>7 DEF Asks
    <2> QED
        BY <1>7, <2>1, EndsQuiet DEF Asks, AtOnce, Idle
<1>8. CASE Get(t) \/ EnumerateFields(t) \/ GetUsage(t)
    BY <1>7, <1>8 DEF Get, EnumerateFields, GetUsage
<1>9. ASSUME NEW i \in Ids, TestCursor(t, i) PROVE Quiet(t)
    BY <1>7, <1>9 DEF TestCursor
<1> QED
    BY <1>1, <1>2, <1>3, <1>4, <1>5, <1>6, <1>8, <1>9

\* The kinds of step there are: what an actor does, ...
Disturbs(t) == OpenStores(t) \/ CloseFrees(t) \/ CloseClears(t)

LEMMA ActorSteps ==
    ASSUME TypeInv, NEW t \in Threads, CallBegins(t) \/ CallReturns(t)
    PROVE  Disturbs(t) \/ Quiet(t)
<1>1. ASSUME CallBegins(t), ~ CloseFrees(t) PROVE Quiet(t)
    BY <1>1, LifetimeQuiet, GetQuiet, SeekQuiet, MatchQuiet, QueryQuiet, FollowQuiet
    DEF CallBegins
<1>2. ASSUME CallReturns(t), ~ OpenStores(t), ~ CloseClears(t) PROVE Quiet(t)
    BY <1>2, LifetimeQuiet, GetQuiet, SeekQuiet, MatchQuiet, QueryQuiet, FollowQuiet
    DEF CallReturns
<1> QED
    BY <1>1, <1>2 DEF Disturbs

\* ... and all steps.
LEMMA StepKinds ==
    ASSUME TypeInv, [Next]_vars
    PROVE  \/ JournaldStep \/ Dealloc \/ UNCHANGED vars
           \/ \E t \in Threads : Disturbs(t) \/ Quiet(t)
BY ActorSteps DEF Next

------------------------------------------------------------------------------
(* No stale pointer.  While anybody can still call the Reader, self->j is NULL *)
(* or refers to an open handle, but for the time that one actor is in a close()*)
(* which has freed its handle already.                                         *)

GoneTogether ==
    (\E t \in Threads : pc[t] = "gone") => (\A t \in Threads : pc[t] = "gone")
OneCloser == \A t, u \in Threads : (pc[t] = "closing" /\ pc[u] = "closing") => t = u
PointerOpen ==
    (\A t \in Threads : pc[t] \notin {"gone", "closing"}) => (j # NULL => lib[j].st = "open")
CloserFreed ==
    \A t \in Threads :
        (pc[t] = "closing" /\ call[t].held # NULL) => lib[call[t].held].st = "freed"

PointerInv ==
    TypeInv /\ GoneTogether /\ OneCloser /\ PointerOpen /\ CloserFreed /\ NoStaleUse

LEMMA InitPointer == Init => PointerInv
<1> SUFFICES ASSUME Init PROVE PointerInv
    OBVIOUS
<1>1. TypeInv
    BY InitTypes
<1>2. \A t \in Threads : pc[t] = "idle"
    BY DEF Init
<1> QED
    BY <1>1, <1>2
    DEF Init, PointerInv, GoneTogether, OneCloser, PointerOpen, CloserFreed, NoStaleUse

\* An actor that runs, and is not in a close(), finds the pointer in order.
LEMMA PointerFound ==
    ASSUME PointerInv, NEW t \in Threads, Runs(t), pc[t] \notin {"gone", "closing"}
    PROVE  /\ \A u \in Threads : pc[u] \notin {"gone", "closing"}
           /\ j # NULL => lib[j].st = "open"
<1>1. \A u \in Threads : pc[u] \notin {"gone", "closing"}
    BY DEF Runs, PointerInv, GoneTogether
<1> QED
    BY <1>1 DEF PointerInv, PointerOpen

LEMMA NextPointer ==
    ASSUME PointerInv, [Next]_vars
    PROVE  PointerInv'
<1>a. /\ TypeInv /\ TypeInv' /\ GoneTogether /\ OneCloser /\ PointerOpen /\ CloserFreed
      /\ NoStaleUse
    BY NextTypes DEF PointerInv
<1>b. /\ pc \in [Threads -> PCs] /\ pc' \in [Threads -> PCs]
      /\ call \in [Threads -> CallRecords] /\ call' \in [Threads -> CallRecords]
    BY <1>a DEF TypeInv, TypeOK
<1>c. j \in {NULL} \cup HandleIds /\ lib \in [HandleIds -> Handles] /\ NULL \notin HandleIds
    BY <1>a DEF TypeInv, TypeOK, NULL, HandleIds
<1>d. \A t \in Threads : call[t].held \in {NULL} \cup HandleIds
    BY <1>b DEF CallRecords
<1> DEFINE Rest == GoneTogether /\ OneCloser /\ PointerOpen /\ CloserFreed /\ NoStaleUse
<1>1. ASSUME JournaldStep \/ UNCHANGED vars PROVE Rest'
    BY <1>1, <1>a
    DEF JournaldStep, readerVars, vars, GoneTogether, OneCloser, PointerOpen, CloserFreed, NoStaleUse
<1>2. ASSUME Dealloc PROVE Rest'
    <2>1. \A t \in Threads : pc'[t] = "gone" /\ pc[t] = "idle"
        BY <1>2 DEF Dealloc, Idle
    <2>2. ub' = ub
        BY <1>2, <1>a, <2>1 DEF Dealloc, Frees, Touch, PointerOpen
    <2> QED
        BY <1>a, <2>1, <2>2, ReaderAssumption
        DEF GoneTogether, OneCloser, PointerOpen, CloserFreed, NoStaleUse
<1>3. ASSUME NEW t \in Threads, OpenStores(t) PROVE Rest'
    <2>1. pc[t] = "open" /\ pc' = [pc EXCEPT ![t] = "opened"] /\ ub' = ub /\ call' = call
        BY <1>3 DEF OpenStores
    <2>2. PICK h \in HandleIds :
            lib[h].st = "unused" /\ j' = h /\ lib' = [lib EXCEPT ![h] = Opened]
        BY <1>3 DEF OpenStores
    <2>3. lib'[h].st = "open" /\ \A k \in HandleIds \ {h} : lib'[k] = lib[k]
        BY <1>c, <2>2 DEF Opened, Unused
    <2>4. \A u \in Threads : pc'[u] # "gone"
        BY <1>a, <1>b, <2>1 DEF GoneTogether
    <2>5. \A u \in Threads : pc'[u] = "closing" => pc[u] = "closing"
        BY <1>b, <2>1
    <2>6. CloserFreed'
        BY <1>a, <1>d, <2>1, <2>2, <2>3, <2>5 DEF CloserFreed
    <2> QED
        BY <1>a, <2>1, <2>2, <2>3, <2>4, <2>5, <2>6
        DEF GoneTogether, OneCloser, PointerOpen, NoStaleUse
<1>4. ASSUME NEW t \in Threads, CloseFrees(t) PROVE Rest'
    <2>1. /\ pc[t] = "idle" /\ Runs(t) /\ j' = j /\ pc' = [pc EXCEPT ![t] = "closing"]
          /\ call' = [call EXCEPT ![t] = [NoCall EXCEPT !.held = j]]
        BY <1>4 DEF CloseFrees, AtOnce, Idle
    <2>2. (\A u \in Threads : pc[u] \notin {"gone", "closing"}) /\ (j # NULL => lib[j].st = "open")
        BY <2>1, PointerFound
    <2>3. ub' = ub
        BY <1>4, <2>2 DEF CloseFrees, Frees, Touch
    <2>4. \A u \in Threads : pc'[u] # "gone" /\ (pc'[u] = "closing" => u = t)
        BY <1>b, <2>1, <2>2
    <2>5. call'[t].held = j
        BY <1>b, <2>1 DEF NoCall
    <2>6. j # NULL => lib'[j].st = "freed"
        BY <1>4, <1>c DEF CloseFrees, Frees, Freed, Unused
    <2>7. CloserFreed'
        BY <2>4, <2>5, <2>6 DEF CloserFreed
    <2>8. pc'[t] = "closing"
        BY <1>b, <2>1
    <2> QED
        BY <1>a, <2>3, <2>4, <2>7, <2>8 DEF GoneTogether, OneCloser, PointerOpen, NoStaleUse
<1>5. ASSUME NEW t \in Threads, CloseClears(t) PROVE Rest'
    <2>1. /\ pc[t] = "closing" /\ pc' = [pc EXCEPT ![t] = "idle"] /\ j' = NULL /\ ub' = ub
          /\ lib' = lib /\ call' = [call EXCEPT ![t] = NoCall]
        BY <1>5 DEF CloseClears, Ends
    <2>2. \A u \in Threads : pc'[u] \notin {"gone", "closing"}
        BY <1>a, <1>b, <2>1 DEF GoneTogether, OneCloser
    <2> QED
        BY <1>a, <2>1, <2>2
        DEF GoneTogether, OneCloser, PointerOpen, CloserFreed, NoStaleUse
<1>6. ASSUME NEW t \in Threads, Quiet(t) PROVE Rest'
    <2>1. /\ pc[t] \notin {"gone", "closing"} /\ Runs(t) /\ j' = j
          /\ \A h \in HandleIds : lib'[h].st = lib[h].st
        BY <1>6 DEF Quiet
    <2>2. (\A u \in Threads : pc[u] \notin {"gone", "closing"}) /\ (j # NULL => lib[j].st = "open")
        BY <2>1, PointerFound
    <2>3. \A u \in Threads : pc'[u] \notin {"gone", "closing"}
        BY <1>6, <1>b, <2>2 DEF Quiet, Calm
    <2>4. NoStaleUse'
        BY <1>6, <1>a, <2>2 DEF Quiet, Touch, NoStaleUse
    <2>5. j' # NULL => lib'[j'].st = "open"
        BY <1>c, <2>1, <2>2
    <2> QED
        BY <2>3, <2>4, <2>5 DEF GoneTogether, OneCloser, PointerOpen, CloserFreed
<1> QED
    BY <1>1, <1>2, <1>3, <1>4, <1>5, <1>6, <1>a, StepKinds DEF Disturbs, PointerInv

\* close() and the destructor leave no stale pointer behind, however many actors
\* share the Reader and whether or not they run at the same time.
THEOREM NeverStale == Spec => []NoStaleUse
<1>1. PointerInv => NoStaleUse
    BY DEF PointerInv
<1>2. PointerInv /\ [Next]_vars => PointerInv'
    BY NextPointer
<1> QED
    BY <1>1, <1>2, InitPointer, PTL DEF Spec

------------------------------------------------------------------------------
(* No handle is lost to close().  It frees what it took from self->j, so that  *)
(* what it forgets afterwards is that or another thread's.                     *)

Kept ==
    \A h \in HandleIds :
        (j = h /\ lib[h].st = "open" /\ j' # h /\ lib'[h].st = "open") =>
            \E t \in Threads :
                \/ pc[t] = "open" /\ pc'[t] = "opened"
                \/ pc[t] = "closing" /\ call[t].held # h

\* Whatever the actors do and whether or not they run at the same time, close()
\* loses no open handle but one that another thread stores between its two
\* statements, and nothing else does but an __init__ over an open Reader.
THEOREM NeverLeaks == Spec => NoHandleLeak
<1>1. ASSUME PointerInv, [Next]_vars PROVE [Kept]_vars
    <2>a. TypeInv /\ CloserFreed /\ pc \in [Threads -> PCs]
        BY <1>1 DEF PointerInv, TypeInv, TypeOK
    <2>1. CASE JournaldStep \/ UNCHANGED vars
        BY <2>1 DEF JournaldStep, readerVars, vars, Kept
    <2>2. CASE Dealloc
        BY <2>2 DEF Dealloc, Kept
    <2>3. ASSUME NEW t \in Threads, OpenStores(t) PROVE Kept
        BY <2>3, <2>a DEF OpenStores, Kept
    <2>4. ASSUME NEW t \in Threads, CloseFrees(t) PROVE Kept
        BY <2>4 DEF CloseFrees, Kept
    <2>5. ASSUME NEW t \in Threads, CloseClears(t) PROVE Kept
        <3>1. pc[t] = "closing"
            BY <2>5 DEF CloseClears
        <3>2. \A h \in HandleIds : lib[h].st = "open" => call[t].held # h
            BY <2>a, <3>1 DEF CloserFreed, HandleIds, NULL
        <3> QED
            BY <3>1, <3>2 DEF Kept
    <2>6. ASSUME NEW t \in Threads, Quiet(t) PROVE Kept
        BY <2>6 DEF Quiet, Kept
    <2> QED
        BY <1>1, <2>1, <2>2, <2>3, <2>4, <2>5, <2>6, <2>a, StepKinds DEF Disturbs
<1>2. PointerInv /\ [Next]_vars => PointerInv'
    BY NextPointer
<1>3. [][Kept]_vars => NoHandleLeak
    BY PTL DEF Kept, NoHandleLeak
<1> QED
    BY <1>1, <1>2, <1>3, InitPointer, PTL DEF Spec

------------------------------------------------------------------------------
(* One thread and its signal handlers.  At most one actor is in the middle of  *)
(* an extension call and the handle it captured is the one the Reader has.     *)

Busy == InLib \cup Second \cup {"closing"}

OneInside ==
    \A t, u \in Threads : (pc[t] \in Busy /\ pc[u] \in Busy) => t = u
HeldIsCurrent ==
    \A t \in Threads : pc[t] \in InLib \ {"open", "boot"} => call[t].held = j

ThreadInv == PointerInv /\ OneInside /\ HeldIsCurrent /\ NoUseAfterFree

LEMMA InitThread == Init => ThreadInv
<1> SUFFICES ASSUME Init PROVE ThreadInv
    OBVIOUS
<1>1. \A t \in Threads : pc[t] = "idle"
    BY DEF Init
<1>2. "idle" \notin Busy \cup InLib
    BY DEF Busy, InLib, Second
<1> QED
    BY <1>1, <1>2, InitPointer
    DEF Init, ThreadInv, OneInside, HeldIsCurrent, NoUseAfterFree

LEMMA NextThread ==
    ASSUME ~ Overlap, ThreadInv, [Next]_vars
    PROVE  ThreadInv'
<1>a. PointerInv /\ PointerInv' /\ OneInside /\ HeldIsCurrent /\ NoUseAfterFree
    BY NextPointer DEF ThreadInv
<1>b. pc \in [Threads -> PCs] /\ call \in [Threads -> CallRecords]
    BY <1>a DEF PointerInv, TypeInv, TypeOK
<1>c. /\ {"idle", "gone"} \cap Busy = {} /\ InLib \subseteq Busy
      /\ {"idle", "gone", "opened", "closing"} \cap InLib = {}
    BY DEF Busy, InLib, Second
<1> DEFINE Rest == OneInside /\ HeldIsCurrent /\ NoUseAfterFree
<1>1. ASSUME JournaldStep \/ UNCHANGED vars PROVE Rest'
    BY <1>1, <1>a DEF JournaldStep, readerVars, vars, OneInside, HeldIsCurrent, NoUseAfterFree
<1>d. ASSUME NEW t \in Threads, Alone(t)
      PROVE  \A u \in Threads \ {t} : pc[u] \notin Busy
    BY <1>d DEF Alone, Busy
<1>2. ASSUME Dealloc PROVE Rest'
    <2>1. \A u \in Threads : pc'[u] = "gone" /\ pc[u] = "idle"
        BY <1>2 DEF Dealloc, Idle
    <2>2. ub' = ub
        BY <1>2, <1>a, <2>1 DEF Dealloc, Frees, Touch, PointerInv, PointerOpen
    <2> QED
        BY <1>a, <1>c, <2>1, <2>2 DEF OneInside, HeldIsCurrent, NoUseAfterFree
<1>3. ASSUME NEW t \in Threads, Disturbs(t) PROVE Rest'
    <2>1. /\ Alone(t)
          /\ \E where \in {"idle", "opened", "closing"} : pc' = [pc EXCEPT ![t] = where]
        BY <1>3 DEF Disturbs, OpenStores, CloseFrees, CloseClears, AtOnce, Runs, Ends
    <2>2. /\ \A u \in Threads \ {t} : pc'[u] \notin Busy
          /\ \A u \in Threads : pc'[u] \notin InLib
        BY <1>b, <1>c, <1>d, <2>1
    <2>3. ub' = ub
        <3>1. CASE CloseFrees(t)
            <4>1. Runs(t) /\ pc[t] = "idle"
                BY <3>1 DEF CloseFrees, AtOnce, Idle
            <4>2. j # NULL => lib[j].st = "open"
                BY <1>a, <4>1, PointerFound
            <4> QED
                BY <3>1, <4>2 DEF CloseFrees, Frees, Touch
        <3> QED
            BY <1>3, <3>1 DEF Disturbs, OpenStores, CloseClears
    <2> QED
        BY <1>a, <2>2, <2>3 DEF OneInside, HeldIsCurrent, NoUseAfterFree
<1>4. ASSUME NEW t \in Threads, Quiet(t) PROVE Rest'
    <2>1. Runs(t) /\ Alone(t) /\ pc[t] \notin {"gone", "closing"} /\ j' = j
        BY <1>4 DEF Quiet, Runs
    <2>2. \A u \in Threads \ {t} : pc'[u] \notin Busy
        BY <1>4, <1>b, <1>d, <2>1 DEF Quiet
    <2>3. OneInside' /\ HeldIsCurrent'
        BY <1>4, <1>c, <2>1, <2>2 DEF Quiet, OneInside, HeldIsCurrent
    <2>4. j # NULL => lib[j].st = "open"
        BY <1>a, <2>1, PointerFound
    <2>5. NoUseAfterFree'
        BY <1>4, <1>a, <2>4 DEF Quiet, Touch, HeldIsCurrent, NoUseAfterFree
    <2> QED
        BY <2>3, <2>5
<1> QED
    BY <1>1, <1>2, <1>3, <1>4, <1>a, StepKinds DEF ThreadInv, PointerInv

\* In one thread and any number of its signal handlers no call uses a freed
\* handle, whatever the handlers do between two calls.
THEOREM NeverFreedInOneThread ==
    ASSUME ~ Overlap
    PROVE  Spec => []NoUseAfterFree
<1>1. ThreadInv => NoUseAfterFree
    BY DEF ThreadInv
<1>2. ThreadInv /\ [Next]_vars => ThreadInv'
    BY NextThread
<1> QED
    BY <1>1, <1>2, InitThread, PTL DEF Spec

(* A client that runs __init__ on a closed Reader only, in one thread: the     *)
(* Reader stays closed until sd_journal_open() has stored a handle.            *)

OpensWhenClosed == \A t \in Threads : pc[t] = "open" => j = NULL

OpenInv == ThreadInv /\ OpensWhenClosed

LEMMA InitOpen == Init => OpenInv
BY InitThread DEF Init, OpenInv, OpensWhenClosed

LEMMA NextOpen ==
    ASSUME ~ Overlap, \A t \in Threads : "reinit" \notin Calls[t], OpenInv, [Next]_vars
    PROVE  OpenInv'
<1>a. ThreadInv /\ ThreadInv' /\ OpensWhenClosed
    BY NextThread DEF OpenInv
<1>b. pc \in [Threads -> PCs]
    BY <1>a DEF ThreadInv, PointerInv, TypeInv, TypeOK
<1>c. ASSUME NEW t \in Threads, Alone(t)
      PROVE  \A u \in Threads \ {t} : pc[u] # "open"
    BY <1>c DEF Alone, InLib
<1>1. ASSUME JournaldStep \/ UNCHANGED vars PROVE OpensWhenClosed'
    BY <1>1, <1>a DEF JournaldStep, readerVars, vars, OpensWhenClosed
<1>2. ASSUME Dealloc PROVE OpensWhenClosed'
    BY <1>2 DEF Dealloc, OpensWhenClosed
<1>3. ASSUME NEW t \in Threads, Disturbs(t) PROVE OpensWhenClosed'
    <2>1. Alone(t) /\ \E where \in {"idle", "opened", "closing"} : pc' = [pc EXCEPT ![t] = where]
        BY <1>3 DEF Disturbs, OpenStores, CloseFrees, CloseClears, AtOnce, Runs, Ends
    <2> QED
        BY <1>b, <1>c, <2>1 DEF OpensWhenClosed
<1>4. ASSUME NEW t \in Threads, Quiet(t) PROVE OpensWhenClosed'
    <2>1. Alone(t) /\ j' = j /\ (pc'[t] = "open" => j = NULL)
        BY <1>4 DEF Quiet, Runs
    <2>2. \A u \in Threads \ {t} : pc'[u] # "open"
        BY <1>4, <1>b, <1>c, <2>1 DEF Quiet
    <2> QED
        BY <2>1, <2>2 DEF OpensWhenClosed
<1> QED
    BY <1>1, <1>2, <1>3, <1>4, <1>a, StepKinds DEF OpenInv, ThreadInv, PointerInv

------------------------------------------------------------------------------
(* What the methods of a Reader give, whatever else is done with it: an entry  *)
(* of get_next() comes from one record of the journal; query_unique() gives    *)
(* all the values of a field.  And a Reader that one actor uses implements     *)
(* AtomicReader.                                                               *)

------------------------------------------------------------------------------
(* Entries.  One actor at most moves the Reader: the others may open and close *)
(* it, as threads or as signal handlers, between any two of its calls.         *)

Aside == {"open", "reinit", "close", "dealloc"}
SoleMover(m) == \A u \in Threads \ {m} : Calls[u] \subseteq Aside

\* The others are never where they could move the Reader.
OthersAside(m) ==
    \A u \in Threads \ {m} :
        pc[u] \in {"idle", "open", "opened", "closing", "gone"} /\ ret[u].kind # "entry"

\* What m has read so far is of one record, ...
PartWhole(m) ==
    /\ pc[m] \in Stamps => part[m].fields # 0
    /\ pc[m] \in {"monotonic", "cursor"} => part[m].realtime = part[m].fields
    /\ pc[m] = "cursor" => part[m].monotonic = part[m].fields

\* ... and if the Reader is at a record at all, it is still that one.
StillThere(m) ==
    (pc[m] \in Stamps /\ j # NULL /\ lib[j].loc.type = "discrete")
    => lib[j].loc.at = part[m].fields

EntryInv(m) ==
    TypeInv /\ OthersAside(m) /\ PartWhole(m) /\ StillThere(m) /\ EntryFromOneRecord

------------------------------------------------------------------------------
\* Most steps of an actor neither add to a dictionary nor return one.
Dull(t) ==
    /\ pc'[t] \notin Stamps /\ ret'[t].kind # "entry"
    /\ \A u \in Threads \ {t} : pc'[u] = pc[u] /\ ret'[u] = ret[u]

\* A step that returns without an entry is dull.
LEMMA EndsDull ==
    ASSUME TypeInv, NEW t \in Threads, NEW k \in Kinds \ {"entry"}, Ends(t, Plain(k))
    PROVE  Dull(t)
<1>1. "idle" \notin Stamps
    BY DEF Stamps
<1> QED
    BY <1>1 DEF TypeInv, TypeOK, Ends, Plain, Result, Dull

\* So is one whose result is an error, or an answer that is no entry.
Answers == {"None", "True", "False", "KeyError", "IndexError"} \cup Errors \cup BadArguments

LEMMA AnswerDull ==
    ASSUME TypeInv, NEW t \in Threads, NEW S \in SUBSET Answers, \E a \in S : Ends(t, Plain(a))
    PROVE  Dull(t)
<1>1. Answers \subseteq Kinds \ {"entry"}
    BY DEF Answers, Kinds, Errors, BadArguments
<1> QED
    BY <1>1, EndsDull

\* So is one that goes on without adding to the dictionary, after which the
\* actor's last result is no entry or is still the last one.
GoesOn(t) ==
    /\ ret' = ret
    /\ \E where \in PCs \ Stamps : pc' = [pc EXCEPT ![t] = where]

\* A call that begins is one of them.
LEMMA BeginsGoesOn ==
    ASSUME NEW t \in Threads, NEW where \in InLib \cup {"match", "closing"}, NEW args,
           Begins(t, where, args)
    PROVE  GoesOn(t)
<1>1. where \in PCs \ Stamps
    BY DEF PCs, InLib, Stamps
<1> QED
    BY <1>1 DEF Begins, GoesOn

\* Every step of an actor but the ones that read a record is one or the other.
LEMMA OtherSteps ==
    ASSUME TypeInv, NEW t \in Threads, CallBegins(t) \/ CallReturns(t),
           ~ GetAll(t), ~ GetRealtime(t), ~ GetMonotonic(t), ~ GetCursor(t)
    PROVE  Dull(t) \/ GoesOn(t)
<1>0. {"None", "OSError", "ValueError", "end", "NOP", "APPEND", "INVALIDATE"}
            \subseteq Kinds \ {"entry"}
    BY DEF Kinds, Errors, BadArguments
<1>a. CASE OpenFails(t)
    <2>1. (BadArguments \cup Errors) \in SUBSET Answers
        BY DEF Answers
    <2> QED
        BY <1>a, <2>1, AnswerDull DEF OpenFails
<1>1. CASE Open(t) \/ OpenReturns(t) \/ CloseClears(t) \/ ReturnsFreed(t)
    BY <1>0, <1>1, EndsDull, BeginsGoesOn
    DEF Open, OpenReturns, CloseClears, ReturnsFreed, InLib
<1>c. CASE OpenStores(t) \/ CloseFrees(t)
    <2>1. {"opened", "closing"} \subseteq PCs \ Stamps
        BY DEF PCs, Second, Stamps
    <2> QED
        BY <1>c, <2>1 DEF OpenStores, CloseFrees, GoesOn
<1>b. CASE ReturnsClosed(t) \/ ReturnsError(t)
    <2>1. Refused(t) \in SUBSET Answers /\ (Refused(t) \cup Errors) \in SUBSET Answers
        BY DEF Refused, Answers, Errors, BadArguments
    <2> QED
        BY <1>b, <2>1, AnswerDull DEF ReturnsClosed, ReturnsError
<1>2. CASE \/ \E skip \in Skips : GetNext(t, skip) \/ GetPrevious(t, skip)
           \/ ZeroSkip(t) \/ NextEnds(t)
    BY <1>0, <1>2, EndsDull, BeginsGoesOn
    DEF GetNext, GetPrevious, ZeroSkip, NextEnds, InLib
<1>3. CASE NextMoves(t)
    BY <1>3 DEF NextMoves, GoesOn, PCs, Stamps
<1>4. CASE \/ SeekHead(t) \/ SeekTail(t)
           \/ \E i \in Ids : SeekRealtime(t, i) \/ SeekMonotonic(t, i) \/ SeekCursor(t, i)
    BY <1>4, BeginsGoesOn
    DEF SeekHead, SeekTail, SeekRealtime, SeekMonotonic, SeekCursor, SeekTo, InLib
<1>5. CASE BootReturns(t) \/ SeekReturns(t)
    <2>1. "seek" \in PCs \ Stamps
        BY DEF PCs, InLib, Stamps
    <2>2. Errors \in SUBSET Answers
        BY DEF Answers
    <2> QED
        BY <1>0, <1>5, <2>1, <2>2, EndsDull, AnswerDull DEF BootReturns, SeekReturns, GoesOn
<1>6. CASE \/ \E args \in MatchArgs : AddMatch(t, args)
           \/ \E level \in Levels : LogLevel(t, level)
    BY <1>0, <1>6, EndsDull, BeginsGoesOn DEF AddMatch, LogLevel
<1>7. CASE MatchFails(t) \/ MatchAdds(t) \/ MatchEnds(t)
    <2>1. "match" \in PCs \ Stamps
        BY DEF PCs, Stamps
    <2>2. pc = [pc EXCEPT ![t] = pc[t]]
        BY DEF TypeInv, TypeOK
    <2> QED
        BY <1>0, <1>7, <2>1, <2>2, EndsDull DEF MatchFails, MatchAdds, MatchEnds, GoesOn
<1>8. CASE AddDisjunction(t) \/ AddConjunction(t) \/ FlushMatches(t)
    BY <1>0, <1>8, EndsDull DEF AddDisjunction, AddConjunction, FlushMatches, Refilters
<1>9. CASE Fileno(t) \/ Process(t) \/ \E forever \in BOOLEAN : Wait(t, forever)
    <2>1. Errors \in SUBSET Answers
        BY DEF Answers
    <2> QED
        BY <1>0, <1>9, <2>1, EndsDull, AnswerDull, BeginsGoesOn DEF Fileno, Process, Wait, InLib
<1>10. CASE ProcessReturns(t) \/ WaitReturns(t)
    <2>1. \A h : Change(h) \in {"NOP", "APPEND", "INVALIDATE"}
        BY DEF Change
    <2> QED
        BY <1>0, <1>10, <2>1, EndsDull DEF ProcessReturns, WaitReturns
<1>11. CASE \/ (\E field \in FieldNames : QueryUnique(t, field)) \/ GetCatalog(t)
    BY <1>11, BeginsGoesOn DEF QueryUnique, GetCatalog, InLib
<1>12. CASE UniqueReturns(t)
    BY <1>12 DEF UniqueReturns, GoesOn, PCs, Second, Stamps
<1>13. CASE UniqueValues(t)
    <2>1. ASSUME NEW v, Ends(t, [Plain("values") EXCEPT !.values = v]) PROVE Dull(t)
        <3>1. "idle" \notin Stamps
            BY DEF Stamps
        <3> QED
            BY <2>1, <3>1 DEF TypeInv, TypeOK, Ends, Plain, Result, Dull
    <2>2. {"ValueError", "OverflowError"} \subseteq Kinds \ {"entry"}
        BY DEF Kinds, BadArguments
    <2> QED
        BY <1>13, <2>1, <2>2, EndsDull DEF UniqueValues
<1>14. CASE CatalogReturns(t)
    <2>1. CASE Ends(t, Plain("None"))
        BY <1>0, <2>1, EndsDull
    <2>2. CASE pc' = [pc EXCEPT ![t] = "message_id"] /\ ret' = ret
        BY <2>2 DEF GoesOn, PCs, Second, Stamps
    <2> QED
        BY <1>14, <2>1, <2>2 DEF CatalogReturns
<1>15. CASE CatalogMissing(t)
    <2>1. (IF Readable = 0 THEN {"OSError"} ELSE {"KeyError", "IndexError"} \cup Errors)
                \in SUBSET Answers
        BY DEF Answers, Errors
    <2> QED
        BY <1>15, <2>1, AnswerDull DEF CatalogMissing
<1>16. ASSUME NEW method, NEW closed \in Answers, NEW answers \in SUBSET Answers,
              Asks(t, method, closed, answers)
       PROVE  Dull(t)
    <2>1. (IF j = NULL THEN {closed} ELSE answers) \in SUBSET Answers
        OBVIOUS
    <2> QED
        BY <1>16, <2>1, AnswerDull DEF Asks
<1>17. CASE \/ Get(t) \/ (\E i \in Ids : TestCursor(t, i))
            \/ EnumerateFields(t) \/ GetUsage(t)
    BY <1>16, <1>17
    DEF Get, TestCursor, EnumerateFields, GetUsage, Answers, Errors, BadArguments
<1> QED
    BY <1>a, <1>b, <1>c, <1>1, <1>2, <1>3, <1>4, <1>5, <1>6, <1>7, <1>8, <1>9, <1>10,
       <1>11, <1>12, <1>13, <1>14, <1>15, <1>17
    DEF CallBegins, CallReturns

------------------------------------------------------------------------------
\* No get_next() has begun yet.
LEMMA InitEntry ==
    ASSUME NEW m \in Threads, Init
    PROVE  EntryInv(m)
<1>1. TypeInv
    BY InitTypes
<1>2. \A t \in Threads : pc[t] = "idle" /\ ret[t].kind = "none"
    BY DEF Init, Plain, Result
<1>3. "idle" \notin Stamps
    BY DEF Stamps
<1> QED
    BY <1>1, <1>2, <1>3
    DEF EntryInv, OthersAside, PartWhole, StillThere, EntryFromOneRecord, Stamps

\* The steps of an actor that may only open and close the Reader.
LEMMA AsideSteps ==
    ASSUME NEW m \in Threads, SoleMover(m), EntryInv(m),
           NEW t \in Threads \ {m}, CallBegins(t) \/ CallReturns(t)
    PROVE  \/ Open(t) \/ OpenStores(t) \/ OpenReturns(t) \/ OpenFails(t)
           \/ CloseFrees(t) \/ CloseClears(t)
<1>1. pc[t] \in {"idle", "open", "opened", "closing", "gone"}
    BY DEF EntryInv, OthersAside
<1>2. Calls[t] \subseteq Aside
    BY DEF SoleMover
<1>3. CASE CallBegins(t)
    BY <1>2, <1>3
    DEF Aside, CallBegins, GetNext, GetPrevious, ZeroSkip, SeekHead, SeekTail, SeekRealtime,
        SeekMonotonic, SeekCursor, AddMatch, LogLevel, AddDisjunction, AddConjunction,
        FlushMatches, QueryUnique, GetCatalog, Get, TestCursor, EnumerateFields, GetUsage, Asks,
        Fileno, Process, Wait
<1>4. CASE CallReturns(t)
    BY <1>1, <1>4
    DEF CallReturns, ReturnsClosed, ReturnsFreed, ReturnsError, Inside, InLib, NextMoves, NextEnds,
        GetAll, GetRealtime, GetMonotonic, GetStamp, GetCursor, BootReturns, SeekReturns,
        MatchFails, MatchAdds, MatchEnds, UniqueReturns, UniqueValues, CatalogReturns, CatalogMissing,
        ProcessReturns, WaitReturns
<1> QED
    BY <1>3, <1>4

\* Every step keeps EntryInv, whoever takes it.
LEMMA NextEntry ==
    ASSUME NEW m \in Threads, SoleMover(m), EntryInv(m), [Next]_vars
    PROVE  EntryInv(m)'
<1>a. /\ TypeInv /\ TypeInv'
      /\ OthersAside(m) /\ PartWhole(m) /\ StillThere(m) /\ EntryFromOneRecord
    BY NextTypes DEF EntryInv
<1>b. /\ pc \in [Threads -> PCs] /\ ret \in [Threads -> Results]
      /\ part \in [Threads -> Dicts] /\ lib \in [HandleIds -> Handles]
      /\ j \in {NULL} \cup HandleIds
    BY <1>a DEF TypeInv, TypeOK, Results
<1> DEFINE Rest == OthersAside(m) /\ PartWhole(m) /\ StillThere(m) /\ EntryFromOneRecord
<1>c. ASSUME Readable # 0
      PROVE  j # NULL /\ lib[j].loc.type = "discrete" /\ Readable = lib[j].loc.at
    BY <1>c DEF Readable, Current
<1>1. ASSUME JournaldStep \/ UNCHANGED vars PROVE Rest'
    BY <1>1, <1>a DEF JournaldStep, readerVars, vars, OthersAside, PartWhole, StillThere,
        EntryFromOneRecord
<1>2. ASSUME Dealloc PROVE Rest'
    <2>1. \A t \in Threads : pc'[t] = "gone"
        BY <1>2 DEF Dealloc
    <2>2. ret' = ret
        BY <1>2 DEF Dealloc
    <2> QED
        BY <1>a, <2>1, <2>2
        DEF OthersAside, PartWhole, StillThere, EntryFromOneRecord, Stamps
<1>3. ASSUME NEW t \in Threads \ {m}, CallBegins(t) \/ CallReturns(t) PROVE Rest'
    <2>1. \/ Open(t) \/ OpenStores(t) \/ OpenReturns(t) \/ OpenFails(t)
          \/ CloseFrees(t) \/ CloseClears(t)
        BY <1>3, <1>a, AsideSteps DEF EntryInv
    <2>2. /\ pc'[m] = pc[m] /\ part'[m] = part[m] /\ ret'[m] = ret[m]
          /\ \A u \in Threads \ {t} : pc'[u] = pc[u] /\ ret'[u] = ret[u]
          /\ pc'[t] \in {"idle", "open", "opened", "closing"} /\ ret'[t].kind # "entry"
        <3>1. ret[t].kind # "entry"
            BY <1>a DEF OthersAside
        <3> QED
            BY <1>b, <2>1, <3>1
            DEF Open, Begins, OpenStores, OpenReturns, OpenFails, CloseFrees, CloseClears, Ends,
                Plain, Result, Errors, BadArguments
    <2>3. StillThere(m)'
        <3>1. CASE Open(t) \/ OpenReturns(t) \/ OpenFails(t)
            BY <1>a, <2>2, <3>1 DEF Open, Begins, OpenReturns, OpenFails, StillThere
        <3>2. CASE CloseFrees(t)
            <4>1. j' = j /\ (j # NULL => lib'[j].loc.type = "head")
                BY <1>b, <3>2 DEF CloseFrees, Frees, Freed, Unused, Loc
            <4> QED
                BY <4>1 DEF StillThere
        <3>3. CASE CloseClears(t)
            BY <3>3 DEF CloseClears, StillThere
        <3>4. CASE OpenStores(t)
            <4>1. PICK h \in HandleIds : j' = h /\ lib' = [lib EXCEPT ![h] = Opened]
                BY <3>4 DEF OpenStores
            <4>2. lib'[j'].loc.type = "head"
                BY <1>b, <4>1 DEF Opened, Unused, Loc
            <4> QED
                BY <4>2 DEF StillThere
        <3> QED
            BY <2>1, <3>1, <3>2, <3>3, <3>4
    <2>4. OthersAside(m)' /\ PartWhole(m)'
        BY <1>a, <2>2 DEF OthersAside, PartWhole
    <2>5. EntryFromOneRecord'
        BY <1>a, <2>2 DEF EntryFromOneRecord
    <2> QED
        BY <2>3, <2>4, <2>5
<1>4. ASSUME CallBegins(m) \/ CallReturns(m),
             ~ GetAll(m), ~ GetRealtime(m), ~ GetMonotonic(m), ~ GetCursor(m)
      PROVE  Rest'
    <2>1. Dull(m) \/ GoesOn(m)
        BY <1>4, <1>a, OtherSteps
    <2>2. /\ pc'[m] \notin Stamps
          /\ \A u \in Threads \ {m} : pc'[u] = pc[u] /\ ret'[u] = ret[u]
          /\ ret'[m].kind # "entry" \/ ret'[m] = ret[m]
        BY <1>b, <2>1 DEF Dull, GoesOn
    <2> QED
        BY <1>a, <2>2 DEF OthersAside, PartWhole, StillThere, EntryFromOneRecord, Stamps
<1>5. ASSUME GetAll(m), ~ Dull(m) PROVE Rest'
    <2>1. Readable # 0 /\ pc' = [pc EXCEPT ![m] = "realtime"]
                /\ part' = [part EXCEPT ![m].fields = Readable] /\ ret' = ret
        <3>1. {"end", "OSError"} \subseteq Kinds \ {"entry"}
            BY DEF Kinds, Errors, BadArguments
        <3> QED
            BY <1>5, <1>a, <3>1, EndsDull DEF GetAll
    <2>2. part'[m].fields = Readable /\ pc'[m] = "realtime"
        BY <1>b, <2>1 DEF Dicts
    <2>3. j' = j /\ lib' = lib
        BY <1>5 DEF GetAll
    <2>4. PartWhole(m)' /\ StillThere(m)'
        BY <1>c, <2>1, <2>2, <2>3 DEF PartWhole, StillThere
    <2>5. OthersAside(m)' /\ EntryFromOneRecord'
        BY <1>a, <1>b, <2>1 DEF OthersAside, EntryFromOneRecord
    <2> QED
        BY <2>4, <2>5
<1>6. ASSUME NEW s \in {"realtime", "monotonic"}, NEW then \in Stamps,
             s = "realtime" => then = "monotonic", s = "monotonic" => then = "cursor",
             GetStamp(m, s, then), ~ Dull(m)
      PROVE  Rest'
    <2>1. Readable # 0 /\ pc' = [pc EXCEPT ![m] = then]
                /\ part' = [part EXCEPT ![m][s] = Readable] /\ ret' = ret
        <3>1. "OSError" \in Kinds \ {"entry"}
            BY DEF Kinds, Errors, BadArguments
        <3> QED
            BY <1>6, <1>a, <3>1, EndsDull DEF GetStamp
    <2>2. pc[m] = s /\ j' = j /\ lib' = lib
        BY <1>6 DEF GetStamp
    <2>3. Readable = part[m].fields
        BY <1>a, <1>c, <2>1, <2>2 DEF StillThere, Stamps
    <2>4. /\ part'[m].fields = part[m].fields /\ part'[m][s] = part[m].fields
          /\ s = "monotonic" => part'[m].realtime = part[m].realtime
          /\ pc'[m] = then
        BY <1>b, <2>1, <2>3 DEF Dicts
    <2>5. PartWhole(m)' /\ StillThere(m)'
        BY <1>6, <1>a, <2>2, <2>4 DEF PartWhole, StillThere, Stamps
    <2>6. OthersAside(m)' /\ EntryFromOneRecord'
        BY <1>a, <1>b, <2>1 DEF OthersAside, EntryFromOneRecord
    <2> QED
        BY <2>5, <2>6
<1>7. ASSUME GetCursor(m), ~ Dull(m) PROVE Rest'
    <2>1. /\ Readable # 0 /\ pc[m] = "cursor"
          /\ Ends(m, Result("entry", [part[m] EXCEPT !.cursor = Readable]))
        <3>1. {"OSError", "OverflowError"} \subseteq Kinds \ {"entry"}
            BY DEF Kinds, Errors, BadArguments
        <3> QED
            BY <1>7, <1>a, <3>1, EndsDull DEF GetCursor
    <2>2. Readable = part[m].fields /\ part[m].fields # 0
                /\ part[m].realtime = part[m].fields /\ part[m].monotonic = part[m].fields
        BY <1>a, <1>c, <2>1 DEF StillThere, PartWhole, Stamps
    <2>3. /\ ret'[m].entry = [part[m] EXCEPT !.cursor = Readable]
          /\ pc'[m] = "idle"
          /\ \A u \in Threads \ {m} : pc'[u] = pc[u] /\ ret'[u] = ret[u]
        BY <1>b, <2>1 DEF Ends, Result
    <2>4. EntryFromOneRecord'
        <3>1. part[m] \in Dicts
            BY <1>b
        <3>2. LET e == ret'[m].entry
              IN  e.fields # 0 /\ e.realtime = e.fields /\ e.monotonic = e.fields
                    /\ e.cursor = e.fields
            BY <2>2, <2>3, <3>1 DEF Dicts
        <3> QED
            BY <1>a, <2>3, <3>2 DEF EntryFromOneRecord
    <2> QED
        BY <1>a, <2>3, <2>4 DEF OthersAside, PartWhole, StillThere, Stamps
<1>8. ASSUME CallBegins(m) \/ CallReturns(m) PROVE Rest'
    <2>1. CASE Dull(m)
        BY <1>a, <2>1 DEF Dull, OthersAside, PartWhole, StillThere, EntryFromOneRecord, Stamps
    <2> QED
        BY <1>4, <1>5, <1>6, <1>7, <1>8, <2>1 DEF GetRealtime, GetMonotonic, Stamps
<1> QED
    BY <1>1, <1>2, <1>3, <1>8, <1>a DEF EntryInv, Next

\* An entry has its fields, both timestamps and its cursor from one record, if
\* all actors but one only open and close the Reader.
THEOREM EntryIsWhole ==
    ASSUME NEW m \in Threads, SoleMover(m)
    PROVE  Spec => []EntryFromOneRecord
<1>1. EntryInv(m) => EntryFromOneRecord
    BY DEF EntryInv
<1>2. EntryInv(m) /\ [Next]_vars => EntryInv(m)'
    BY NextEntry
<1>3. Init => EntryInv(m)
    BY InitEntry
<1> QED
    BY <1>1, <1>2, <1>3, PTL DEF Spec

(* The steps of calls that have more than one *)

\* In the middle of a query_unique(), an actor has one way to go on.
LEMMA ValuesNext ==
    ASSUME NEW t \in Threads, CallBegins(t) \/ CallReturns(t), pc[t] = "values"
    PROVE  UniqueValues(t)
<1>1. CASE CallBegins(t)
    <2>1. Idle(t)
        BY <1>1
        DEF CallBegins, Open, CloseFrees, GetNext, GetPrevious, ZeroSkip, SeekHead, SeekTail,
            SeekRealtime, SeekMonotonic, SeekCursor, SeekTo, AddMatch, LogLevel, AddDisjunction,
            AddConjunction, FlushMatches, Refilters, QueryUnique, GetCatalog, Get, TestCursor,
            EnumerateFields, GetUsage, Asks, Fileno, Process, Wait, Begins, AtOnce
    <2> QED
        BY <2>1 DEF Idle
<1>2. CASE CallReturns(t)
    <2>1. pc[t] \notin InLib
        BY DEF InLib
    <2>2. ~ ReturnsError(t)
        BY <2>1 DEF ReturnsError, Inside
    <2> QED
        BY <1>2, <2>1, <2>2
        DEF CallReturns, OpenStores, OpenReturns, OpenFails, CloseClears, ReturnsClosed,
            ReturnsFreed, Inside, InLib, NextMoves, NextEnds, GetAll, GetRealtime, GetMonotonic,
            GetStamp, GetCursor, BootReturns, SeekReturns, MatchFails, MatchAdds, MatchEnds,
            UniqueReturns, CatalogReturns, CatalogMissing, ProcessReturns, WaitReturns
<1> QED
    BY <1>1, <1>2

\* What an actor does leaves the calls of the others alone.
LEMMA OthersUndisturbed ==
    ASSUME TypeInv, NEW u \in Threads, CallBegins(u) \/ CallReturns(u), NEW t \in Threads \ {u}
    PROVE  pc'[t] = pc[t] /\ call'[t] = call[t]
<1>1. pc \in [Threads -> PCs] /\ call \in [Threads -> CallRecords]
    BY DEF TypeInv, TypeOK
<1>2. (\E where : pc' = [pc EXCEPT ![u] = where])
        /\ (call' = call \/ \E args : call' = [call EXCEPT ![u] = args])
    BY ActorSteps DEF Disturbs, OpenStores, CloseFrees, CloseClears, Ends, Quiet
<1> QED
    BY <1>1, <1>2

\* The ways into the later steps of a call.
LEMMA WaysIn ==
    ASSUME TypeInv, NEW t \in Threads, CallBegins(t) \/ CallReturns(t)
    PROVE  /\ pc'[t] = "next" => \E skip \in Skips : GetNext(t, skip) \/ GetPrevious(t, skip)
           /\ pc'[t] = "getall" => NextMoves(t)
           /\ pc'[t] = "unique" => \E field \in FieldNames : QueryUnique(t, field)
           /\ pc'[t] = "values" => UniqueReturns(t)
           /\ pc'[t] = "match" => \/ \E args \in MatchArgs : AddMatch(t, args)
                                  \/ \E level \in Levels : LogLevel(t, level)
                                  \/ MatchAdds(t)
           /\ pc'[t] = "closing" => CloseFrees(t)
<1>1. pc \in [Threads -> PCs]
    BY DEF TypeInv, TypeOK
<1>2. \A r : Ends(t, r) => pc'[t] = "idle"
    BY <1>1 DEF Ends
<1>3. \A where, args : Begins(t, where, args) => pc'[t] = where
    BY <1>1 DEF Begins
<1>4. CASE CallBegins(t)
    <2>1. pc'[t] \notin {"getall", "values"}
        BY <1>1, <1>2, <1>3, <1>4
        DEF CallBegins, Open, CloseFrees, GetNext, GetPrevious, ZeroSkip, SeekHead, SeekTail,
            SeekRealtime, SeekMonotonic, SeekCursor, SeekTo, AddMatch, LogLevel, AddDisjunction,
            AddConjunction, FlushMatches, Refilters, QueryUnique, GetCatalog, Get, TestCursor,
            EnumerateFields, GetUsage, Asks, Fileno, Process, Wait
    <2>2. pc'[t] \in {"next", "unique", "match", "closing"} =>
                \/ \E skip \in Skips : GetNext(t, skip) \/ GetPrevious(t, skip)
                \/ \E field \in FieldNames : QueryUnique(t, field)
                \/ \E args \in MatchArgs : AddMatch(t, args)
                \/ \E level \in Levels : LogLevel(t, level)
                \/ CloseFrees(t)
        BY <1>2, <1>3, <1>4
        DEF CallBegins, Open, ZeroSkip, SeekHead, SeekTail,
            SeekRealtime, SeekMonotonic, SeekCursor, SeekTo, AddDisjunction,
            AddConjunction, FlushMatches, Refilters, GetCatalog, Get, TestCursor,
            EnumerateFields, GetUsage, Asks, Fileno, Process, Wait
    <2>3. /\ \A skip : GetNext(t, skip) \/ GetPrevious(t, skip) => pc'[t] = "next"
          /\ \A field : QueryUnique(t, field) => pc'[t] = "unique"
          /\ \A args : AddMatch(t, args) => pc'[t] = "match"
          /\ \A level : LogLevel(t, level) => pc'[t] \in {"match", "idle"}
          /\ CloseFrees(t) => pc'[t] = "closing"
        BY <1>1, <1>2, <1>3 DEF GetNext, GetPrevious, QueryUnique, AddMatch, LogLevel, CloseFrees
    <2> QED
        BY <2>1, <2>2, <2>3
<1>5. ASSUME CallReturns(t), ~ UniqueReturns(t), ~ NextMoves(t), ~ MatchAdds(t)
      PROVE  pc'[t] \notin {"next", "getall", "unique", "values", "match", "closing"}
    BY <1>1, <1>2, <1>5
    DEF CallReturns, OpenStores, OpenReturns, OpenFails, CloseClears, ReturnsClosed, ReturnsFreed,
        ReturnsError, NextEnds, GetAll, GetRealtime, GetMonotonic, GetStamp, GetCursor,
        BootReturns, SeekReturns, MatchFails, MatchEnds, UniqueValues, CatalogReturns,
        CatalogMissing, ProcessReturns, WaitReturns
<1>6. /\ UniqueReturns(t) => pc'[t] = "values"
      /\ NextMoves(t) => pc'[t] = "getall"
      /\ MatchAdds(t) => pc'[t] = "match"
    BY <1>1 DEF UniqueReturns, NextMoves, MatchAdds
<1> QED
    BY <1>4, <1>5, <1>6

------------------------------------------------------------------------------
(* The two phases of query_unique() *)

\* The two phases of query_unique(): where its field is, ...
FieldAsked ==
    \A t \in Threads : pc[t] \in {"unique", "values"} => call[t].field \in FieldNames
\* ... and that the handle of the Reader is still the one that was queried when
\* the second phase enumerates the values, and has the field.
FieldNoted ==
    \A t \in Threads : pc[t] = "values" =>
        call[t].held = j /\ j # NULL /\ lib[j].unique = call[t].field

UniqueInv == ThreadInv /\ FieldAsked /\ FieldNoted

\* No query_unique() has begun yet.
LEMMA InitUnique == Init => UniqueInv
<1> SUFFICES ASSUME Init PROVE UniqueInv
    OBVIOUS
<1> QED
    BY InitThread DEF Init, UniqueInv, FieldAsked, FieldNoted

\* Nobody comes between the two phases in one thread, as the second one has the GIL.
LEMMA NextUnique ==
    ASSUME ~ Overlap, UniqueInv, [Next]_vars
    PROVE  UniqueInv'
<1>a. ThreadInv /\ ThreadInv' /\ TypeInv /\ FieldAsked /\ FieldNoted
    BY NextThread DEF UniqueInv, ThreadInv, PointerInv
<1>b. /\ pc \in [Threads -> PCs] /\ call \in [Threads -> CallRecords]
      /\ lib \in [HandleIds -> Handles] /\ j \in {NULL} \cup HandleIds
    BY <1>a DEF TypeInv, TypeOK
<1> DEFINE Rest == FieldAsked /\ FieldNoted
<1>1. ASSUME JournaldStep \/ UNCHANGED vars PROVE Rest'
    BY <1>1, <1>a DEF JournaldStep, readerVars, vars, FieldAsked, FieldNoted
<1>2. ASSUME Dealloc PROVE Rest'
    BY <1>2 DEF Dealloc, FieldAsked, FieldNoted
<1>3. ASSUME NEW u \in Threads, CallBegins(u) \/ CallReturns(u) PROVE Rest'
    <2>1. Alone(u)
        BY <1>3, <1>a, ActorSteps
        DEF Disturbs, OpenStores, CloseFrees, CloseClears, AtOnce, Quiet, Runs
    <2>2. \A t \in Threads \ {u} : pc[t] \notin {"unique", "values"}
        BY <2>1 DEF Alone, InLib, Second
    <2>3. \A t \in Threads \ {u} : pc'[t] \notin {"unique", "values"}
        BY <1>3, <1>a, <2>2, OthersUndisturbed
    <2>4. CASE pc'[u] = "unique"
        <3>1. PICK field \in FieldNames : QueryUnique(u, field)
            BY <1>3, <1>a, <2>4, WaysIn
        <3>2. call'[u].field = field
            BY <1>b, <3>1 DEF QueryUnique, Begins, NoCall
        <3> QED
            BY <2>3, <2>4, <3>2 DEF FieldAsked, FieldNoted
    <2>5. CASE pc'[u] = "values"
        <3>1. UniqueReturns(u)
            BY <1>3, <1>a, <2>5, WaysIn
        <3>2. pc[u] = "unique" /\ call[u].held # NULL /\ j' = j /\ call' = call
              /\ lib' = [lib EXCEPT ![call[u].held].unique = call[u].field]
            BY <3>1 DEF UniqueReturns, Inside
        <3>3. call[u].held = j
            BY <1>a, <3>2 DEF ThreadInv, HeldIsCurrent, InLib
        <3>4. j # NULL /\ lib'[j].unique = call[u].field
            <4>1. j \in HandleIds /\ lib[j] \in Handles
                BY <1>b, <3>2, <3>3
            <4> QED
                BY <1>b, <3>2, <3>3, <4>1 DEF Handles
        <3>5. call[u].field \in FieldNames
            BY <1>a, <3>2 DEF FieldAsked
        <3> QED
            BY <2>3, <2>5, <3>2, <3>3, <3>4, <3>5 DEF FieldAsked, FieldNoted
    <2>6. CASE pc'[u] \notin {"unique", "values"}
        BY <2>3, <2>6 DEF FieldAsked, FieldNoted
    <2> QED
        BY <2>4, <2>5, <2>6
<1> QED
    BY <1>1, <1>2, <1>3, <1>a DEF Next, UniqueInv

\* In one thread with its signal handlers, query_unique() returns all the values
\* of its field and nothing else.
THEOREM UniqueAlwaysComplete ==
    ASSUME ~ Overlap
    PROVE  Spec => UniqueIsComplete
<1> DEFINE Complete(t) ==
        (pc[t] = "values" /\ pc'[t] = "idle" /\ ~Damaged(lib[call[t].held]))
        => ret'[t].values = UniqueData(lib[call[t].held], call[t].field)
<1>1. ASSUME UniqueInv, [Next]_vars, NEW t \in Threads,
             pc[t] = "values", pc'[t] = "idle", ~ Damaged(lib[call[t].held])
      PROVE  Complete(t)
    <2>a. TypeInv /\ FieldAsked /\ FieldNoted
        BY <1>1 DEF UniqueInv, ThreadInv, PointerInv
    <2>1. UniqueValues(t)
        <3>1. ~ JournaldStep /\ ~ Dealloc /\ ~ UNCHANGED vars
            BY <1>1 DEF JournaldStep, readerVars, Dealloc, Idle, vars
        <3>2. \A u \in Threads \ {t} : ~ (CallBegins(u) \/ CallReturns(u))
            BY <1>1, <2>a, OthersUndisturbed
        <3> QED
            BY <1>1, <3>1, <3>2, ValuesNext DEF Next
    <2>2. /\ call[t].held = j /\ j # NULL
          /\ lib[j].unique = call[t].field /\ lib[j].unique # ""
        BY <1>1, <2>a, ContentsAssumption DEF FieldAsked, FieldNoted, FieldNames
    <2>3. ~ \E i \in InFiles(lib[j]) : log[i].content.data \in {"broken", "odd"}
        BY <1>1, <2>2 DEF Damaged
    <2>4. PICK found \in Enumerated(lib[j]) : Ends(t, [Plain("values") EXCEPT !.values = found])
        BY <2>1, <2>2, <2>3 DEF UniqueValues
    <2>5. found = UniqueData(lib[j], call[t].field)
        BY <1>1, <2>2, <2>4 DEF Enumerated
    <2>6. ret'[t].values = found
        BY <2>a, <2>4 DEF Ends, Plain, Result, TypeInv, TypeOK
    <2> QED
        BY <2>2, <2>5, <2>6
<1>2. ASSUME UniqueInv, [Next]_vars PROVE [\A t \in Threads : Complete(t)]_vars
    BY <1>1, <1>2
<1>3. UniqueInv /\ [Next]_vars => UniqueInv'
    BY NextUnique
<1> QED
    BY <1>2, <1>3, InitUnique, PTL DEF Spec, UniqueIsComplete

------------------------------------------------------------------------------
(* AtomicReader speaks of the same journal and of the same handles: the copies *)
(* of the operators of SdJournal in it are those operators.                    *)

\* FiniteSets and FiniteSetsExt, as AtomicReader has them, ...
LEMMA SameSets ==
    \A S : /\ Atomic!Cardinality(S) = Cardinality(S)
           /\ Atomic!Max(S) = Max(S) /\ Atomic!Min(S) = Min(S)
<1>1. \A S : Atomic!Cardinality(S) = Cardinality(S)
    BY Zenon DEF Atomic!Cardinality, Cardinality
<1>2. \A S : Atomic!Max(S) = Max(S) /\ Atomic!Min(S) = Min(S)
    BY Zenon DEF Atomic!Max, Max, Atomic!Min, Min
<1> QED BY <1>1, <1>2

\* ... the journal, ...
LEMMA SameJournal ==
    /\ Atomic!JournalInit <=> JournalInit
    /\ Atomic!Journald <=> Journald
BY SameSets, Zenon DEF Atomic!JournalInit, JournalInit, Atomic!Journald, Journald, Atomic!Write, Write,
    Atomic!Rotate, Rotate, Atomic!Vacuum, Vacuum

\* ... handles, ...
LEMMA SameHandles ==
    /\ Atomic!Unused = Unused /\ Atomic!Opened = Opened /\ Atomic!NoFilter = NoFilter
    /\ Atomic!Locs = Locs /\ Atomic!FieldNames = FieldNames
    /\ \A type, at : Atomic!Loc(type, at) = Loc(type, at)
    /\ \A h : Atomic!Watched(h) = Watched(h) /\ Atomic!Processed(h) = Processed(h)
BY DEF Atomic!Unused, Unused, Atomic!Opened, Opened, Atomic!NoFilter, NoFilter, Atomic!Locs, Locs,
    Atomic!FieldNames, FieldNames, Atomic!Loc, Loc, Atomic!Watched, Watched,
    Atomic!Processed, Processed

\* ... filters, ...
LEMMA SameFilters ==
    \A f, ms : /\ Atomic!WithMatches(f, ms) = WithMatches(f, ms)
               /\ Atomic!WithDisjunction(f) = WithDisjunction(f)
               /\ Atomic!WithConjunction(f) = WithConjunction(f)
BY DEF Atomic!WithMatches, WithMatches, Atomic!WithDisjunction, WithDisjunction,
    Atomic!WithConjunction, WithConjunction, Atomic!LastClause, LastClause,
    Atomic!LastTerm, LastTerm

\* ... what is visible to a handle, ...
LEMMA SameVisible ==
    \A h : Atomic!Visible(h) = Visible(h)
BY Zenon DEF Atomic!Visible, Visible, Atomic!Passes, Passes, Atomic!Accepts, Accepts

\* ... and where a move ends.
LEMMA SameMoves ==
    \A h, skip, i : /\ Atomic!LandsAt(h, skip, i) <=> LandsAt(h, skip, i)
                    /\ Atomic!NothingThere(h, skip) <=> NothingThere(h, skip)
<1>1. \A h : Atomic!Ahead(h) = Ahead(h)
    BY SameVisible, Zenon DEF Atomic!Ahead, Ahead
<1>2. \A h : Atomic!Behind(h) = Behind(h)
    BY SameVisible, Zenon DEF Atomic!Behind, Behind
<1>3. \A S : Atomic!Cardinality(S) = Cardinality(S)
    BY SameSets, Zenon
<1>4. ASSUME NEW h, NEW skip PROVE Atomic!NothingThere(h, skip) <=> NothingThere(h, skip)
    BY <1>1, <1>2, Zenon DEF Atomic!NothingThere, NothingThere
<1>5. ASSUME NEW h, NEW skip, NEW i PROVE Atomic!LandsAt(h, skip, i) <=> LandsAt(h, skip, i)
    <2>1. Atomic!Ahead(h) = Ahead(h) /\ Atomic!Behind(h) = Behind(h)
        BY <1>1, <1>2, Zenon
    <2>2. CASE skip > 0
        BY <1>3, <2>1, <2>2, Zenon DEF Atomic!LandsAt, LandsAt
    <2>3. CASE ~ (skip > 0)
        BY <1>3, <2>1, <2>3, Zenon DEF Atomic!LandsAt, LandsAt
    <2> QED
        BY <2>2, <2>3
<1> QED
    BY <1>4, <1>5, Zenon

------------------------------------------------------------------------------
(* The refinement: what has to hold for it, in every state ...                 *)

\* Where get_next() has moved and is yet to return what it moved to.
Taking == {"getall"} \cup Stamps
Moves == (Skips \cup {-s : s \in Skips}) \ {0}

SkipAsked(m) == pc[m] = "next" => call[m].skip \in Moves
\* The Reader stays where it was moved, and what was read so far is from there.
InPlace(m) ==
    pc[m] \in Taking =>
        /\ j # NULL /\ Readable \in DOMAIN log
        /\ pc[m] \in Stamps => /\ part[m].fields = Readable
                               /\ log[Readable].content.data \notin {"none", "broken"}

\* Between the two statements of close() there is no open handle to see.
Shut(m) == pc[m] = "closing" => (j = NULL \/ lib[j].st # "open")

AtomicInv(m) ==
    OpenInv /\ EntryInv(m) /\ UniqueInv /\ SkipAsked(m) /\ InPlace(m) /\ Shut(m)

Sole(m) == Threads = {m} /\ ~ Overlap /\ "reinit" \notin Calls[m]

\* What journald does to the journal changes no entry that is in it.
LEMMA JournaldKeeps ==
    ASSUME JournalTypeOK, Journald
    PROVE  \A i \in DOMAIN log : i \in DOMAIN log' /\ log'[i] = log[i]
<1>1. CASE log' = log
    BY <1>1
<1>2. ASSUME NEW c \in Contents, Write(c) PROVE \A i \in DOMAIN log : i \in DOMAIN log' /\ log'[i] = log[i]
    <2>1. PICK e : log' = Append(log, e)
        BY <1>2 DEF Write
    <2> QED
        BY <2>1 DEF JournalTypeOK
<1> QED
    BY <1>1, <1>2 DEF Journald, Rotate, Vacuum

\* A move ends at an entry that can be read there.
LEMMA LandsOnReadable ==
    ASSUME JournalTypeOK, NEW h \in Handles, NEW skip \in Int, NEW i \in DOMAIN log,
           LandsAt(h, skip, i)
    PROVE  log[i].file \in h.known
<1>1. h.loc.type \in {"head", "tail", "seek", "discrete"}
    BY DEF Handles, Locs
<1>2. Ahead(h) \subseteq Visible(h) /\ Behind(h) \subseteq Visible(h)
    BY <1>1 DEF Ahead, Behind
<1>3. i \in Visible(h)
    BY <1>2 DEF LandsAt
<1> QED
    BY <1>3 DEF Visible

\* No get_next() has begun yet.
LEMMA InitAtomic ==
    ASSUME NEW m \in Threads, Init
    PROVE  AtomicInv(m)
<1>1. pc[m] = "idle" /\ "idle" \notin Taking
    BY DEF Init, Taking, Stamps
<1> QED
    BY <1>1, InitOpen, InitEntry, InitUnique DEF AtomicInv, SkipAsked, InPlace, Shut

\* Every step keeps AtomicInv.
LEMMA NextAtomic ==
    ASSUME NEW m \in Threads, Sole(m), AtomicInv(m), [Next]_vars
    PROVE  AtomicInv(m)'
<1>a. /\ OpenInv /\ OpenInv' /\ EntryInv(m) /\ EntryInv(m)' /\ TypeInv /\ HeldIsCurrent
      /\ UniqueInv' /\ SkipAsked(m) /\ InPlace(m) /\ Shut(m)
    <2>1. \A t \in Threads : "reinit" \notin Calls[t]
        BY DEF Sole
    <2>2. SoleMover(m)
        BY DEF Sole, SoleMover
    <2> QED
        BY <2>1, <2>2, NextOpen, NextEntry, NextUnique DEF Sole, AtomicInv, OpenInv, ThreadInv, PointerInv
<1>b. /\ pc \in [Threads -> PCs] /\ call \in [Threads -> CallRecords]
      /\ lib \in [HandleIds -> Handles] /\ j \in {NULL} \cup HandleIds
      /\ part \in [Threads -> Dicts] /\ JournalTypeOK
    BY <1>a DEF TypeInv, TypeOK
<1>c. DOMAIN log \subseteq Nat \ {0}
    BY <1>b, LenProperties DEF JournalTypeOK
<1> DEFINE Rest == SkipAsked(m) /\ InPlace(m)
<1>1. ASSUME UNCHANGED vars PROVE Rest'
    BY <1>1, <1>a DEF vars, SkipAsked, InPlace, Readable, Current
<1>2. ASSUME JournaldStep PROVE Rest'
    <2>1. /\ \A i \in DOMAIN log : i \in DOMAIN log' /\ log'[i] = log[i]
          /\ UNCHANGED readerVars
        BY <1>2, <1>b, JournaldKeeps DEF JournaldStep
    <2>2. Readable \in DOMAIN log => Readable' = Readable
        BY <1>c, <2>1 DEF readerVars, Readable, Current
    <2> QED
        BY <1>a, <2>1, <2>2 DEF readerVars, SkipAsked, InPlace
<1>3. ASSUME Dealloc PROVE Rest'
    <2>1. pc'[m] = "gone"
        BY <1>3 DEF Dealloc
    <2> QED
        BY <2>1 DEF SkipAsked, InPlace, Taking, Stamps
<1>4. ASSUME CallBegins(m) \/ CallReturns(m) PROVE Rest'
    <2>1. CASE pc'[m] = "next"
        <3>1. PICK skip \in Skips : GetNext(m, skip) \/ GetPrevious(m, skip)
            BY <1>4, <1>a, <2>1, WaysIn
        <3>2. call'[m].skip \in Moves
            <4>1. skip \in Moves /\ -skip \in Moves
                <5>1. skip \in Int
                    BY ReaderAssumption
                <5>2. skip # 0
                    BY <3>1, <5>1 DEF GetNext, GetPrevious
                <5> QED
                    BY <5>1, <5>2 DEF Moves
            <4>2. CASE GetNext(m, skip)
                BY <1>b, <4>1, <4>2 DEF GetNext, Begins, NoCall
            <4>3. CASE GetPrevious(m, skip)
                BY <1>b, <4>1, <4>3 DEF GetPrevious, Begins, NoCall
            <4> QED
                BY <3>1, <4>2, <4>3
        <3> QED
            BY <2>1, <3>2 DEF SkipAsked, InPlace, Taking, Stamps
    <2>2. CASE pc'[m] = "getall"
        <3>1. NextMoves(m)
            BY <1>4, <1>a, <2>2, WaysIn
        <3>2. pc[m] = "next" /\ call[m].held # NULL /\ j' = j /\ log' = log
            BY <3>1 DEF NextMoves, Inside
        <3>3. call[m].held = j
            BY <1>a, <3>2 DEF HeldIsCurrent, InLib
        <3>4. PICK i \in DOMAIN log : /\ LandsAt(lib[j], call[m].skip, i)
                                      /\ lib' = [lib EXCEPT ![j].loc = Loc("discrete", i)]
            BY <3>1, <3>3 DEF NextMoves
        <3>5. j # NULL /\ lib[j] \in Handles /\ call[m].skip \in Int
            BY <1>b, <3>2, <3>3 DEF CallRecords
        <3>6. log[i].file \in lib[j].known
            BY <1>b, <3>4, <3>5, LandsOnReadable
        <3>7. lib'[j].loc = Loc("discrete", i) /\ lib'[j].known = lib[j].known
            BY <1>b, <3>2, <3>3, <3>4, <3>5 DEF Handles
        <3>8. Readable' = i
            BY <3>2, <3>4, <3>5, <3>6, <3>7 DEF Readable, Current, Loc
        <3> QED
            BY <2>2, <3>2, <3>4, <3>5, <3>8 DEF SkipAsked, InPlace, Stamps
    <2>3. CASE pc'[m] \in Stamps
        <3>1. GetAll(m) \/ GetRealtime(m) \/ GetMonotonic(m)
            <4>1. ~ Dull(m) /\ ~ GoesOn(m)
                BY <1>b, <2>3 DEF Dull, GoesOn
            <4>2. ~ GetCursor(m)
                BY <1>b, <2>3 DEF GetCursor, Ends, Stamps
            <4> QED
                BY <1>4, <1>a, <4>1, <4>2, OtherSteps
        <3>2. \A r : ~ Ends(m, r)
            BY <1>b, <2>3 DEF Ends, Stamps
        <3>3. j' = j /\ lib' = lib /\ log' = log /\ Readable # 0 /\ pc[m] \in Taking
            BY <3>1, <3>2 DEF GetAll, GetRealtime, GetMonotonic, GetStamp, Taking, Stamps
        <3>4. Readable' = Readable
            BY <3>3 DEF Readable, Current
        <3>5. CASE GetAll(m)
            <4>1. /\ part' = [part EXCEPT ![m].fields = Readable]
                  /\ log[Readable].content.data \notin {"none", "broken"}
                BY <3>2, <3>5 DEF GetAll
            <4>2. part'[m].fields = Readable
                BY <1>b, <4>1 DEF Dicts
            <4> QED
                BY <1>a, <2>3, <3>3, <3>4, <4>1, <4>2 DEF SkipAsked, InPlace, Stamps
        <3>6. CASE GetRealtime(m) \/ GetMonotonic(m)
            <4>1. pc[m] \in Stamps
                BY <3>6 DEF GetRealtime, GetMonotonic, GetStamp, Stamps
            <4>2. part'[m].fields = part[m].fields
                BY <1>b, <3>2, <3>6 DEF GetRealtime, GetMonotonic, GetStamp, Dicts
            <4> QED
                BY <1>a, <2>3, <3>3, <3>4, <4>1, <4>2 DEF SkipAsked, InPlace, Stamps
        <3> QED
            BY <3>1, <3>5, <3>6
    <2>4. CASE pc'[m] \notin Taking \cup {"next"}
        BY <2>4 DEF SkipAsked, InPlace
    <2> QED
        BY <2>1, <2>2, <2>3, <2>4 DEF Taking
<1>5. Shut(m)'
    <2>1. CASE CloseFrees(m)
        BY <2>1, <1>b DEF CloseFrees, Frees, Freed, Shut
    <2>2. CASE ~ CloseFrees(m) /\ (CallBegins(m) \/ CallReturns(m))
        BY <2>2, <1>a, WaysIn DEF Shut
    <2>3. CASE JournaldStep \/ Dealloc \/ UNCHANGED vars
        BY <2>3, <1>a DEF JournaldStep, readerVars, Dealloc, vars, Shut
    <2> QED
        BY <2>1, <2>2, <2>3 DEF Next, Sole
<1> QED
    BY <1>1, <1>2, <1>3, <1>4, <1>5, <1>a DEF Next, Sole, AtomicInv

------------------------------------------------------------------------------
(* ... and the steps, as AtomicReader sees them.                               *)

\* The one actor is the one that the refinement mapping looks at.
LEMMA SelfIs == ASSUME NEW m, Sole(m) PROVE Self = m
BY DEF Sole, Self

\* What AtomicReader sees of the Reader of m, while it exists and is not in the
\* middle of a close() or an add_match().
LEMMA Seen ==
    ASSUME NEW m, Sole(m), PointerInv, pc[m] \notin {"gone", "closing", "match"}
    PROVE  /\ HandleNow = IF j = NULL THEN Unused ELSE lib[j]
           /\ j # NULL => HandleNow.st = "open"
           /\ j = NULL => HandleNow.st # "open"
<1>1. j # NULL => lib[j].st = "open"
    BY DEF Sole, PointerInv, PointerOpen
<1> QED
    BY <1>1, SelfIs DEF HandleNow, Unused

\* What the end of a call gives it.
Told(r) == IF r.kind \in {"entry", "end"} THEN Out(r.kind, r.entry) ELSE Out("other", NoDict)

\* Out of get_next(), what was given last is the last result.
LEMMA OutSettled ==
    ASSUME NEW m, Sole(m)
    PROVE  pc[m] \notin Taking => OutNow = Told(ret[m])
BY SelfIs DEF OutNow, Told, Taking

\* A result that is no entry and not the end is any other.
LEMMA OutPlain == \A k : k \notin {"entry", "end"} => Told(Plain(k)) = Atomic!Other
BY DEF Told, Plain, Result, Out, Atomic!Other, Atomic!Nothing, Atomic!Whole, NoDict

\* What it gives while get_next() is at work.
LEMMA OutTaking ==
    ASSUME NEW m, Sole(m), pc[m] \in Taking, Readable # 0
    PROVE  OutNow = IF log[Readable].content.data = "none" THEN Atomic!End
                    ELSE IF log[Readable].content.data \in {"broken", "odd"} THEN Atomic!Other
                    ELSE [kind |-> "entry", entry |-> Atomic!Whole(Readable)]
BY SelfIs DEF OutNow, Out, Taking, Atomic!Other, Atomic!End, Atomic!Nothing, Atomic!Whole, NoDict

\* The steps that AtomicReader does not see, and the ones that answer a call.
Unseen(m) ==
    /\ UNCHANGED <<log, disk, j, lib>>
    /\ {pc[m], pc'[m]} \cap (Taking \cup {"gone", "match"}) = {}
    /\ ret'[m] = ret[m]
AnswerGiven(m) ==
    /\ UNCHANGED <<log, disk, j, lib>>
    /\ pc[m] # "match" /\ pc'[m] = "idle" /\ Told(ret'[m]) = Atomic!Other

\* The former change nothing that AtomicReader has, ...
LEMMA UnseenStep ==
    ASSUME NEW m, Sole(m), Unseen(m)
    PROVE  UNCHANGED Atomic!vars
<1>1. OutNow = Told(ret[m])
    BY OutSettled DEF Unseen
<1>2. OutNow' = Told(ret'[m])
    BY SelfIs DEF Unseen, OutNow, Told, Taking
<1>3. HandleNow' = HandleNow
    BY SelfIs DEF Unseen, HandleNow
<1> QED
    BY <1>1, <1>2, <1>3 DEF Unseen, Atomic!vars

\* ... the latter are its Answer.
LEMMA AnswerStep ==
    ASSUME NEW m, Sole(m), AnswerGiven(m)
    PROVE  Atomic!Next
<1>1. OutNow' = Told(ret'[m])
    BY SelfIs DEF AnswerGiven, OutNow, Told, Taking, Stamps
<1>2. HandleNow' = HandleNow
    BY SelfIs DEF AnswerGiven, HandleNow
<1> QED
    BY <1>1, <1>2 DEF AnswerGiven, Atomic!Next, Atomic!Answer

\* A call that begins is not seen, ...
LEMMA Begun ==
    ASSUME TypeInv, NEW m \in Threads, NEW where \in InLib, NEW args,
           Begins(m, where, args)
    PROVE  Unseen(m)
<1>1. {where, "idle"} \cap (Taking \cup {"gone", "match"}) = {}
    BY DEF InLib, Taking, Stamps
<1> QED
    BY <1>1 DEF Begins, Idle, Unseen, TypeInv, TypeOK

\* ... and one that ends with a plain result only answers.
LEMMA Answered ==
    ASSUME TypeInv, NEW m \in Threads, NEW k, k \notin {"entry", "end"}, Ends(m, Plain(k)),
           UNCHANGED <<log, disk, j, lib>>, pc[m] # "match"
    PROVE  AnswerGiven(m)
BY OutPlain DEF Ends, AnswerGiven, TypeInv, TypeOK

\* The steps that only begin a call, or only answer one.
LEMMA PlainSteps ==
    ASSUME TypeInv, NEW m \in Threads,
           \/ Open(m) \/ OpenReturns(m) \/ OpenFails(m)
           \/ ReturnsClosed(m) \/ ReturnsFreed(m) \/ ReturnsError(m)
           \/ (\E skip \in Skips : GetNext(m, skip) \/ GetPrevious(m, skip)) \/ ZeroSkip(m)
           \/ SeekHead(m) \/ SeekTail(m)
           \/ (\E i \in Ids : SeekRealtime(m, i) \/ SeekMonotonic(m, i) \/ SeekCursor(m, i))
           \/ BootReturns(m)
           \/ (\E field \in FieldNames : QueryUnique(m, field)) \/ UniqueValues(m)
           \/ GetCatalog(m) \/ CatalogReturns(m) \/ CatalogMissing(m)
           \/ Get(m) \/ (\E i \in Ids : TestCursor(m, i))
           \/ EnumerateFields(m) \/ GetUsage(m)
           \/ Process(m) \/ (\E forever \in BOOLEAN : Wait(m, forever))
    PROVE  Unseen(m) \/ AnswerGiven(m)
<1>a. pc \in [Threads -> PCs] /\ ret \in [Threads -> Results]
    BY DEF TypeInv, TypeOK, Results
<1>1. CASE Open(m) \/ OpenReturns(m) \/ OpenFails(m)
    BY <1>1, Begun, Answered DEF Open, OpenReturns, OpenFails, InLib, BadArguments, Errors
<1>2. CASE ReturnsClosed(m) \/ ReturnsFreed(m) \/ ReturnsError(m)
    <2>1. pc[m] \in InLib /\ "match" \notin InLib
        BY <1>2 DEF ReturnsClosed, ReturnsFreed, ReturnsError, Inside, InLib
    <2>2. Refused(m) \subseteq {"OSError", "ValueError"}
        BY DEF Refused
    <2>3. PICK k : k \notin {"entry", "end"} /\ Ends(m, Plain(k)) /\ UNCHANGED <<log, disk, j, lib>>
        BY <1>2, <2>2 DEF ReturnsClosed, ReturnsFreed, ReturnsError, Errors
    <2> QED
        BY <2>1, <2>3, Answered
<1>3. CASE (\E skip \in Skips : GetNext(m, skip) \/ GetPrevious(m, skip)) \/ ZeroSkip(m)
    BY <1>3, Begun, Answered DEF GetNext, GetPrevious, ZeroSkip, AtOnce, Idle, InLib
<1>4. CASE \/ SeekHead(m) \/ SeekTail(m)
           \/ \E i \in Ids : SeekRealtime(m, i) \/ SeekMonotonic(m, i) \/ SeekCursor(m, i)
    BY <1>4, Begun DEF SeekHead, SeekTail, SeekRealtime, SeekMonotonic, SeekCursor, SeekTo, InLib
<1>5. CASE BootReturns(m)
    <2>1. CASE \E e \in Errors : Ends(m, Plain(e))
        BY <1>5, <2>1, Answered DEF BootReturns, Errors
    <2>2. CASE pc' = [pc EXCEPT ![m] = "seek"] /\ ret' = ret
        BY <1>5, <1>a, <2>2 DEF BootReturns, Unseen, Taking, Stamps
    <2> QED
        BY <1>5, <2>1, <2>2 DEF BootReturns
<1>7. CASE (\E field \in FieldNames : QueryUnique(m, field)) \/ GetCatalog(m)
    BY <1>7, Begun DEF QueryUnique, GetCatalog, InLib
<1>8. CASE UniqueValues(m)
    <2>1. CASE \E found : Ends(m, [Plain("values") EXCEPT !.values = found])
        <3>1. pc'[m] = "idle" /\ ret'[m].kind = "values"
            BY <1>a, <2>1 DEF Ends, Plain, Result
        <3>2. Told(ret'[m]) = Atomic!Other
            BY <3>1 DEF Told, Out, Atomic!Other, Atomic!Nothing, Atomic!Whole, NoDict
        <3> QED
            BY <1>8, <3>1, <3>2 DEF UniqueValues, AnswerGiven
    <2>2. CASE \E k \in {"ValueError", "OverflowError"} : Ends(m, Plain(k))
        BY <1>8, <2>2, Answered DEF UniqueValues
    <2> QED
        BY <1>8, <2>1, <2>2 DEF UniqueValues
<1>9. CASE CatalogReturns(m)
    <2>1. CASE Ends(m, Plain("None"))
        BY <1>9, <2>1, Answered DEF CatalogReturns, Inside
    <2>2. CASE pc' = [pc EXCEPT ![m] = "message_id"] /\ ret' = ret
        BY <1>9, <1>a, <2>2 DEF CatalogReturns, Inside, Unseen, Taking, Stamps
    <2> QED
        BY <1>9, <2>1, <2>2 DEF CatalogReturns
<1>10. CASE CatalogMissing(m)
    BY <1>10, Answered DEF CatalogMissing, Errors
<1>11. ASSUME NEW method, NEW closed \in Answers, NEW answers \in SUBSET Answers,
              Asks(m, method, closed, answers)
       PROVE  AnswerGiven(m)
    <2>1. PICK k \in Answers : Ends(m, Plain(k)) /\ UNCHANGED <<log, disk, j, lib>> /\ Idle(m)
        BY <1>11 DEF Asks, AtOnce
    <2>2. k \notin {"entry", "end"}
        BY DEF Answers, Errors, BadArguments
    <2> QED
        BY <2>1, <2>2, Answered DEF Idle
<1>12. CASE Get(m) \/ (\E i \in Ids : TestCursor(m, i)) \/ EnumerateFields(m) \/ GetUsage(m)
    <2>1. {"None", "True", "False", "KeyError", "ValueError"} \cup Errors \subseteq Answers
        BY DEF Answers, BadArguments
    <2>2. CASE Get(m)
        BY <1>11, <2>1, <2>2 DEF Get, Errors
    <2>3. CASE EnumerateFields(m) \/ GetUsage(m)
        BY <1>11, <2>1, <2>3 DEF EnumerateFields, GetUsage, Errors
    <2>4. ASSUME NEW i \in Ids, TestCursor(m, i) PROVE AnswerGiven(m)
        BY <1>11, <2>1, <2>4 DEF TestCursor, Errors
    <2> QED
        BY <1>12, <2>2, <2>3, <2>4
<1>13. CASE Process(m) \/ (\E forever \in BOOLEAN : Wait(m, forever))
    BY <1>13, Begun DEF Process, Wait, InLib
<1> QED
    BY <1>1, <1>2, <1>3, <1>4, <1>5, <1>7, <1>8, <1>9, <1>10, <1>12, <1>13

\* A step that changes the handle of the Reader, as AtomicReader sees it.
Changes(m, h) ==
    /\ j # NULL /\ lib' = [lib EXCEPT ![j] = h] /\ h.st = "open"
    /\ UNCHANGED <<log, disk, j>>

\* It sees the handle before and after, and the result.
LEMMA ChangeSeen ==
    ASSUME NEW m \in Threads, Sole(m), PointerInv,
           pc[m] \notin Taking \cup {"gone", "closing", "match"},
           pc'[m] \notin Taking \cup {"match"}, NEW h, Changes(m, h)
    PROVE  /\ HandleNow = lib[j] /\ HandleNow.st = "open" /\ HandleNow' = h
           /\ OutNow = Told(ret[m]) /\ OutNow' = Told(ret'[m])
<1>1. j \in HandleIds /\ lib \in [HandleIds -> Handles]
    BY DEF PointerInv, TypeInv, TypeOK, Changes
<1>2. HandleNow = lib[j] /\ HandleNow.st = "open"
    BY Seen DEF Changes
<1>3. lib'[j] = h /\ j' = j
    BY <1>1 DEF Changes
<1>4. HandleNow' = h
    BY <1>3, SelfIs DEF HandleNow, Changes
<1>5. OutNow' = Told(ret'[m])
    BY SelfIs DEF OutNow, Told, Taking
<1> QED
    BY <1>2, <1>4, <1>5, OutSettled

\* sd_journal_open() stores a handle where there was none.
LEMMA OpenStep ==
    ASSUME NEW m \in Threads, Sole(m), AtomicInv(m), OpenStores(m)
    PROVE  Atomic!Next
<1>1. /\ TypeInv /\ PointerInv /\ pc[m] = "open" /\ j = NULL
      /\ pc \in [Threads -> PCs] /\ lib \in [HandleIds -> Handles]
    BY DEF OpenStores, AtomicInv, OpenInv, OpensWhenClosed, ThreadInv, PointerInv, TypeInv, TypeOK
<1>2. HandleNow.st # "open"
    BY <1>1, Seen
<1>3. PICK k \in HandleIds : j' = k /\ lib' = [lib EXCEPT ![k] = Opened]
    BY DEF OpenStores
<1>4. lib'[j'] = Opened /\ j' # NULL /\ Opened.st = "open"
    <2>1. NULL \notin HandleIds
        BY ReaderAssumption DEF NULL, HandleIds
    <2> QED
        BY <1>1, <1>3, <2>1 DEF Opened, Unused
<1>5. pc'[m] = "opened" /\ ret' = ret /\ UNCHANGED <<log, disk>>
    BY <1>1 DEF OpenStores
<1>6. HandleNow' = Opened
    BY <1>4, <1>5, SelfIs DEF HandleNow
<1>7. OutNow' = OutNow
    BY <1>1, <1>5, SelfIs DEF OutNow, Stamps
<1>8. Atomic!Open
    BY <1>2, <1>6, <1>7, SameHandles DEF Atomic!Open, Atomic!IsOpen
<1> QED
    BY <1>5, <1>8 DEF Atomic!Next

\* close() and the destructor leave none.
LEMMA CloseStep ==
    ASSUME NEW m \in Threads, Sole(m), AtomicInv(m), CloseFrees(m) \/ Dealloc
    PROVE  Atomic!Next
<1>1. /\ pc \in [Threads -> PCs] /\ lib \in [HandleIds -> Handles] /\ j \in {NULL} \cup HandleIds
    BY DEF AtomicInv, OpenInv, ThreadInv, PointerInv, TypeInv, TypeOK
<1>2. /\ pc[m] = "idle" /\ pc'[m] \in {"closing", "gone"} /\ Frees
      /\ UNCHANGED <<log, disk, j, ret>>
    BY <1>1 DEF CloseFrees, Dealloc, AtOnce, Idle
<1>3. HandleNow' = Unused
    <2>1. CASE j = NULL
        BY <1>2, <2>1 DEF HandleNow
    <2>2. CASE j # NULL
        BY <1>1, <1>2, <2>2 DEF HandleNow, Frees, Freed, Unused
    <2> QED
        BY <2>1, <2>2
<1>4. OutNow' = OutNow
    BY <1>2, SelfIs DEF OutNow, Stamps
<1> QED
    BY <1>2, <1>3, <1>4, SameHandles DEF Atomic!Next, Atomic!Close

\* What close() forgets is not seen any more.
LEMMA ClearStep ==
    ASSUME NEW m \in Threads, Sole(m), AtomicInv(m), CloseClears(m)
    PROVE  Atomic!Next
<1>1. pc \in [Threads -> PCs] /\ ret \in [Threads -> Results]
    BY DEF AtomicInv, EntryInv, TypeInv, TypeOK, Results
<1>2. /\ pc[m] = "closing" /\ pc'[m] = "idle" /\ ret'[m] = Plain("None")
      /\ UNCHANGED <<log, disk>> /\ j' = NULL
    BY <1>1 DEF CloseClears, Ends
<1>3. HandleNow = Unused /\ HandleNow' = Unused
    BY <1>2 DEF AtomicInv, Shut, HandleNow
<1>4. OutNow' = Atomic!Other
    BY <1>2, SelfIs, OutPlain DEF OutNow, Told, Stamps
<1> QED
    BY <1>2, <1>3, <1>4 DEF Atomic!Next, Atomic!Answer

\* The move inside libsystemd settles what get_next() gives.
LEMMA MoveStep ==
    ASSUME NEW m \in Threads, Sole(m), AtomicInv(m), AtomicInv(m)', NextMoves(m)
    PROVE  Atomic!Next
<1>1. /\ PointerInv /\ HeldIsCurrent /\ call[m].skip \in Moves /\ pc[m] = "next"
      /\ call[m].held # NULL /\ UNCHANGED <<log, disk, j>>
      /\ lib \in [HandleIds -> Handles] /\ pc \in [Threads -> PCs] /\ j \in {NULL} \cup HandleIds
      /\ JournalTypeOK
    BY DEF NextMoves, Inside, AtomicInv, SkipAsked, OpenInv, ThreadInv, PointerInv, TypeInv, TypeOK
<1>2. call[m].held = j /\ pc'[m] = "getall"
    BY <1>1 DEF HeldIsCurrent, InLib, NextMoves
<1>3. PICK i \in DOMAIN log : /\ LandsAt(lib[j], call[m].skip, i)
                              /\ lib' = [lib EXCEPT ![j].loc = Loc("discrete", i)]
    BY <1>2 DEF NextMoves
<1>4. HandleNow = lib[j] /\ HandleNow.st = "open"
    BY <1>1, <1>2, Seen
<1>5. lib'[j] = [lib[j] EXCEPT !.loc = Loc("discrete", i)] /\ j \in HandleIds /\ j # NULL
    BY <1>1, <1>2, <1>3
<1>6. HandleNow' = [HandleNow EXCEPT !.loc = Loc("discrete", i)]
    <2>1. lib'[j].st = "open"
        BY <1>1, <1>4, <1>5 DEF Handles
    <2> QED
        BY <1>1, <1>2, <1>4, <1>5, <2>1, SelfIs DEF HandleNow
<1>7. Readable' = i
    <2>1. Readable' \in DOMAIN log
        BY <1>1, <1>2 DEF AtomicInv, InPlace, Taking
    <2>2. 0 \notin DOMAIN log
        BY <1>1, LenProperties DEF JournalTypeOK
    <2>3. lib'[j].loc = Loc("discrete", i) /\ Loc("discrete", i).at = i
        <3>1. lib[j] \in Handles
            BY <1>1, <1>5
        <3> QED
            BY <1>5, <3>1 DEF Handles, Loc
    <2> QED
        BY <1>1, <2>1, <2>2, <2>3 DEF Readable, Current
<1>8. OutNow' = Atomic!Given(i)
    <2>1. i # 0 /\ log[i].content \in Contents
        <3>1. log[i] \in Entries
            BY <1>1, ElementOfSeq, LenProperties DEF JournalTypeOK
        <3> QED
            BY <1>1, <3>1, LenProperties DEF JournalTypeOK, Entries
    <2>2. log[i].content.data \in {"whole", "cut", "none", "broken", "odd"}
        BY <2>1, ContentsAssumption
    <2>3. OutNow' = IF log[i].content.data = "none" THEN Atomic!End
                    ELSE IF log[i].content.data \in {"broken", "odd"} THEN Atomic!Other
                    ELSE [kind |-> "entry", entry |-> Atomic!Whole(i)]
        BY <1>1, <1>2, <1>7, <2>1, SelfIs
        DEF OutNow, Out, Atomic!Other, Atomic!End, Atomic!Nothing, Atomic!Whole, NoDict
    <2>4. CASE log[i].content.data = "none"
        BY <2>3, <2>4, Zenon DEF Atomic!Given
    <2>5. CASE log[i].content.data \in {"broken", "odd"}
        BY <2>3, <2>5 DEF Atomic!Given
    <2>6. CASE log[i].content.data \in {"whole", "cut"}
        BY <2>3, <2>6 DEF Atomic!Given
    <2> QED
        BY <2>2, <2>4, <2>5, <2>6
<1>9. Atomic!GetNext
    <2>1. call[m].skip \in (Skips \cup {-s : s \in Skips}) \ {0}
        BY <1>1 DEF Moves
    <2>2. Atomic!LandsAt(HandleNow, call[m].skip, i)
        BY <1>3, <1>4, SameMoves
    <2> QED
        BY <1>4, <1>6, <1>8, <2>1, <2>2, SameHandles DEF Atomic!GetNext, Atomic!IsOpen
<1> QED
    BY <1>1, <1>9 DEF Atomic!Next

\* So does finding nothing there.
LEMMA EndStep ==
    ASSUME NEW m \in Threads, Sole(m), AtomicInv(m), NextEnds(m)
    PROVE  Atomic!Next
<1>1. /\ PointerInv /\ HeldIsCurrent /\ call[m].skip \in Moves /\ pc[m] = "next"
      /\ call[m].held # NULL /\ UNCHANGED <<log, disk, j, lib>>
      /\ pc \in [Threads -> PCs] /\ ret \in [Threads -> Results]
    BY DEF NextEnds, Inside, AtomicInv, SkipAsked, OpenInv, ThreadInv, PointerInv, TypeInv, TypeOK,
        Results
<1>2. call[m].held = j
    BY <1>1 DEF HeldIsCurrent, InLib
<1>4. pc'[m] = "idle" /\ ret'[m] = Plain("end")
    BY <1>1 DEF NextEnds, Ends
<1>3. HandleNow = lib[j] /\ HandleNow.st = "open" /\ HandleNow' = HandleNow
    BY <1>1, <1>2, <1>4, Seen, SelfIs DEF HandleNow
<1>5. OutNow' = Atomic!End
    BY <1>4, SelfIs
    DEF OutNow, Stamps, Plain, Result, Out, Atomic!End, Atomic!Nothing, Atomic!Whole, NoDict
<1>6. Atomic!NothingThere(HandleNow, call[m].skip)
    BY <1>2, <1>3, SameMoves DEF NextEnds
<1>7. Atomic!GetNext
    BY <1>1, <1>3, <1>5, <1>6 DEF Moves, Atomic!GetNext, Atomic!IsOpen
<1> QED
    BY <1>1, <1>7 DEF Atomic!Next

\* Reading the entry is not seen: all of it was settled by the move.
LEMMA TakingSteps ==
    ASSUME NEW m \in Threads, Sole(m), AtomicInv(m),
           GetAll(m) \/ GetRealtime(m) \/ GetMonotonic(m) \/ GetCursor(m)
    PROVE  Atomic!Next \/ UNCHANGED Atomic!vars
<1>a. /\ TypeInv /\ PartWhole(m) /\ pc[m] \in Taking /\ UNCHANGED <<log, disk, j, lib>>
      /\ pc \in [Threads -> PCs] /\ ret \in [Threads -> Results] /\ part \in [Threads -> Dicts]
      /\ JournalTypeOK
    BY DEF AtomicInv, EntryInv, TypeInv, TypeOK, Results, Taking, Stamps, GetAll, GetRealtime,
        GetMonotonic, GetStamp, GetCursor
<1>b. /\ Readable # 0 /\ Readable' = Readable /\ HandleNow' = HandleNow
      /\ pc[m] \in Stamps => /\ part[m].fields = Readable
                             /\ log[Readable].content.data \notin {"none", "broken"}
    <2>1. 0 \notin DOMAIN log
        BY <1>a, LenProperties DEF JournalTypeOK
    <2>2. pc[m] # "match" /\ pc'[m] # "match"
        BY <1>a DEF Taking, Stamps, Ends, GetAll, GetRealtime, GetMonotonic, GetStamp, GetCursor
    <2>3. HandleNow' = HandleNow
        BY <1>a, <2>2, SelfIs DEF HandleNow
    <2> QED
        BY <1>a, <2>1, <2>3 DEF AtomicInv, InPlace, Readable, Current
<1>c. OutNow = IF log[Readable].content.data = "none" THEN Atomic!End
               ELSE IF log[Readable].content.data \in {"broken", "odd"} THEN Atomic!Other
               ELSE [kind |-> "entry", entry |-> Atomic!Whole(Readable)]
    BY <1>a, <1>b, OutTaking
\* The next step of the same get_next(), ...
<1>1. ASSUME pc'[m] \in Taking PROVE UNCHANGED Atomic!vars
    <2>1. OutNow' = OutNow
        BY <1>1, <1>a, <1>b, SelfIs DEF OutNow, Taking
    <2> QED
        BY <1>a, <1>b, <2>1 DEF Atomic!vars
\* ... an error, ...
<1>2. ASSUME NEW k, k \notin {"entry", "end"}, Ends(m, Plain(k)) PROVE Atomic!Next
    BY <1>2, <1>a, Answered, AnswerStep DEF Taking, Stamps
\* ... an entry none of whose fields can be read, ...
<1>3. ASSUME Ends(m, Plain("end")), log[Readable].content.data = "none"
      PROVE  UNCHANGED Atomic!vars
    <2>1. pc'[m] = "idle" /\ ret'[m] = Plain("end")
        BY <1>3, <1>a DEF Ends
    <2>2. OutNow' = Atomic!End
        BY <2>1, SelfIs
        DEF OutNow, Stamps, Plain, Result, Out, Atomic!End, Atomic!Nothing, Atomic!Whole, NoDict
    <2> QED
        BY <1>3, <1>a, <1>b, <1>c, <2>2 DEF Atomic!vars
\* ... or an entry.
<1>4. ASSUME GetCursor(m), log[Readable].content.data # "odd",
             Ends(m, Result("entry", [part[m] EXCEPT !.cursor = Readable]))
      PROVE  UNCHANGED Atomic!vars
    <2>1. pc[m] = "cursor" /\ pc[m] \in Stamps
        BY <1>4 DEF GetCursor, Stamps
    <2>2. part[m] \in Dicts /\ part[m].fields = Readable
            /\ part[m].realtime = Readable /\ part[m].monotonic = Readable
        BY <1>a, <1>b, <2>1 DEF PartWhole
    <2>3. [part[m] EXCEPT !.cursor = Readable] = Atomic!Whole(Readable)
        BY <2>2 DEF Dicts, Atomic!Whole
    <2>4. pc'[m] = "idle" /\ ret'[m] = Result("entry", Atomic!Whole(Readable))
        BY <1>4, <1>a, <2>3 DEF Ends
    <2>5. OutNow' = [kind |-> "entry", entry |-> Atomic!Whole(Readable)]
        BY <2>4, SelfIs DEF OutNow, Stamps, Result, Out
    <2>6. OutNow = [kind |-> "entry", entry |-> Atomic!Whole(Readable)]
        BY <1>4, <1>b, <1>c, <2>1
    <2> QED
        BY <1>a, <1>b, <2>5, <2>6 DEF Atomic!vars
<1>5. CASE GetAll(m)
    BY <1>5, <1>1, <1>2, <1>3, <1>a, <1>b DEF GetAll, Taking, Stamps
<1>6. CASE GetRealtime(m) \/ GetMonotonic(m)
    BY <1>6, <1>1, <1>2, <1>a, <1>b DEF GetRealtime, GetMonotonic, GetStamp, Taking, Stamps
<1>7. CASE GetCursor(m)
    <2>1. part[m].fields = Readable
        BY <1>7, <1>b DEF GetCursor, Stamps
    <2> QED
        BY <1>7, <1>2, <1>4, <1>b, <2>1 DEF GetCursor
<1> QED
    BY <1>5, <1>6, <1>7

\* The other steps that change the handle.
LEMMA ChangingSteps ==
    ASSUME NEW m \in Threads, Sole(m), AtomicInv(m),
           \/ SeekReturns(m)
           \/ AddDisjunction(m) \/ AddConjunction(m) \/ FlushMatches(m)
           \/ UniqueReturns(m) \/ Fileno(m) \/ ProcessReturns(m) \/ WaitReturns(m)
    PROVE  Atomic!Next \/ UNCHANGED Atomic!vars
<1>a. /\ TypeInv /\ PointerInv /\ HeldIsCurrent
      /\ pc \in [Threads -> PCs] /\ ret \in [Threads -> Results]
      /\ call \in [Threads -> CallRecords]
      /\ lib \in [HandleIds -> Handles] /\ j \in {NULL} \cup HandleIds
      /\ j # NULL /\ pc[m] \notin {"gone", "closing"} => lib[j].st = "open" /\ lib[j] \in Handles
    BY DEF Sole, AtomicInv, OpenInv, ThreadInv, PointerInv, PointerOpen, TypeInv, TypeOK, Results
<1>b. \A k : Ends(m, Plain(k)) => pc'[m] = "idle" /\ ret'[m] = Plain(k)
    BY <1>a DEF Ends
<1>c. {"idle", "seek", "unique", "process", "wait", "values"}
            \cap (Taking \cup {"gone", "closing", "match"}) = {}
    BY DEF Taking, Stamps
<1>d. ASSUME NEW where \in InLib \ {"open", "boot"}, Inside(m, where)
      PROVE  call[m].held = j /\ j # NULL
    BY <1>d DEF Inside, AtomicInv, OpenInv, ThreadInv, HeldIsCurrent
<1>1. CASE SeekReturns(m)
    <2>1. call[m].held = j /\ j # NULL /\ pc[m] = "seek" /\ call[m].to \in Locs
        BY <1>1, <1>a, <1>d DEF SeekReturns, Inside, InLib, CallRecords
    <2>2. PICK h : h = [lib[j] EXCEPT !.loc = call[m].to]
        OBVIOUS
    <2>3. Changes(m, h)
        BY <1>1, <1>a, <1>c, <2>1, <2>2 DEF SeekReturns, Changes, Handles
    <2>4. pc'[m] = "idle" /\ ret'[m] = Plain("None")
        BY <1>1, <1>b DEF SeekReturns
    <2>5. HandleNow = lib[j] /\ HandleNow.st = "open" /\ HandleNow' = h /\ OutNow' = Told(ret'[m])
        BY <1>a, <1>c, <2>1, <2>3, <2>4, ChangeSeen
    <2>6. OutNow' = Atomic!Other
        BY <2>4, <2>5, OutPlain
    <2>7. Atomic!Seek
        BY <2>1, <2>2, <2>5, <2>6, SameHandles DEF Atomic!Seek, Atomic!IsOpen
    <2> QED
        BY <2>3, <2>7 DEF Changes, Atomic!Next
<1>2. ASSUME j # NULL, pc[m] = "idle", Ends(m, Plain("None")), UNCHANGED <<log, disk, j>>,
             NEW f \in {WithDisjunction(lib[j].filter), WithConjunction(lib[j].filter), NoFilter},
             lib' = [lib EXCEPT ![j].filter = f]
      PROVE  Atomic!Next
    <2>1. PICK h : h = [lib[j] EXCEPT !.filter = f]
        OBVIOUS
    <2>2. Changes(m, h)
        BY <1>2, <1>a, <2>1 DEF Changes, Handles
    <2>3. HandleNow = lib[j] /\ HandleNow.st = "open" /\ HandleNow' = h /\ OutNow' = Told(ret'[m])
        BY <1>2, <1>a, <1>b, <1>c, <2>2, ChangeSeen
    <2>4. OutNow' = Atomic!Other
        BY <1>2, <1>b, <2>3, OutPlain
    <2>5. f \in {Atomic!WithDisjunction(HandleNow.filter),
                Atomic!WithConjunction(HandleNow.filter), Atomic!NoFilter}
        BY <1>2, <2>3, SameFilters, SameHandles
    <2>6. Atomic!Refilter
        BY <2>1, <2>3, <2>4, <2>5 DEF Atomic!Refilter, Atomic!IsOpen
    <2> QED
        BY <1>2, <2>6 DEF Atomic!Next
<1>4. ASSUME NEW f, NEW k \in {"OSError", "None"}, Refilters(m, f, k),
             j # NULL => f \in {WithDisjunction(lib[j].filter), WithConjunction(lib[j].filter), NoFilter}
      PROVE  Atomic!Next
    <2>1. CASE j = NULL
        BY <1>4, <1>a, <2>1, Answered, AnswerStep DEF Refilters, AtOnce, Idle
    <2>2. CASE j # NULL
        <3>1. /\ Ends(m, Plain("None")) /\ lib' = [lib EXCEPT ![j].filter = f]
              /\ UNCHANGED <<log, disk, j>> /\ pc[m] = "idle"
            BY <1>4, <2>2 DEF Refilters, AtOnce, Idle
        <3> QED
            BY <1>2, <1>4, <2>2, <3>1
    <2> QED
        BY <2>1, <2>2
<1>5. CASE AddDisjunction(m) \/ AddConjunction(m) \/ FlushMatches(m)
    BY <1>4, <1>5 DEF AddDisjunction, AddConjunction, FlushMatches, Filter
<1>6. CASE UniqueReturns(m)
    <2>1. call[m].held = j /\ j # NULL /\ pc[m] = "unique"
        BY <1>6, <1>d DEF UniqueReturns, Inside, InLib
    <2>2. PICK h : h = [lib[j] EXCEPT !.unique = call[m].field]
        OBVIOUS
    <2>3. Changes(m, h)
        BY <1>6, <1>a, <1>c, <2>1, <2>2 DEF UniqueReturns, Changes, Handles
    <2>4. pc'[m] = "values" /\ ret' = ret
        BY <1>6, <1>a DEF UniqueReturns
    <2>5. /\ HandleNow = lib[j] /\ HandleNow.st = "open" /\ HandleNow' = h
          /\ OutNow = Told(ret[m]) /\ OutNow' = Told(ret'[m])
        BY <1>a, <1>c, <2>1, <2>3, <2>4, ChangeSeen
    <2>6. call[m].field \in FieldNames
        BY <2>1 DEF AtomicInv, UniqueInv, FieldAsked
    <2>7. Atomic!Query
        BY <2>2, <2>4, <2>5, <2>6, SameHandles DEF Atomic!Query, Atomic!IsOpen
    <2> QED
        BY <2>3, <2>7 DEF Changes, Atomic!Next
<1>7. ASSUME j # NULL, pc[m] \notin Taking \cup {"gone", "closing", "match"}, NEW k, k \notin {"entry", "end"},
             Ends(m, Plain(k)), UNCHANGED <<log, disk, j>>,
             NEW h \in {Watched(lib[j]), Processed(lib[j])}, lib' = [lib EXCEPT ![j] = h]
      PROVE  Atomic!Next
    <2>1. h.st = "open"
        BY <1>7, <1>a DEF Watched, Processed, Handles
    <2>2. Changes(m, h)
        BY <1>7, <2>1 DEF Changes
    <2>3. HandleNow = lib[j] /\ HandleNow.st = "open" /\ HandleNow' = h /\ OutNow' = Told(ret'[m])
        BY <1>7, <1>a, <1>b, <1>c, <2>2, ChangeSeen
    <2>4. OutNow' = Atomic!Other
        BY <1>7, <1>b, <2>3, OutPlain
    <2>5. Atomic!Update
        BY <1>7, <2>3, <2>4, SameHandles DEF Atomic!Update, Atomic!IsOpen
    <2> QED
        BY <1>7, <2>5 DEF Atomic!Next
<1>8. CASE Fileno(m)
    <2>1. CASE lib' = lib
        <3>1. PICK k : k \notin {"entry", "end"} /\ Ends(m, Plain(k))
            BY <1>8 DEF Fileno, Errors
        <3> QED
            BY <1>8, <1>a, <2>1, <3>1, Answered, AnswerStep DEF Fileno, AtOnce, Idle
    <2>2. CASE j # NULL /\ Ends(m, Plain("None")) /\ lib' = [lib EXCEPT ![j] = Watched(@)]
        BY <1>7, <1>8, <1>c, <2>2 DEF Fileno, AtOnce, Idle
    <2> QED
        BY <1>8, <2>1, <2>2 DEF Fileno
<1>9. CASE ProcessReturns(m) \/ WaitReturns(m)
    <2>1. call[m].held = j /\ j # NULL /\ pc[m] \in {"process", "wait"}
        BY <1>9, <1>d DEF ProcessReturns, WaitReturns, Inside, InLib
    <2>2. Change(lib[j]) \notin {"entry", "end"}
        BY DEF Change
    <2>3. PICK k, h : /\ k \notin {"entry", "end"} /\ Ends(m, Plain(k))
                      /\ h \in {Watched(lib[j]), Processed(lib[j])} /\ lib' = [lib EXCEPT ![j] = h]
        BY <1>9, <2>1, <2>2 DEF ProcessReturns, WaitReturns
    <2> QED
        BY <1>7, <1>9, <1>c, <2>1, <2>3 DEF ProcessReturns, WaitReturns
<1> QED
    BY <1>1, <1>5, <1>6, <1>8, <1>9

------------------------------------------------------------------------------
(* add_match() is one step in AtomicReader: what it adds is settled when it is *)
(* called, although the loop adds the matches one after the other.             *)

\* Matches added in two calls are as if added in one, ...
LEMMA AddedTogether ==
    ASSUME NEW f \in Filters, NEW ms, NEW ns
    PROVE  /\ WithMatches(WithMatches(f, ms), ns) = WithMatches(f, ms \cup ns)
           /\ WithMatches(f, {}) = f
<1>1. /\ Len(f) \in DOMAIN f /\ f[Len(f)] = LastClause(f) /\ f = [k \in DOMAIN f |-> f[k]]
      /\ DOMAIN f = 1 .. Len(f) /\ Len(f) \in Nat
    BY LastOfSeq DEF Filters, LastClause
<1> DEFINE c == LastClause(f)
<1>2. /\ Len(c) \in DOMAIN c /\ c[Len(c)] = LastTerm(f) /\ c = [k \in DOMAIN c |-> c[k]]
      /\ DOMAIN c = 1 .. Len(c) /\ Len(c) \in Nat
    <2>1. c \in Clauses
        BY <1>1, LastOfSeq DEF Filters
    <2> QED
        BY <2>1, LastOfSeq DEF Clauses, LastTerm
<1> DEFINE g == WithMatches(f, ms)
           d == [c EXCEPT ![Len(c)] = LastTerm(f) \cup ms]
<1>3. g = [f EXCEPT ![Len(f)] = d]
    BY DEF WithMatches
<1>4. Len(g) = Len(f) /\ DOMAIN g = DOMAIN f /\ g[Len(f)] = d
    BY <1>1, <1>3
<1>5. Len(d) = Len(c) /\ DOMAIN d = DOMAIN c /\ d[Len(c)] = LastTerm(f) \cup ms
    BY <1>2
<1>6. LastClause(g) = d /\ LastTerm(g) = LastTerm(f) \cup ms
    BY <1>4, <1>5 DEF LastClause, LastTerm
<1> DEFINE e == [c EXCEPT ![Len(c)] = LastTerm(f) \cup (ms \cup ns)]
<1>7. [d EXCEPT ![Len(d)] = (LastTerm(f) \cup ms) \cup ns] = e
    BY <1>2, <1>5
<1>8. WithMatches(g, ns) = [g EXCEPT ![Len(f)] = e]
    BY <1>4, <1>6, <1>7 DEF WithMatches
<1>9. [g EXCEPT ![Len(f)] = e] = [f EXCEPT ![Len(f)] = e]
    BY <1>1, <1>3
<1>10. WithMatches(f, ms \cup ns) = [f EXCEPT ![Len(f)] = e]
    BY DEF WithMatches
<1>11. [c EXCEPT ![Len(c)] = LastTerm(f) \cup {}] = c
    BY <1>2
<1>12. WithMatches(f, {}) = f
    BY <1>1, <1>11 DEF WithMatches
<1> QED
    BY <1>8, <1>9, <1>10, <1>12

\* ... and they are the ones before the first that is refused.
LEMMA BeforeFirst ==
    ASSUME NEW args \in Seq(Matches \cup {BadMatch})
    PROVE  /\ args = << >> => Before(args) = {}
           /\ args # << >> /\ Head(args) = BadMatch => Before(args) = {}
           /\ args # << >> /\ Head(args) # BadMatch =>
                Before(args) = {Head(args)} \cup Before(Tail(args))
<1>1. DOMAIN args = 1 .. Len(args) /\ Len(args) \in Nat
    BY LenProperties
<1>2. args = << >> => Before(args) = {}
    BY DEF Before
<1>3. ASSUME args # << >>
      PROVE  /\ Head(args) = args[1] /\ 1 \in DOMAIN args /\ Tail(args) \in Seq(Matches \cup {BadMatch})
             /\ DOMAIN Tail(args) = 1 .. Len(args) - 1
             /\ \A k \in 1 .. Len(args) - 1 : Tail(args)[k] = args[k + 1]
    BY <1>1, <1>3, HeadTailProperties, EmptySeq, LenProperties
<1>4. ASSUME args # << >>, Head(args) = BadMatch PROVE Before(args) = {}
    BY <1>1, <1>3, <1>4 DEF Before
<1>5. ASSUME args # << >>, Head(args) # BadMatch
      PROVE  Before(args) = {Head(args)} \cup Before(Tail(args))
    <2>1. ASSUME NEW k \in DOMAIN args, \A n \in 1 .. k : args[n] # BadMatch
          PROVE  args[k] \in {Head(args)} \cup Before(Tail(args))
        <3>1. CASE k = 1
            BY <3>1, <1>3, <1>5
        <3>2. CASE k # 1
            <4>1. /\ k - 1 \in DOMAIN Tail(args) /\ Tail(args)[k - 1] = args[k]
                  /\ \A n \in 1 .. k - 1 : Tail(args)[n] # BadMatch
                BY <1>1, <1>3, <1>5, <2>1, <3>2
            <4> QED
                BY <4>1 DEF Before
        <3> QED
            BY <3>1, <3>2
    <2>2. ASSUME NEW k \in DOMAIN Tail(args), \A n \in 1 .. k : Tail(args)[n] # BadMatch
          PROVE  Tail(args)[k] \in Before(args)
        <3>1. k + 1 \in DOMAIN args /\ args[k + 1] = Tail(args)[k]
            BY <1>1, <1>3, <1>5
        <3>2. ASSUME NEW n \in 1 .. k + 1 PROVE args[n] # BadMatch
            <4>1. CASE n = 1
                BY <4>1, <1>3, <1>5
            <4>2. CASE n # 1
                <5>1. n - 1 \in 1 .. k /\ k \in 1 .. Len(args) - 1
                    BY <4>2, <1>1, <1>3, <1>5
                <5> QED
                    BY <5>1, <1>1, <1>3, <1>5, <2>2
            <4> QED
                BY <4>1, <4>2
        <3> QED
            BY <3>1, <3>2 DEF Before
    <2>3. Head(args) \in Before(args)
        BY <1>1, <1>3, <1>5 DEF Before
    <2> QED
        BY <2>1, <2>2, <2>3 DEF Before
<1> QED
    BY <1>2, <1>4, <1>5

\* Those of log_level() are all the priorities up to the level.
LEMMA BeforeLevel ==
    ASSUME NEW level \in Levels, level \in 0 .. 7
    PROVE  Before([p \in 1 .. level + 1 |-> <<"PRIORITY", p - 1>>]) = {"PRIORITY"} \X (0 .. level)
<1> DEFINE args == [p \in 1 .. level + 1 |-> <<"PRIORITY", p - 1>>]
<1>1. \A n \in 1 .. level + 1 : args[n] = <<"PRIORITY", n - 1>> /\ n - 1 \in 0 .. level
    OBVIOUS
<1>2. \A n \in 1 .. level + 1 : args[n] # BadMatch
    BY <1>1, ReaderAssumption
<1>3. \A k \in 1 .. level + 1 : \A n \in 1 .. k : args[n] # BadMatch
    BY <1>2
<1>4. Before(args) = {args[i] : i \in 1 .. level + 1}
    BY <1>3 DEF Before
<1>5. \A q \in 0 .. level : q + 1 \in 1 .. level + 1 /\ args[q + 1] = <<"PRIORITY", q>>
    OBVIOUS
<1> HIDE DEF args
<1>6. {args[i] : i \in 1 .. level + 1} = {"PRIORITY"} \X (0 .. level)
    <2>1. ASSUME NEW i \in 1 .. level + 1 PROVE args[i] \in {"PRIORITY"} \X (0 .. level)
        <3>1. PICK q \in 0 .. level : q = i - 1
            BY <1>1
        <3>2. args[i] = <<"PRIORITY", q>>
            BY <1>1, <3>1
        <3> QED
            BY <3>2
    <2>2. ASSUME NEW x \in {"PRIORITY"} \X (0 .. level)
          PROVE  \E i \in 1 .. level + 1 : x = args[i]
        <3>1. PICK q \in 0 .. level : x = <<"PRIORITY", q>>
            OBVIOUS
        <3> QED
            BY <1>5, <3>1
    <2> QED
        BY <2>1, <2>2
<1>7. Before(args) = {"PRIORITY"} \X (0 .. level)
    BY <1>4, <1>6
<1> QED
    BY <1>7 DEF args

\* What is seen when a call of add_match() or log_level() begins.
LEMMA MatchBegins ==
    ASSUME NEW m \in Threads, Sole(m), AtomicInv(m),
           \/ \E args \in MatchArgs : AddMatch(m, args)
           \/ \E level \in Levels : LogLevel(m, level)
    PROVE  Atomic!Next \/ UNCHANGED Atomic!vars
<1>a. /\ TypeInv /\ PointerInv /\ pc \in [Threads -> PCs] /\ call \in [Threads -> CallRecords]
      /\ lib \in [HandleIds -> Handles] /\ j \in {NULL} \cup HandleIds
    BY DEF AtomicInv, OpenInv, ThreadInv, PointerInv, TypeInv, TypeOK
<1>1. ASSUME NEW args, NEW rec, Begins(m, "match", rec), rec.todo = args
      PROVE  /\ j = NULL => UNCHANGED Atomic!vars
             /\ j # NULL => /\ HandleNow.st = "open" /\ OutNow' = OutNow
                            /\ HandleNow' = [HandleNow EXCEPT !.filter = WithMatches(@, Before(args))]
             /\ UNCHANGED <<log, disk>>
    <2>1. /\ pc[m] = "idle" /\ pc'[m] = "match" /\ call'[m].todo = args
          /\ UNCHANGED <<log, disk, j, lib, ret>>
        BY <1>1, <1>a DEF Begins, Idle
    <2>2. OutNow' = OutNow
        BY <2>1, SelfIs DEF OutNow, Stamps
    <2>3. /\ HandleNow = IF j = NULL THEN Unused ELSE lib[j]
          /\ j # NULL => HandleNow.st = "open"
        BY <1>a, <2>1, Seen
    <2>4. HandleNow' = IF j = NULL THEN Unused
                       ELSE [lib[j] EXCEPT !.filter = WithMatches(@, Before(args))]
        BY <2>1, <2>3, SelfIs DEF HandleNow
    <2> QED
        BY <2>1, <2>2, <2>3, <2>4 DEF Atomic!vars
<1>2. ASSUME NEW args \in MatchArgs, AddMatch(m, args)
      PROVE  Atomic!Next \/ UNCHANGED Atomic!vars
    <2> DEFINE rec == [NoCall EXCEPT !.todo = args]
    <2>1. Begins(m, "match", rec) /\ rec.todo = args
        <3>1. rec.todo = args
            BY DEF NoCall
        <3> QED
            BY <1>2, <3>1 DEF AddMatch
    <2> HIDE DEF rec
    <2>2. CASE j # NULL
        <3>1. Before(args) = {args[k] : k \in {i \in DOMAIN args : \A n \in 1 .. i : args[n] # BadMatch}}
            BY DEF Before
        <3>2. Atomic!AddMatch
            BY <1>1, <2>1, <2>2, <3>1, SameFilters DEF Atomic!AddMatch, Atomic!IsOpen
        <3> QED
            BY <1>1, <2>1, <3>2 DEF Atomic!Next
    <2> QED
        BY <1>1, <2>1, <2>2
<1>3. ASSUME NEW level \in Levels, LogLevel(m, level)
      PROVE  Atomic!Next \/ UNCHANGED Atomic!vars
    <2>1. CASE level \in 0 .. 7
        <3>1. PICK args : args = [p \in 1 .. level + 1 |-> <<"PRIORITY", p - 1>>]
            OBVIOUS
        <3> DEFINE rec == [NoCall EXCEPT !.level = level, !.todo = args]
        <3>2. Begins(m, "match", rec) /\ rec.todo = args
            <4>1. rec.todo = args
                BY DEF NoCall
            <4> QED
                BY <1>3, <2>1, <3>1, <4>1 DEF LogLevel
        <3> HIDE DEF rec
        <3>3. CASE j # NULL
            <4>1. Before(args) = {"PRIORITY"} \X (0 .. level)
                BY <2>1, <3>1, BeforeLevel
            <4>2. Atomic!LogLevel
                BY <1>1, <2>1, <3>2, <3>3, <4>1, SameFilters DEF Atomic!LogLevel, Atomic!IsOpen
            <4> QED
                BY <1>1, <3>2, <4>2 DEF Atomic!Next
        <3> QED
            BY <1>1, <3>2, <3>3
    <2>2. CASE level \notin 0 .. 7
        BY <1>3, <1>a, <2>2, Answered, AnswerStep DEF LogLevel, AtOnce, Idle
    <2> QED
        BY <2>1, <2>2
<1> QED
    BY <1>2, <1>3

\* The loop is not seen, and what ends it is an answer.
LEMMA MatchSteps ==
    ASSUME NEW m \in Threads, Sole(m), AtomicInv(m),
           MatchFails(m) \/ MatchAdds(m) \/ MatchEnds(m)
    PROVE  Atomic!Next \/ UNCHANGED Atomic!vars
<1>a. /\ pc[m] = "match" /\ pc \in [Threads -> PCs] /\ call \in [Threads -> CallRecords]
      /\ lib \in [HandleIds -> Handles] /\ j \in {NULL} \cup HandleIds
      /\ ret \in [Threads -> Results] /\ UNCHANGED <<log, disk, j>>
    BY DEF MatchFails, MatchAdds, MatchEnds, AtomicInv, OpenInv, ThreadInv, PointerInv, TypeInv,
        TypeOK, Results
<1>b. call[m].todo \in Seq(Matches \cup {BadMatch})
    BY <1>a DEF CallRecords
<1>c. j # NULL => lib[j] \in Handles /\ lib[j].st = "open" /\ lib[j].filter \in Filters
    <2>1. j # NULL => lib[j].st = "open"
        BY <1>a DEF Sole, AtomicInv, OpenInv, ThreadInv, PointerInv, PointerOpen
    <2> QED
        BY <1>a, <2>1 DEF Handles
<1>d. HandleNow = IF j = NULL THEN Unused
                  ELSE [lib[j] EXCEPT !.filter = WithMatches(@, Before(call[m].todo))]
    BY <1>a, <1>c, SelfIs DEF HandleNow
<1>1. ASSUME NEW k, k \notin {"entry", "end"}, Ends(m, Plain(k)), lib' = lib,
             j = NULL \/ Before(call[m].todo) = {}
      PROVE  Atomic!Next
    <2>1. pc'[m] = "idle" /\ ret'[m] = Plain(k)
        BY <1>1, <1>a DEF Ends
    <2>2. OutNow' = Atomic!Other
        BY <1>1, <2>1, SelfIs, OutPlain DEF OutNow, Told, Stamps
    <2>3. HandleNow' = IF j = NULL THEN Unused ELSE lib[j]
        BY <1>1, <1>a, <1>c, <2>1, SelfIs DEF HandleNow
    <2>4. ASSUME j # NULL PROVE HandleNow = lib[j]
        <3>1. WithMatches(lib[j].filter, Before(call[m].todo)) = lib[j].filter
            BY <1>1, <1>c, <2>4, AddedTogether
        <3> QED
            BY <1>c, <1>d, <2>4, <3>1 DEF Handles
    <2> QED
        BY <1>a, <1>d, <2>2, <2>3, <2>4 DEF Atomic!Next, Atomic!Answer
<1>2. CASE MatchFails(m)
    BY <1>1, <1>2, <1>b, BeforeFirst DEF MatchFails
<1>3. CASE MatchEnds(m)
    BY <1>1, <1>3, <1>b, BeforeFirst DEF MatchEnds
<1>4. CASE MatchAdds(m)
    <2>1. PICK x, rest : x = Head(call[m].todo) /\ rest = Tail(call[m].todo)
        OBVIOUS
    <2>2. /\ j # NULL /\ lib' = [lib EXCEPT ![j].filter = WithMatches(@, {x})]
          /\ call' = [call EXCEPT ![m].todo = rest] /\ UNCHANGED <<pc, ret>>
          /\ Before(call[m].todo) = {x} \cup Before(rest)
        BY <1>4, <1>b, <2>1, BeforeFirst DEF MatchAdds
    <2>3. /\ lib'[j] = [lib[j] EXCEPT !.filter = WithMatches(@, {x})] /\ call'[m].todo = rest
          /\ lib'[j].st = "open" /\ lib'[j].filter = WithMatches(lib[j].filter, {x})
        <3>1. j \in HandleIds
            BY <1>a, <2>2
        <3> QED
            BY <1>a, <1>c, <2>2, <3>1 DEF Handles, CallRecords
    <2>4. HandleNow' = [lib'[j] EXCEPT !.filter = WithMatches(@, Before(rest))]
        BY <1>a, <2>2, <2>3, SelfIs DEF HandleNow
    <2>5. WithMatches(WithMatches(lib[j].filter, {x}), Before(rest))
            = WithMatches(lib[j].filter, Before(call[m].todo))
        BY <1>c, <2>2, AddedTogether
    <2>6. HandleNow' = HandleNow
        BY <1>c, <1>d, <2>2, <2>3, <2>4, <2>5 DEF Handles
    <2>7. OutNow' = OutNow
        BY <1>a, <2>2, SelfIs DEF OutNow, Stamps
    <2> QED
        BY <1>a, <2>6, <2>7 DEF Atomic!vars
<1> QED
    BY <1>2, <1>3, <1>4

\* Every step of an unshared Reader is a step of AtomicReader or is not seen.
LEMMA StepIsAtomic ==
    ASSUME NEW m \in Threads, Sole(m), AtomicInv(m), AtomicInv(m)', [Next]_vars
    PROVE  [Atomic!Next]_Atomic!vars
<1>1. CASE UNCHANGED vars
    BY <1>1 DEF vars, Atomic!vars, HandleNow, OutNow, Readable, Current
<1>2. CASE JournaldStep
    <2>a. TypeInv /\ JournalTypeOK /\ InPlace(m)
        BY DEF AtomicInv, EntryInv, TypeInv, TypeOK
    <2>1. UNCHANGED readerVars /\ Atomic!Journald
        BY <1>2, SameJournal DEF JournaldStep
    <2>2. HandleNow' = HandleNow
        BY <2>1 DEF readerVars, HandleNow
    <2>3. \A i \in DOMAIN log : i \in DOMAIN log' /\ log'[i] = log[i]
        BY <1>2, <2>a, JournaldKeeps DEF JournaldStep
    <2>4. CASE pc[m] \in Taking
        <3>1. Readable \in DOMAIN log /\ Readable # 0
            BY <2>a, <2>4, LenProperties DEF InPlace, JournalTypeOK
        <3>2. Readable' = Readable
            BY <2>1, <2>3, <3>1 DEF readerVars, Readable, Current
        <3>3. OutNow' = OutNow
            BY <2>1, <2>3, <2>4, <3>1, <3>2, SelfIs DEF readerVars, OutNow, Taking
        <3> QED
            BY <2>1, <2>2, <3>3 DEF Atomic!Next
    <2>5. CASE pc[m] \notin Taking
        <3>1. OutNow' = OutNow
            BY <2>1, <2>5, SelfIs DEF readerVars, OutNow, Taking
        <3> QED
            BY <2>1, <2>2, <3>1 DEF Atomic!Next
    <2> QED
        BY <2>4, <2>5
<1>3. CASE Dealloc
    BY <1>3, CloseStep
<1>4. CASE CallBegins(m) \/ CallReturns(m)
    <2>1. TypeInv
        BY DEF AtomicInv, EntryInv
    <2>2. ASSUME Unseen(m) \/ AnswerGiven(m) PROVE Atomic!Next \/ UNCHANGED Atomic!vars
        BY <2>2, UnseenStep, AnswerStep
    <2> QED
        BY <1>4, <2>1, <2>2, PlainSteps, OpenStep, CloseStep, MoveStep, EndStep, TakingSteps,
           ChangingSteps, ClearStep, MatchBegins, MatchSteps
        DEF CallBegins, CallReturns
<1> QED
    BY <1>1, <1>2, <1>3, <1>4 DEF Next, Sole

\* Seen from outside, every method of a Reader that one actor uses is atomic.
THEOREM ReaderIsAtomic ==
    ASSUME NEW m, Threads = {m}, ~ Overlap, "reinit" \notin Calls[m]
    PROVE  Spec => AtomicSpec
<1>0. m \in Threads /\ Sole(m)
    BY DEF Sole
<1>1. Init => Atomic!Init
    <2> SUFFICES ASSUME Init PROVE Atomic!Init
        OBVIOUS
    <2>1. HandleNow = Unused
        BY DEF Init, HandleNow
    <2>2. pc[m] = "idle" /\ ret[m] = Plain("none")
        BY <1>0 DEF Init
    <2>3. OutNow = Atomic!Other
        BY <1>0, <2>2, OutSettled, OutPlain DEF Taking, Stamps
    <2> QED
        BY <2>1, <2>3, SameJournal, SameHandles DEF Init, Atomic!Init
<1>2. Init => AtomicInv(m)
    BY <1>0, InitAtomic
<1>3. AtomicInv(m) /\ [Next]_vars => AtomicInv(m)'
    BY <1>0, NextAtomic
<1>4. AtomicInv(m) /\ AtomicInv(m)' /\ [Next]_vars => [Atomic!Next]_Atomic!vars
    BY <1>0, StepIsAtomic
<1> QED
    BY <1>1, <1>2, <1>3, <1>4, PTL DEF Spec, AtomicSpec, Atomic!Spec
==============================================================================
