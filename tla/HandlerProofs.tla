---------------------------- MODULE HandlerProofs ----------------------------
(* Theorems about JournalHandler, for any handlers, any records and levels,    *)
(* and any names of the fields that records and calls carry.                   *)
EXTENDS JournalHandler, SequenceTheorems, FiniteSetTheorems, TLAPS

\* What a handler is constructed with.
Constructed(h, names) ==
    All(names, <<"handler", h>>) ++ All({"SYSLOG_IDENTIFIER"}, <<"argv", h>>)

Items(seq) == {seq[i] : i \in DOMAIN seq}

\* The entries that emit() sends: what is sent depends on nothing but the record
\* and the handler as it was constructed.
Emitted(e) ==
    /\ e.handler \in DOMAIN extra /\ e.record \in Records
    /\ DOMAIN Extras(e.handler, e.record) \cap Taken = {}
    /\ e.fields = Named(e.record) ++ Extras(e.handler, e.record)

\* The entries of a direct call of send().
Called(e) ==
    /\ e.handler = "none"
    /\ \E names \in Calls : e.fields = Located(All(names, <<"call", "args">>))

\* What was refused: a record of a handler, or a direct call.
Refused(e) ==
    \/ e.handler \in DOMAIN extra /\ e.record \in Records
    \/ e.handler = "none" /\ e.record = "none"

ExtraInv ==
    /\ DOMAIN extra \subseteq Handlers /\ extra = [h \in DOMAIN extra |-> extra[h]]
    /\ \A h \in DOMAIN extra :
        \E names \in Settings : names \subseteq ValidNames /\ extra[h] = Constructed(h, names)
EntryInv ==
    /\ journal \in Seq(Items(journal)) /\ refused \in Seq(Items(refused))
    /\ \A e \in Items(journal) : Emitted(e) \/ Called(e)
    /\ \A e \in Items(refused) : Refused(e)

HandlerInv == ExtraInv /\ EntryInv

------------------------------------------------------------------------------
(* The merged fields *)

LEMMA NamedFields ==
    ASSUME NEW r
    PROVE  /\ DOMAIN Named(r) = Keywords \ (IF r \in WithoutFunc THEN {"CODE_FUNC"} ELSE {})
           /\ Named(r)["PRIORITY"] = <<"logged", MapPriority(Level[r])>>
           /\ \A f \in DOMAIN Named(r) \ {"PRIORITY"} : Named(r)[f] = <<"logged", r>>
BY DEF Named, All, Keywords, Location, ++

\* A record's own fields win, then what is noted of it, then the handler's.
LEMMA ExtrasRecord ==
    ASSUME NEW h, NEW r, NEW f
    PROVE  /\ DOMAIN Extras(h, r) = Own[r] \cup DOMAIN Noted(r) \cup DOMAIN extra[h]
           /\ f \in Own[r] => Extras(h, r)[f] = <<"record", r>>
           /\ f \in DOMAIN Noted(r) \ Own[r] => Extras(h, r)[f] = <<"noted", r>>
<1> DEFINE own == All(Own[r], <<"record", r>>)
           first == own ++ Noted(r)
<1>1. DOMAIN own = Own[r] /\ \A g \in Own[r] : own[g] = <<"record", r>>
    BY DEF All
<1>2. \A g \in DOMAIN Noted(r) : Noted(r)[g] = <<"noted", r>>
    BY DEF Noted, All
<1> HIDE DEF own
<1>3. /\ DOMAIN first = Own[r] \cup DOMAIN Noted(r)
      /\ \A g \in Own[r] : first[g] = <<"record", r>>
      /\ \A g \in DOMAIN Noted(r) \ Own[r] : first[g] = <<"noted", r>>
    BY <1>1, <1>2 DEF ++
<1>4. Extras(h, r) = first ++ extra[h]
    BY DEF Extras, own
<1> HIDE DEF first
<1> QED
    BY <1>3, <1>4 DEF ++

LEMMA ExtrasHandler ==
    ASSUME ExtraInv, NEW h \in DOMAIN extra, NEW r,
           NEW f \in DOMAIN extra[h] \ (Own[r] \cup DOMAIN Noted(r))
    PROVE  Extras(h, r)[f] \in {<<"handler", h>>, <<"argv", h>>}
<1>1. PICK names : extra[h] = Constructed(h, names)
    BY DEF ExtraInv
<1>2. extra[h][f] \in {<<"handler", h>>, <<"argv", h>>}
    BY <1>1 DEF Constructed, All, ++
<1>3. DOMAIN (All(Own[r], <<"record", r>>) ++ Noted(r)) = Own[r] \cup DOMAIN Noted(r)
    BY DEF All, ++
<1>4. Extras(h, r)[f] = extra[h][f]
    BY <1>3 DEF Extras, ++
<1> QED
    BY <1>2, <1>4

\* send() finds the location that emit() gave and adds none.
LEMMA EmittedLocation ==
    ASSUME NEW r, NEW d
    PROVE  Located(Named(r) ++ d) = Named(r) ++ d
<1>1. "CODE_FILE" \in DOMAIN Named(r) \cap Location
    BY NamedFields DEF Keywords, Location
<1> QED
    BY <1>1 DEF Located, ++

------------------------------------------------------------------------------
(* The inductive invariant *)

\* Appending an element adds it to the items.
LEMMA AppendItems ==
    ASSUME NEW seq, seq \in Seq(Items(seq)), NEW e
    PROVE  /\ Items(Append(seq, e)) = Items(seq) \cup {e}
           /\ Append(seq, e) \in Seq(Items(Append(seq, e)))
<1> DEFINE items == Items(seq) \cup {e}
           longer == Append(seq, e)
<1>1. seq \in Seq(items) /\ e \in items
    BY SeqMonotonic
<1>2. longer \in Seq(items) /\ Len(longer) = Len(seq) + 1 /\ longer[Len(longer)] = e
    BY <1>1
<1>3. \A i \in 1 .. Len(seq) : longer[i] = seq[i]
    BY <1>1
<1>4. Items(longer) = items
    BY <1>1, <1>2, <1>3 DEF Items
<1> QED
    BY <1>2, <1>4

LEMMA InitHandler == Init => HandlerInv
BY DEF Init, HandlerInv, ExtraInv, EntryInv, Items

\* Constructing a handler leaves the others, and what they sent, as they were.
LEMMA ConstructKeeps ==
    ASSUME HandlerInv, NEW h \in Handlers, NEW names \in Settings, Construct(h, names)
    PROVE  HandlerInv'
<1> USE DEF HandlerInv
<1>1. h \notin DOMAIN extra /\ names \subseteq ValidNames
    BY DEF Construct, ValidFieldName
<1>2. extra' = All({h}, Constructed(h, names)) ++ extra
    BY DEF Construct, Constructed
<1>3. /\ extra' = [g \in DOMAIN extra' |-> extra'[g]] /\ DOMAIN extra' = DOMAIN extra \cup {h}
      /\ extra'[h] = Constructed(h, names) /\ \A g \in DOMAIN extra : extra'[g] = extra[g]
    BY <1>1, <1>2 DEF All, ++
<1>4. ExtraInv'
    BY <1>1, <1>3 DEF ExtraInv
<1>5. \A e : Emitted(e) => Emitted(e)'
    BY <1>3 DEF Emitted, Extras
<1>6. journal' = journal /\ refused' = refused
    BY DEF Construct
<1>7. EntryInv'
    BY <1>3, <1>5, <1>6 DEF EntryInv, Called, Refused
<1> QED
    BY <1>4, <1>7

\* A record's entry, or its refusal, keeps the invariant.
LEMMA EmitKeeps ==
    ASSUME HandlerInv, NEW h \in Handlers, NEW r \in Records, Emit(h, r)
    PROVE  HandlerInv'
<1> USE DEF HandlerInv
<1>1. h \in DOMAIN extra
    BY DEF Emit
<1>2. extra' = extra
    BY <1>1 DEF Emit, KeptExtra, ExtraInv
<1>3. \A e : (Emitted(e) => Emitted(e)') /\ (Refused(e) => Refused(e)')
    BY <1>2 DEF Emitted, Extras, Refused
<1>4. ExtraInv'
    BY <1>2 DEF ExtraInv
<1>5. ASSUME NEW why, Refuse(h, r, why) PROVE EntryInv'
    <2> DEFINE e == [handler |-> h, record |-> r, why |-> why]
    <2>1. refused' = Append(refused, e) /\ journal' = journal
        BY <1>5 DEF Refuse
    <2>2. Items(refused') = Items(refused) \cup {e} /\ refused' \in Seq(Items(refused'))
        BY <2>1, AppendItems DEF EntryInv
    <2>3. Refused(e)'
        BY <1>1, <1>2 DEF Refused
    <2> QED
        BY <1>3, <2>1, <2>2, <2>3 DEF EntryInv, Called
<1>6. ASSUME DOMAIN Extras(h, r) \cap Taken = {},
             Sendv(h, r, r \notin Unsendable, Located(Named(r) ++ Extras(h, r)))
      PROVE  EntryInv'
    <2>0. PICK e : e = [handler |-> h, record |-> r, fields |-> Named(r) ++ Extras(h, r)]
        OBVIOUS
    <2>1. CASE UNCHANGED refused /\ journal' = Append(journal, e)
        <3>1. Items(journal') = Items(journal) \cup {e} /\ journal' \in Seq(Items(journal'))
            BY <2>1, AppendItems DEF EntryInv
        <3>2. Emitted(e)'
            BY <1>1, <1>2, <1>6, <2>0 DEF Emitted, Extras
        <3>3. \A d : Called(d) => Called(d)'
            BY DEF Called
        <3> QED
            BY <1>3, <2>1, <3>1, <3>2, <3>3 DEF EntryInv
    <2>2. Located(Named(r) ++ Extras(h, r)) = Named(r) ++ Extras(h, r)
        BY EmittedLocation
    <2> QED
        BY <1>5, <1>6, <2>0, <2>1, <2>2 DEF Sendv
<1> QED
    BY <1>4, <1>5, <1>6 DEF Emit

\* A direct call keeps the invariant, whether it raises or not.
LEMMA SendKeeps ==
    ASSUME HandlerInv, NEW names \in Calls, NEW sendable \in BOOLEAN, Send(names, sendable)
    PROVE  HandlerInv'
<1> USE DEF HandlerInv
<1> DEFINE fields == Located(All(names, <<"call", "args">>))
           e == [handler |-> "none", record |-> "none", fields |-> fields]
<1>1. extra' = extra /\ Sendv("none", "none", sendable, fields)
    BY DEF Send
<1>2. \A d : (Emitted(d) => Emitted(d)') /\ (Refused(d) => Refused(d)') /\ (Called(d) => Called(d)')
    BY <1>1 DEF Emitted, Extras, Refused, Called
<1>3. ASSUME journal' = Append(journal, e), UNCHANGED refused PROVE EntryInv'
    <2>1. Items(journal') = Items(journal) \cup {e} /\ journal' \in Seq(Items(journal'))
        BY <1>3, AppendItems DEF EntryInv
    <2>2. Called(e)
        BY DEF Called
    <2> QED
        BY <1>2, <1>3, <2>1, <2>2 DEF EntryInv
<1>4. ASSUME NEW why, Refuse("none", "none", why) PROVE EntryInv'
    <2> DEFINE x == [handler |-> "none", record |-> "none", why |-> why]
    <2>1. refused' = Append(refused, x) /\ journal' = journal
        BY <1>4 DEF Refuse
    <2>2. Items(refused') = Items(refused) \cup {x} /\ refused' \in Seq(Items(refused'))
        BY <2>1, AppendItems DEF EntryInv
    <2>3. Refused(x)'
        BY DEF Refused
    <2> QED
        BY <1>2, <2>1, <2>2, <2>3 DEF EntryInv
<1>5. EntryInv'
    <2> HIDE DEF fields
    <2> QED
        BY <1>1, <1>3, <1>4 DEF Sendv
<1> QED
    BY <1>1, <1>5 DEF ExtraInv

LEMMA NextHandler ==
    ASSUME HandlerInv, [Next]_vars
    PROVE  HandlerInv'
<1>1. CASE UNCHANGED vars
    BY <1>1 DEF vars, HandlerInv, ExtraInv, EntryInv, Emitted, Extras, Called, Refused
<1> QED
    BY <1>1, ConstructKeeps, EmitKeeps, SendKeeps DEF Next
------------------------------------------------------------------------------
(* The theorems *)

\* The entries of records are those that emit() sent.
LEMMA LoggedAreEmitted ==
    ASSUME HandlerInv
    PROVE  \A e \in Logged : Emitted(e)
BY DEF HandlerInv, EntryInv, Logged, Items, Called

\* The names that a handler was given are valid; what was sent or refused is of a record
\* and a handler that was constructed, or of a direct call; a priority is one of journald's.
THEOREM HandlerTypeOK == Spec => []TypeOK
<1>1. ASSUME HandlerInv PROVE TypeOK
    <2>1. ASSUME NEW h \in DOMAIN extra PROVE DOMAIN extra[h] \subseteq ValidNames
        <3>1. PICK names : names \subseteq ValidNames /\ extra[h] = Constructed(h, names)
            BY <1>1 DEF HandlerInv, ExtraInv
        <3> QED
            BY <3>1, HandlerAssumption DEF Constructed, All, ++
    <2>2. ASSUME NEW e \in Logged
          PROVE  /\ e.handler \in DOMAIN extra /\ e.record \in Records
                 /\ e.fields["PRIORITY"][2] \in 1 .. 7
        <3>1. Emitted(e)
            BY <1>1, LoggedAreEmitted
        <3>2. PICK r, d : r = e.record /\ e.fields = Named(r) ++ d
            BY <3>1 DEF Emitted
        <3>3. "PRIORITY" \in DOMAIN Named(r) /\ Named(r)["PRIORITY"][2] = MapPriority(Level[r])
            <4>1. DOMAIN Named(r) = Keywords \ (IF r \in WithoutFunc THEN {"CODE_FUNC"} ELSE {})
                BY NamedFields, Zenon
            <4>2. Named(r)["PRIORITY"] = <<"logged", MapPriority(Level[r])>>
                BY NamedFields, Zenon
            <4> QED
                BY <4>1, <4>2 DEF Keywords
        <3>4. e.fields["PRIORITY"][2] = MapPriority(Level[r])
            BY <3>2, <3>3 DEF ++
        <3>5. \A n : MapPriority(n) \in 1 .. 7
            BY DEF MapPriority
        <3> QED
            BY <3>1, <3>4, <3>5 DEF Emitted
    <2>3. ASSUME NEW i \in DOMAIN refused
          PROVE  <<refused[i].handler, refused[i].record>>
                    \in ((DOMAIN extra) \X Records) \cup {<<"none", "none">>}
        <3>1. Refused(refused[i])
            BY <1>1 DEF HandlerInv, EntryInv, Items
        <3> QED
            BY <3>1 DEF Refused
    <2>4. DOMAIN extra \subseteq Handlers
        BY <1>1 DEF HandlerInv, ExtraInv
    <2> QED
        BY <2>1, <2>2, <2>3, <2>4 DEF TypeOK
<1> QED
    BY <1>1, InitHandler, NextHandler, PTL DEF Spec

\* No entry carries anything of another record or another handler.
THEOREM HandlerOwnFieldsOnly == Spec => []OwnFieldsOnly
<1>1. ASSUME HandlerInv PROVE OwnFieldsOnly
    <2> SUFFICES ASSUME NEW e \in Logged, NEW f \in DOMAIN e.fields \ {"PRIORITY"}
                 PROVE  e.fields[f] \in {"record", "noted", "logged"} \X {e.record}
                                            \cup {"handler", "argv"} \X {e.handler}
        BY DEF OwnFieldsOnly
    <2> DEFINE named == Named(e.record)
               extras == Extras(e.handler, e.record)
    <2>1. Emitted(e)
        BY <1>1, LoggedAreEmitted
    <2>2. e.fields = named ++ extras
        BY <2>1 DEF Emitted
    <2>3. CASE f \in DOMAIN named
        <3>1. e.fields[f] = named[f]
            BY <2>2, <2>3 DEF ++
        <3>2. \A g \in DOMAIN named \ {"PRIORITY"} : named[g] = <<"logged", e.record>>
            BY NamedFields
        <3> QED
            BY <2>3, <3>1, <3>2
    <2>4. CASE f \in DOMAIN extras \ DOMAIN named
        <3>1. e.fields[f] = extras[f]
            BY <2>2, <2>4 DEF ++
        <3>2. ExtraInv /\ e.handler \in DOMAIN extra
            BY <1>1, <2>1 DEF Emitted, HandlerInv
        <3>3. PICK h, r : h \in DOMAIN extra /\ h = e.handler /\ r = e.record
            BY <3>2
        <3>4. DOMAIN Extras(h, r) = Own[r] \cup DOMAIN Noted(r) \cup DOMAIN extra[h]
            BY ExtrasRecord
        <3>5. Extras(h, r)[f] \in {<<"record", r>>, <<"noted", r>>, <<"handler", h>>, <<"argv", h>>}
            <4>1. CASE f \in Own[r]
                BY <4>1, ExtrasRecord
            <4>2. CASE f \in DOMAIN Noted(r) \ Own[r]
                BY <4>2, ExtrasRecord
            <4>3. CASE f \in DOMAIN extra[h] \ (Own[r] \cup DOMAIN Noted(r))
                BY <3>2, <3>3, <4>3, ExtrasHandler
            <4> QED
                BY <2>4, <3>3, <3>4, <4>1, <4>2, <4>3
        <3> QED
            BY <3>1, <3>3, <3>5
    <2>5. f \in DOMAIN named \cup DOMAIN extras
        BY <2>2 DEF ++
    <2> QED
        BY <2>3, <2>4, <2>5
<1> QED
    BY <1>1, InitHandler, NextHandler, PTL DEF Spec

\* What a record carries is sent as it carries it, and what is noted of it comes
\* before what its handler was given.
THEOREM HandlerRecordBeforeHandler == Spec => []RecordBeforeHandler
<1>1. ASSUME HandlerInv PROVE RecordBeforeHandler
    <2> SUFFICES ASSUME NEW e \in Logged
                 PROVE  /\ Own[e.record] \subseteq DOMAIN e.fields
                        /\ \A f \in Own[e.record] : e.fields[f] = <<"record", e.record>>
                        /\ \A f \in DOMAIN Noted(e.record) : e.fields[f] # <<"handler", e.handler>>
        BY DEF RecordBeforeHandler
    <2>1. PICK h, r : h = e.handler /\ r = e.record
        OBVIOUS
    <2> DEFINE extras == Extras(h, r)
    <2>2. e.fields = Named(r) ++ extras /\ DOMAIN extras \cap Taken = {}
        BY <1>1, <2>1, LoggedAreEmitted DEF Emitted
    <2>3. DOMAIN Named(r) \cap DOMAIN extras = {}
        BY <2>2, NamedFields DEF Taken
    <2>4. /\ DOMAIN extras \subseteq DOMAIN e.fields
          /\ \A f \in DOMAIN extras : e.fields[f] = extras[f]
        BY <2>2, <2>3 DEF ++
    <2>5. DOMAIN extras = Own[r] \cup DOMAIN Noted(r) \cup DOMAIN extra[h]
        BY ExtrasRecord
    <2>6. ASSUME NEW f \in Own[r] PROVE extras[f] = <<"record", r>>
        BY <2>6, ExtrasRecord
    <2>7. ASSUME NEW f \in DOMAIN Noted(r) \ Own[r] PROVE extras[f] = <<"noted", r>>
        BY <2>7, ExtrasRecord
    <2> HIDE DEF extras
    <2> QED
        BY <2>1, <2>4, <2>5, <2>6, <2>7
<1> QED
    BY <1>1, InitHandler, NextHandler, PTL DEF Spec

\* The location of an entry is of one place.
THEOREM HandlerOneLocation == Spec => []OneLocation
<1> DEFINE Located1(fields) ==
        \E place : {fields[f] : f \in Location \cap DOMAIN fields} = {place}
<1>1. ASSUME HandlerInv, NEW e, Emitted(e) PROVE Located1(e.fields)
    <2> DEFINE named == Named(e.record)
               extras == Extras(e.handler, e.record)
    <2>1. e.fields = named ++ extras /\ DOMAIN extras \cap Taken = {}
        BY <1>1 DEF Emitted
    <2>2. DOMAIN extras \cap Location = {}
        BY <2>1 DEF Taken, Keywords
    <2>3. \A f \in Location \cap DOMAIN e.fields : f \in DOMAIN named /\ e.fields[f] = named[f]
        BY <2>1, <2>2 DEF ++
    <2>4. \A f \in Location \cap DOMAIN e.fields : e.fields[f] = <<"logged", e.record>>
        BY <2>3, NamedFields DEF Location
    <2>5. "CODE_FILE" \in Location \cap DOMAIN e.fields
        <3>1. "CODE_FILE" \in DOMAIN named
            BY NamedFields DEF Keywords, Location
        <3> QED
            BY <2>1, <3>1 DEF Location, ++
    <2> QED
        BY <2>4, <2>5
<1>2. ASSUME NEW e, Called(e) PROVE Located1(e.fields)
    <2>1. PICK names \in Calls : e.fields = Located(All(names, <<"call", "args">>))
        BY <1>2 DEF Called
    <2>2. CASE Location \cap names = {}
        <3>1. e.fields = All(names, <<"call", "args">>) ++ All(Location, <<"stack", "caller">>)
            BY <2>1, <2>2 DEF Located, All
        <3>2. \A f \in Location \cap DOMAIN e.fields : e.fields[f] = <<"stack", "caller">>
            BY <2>2, <3>1 DEF All, ++
        <3>3. "CODE_FILE" \in Location \cap DOMAIN e.fields
            BY <3>1 DEF Location, All, ++
        <3> QED
            BY <3>2, <3>3
    <2>3. CASE Location \cap names # {}
        <3>1. e.fields = All(names, <<"call", "args">>)
            BY <2>1, <2>3 DEF Located, All
        <3>2. \A f \in Location \cap DOMAIN e.fields : e.fields[f] = <<"call", "args">>
            BY <3>1 DEF All
        <3>3. \E f : f \in Location \cap DOMAIN e.fields
            BY <2>3, <3>1 DEF All
        <3> QED
            BY <3>2, <3>3
    <2> QED
        BY <2>2, <2>3
<1>3. ASSUME HandlerInv PROVE OneLocation
    <2> SUFFICES ASSUME NEW e \in Sent
                 PROVE  Cardinality({e.fields[f] : f \in Location \cap DOMAIN e.fields}) = 1
        BY DEF OneLocation
    <2>1. Emitted(e) \/ Called(e)
        BY <1>3 DEF HandlerInv, EntryInv, Sent, Items
    <2>2. Located1(e.fields)
        BY <1>1, <1>2, <1>3, <2>1
    <2> QED
        BY <2>2, FS_Singleton
<1> QED
    BY <1>3, InitHandler, NextHandler, PTL DEF Spec

\* Entries of higher levels are as urgent, and a level with a name has the
\* priority of that name.
THEOREM HandlerPrioritiesOrdered == Spec => []PrioritiesOrdered
<1>1. \A r \in Records : Level[r] \in Int
    BY HandlerAssumption
<1>2. ASSUME HandlerInv, NEW e \in Logged
      PROVE  e.record \in Records /\ e.fields["PRIORITY"][2] = MapPriority(Level[e.record])
    <2>1. /\ e.record \in Records
          /\ e.fields = Named(e.record) ++ Extras(e.handler, e.record)
        BY <1>2, LoggedAreEmitted DEF Emitted
    <2>2. "PRIORITY" \in DOMAIN Named(e.record)
        BY NamedFields DEF Keywords
    <2>3. e.fields["PRIORITY"] = Named(e.record)["PRIORITY"]
        BY <2>1, <2>2 DEF ++
    <2>4. Named(e.record)["PRIORITY"] = <<"logged", MapPriority(Level[e.record])>>
        BY NamedFields
    <2> QED
        BY <2>1, <2>3, <2>4
<1>3. \A m, n \in Int : m <= n => MapPriority(m) >= MapPriority(n)
    BY DEF MapPriority
<1>4. /\ MapPriority(10) = 7 /\ MapPriority(20) = 6 /\ MapPriority(30) = 4
      /\ MapPriority(40) = 3 /\ MapPriority(50) = 2
    BY DEF MapPriority
<1>5. ASSUME HandlerInv PROVE PrioritiesOrdered
    BY <1>1, <1>2, <1>3, <1>4, <1>5 DEF PrioritiesOrdered
<1> QED
    BY <1>5, InitHandler, NextHandler, PTL DEF Spec
==============================================================================
