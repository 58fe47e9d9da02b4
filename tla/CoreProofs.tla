----------------------------- MODULE CoreProofs -----------------------------
(***************************************************************************)
(* Proofs about core, for every set of addresses, names, isolates,         *)
(* libraries, modules, buffers and list items and every bound: the events  *)
(* and libraries, the context of the modules, the buffers of memory and    *)
(* the linked lists.                                                       *)
(***************************************************************************)
EXTENDS MCCore, FiniteSetTheorems, SequenceTheorems, WellFoundedInduction, TLAPS

-----------------------------------------------------------------------------
(* Who owns an event. *)

EventTypes ==
  /\ heap \in [Address -> EventRecord \cup {NULL}]
  /\ localEvent \in Address \cup {NULL}
  /\ tasks \subseteq Address /\ lost \subseteq Address
  /\ call \in Nat /\ unchecked \in Nat

\* EventsOwned, address by address.
Owners ==
  /\ \A x \in Address : heap[x] # NULL <=> x = localEvent \/ x \in tasks \/ x \in lost
  /\ \A x \in Address : ~(x = localEvent /\ x \in tasks) /\ ~(x = localEvent /\ x \in lost)
                        /\ ~(x \in tasks /\ x \in lost)

\* The event the isolate holds is that of the last call it did not check.
LocalIsUnchecked == localEvent # NULL => heap[localEvent].call = unchecked

DraftLevel == draft # NULL => draft.level \in EventLevel

OwnersInv == EventTypes /\ Owners /\ LocalIsUnchecked /\ E!RaisedIsOwn /\ DraftLevel

LEMMA OwnersMean ==
  ASSUME EventTypes, Owners
  PROVE  E!EventsOwned
<1>1. NULL \notin Address
  BY EventsAssumption
<1>2. {a \in Address : heap[a] # NULL} = ({localEvent} \ {NULL}) \cup tasks \cup lost
  BY <1>1 DEF EventTypes, Owners
<1>3. ({localEvent} \ {NULL}) \cap tasks = {} /\ (({localEvent} \ {NULL}) \cup tasks) \cap lost = {}
  BY <1>1 DEF EventTypes, Owners
<1>4. QED
  BY <1>2, <1>3 DEF E!EventsOwned

\* calloc gives an address nobody owns.
LEMMA CallocIsFree ==
  ASSUME EventTypes, Owners, E!HasMemory
  PROVE  /\ E!Calloc \in Address /\ heap[E!Calloc] = NULL
         /\ E!Calloc # localEvent /\ E!Calloc \notin tasks /\ E!Calloc \notin lost
<1>1. E!Calloc \in Address /\ heap[E!Calloc] = NULL
  BY DEF E!HasMemory, E!Calloc
<1>2. QED
  BY <1>1 DEF Owners

\* The finished event lies at the address of calloc.
LEMMA FinishedIs ==
  ASSUME EventTypes, Owners, E!HasMemory, draft.level \in EventLevel, NEW formatted
  PROVE  \E r \in EventRecord :
           r.call = call /\ E!Finished(formatted) = [heap EXCEPT ![E!Calloc] = r]
<1> DEFINE t == E!event_field_is(E!event_put_stack_trace(draft.fields, formatted), "stack-trace", "string")
           r == [level |-> draft.level, call |-> call, traced |-> t]
<1>1. t \in BOOLEAN
  BY DEF E!event_field_is
<1>2. E!Finished(formatted) = [heap EXCEPT ![E!Calloc] = r]
  BY DEF E!Finished
<1> HIDE DEF t
<1>3. r \in EventRecord /\ r.call = call
  BY <1>1 DEF EventRecord, EventTypes
<1>4. QED
  BY <1>2, <1>3

\* A step that hands over no event and destroys none.
LEMMA QuietOwners ==
  ASSUME OwnersInv, UNCHANGED <<heap, localEvent, tasks, lost, unchecked, raised>>,
         call' \in Nat, DraftLevel'
  PROVE  OwnersInv'
  BY DEF OwnersInv, EventTypes, Owners, LocalIsUnchecked, E!RaisedIsOwn

\* Native code is given the event and fills it; nobody owns it yet.
LEMMA BuildOwners ==
  ASSUME OwnersInv, E!Build
  PROVE  OwnersInv'
<1>1. PICK level \in EventLevel : \E fields : E!event_build(level, fields)
  BY DEF E!Build, EventLevel
<1>2. PICK fields : E!event_build(level, fields)
  BY <1>1
<1>3. /\ UNCHANGED <<heap, localEvent, tasks, lost, unchecked, raised>>
      /\ call' = call + 1 /\ draft' = [level |-> level, fields |-> fields]
  BY <1>2 DEF E!event_build
<1>4. call' \in Nat
  BY <1>3 DEF OwnersInv, EventTypes
<1>5. DraftLevel'
  BY <1>3 DEF DraftLevel
<1>6. QED
  BY <1>3, <1>4, <1>5, QuietOwners

\* Setters and getters, the ends of the process, and the crash handler.
LEMMA DraftOwners ==
  ASSUME OwnersInv,
         \/ \E name \in Name, type \in Type : E!SetField(name, type) \/ E!GetField(name, type)
         \/ E!NoRoom \/ E!system_raise_event
         \/ \E signal \in {"SIGILL", "SIGBUS", "SIGFPE", "SIGSEGV"}, named, addressed \in BOOLEAN :
              E!crash_signal_callback(signal, named, addressed)
  PROVE  OwnersInv'
<1>1. /\ UNCHANGED <<heap, localEvent, tasks, lost, call, unchecked, raised>>
      /\ \/ draft' = draft
         \/ draft # NULL /\ \E fields : draft' = [draft EXCEPT !.fields = fields]
         \/ \E fields : draft' = [level |-> "panic", fields |-> fields]
  <2>1. ASSUME NEW name \in Name, NEW type \in Type, E!SetField(name, type)
        PROVE  /\ UNCHANGED <<heap, localEvent, tasks, lost, call, unchecked, raised>>
               /\ \/ draft' = draft
                  \/ draft # NULL /\ \E fields : draft' = [draft EXCEPT !.fields = fields]
    BY <2>1 DEF E!SetField
  <2>2. ASSUME NEW name \in Name, NEW type \in Type, E!GetField(name, type)
        PROVE  UNCHANGED <<heap, draft, localEvent, tasks, lost, call, unchecked, raised>>
    BY <2>2 DEF E!GetField, E!handed
  <2>3. ASSUME E!NoRoom \/ E!system_raise_event
        PROVE  UNCHANGED <<heap, draft, localEvent, tasks, lost, call, unchecked, raised>>
    BY <2>3 DEF E!NoRoom, E!system_raise_event, E!handed
  <2>4. ASSUME NEW signal, NEW named, NEW addressed,
               E!crash_signal_callback(signal, named, addressed)
        PROVE  /\ UNCHANGED <<heap, localEvent, tasks, lost, call, unchecked, raised>>
               /\ \E fields : draft' = [level |-> "panic", fields |-> fields]
    BY <2>4 DEF E!crash_signal_callback, E!handed
  <2>5. QED
    BY <2>1, <2>2, <2>3, <2>4
<1>2. call' \in Nat
  BY <1>1 DEF OwnersInv, EventTypes
<1>3. DraftLevel'
  <2>1. CASE draft' = draft
    BY <2>1 DEF OwnersInv, DraftLevel
  <2>2. CASE draft # NULL /\ \E fields : draft' = [draft EXCEPT !.fields = fields]
    BY <2>2 DEF OwnersInv, DraftLevel
  <2>3. CASE \E fields : draft' = [level |-> "panic", fields |-> fields]
    BY <2>3 DEF DraftLevel, EventLevel
  <2>4. QED
    BY <1>1, <2>1, <2>2, <2>3
<1>4. QED
  BY <1>1, <1>2, <1>3, QuietOwners

LEMMA ReportUncheckedOwners ==
  ASSUME OwnersInv, NEW formatted, E!ReportUnchecked(formatted)
  PROVE  OwnersInv'
<1> DEFINE b == E!Calloc
<1>1. EventTypes /\ Owners /\ E!HasMemory /\ draft.level \in EventLevel
  BY DEF OwnersInv, E!ReportUnchecked, E!Fits, DraftLevel
<1>2. b \in Address /\ heap[b] = NULL /\ b # localEvent /\ b \notin tasks /\ b \notin lost
  BY <1>1, CallocIsFree
<1>3. PICK r \in EventRecord : r.call = call /\ E!Finished(formatted) = [heap EXCEPT ![b] = r]
  BY <1>1, FinishedIs
<1>4. PICK a \in Address : a = b
  BY <1>2
<1> HIDE DEF b
<1>5. /\ heap' = [heap EXCEPT ![a] = r] /\ localEvent' = a
      /\ lost' = lost \cup ({localEvent} \ {NULL}) /\ unchecked' = call
      /\ tasks' = tasks /\ call' = call /\ raised' = raised /\ draft' = NULL
  BY <1>3, <1>4 DEF E!ReportUnchecked, E!_produce, E!Done, b
<1>6. r # NULL /\ NULL \notin Address
  BY EventsAssumption
<1>7. /\ heap' \in [Address -> EventRecord \cup {NULL}]
      /\ heap'[a] = r /\ \A x \in Address \ {a} : heap'[x] = heap[x]
  BY <1>1, <1>5 DEF EventTypes
<1>8. EventTypes'
  BY <1>1, <1>5, <1>7 DEF EventTypes
<1>9. Owners'
  BY <1>1, <1>2, <1>4, <1>5, <1>6, <1>7 DEF Owners, EventTypes
<1>10. LocalIsUnchecked'
  BY <1>3, <1>5, <1>7 DEF LocalIsUnchecked
<1>11. E!RaisedIsOwn' /\ DraftLevel'
  BY <1>5 DEF OwnersInv, E!RaisedIsOwn, DraftLevel
<1>12. QED
  BY <1>8, <1>9, <1>10, <1>11 DEF OwnersInv

LEMMA ReportCheckedOwners ==
  ASSUME OwnersInv, NEW formatted, E!ReportChecked(formatted)
  PROVE  OwnersInv'
<1> DEFINE b == E!Calloc
<1>1. EventTypes /\ Owners /\ E!HasMemory /\ draft.level \in EventLevel
  BY DEF OwnersInv, E!ReportChecked, E!Fits, DraftLevel
<1>2. b \in Address /\ heap[b] = NULL /\ b # localEvent /\ b \notin tasks /\ b \notin lost
  BY <1>1, CallocIsFree
<1>3. PICK r \in EventRecord : r.call = call /\ E!Finished(formatted) = [heap EXCEPT ![b] = r]
  BY <1>1, FinishedIs
<1>4. PICK a \in Address : a = b
  BY <1>2
<1> HIDE DEF b
<1>5. /\ heap' = [[heap EXCEPT ![a] = r] EXCEPT ![a] = NULL]
      /\ raised' = [for |-> call, event |-> [heap EXCEPT ![a] = r][a].call, unchecked |-> unchecked]
      /\ localEvent' = NULL /\ lost' = lost \cup ({localEvent} \ {NULL})
      /\ unchecked' = unchecked /\ tasks' = tasks /\ call' = call /\ draft' = NULL
  BY <1>3, <1>4 DEF E!ReportChecked, E!_produce, E!Done, E!Raise, E!Raised, E!consumed, b
<1>6. NULL \notin Address
  BY EventsAssumption
<1>7. heap' \in [Address -> EventRecord \cup {NULL}] /\ \A x \in Address : heap'[x] = heap[x]
  BY <1>1, <1>2, <1>4, <1>5 DEF EventTypes
<1>8. EventTypes'
  BY <1>1, <1>5, <1>7 DEF EventTypes
<1>9. Owners'
  BY <1>1, <1>5, <1>6, <1>7 DEF Owners, EventTypes
<1>10. LocalIsUnchecked' /\ DraftLevel'
  BY <1>5 DEF LocalIsUnchecked, DraftLevel
<1>11. [heap EXCEPT ![a] = r][a] = r
  BY <1>1 DEF EventTypes
<1>12. E!RaisedIsOwn'
  BY <1>3, <1>5, <1>11 DEF E!RaisedIsOwn
<1>13. QED
  BY <1>8, <1>9, <1>10, <1>12 DEF OwnersInv

LEMMA NullUnreportedOwners ==
  ASSUME OwnersInv, E!NullUnreported
  PROVE  OwnersInv'
<1>1. EventTypes /\ Owners /\ LocalIsUnchecked /\ NULL \notin Address
  BY EventsAssumption DEF OwnersInv
<1>2. /\ call' = call + 1 /\ draft' = draft /\ tasks' = tasks /\ lost' = lost
      /\ unchecked' = unchecked
      /\ \/ /\ raised' = [for |-> call', event |-> call', unchecked |-> unchecked]
            /\ UNCHANGED <<heap, localEvent>>
         \/ /\ localEvent # NULL
            /\ raised' = [for |-> call', event |-> heap[localEvent].call, unchecked |-> unchecked]
            /\ heap' = [heap EXCEPT ![localEvent] = NULL] /\ localEvent' = NULL
  BY DEF E!NullUnreported, E!Raised, E!Raise, E!consumed
<1>3. call' \in Nat /\ DraftLevel'
  BY <1>1, <1>2 DEF EventTypes, OwnersInv, DraftLevel
<1>4. CASE UNCHANGED <<heap, localEvent>>
            /\ raised' = [for |-> call', event |-> call', unchecked |-> unchecked]
  BY <1>1, <1>2, <1>3, <1>4 DEF OwnersInv, EventTypes, Owners, LocalIsUnchecked, E!RaisedIsOwn
<1>5. CASE /\ localEvent # NULL
           /\ raised' = [for |-> call', event |-> heap[localEvent].call, unchecked |-> unchecked]
           /\ heap' = [heap EXCEPT ![localEvent] = NULL] /\ localEvent' = NULL
  <2>1. localEvent \in Address /\ heap[localEvent].call = unchecked
    BY <1>1, <1>5 DEF EventTypes, LocalIsUnchecked
  <2>2. /\ heap' \in [Address -> EventRecord \cup {NULL}] /\ heap'[localEvent] = NULL
        /\ \A x \in Address \ {localEvent} : heap'[x] = heap[x]
    BY <1>1, <1>5, <2>1 DEF EventTypes
  <2>3. EventTypes'
    BY <1>1, <1>2, <1>3, <1>5, <2>2 DEF EventTypes
  <2>4. Owners'
    BY <1>1, <1>2, <1>5, <2>1, <2>2 DEF Owners
  <2>5. LocalIsUnchecked' /\ E!RaisedIsOwn'
    BY <1>5, <2>1 DEF LocalIsUnchecked, E!RaisedIsOwn
  <2>6. QED
    BY <1>3, <2>3, <2>4, <2>5 DEF OwnersInv
<1>6. QED
  BY <1>2, <1>4, <1>5

LEMMA ErrnoReturnedOwners ==
  ASSUME OwnersInv, E!ErrnoReturned
  PROVE  OwnersInv'
<1>1. /\ UNCHANGED <<heap, draft, localEvent, tasks, lost, unchecked>> /\ call' = call + 1
      /\ raised' = [for |-> call', event |-> call', unchecked |-> unchecked]
  BY DEF E!ErrnoReturned, E!Raised
<1>2. E!RaisedIsOwn'
  BY <1>1 DEF E!RaisedIsOwn
<1>3. QED
  BY <1>1, <1>2 DEF OwnersInv, EventTypes, Owners, LocalIsUnchecked, DraftLevel

LEMMA DiagnosticEventOwners ==
  ASSUME OwnersInv, NEW payload, NEW formatted \in BOOLEAN, E!DiagnosticEvent(payload, formatted)
  PROVE  OwnersInv'
<1> DEFINE b == E!Calloc
<1>1. EventTypes /\ Owners /\ E!HasMemory /\ NULL \notin Address
  BY EventsAssumption DEF OwnersInv, E!DiagnosticEvent
<1>2. b \in Address /\ heap[b] = NULL /\ b # localEvent /\ b \notin tasks /\ b \notin lost
  BY <1>1, CallocIsFree
<1>3. PICK a \in Address : a = b
  BY <1>2
<1> DEFINE r == [level |-> "error", call |-> call', traced |-> formatted]
<1>4. /\ call' = call + 1 /\ UNCHANGED <<draft, localEvent, lost, unchecked, raised>>
      /\ \/ UNCHANGED <<heap, tasks>>
         \/ heap' = [heap EXCEPT ![b] = r] /\ tasks' = tasks \cup {b}
  BY DEF E!DiagnosticEvent
<1> HIDE DEF b
<1>5. call' \in Nat /\ DraftLevel'
  BY <1>1, <1>4 DEF EventTypes, OwnersInv, DraftLevel
<1>6. r \in EventRecord /\ r # NULL
  <2>1. r \in EventRecord
    BY <1>5 DEF EventRecord, EventLevel
  <2>2. QED
    BY <2>1, EventsAssumption
<1> HIDE DEF r
<1>7. CASE UNCHANGED <<heap, tasks>>
  BY <1>4, <1>5, <1>7, QuietOwners
<1>8. CASE heap' = [heap EXCEPT ![b] = r] /\ tasks' = tasks \cup {b}
  <2>1. /\ heap' \in [Address -> EventRecord \cup {NULL}]
        /\ heap'[a] = r /\ \A x \in Address \ {a} : heap'[x] = heap[x]
    BY <1>1, <1>3, <1>6, <1>8 DEF EventTypes
  <2>2. EventTypes'
    BY <1>1, <1>3, <1>4, <1>5, <1>8, <2>1 DEF EventTypes
  <2>3. Owners'
    BY <1>1, <1>2, <1>3, <1>4, <1>6, <1>8, <2>1 DEF Owners, EventTypes
  <2>4. LocalIsUnchecked' /\ E!RaisedIsOwn'
    BY <1>1, <1>2, <1>3, <1>4, <2>1 DEF OwnersInv, LocalIsUnchecked, E!RaisedIsOwn, EventTypes
  <2>5. QED
    BY <1>5, <2>2, <2>3, <2>4 DEF OwnersInv
<1>9. QED
  BY <1>4, <1>7, <1>8

LEMMA TaskFailsOwners ==
  ASSUME OwnersInv, NEW a \in Address, E!TaskFails(a)
  PROVE  OwnersInv'
<1>1. EventTypes /\ Owners /\ NULL \notin Address
  BY EventsAssumption DEF OwnersInv
<1>2. /\ a \in tasks /\ tasks' = tasks \ {a} /\ heap' = [heap EXCEPT ![a] = NULL]
      /\ raised' = [for |-> heap[a].call, event |-> heap[a].call, unchecked |-> unchecked]
      /\ UNCHANGED <<draft, localEvent, lost, call, unchecked>>
  BY DEF E!TaskFails, E!Raised, E!Raise
<1>3. /\ heap' \in [Address -> EventRecord \cup {NULL}]
      /\ heap'[a] = NULL /\ \A x \in Address \ {a} : heap'[x] = heap[x]
  BY <1>1, <1>2 DEF EventTypes
<1>4. EventTypes'
  BY <1>1, <1>2, <1>3 DEF EventTypes
<1>5. Owners'
  BY <1>1, <1>2, <1>3 DEF Owners
<1>6. LocalIsUnchecked'
  BY <1>1, <1>2, <1>3 DEF OwnersInv, LocalIsUnchecked, EventTypes, Owners
<1>7. E!RaisedIsOwn' /\ DraftLevel'
  BY <1>2 DEF E!RaisedIsOwn, DraftLevel, OwnersInv
<1>8. QED
  BY <1>4, <1>5, <1>6, <1>7 DEF OwnersInv

LEMMA PrintOwners ==
  ASSUME OwnersInv, NEW silent, E!system_print_event(silent)
  PROVE  OwnersInv'
<1> DEFINE b == E!Calloc
<1>1. EventTypes /\ Owners /\ draft.level \in EventLevel /\ NULL \notin Address
  BY EventsAssumption DEF OwnersInv, E!system_print_event, DraftLevel
<1>2. /\ draft' = NULL /\ UNCHANGED <<localEvent, tasks, call, unchecked, raised>>
      /\ \/ UNCHANGED <<heap, lost>>
         \/ E!HasMemory /\ heap' = E!Finished(FALSE) /\ lost' = lost \cup {b}
  BY DEF E!system_print_event, E!Done, E!Fits
<1>3. call' \in Nat /\ DraftLevel'
  BY <1>1, <1>2 DEF EventTypes, DraftLevel
<1>4. CASE UNCHANGED <<heap, lost>>
  BY <1>2, <1>3, <1>4, QuietOwners
<1>5. CASE E!HasMemory /\ heap' = E!Finished(FALSE) /\ lost' = lost \cup {b}
  <2>1. b \in Address /\ heap[b] = NULL /\ b # localEvent /\ b \notin tasks /\ b \notin lost
    BY <1>1, <1>5, CallocIsFree
  <2>2. PICK r \in EventRecord : r.call = call /\ E!Finished(FALSE) = [heap EXCEPT ![b] = r]
    BY <1>1, <1>5, FinishedIs
  <2>3. PICK a \in Address : a = b
    BY <2>1
  <2> HIDE DEF b
  <2>4. r # NULL
    BY EventsAssumption
  <2>10. heap' = [heap EXCEPT ![a] = r] /\ heap \in [Address -> EventRecord \cup {NULL}]
    BY <1>1, <1>5, <2>2, <2>3 DEF EventTypes
  <2>5. /\ heap' \in [Address -> EventRecord \cup {NULL}]
        /\ heap'[a] = r /\ \A x \in Address \ {a} : heap'[x] = heap[x]
    BY <2>10
  <2>6. EventTypes'
    BY <1>1, <1>2, <1>3, <1>5, <2>3, <2>5 DEF EventTypes
  <2>7. Owners'
    BY <1>1, <1>2, <1>5, <2>1, <2>3, <2>4, <2>5 DEF Owners, EventTypes
  <2>8. LocalIsUnchecked' /\ E!RaisedIsOwn'
    BY <1>1, <1>2, <2>1, <2>3, <2>5 DEF OwnersInv, LocalIsUnchecked, E!RaisedIsOwn, EventTypes
  <2>9. QED
    BY <1>3, <2>6, <2>7, <2>8 DEF OwnersInv
<1>6. QED
  BY <1>2, <1>4, <1>5

-----------------------------------------------------------------------------
(* The fields of an event. *)

\* No name twice.
WellFormed(fields) ==
  /\ fields \in Seq(Field)
  /\ \A i, j \in 1 .. Len(fields) : fields[i].name = fields[j].name => i = j

\* The dictionary m is what the fields stand for.
Describes(m, fields) ==
  /\ DOMAIN m = {fields[i].name : i \in 1 .. Len(fields)}
  /\ \A i \in 1 .. Len(fields) : m[fields[i].name] = fields[i].type

LEMMA FindField ==
  ASSUME NEW fields, WellFormed(fields), NEW n
  PROVE  LET i == E!event_find_field(fields, n) IN
           \/ i = 0 /\ \A j \in 1 .. Len(fields) : fields[j].name # n
           \/ i \in 1 .. Len(fields) /\ i # 0 /\ fields[i].name = n
<1> DEFINE I == {i \in 1 .. Len(fields) : fields[i].name = n}
<1>1. E!event_find_field(fields, n) = IF I = {} THEN 0 ELSE E!Min(I)
  <2>1. DOMAIN fields = 1 .. Len(fields)
    BY DEF WellFormed
  <2>2. I = {i \in DOMAIN fields : fields[i].name = n}
    BY <2>1, Zenon
  <2>3. QED
    BY <2>2, Zenon DEF E!event_find_field
<1>2. CASE I = {}
  BY <1>1, <1>2
<1>3. CASE I # {}
  <2>1. PICK i \in 1 .. Len(fields) : fields[i].name = n
    BY <1>3
  <2>2. I = {i} /\ i \in Int /\ i # 0
    BY <2>1 DEF WellFormed
  <2> HIDE DEF I
  <2>3. E!Min(I) = i
    BY <2>2 DEF E!Min
  <2>4. QED
    BY <1>1, <1>3, <2>1, <2>2, <2>3
<1>4. QED
  BY <1>2, <1>3

\* The fields after name was set to type.
SetTo(after, fields, name, type) ==
  /\ after # Exit /\ WellFormed(after)
  /\ Len(after) <= FieldsMaximum /\ Len(after) <= Len(fields) + 1
  /\ {after[i].name : i \in 1 .. Len(after)} = {fields[i].name : i \in 1 .. Len(fields)} \cup {name}
  /\ \A i \in 1 .. Len(after) :
       \/ after[i].name = name /\ after[i].type = type
       \/ after[i].name # name /\ i \in 1 .. Len(fields) /\ after[i] = fields[i]

\* A field is set in its place or at the end, and only a full event ends the
\* process.
LEMMA SetKeeps ==
  ASSUME NEW fields, WellFormed(fields), Len(fields) <= FieldsMaximum,
         NEW name \in FieldName, NEW type \in FieldType
  PROVE  \/ E!event_set(fields, name, type) = Exit /\ Len(fields) = FieldsMaximum
         \/ SetTo(E!event_set(fields, name, type), fields, name, type)
<1> DEFINE k == E!event_find_field(fields, name)
           after == E!event_set(fields, name, type)
           new == [name |-> name, type |-> type]
<1>1. fields \in Seq(Field) /\ Len(fields) \in Nat /\ fields # Exit
      /\ DOMAIN fields = 1 .. Len(fields) /\ FieldsMaximum \in Nat
  BY EventsAssumption DEF WellFormed
<1>2. after = IF k # 0 THEN [fields EXCEPT ![k].type = type]
              ELSE IF Len(fields) = FieldsMaximum THEN Exit ELSE Append(fields, new)
  BY <1>1 DEF E!event_set, E!event_set_field
<1>3. \/ k = 0 /\ \A j \in 1 .. Len(fields) : fields[j].name # name
      \/ k \in 1 .. Len(fields) /\ k # 0 /\ fields[k].name = name
  BY FindField
<1>4. new \in Field /\ new.name = name /\ new.type = type
  BY DEF Field
<1> HIDE DEF k, after, new
<1>5. CASE k \in 1 .. Len(fields) /\ k # 0 /\ fields[k].name = name
  <2>1. after = [fields EXCEPT ![k] = [fields[k] EXCEPT !.type = type]]
    BY <1>2, <1>5
  <2>2. fields[k] \in Field
    BY <1>1, <1>5
  <2>3. PICK f \in Field : f = [fields[k] EXCEPT !.type = type]
    BY <2>2 DEF Field
  <2>4. f.name = name /\ f.type = type
    BY <1>5, <2>2, <2>3 DEF Field
  <2>5. /\ after \in Seq(Field) /\ Len(after) = Len(fields) /\ after[k] = f
        /\ \A i \in 1 .. Len(fields) : i # k => after[i] = fields[i]
    BY <1>1, <1>5, <2>1, <2>3
  <2>6. \A i \in 1 .. Len(fields) : after[i].name = fields[i].name
    BY <1>5, <2>4, <2>5
  <2>7. WellFormed(after)
    BY <2>5, <2>6 DEF WellFormed
  <2>8. after # Exit
    BY <2>5, EventsAssumption
  <2>9. {after[i].name : i \in 1 .. Len(after)}
          = {fields[i].name : i \in 1 .. Len(fields)} \cup {name}
    BY <1>5, <2>5, <2>6
  <2>10. ASSUME NEW i \in 1 .. Len(after)
         PROVE  \/ after[i].name = name /\ after[i].type = type
                \/ after[i].name # name /\ i \in 1 .. Len(fields) /\ after[i] = fields[i]
    BY <1>5, <2>4, <2>5, <2>6 DEF WellFormed
  <2>13. Len(after) <= FieldsMaximum /\ Len(after) <= Len(fields) + 1
    <3>1. Len(after) = Len(fields)
      BY <2>5
    <3>2. Len(fields) \in Nat /\ FieldsMaximum \in Nat
      BY <1>1
    <3>3. QED
      BY <3>1, <3>2
  <2>11. SetTo(after, fields, name, type)
    BY <2>7, <2>8, <2>9, <2>10, <2>13 DEF SetTo
  <2>12. QED
    BY <2>11 DEF after
<1>6. CASE k = 0 /\ Len(fields) = FieldsMaximum
  BY <1>2, <1>6 DEF after
<1>7. CASE k = 0 /\ Len(fields) # FieldsMaximum
  <2>1. after = Append(fields, new) /\ \A j \in 1 .. Len(fields) : fields[j].name # name
    BY <1>2, <1>3, <1>7
  <2>2. /\ after \in Seq(Field) /\ Len(after) = Len(fields) + 1 /\ after[Len(fields) + 1] = new
        /\ \A i \in 1 .. Len(fields) : after[i] = fields[i]
    BY <1>1, <1>4, <2>1
  <2>3. WellFormed(after)
    BY <1>1, <1>4, <2>1, <2>2 DEF WellFormed
  <2>4. after # Exit
    BY <2>2, EventsAssumption
  <2>5. {after[i].name : i \in 1 .. Len(after)}
          = {fields[i].name : i \in 1 .. Len(fields)} \cup {name}
    BY <1>1, <1>4, <2>2
  <2>6. ASSUME NEW i \in 1 .. Len(after)
        PROVE  \/ after[i].name = name /\ after[i].type = type
               \/ after[i].name # name /\ i \in 1 .. Len(fields) /\ after[i] = fields[i]
    BY <1>1, <1>4, <2>1, <2>2
  <2>7. Len(after) <= FieldsMaximum /\ Len(after) <= Len(fields) + 1
    <3>1. Len(after) = Len(fields) + 1
      BY <2>2
    <3>2. Len(fields) \in Nat /\ FieldsMaximum \in Nat /\ Len(fields) # FieldsMaximum
      BY <1>1, <1>7
    <3>3. QED
      BY <3>1, <3>2
  <2>8. SetTo(after, fields, name, type)
    BY <2>3, <2>4, <2>5, <2>6, <2>7 DEF SetTo
  <2>9. QED
    BY <2>8 DEF after
<1>8. QED
  BY <1>3, <1>5, <1>6, <1>7

LEMMA SetDescribes ==
  ASSUME NEW fields, WellFormed(fields), Len(fields) <= FieldsMaximum,
         NEW name \in FieldName, NEW type \in FieldType, NEW m, Describes(m, fields),
         E!event_set(fields, name, type) # Exit
  PROVE  Describes([n \in DOMAIN m \cup {name} |-> IF n = name THEN type ELSE m[n]],
                   E!event_set(fields, name, type))
<1> DEFINE after == E!event_set(fields, name, type)
           d == [n \in DOMAIN m \cup {name} |-> IF n = name THEN type ELSE m[n]]
<1>1. /\ {after[i].name : i \in 1 .. Len(after)}
            = {fields[i].name : i \in 1 .. Len(fields)} \cup {name}
      /\ \A i \in 1 .. Len(after) :
            \/ after[i].name = name /\ after[i].type = type
            \/ after[i].name # name /\ i \in 1 .. Len(fields) /\ after[i] = fields[i]
  <2>1. SetTo(after, fields, name, type)
    BY SetKeeps
  <2> HIDE DEF after
  <2>2. QED
    BY <2>1 DEF SetTo
<1> HIDE DEF after
<1>2. DOMAIN d = {after[i].name : i \in 1 .. Len(after)}
  BY <1>1 DEF Describes
<1>3. ASSUME NEW i \in 1 .. Len(after) PROVE d[after[i].name] = after[i].type
  <2>1. CASE after[i].name = name /\ after[i].type = type
    BY <2>1
  <2>2. CASE after[i].name # name /\ i \in 1 .. Len(fields) /\ after[i] = fields[i]
    <3>1. fields[i].name \in DOMAIN m /\ m[fields[i].name] = fields[i].type
      BY <2>2 DEF Describes
    <3>2. QED
      BY <2>2, <3>1
  <2>3. QED
    BY <1>1, <2>1, <2>2
<1> HIDE DEF d
<1>4. Describes(d, after)
  BY <1>2, <1>3 DEF Describes
<1>5. QED
  BY <1>4 DEF d, after

LEMMA DictionaryDescribes ==
  ASSUME NEW fields, WellFormed(fields)
  PROVE  Describes(E!Dictionary(fields), fields)
<1> DEFINE D == E!Dictionary(fields)
           at(n) == CHOOSE i \in DOMAIN fields : fields[i].name = n
<1>1. DOMAIN fields = 1 .. Len(fields)
  BY DEF WellFormed
<1>2. D = [n \in {fields[i].name : i \in DOMAIN fields} |-> fields[at(n)].type]
  BY DEF E!Dictionary
<1>3. ASSUME NEW i \in 1 .. Len(fields) PROVE at(fields[i].name) = i
  BY <1>1 DEF WellFormed
<1> HIDE DEF at, D
<1>4. QED
  BY <1>1, <1>2, <1>3 DEF Describes, D

\* What the getters find.
LEMMA GetFinds ==
  ASSUME NEW fields, WellFormed(fields), NEW m, Describes(m, fields), NEW name, NEW type
  PROVE  (E!event_get(fields, name, type) # Exit) <=> (name \in DOMAIN m /\ m[name] = type)
<1> DEFINE k == E!event_find_field(fields, name)
<1>1. \/ k = 0 /\ \A j \in 1 .. Len(fields) : fields[j].name # name
      \/ k \in 1 .. Len(fields) /\ k # 0 /\ fields[k].name = name
  BY FindField
<1>2. E!event_get(fields, name, type)
        = IF k = 0 THEN Exit ELSE IF fields[k].type # type THEN Exit ELSE fields[k]
  BY DEF E!event_get
<1> HIDE DEF k
<1>3. CASE k = 0 /\ \A j \in 1 .. Len(fields) : fields[j].name # name
  BY <1>2, <1>3 DEF Describes
<1>4. CASE k \in 1 .. Len(fields) /\ k # 0 /\ fields[k].name = name
  <2>1. fields[k] # Exit
    BY <1>4, EventsAssumption DEF WellFormed
  <2>2. name \in DOMAIN m /\ m[name] = fields[k].type
    BY <1>4 DEF Describes
  <2>3. QED
    BY <1>2, <1>4, <2>1, <2>2
<1>5. QED
  BY <1>1, <1>3, <1>4

\* event_format prints every name once.
LEMMA FormatPrints ==
  ASSUME NEW fields, WellFormed(fields), NEW m, Describes(m, fields)
  PROVE  /\ {f[1] : f \in E!Range(E!event_format(fields))} = DOMAIN m
         /\ Len(E!event_format(fields)) = Cardinality(DOMAIN m)
<1> DEFINE F == E!event_format(fields)
           N == Len(fields)
           g == [i \in 1 .. N |-> fields[i].name]
<1>1. N \in Nat /\ DOMAIN fields = 1 .. N
  BY DEF WellFormed
<1>2. /\ DOMAIN F = 1 .. N /\ Len(F) = N
      /\ \A i \in 1 .. N : F[i] = <<fields[i].name, fields[i].type>>
  BY <1>1 DEF E!event_format
<1> HIDE DEF F
<1>3. {f[1] : f \in E!Range(F)} = {fields[i].name : i \in 1 .. N}
  <2>1. E!Range(F) = {F[i] : i \in 1 .. N}
    BY <1>2 DEF E!Range
  <2>2. \A i \in 1 .. N : F[i][1] = fields[i].name
    BY <1>2
  <2>3. QED
    BY <2>1, <2>2
<1>4. DOMAIN m = {fields[i].name : i \in 1 .. N}
  BY DEF Describes
<1>5. g \in Bijection(1 .. N, DOMAIN m)
  <2>1. g \in [1 .. N -> DOMAIN m]
    BY <1>4
  <2>2. \A i, j \in 1 .. N : g[i] = g[j] => i = j
    BY DEF WellFormed
  <2>3. \A n \in DOMAIN m : \E i \in 1 .. N : g[i] = n
    BY <1>4
  <2> HIDE DEF g, N
  <2>4. QED
    BY <2>1, <2>2, <2>3 DEF Bijection, Injection, IsInjective, Surjection
<1> HIDE DEF g, N
<1>6. IsFiniteSet(1 .. N) /\ Cardinality(1 .. N) = N
  BY <1>1, FS_Interval
<1>7. Cardinality(DOMAIN m) = N
  BY <1>5, <1>6, FS_Bijection DEF ExistsBijection
<1>8. QED
  BY <1>2, <1>3, <1>4, <1>7 DEF F

-----------------------------------------------------------------------------
(* The event native code fills. *)

Draft == [level : EventLevel, fields : Seq(Field)]

FieldsInv ==
  draft # NULL =>
    /\ draft \in Draft /\ WellFormed(draft.fields)
    /\ Len(draft.fields) <= FieldsMaximum /\ Describes(meant, draft.fields)

LEMMA CardinalitySame ==
  ASSUME NEW S
  PROVE  E!Cardinality(S) = Cardinality(S)
  BY DEF E!Cardinality, Cardinality

LEMMA FieldsMean ==
  ASSUME FieldsInv
  PROVE  E!FieldsAgree
<1> SUFFICES ASSUME draft # NULL
             PROVE  /\ Len(draft.fields) <= FieldsMaximum
                    /\ {f[1] : f \in E!Range(E!event_format(draft.fields))} = DOMAIN meant
                    /\ Len(E!event_format(draft.fields)) = Cardinality(DOMAIN meant)
                    /\ \A name \in Name, type \in Type :
                         (E!event_get(draft.fields, name, type) # Exit) <=>
                           (name \in DOMAIN meant /\ meant[name] = type)
  BY CardinalitySame DEF E!FieldsAgree
<1>1. /\ WellFormed(draft.fields) /\ Len(draft.fields) <= FieldsMaximum
      /\ Describes(meant, draft.fields)
  BY DEF FieldsInv
<1>2. QED
  BY <1>1, FormatPrints, GetFinds

\* An event with these fields and their dictionary.
LEMMA BuiltKeeps ==
  ASSUME NEW level \in EventLevel, NEW fields, WellFormed(fields), Len(fields) <= FieldsMaximum,
         draft' = [level |-> level, fields |-> fields], meant' = E!Dictionary(fields)
  PROVE  FieldsInv'
<1>1. draft'.fields = fields /\ draft' \in Draft
  BY DEF Draft, WellFormed
<1>2. Describes(meant', fields)
  BY DictionaryDescribes
<1>3. QED
  BY <1>1, <1>2 DEF FieldsInv, Describes, WellFormed

LEMMA FieldTypes ==
  ASSUME NEW name
  PROVE  /\ E!event_field(name, "const char*") = [name |-> name, type |-> "string"]
         /\ E!event_field(name, "char*") = [name |-> name, type |-> "string"]
         /\ E!event_field(name, "char[]") = [name |-> name, type |-> "string"]
         /\ E!event_field(name, "int32_t") = [name |-> name, type |-> "signed"]
<1>1. E!event_field(name, "const char*") = [name |-> name, type |-> "string"]
  BY DEF E!event_field
<1>2. E!event_field(name, "char*") = [name |-> name, type |-> "string"]
  BY DEF E!event_field
<1>3. E!event_field(name, "char[]") = [name |-> name, type |-> "string"]
  BY DEF E!event_field
<1>4. E!event_field(name, "int32_t") = [name |-> name, type |-> "signed"]
  BY DEF E!event_field
<1>5. QED
  BY <1>1, <1>2, <1>3, <1>4

LEMMA BuildFields ==
  ASSUME E!Build
  PROVE  FieldsInv'
<1> DEFINE f(n, t) == [name |-> n, type |-> t]
<1> DEFINE Built(level, fields) ==
        /\ E!event_build(level, fields)
        /\ \/ fields = <<f("error-kind", "string"), f("code", "signed"), f("message", "string")>>
           \/ fields = <<f("code", "signed"), f("message", "string")>>
           \/ fields = <<f("message", "string")>>
<1>0. PICK level \in EventLevel : \E fields : Built(level, fields)
  BY FieldTypes DEF E!Build, EventLevel
<1>1. PICK fields : Built(level, fields)
  BY <1>0
<1>2. /\ f("error-kind", "string") \in Field /\ f("code", "signed") \in Field
      /\ f("message", "string") \in Field
  BY DEF Field, FieldName, FieldType
<1>3. /\ f("error-kind", "string").name = "error-kind" /\ f("code", "signed").name = "code"
      /\ f("message", "string").name = "message"
  OBVIOUS
<1> HIDE DEF f
<1>4. WellFormed(fields) /\ Len(fields) <= 3
  <2>1. CASE fields = <<f("error-kind", "string"), f("code", "signed"), f("message", "string")>>
    BY <1>2, <1>3, <2>1 DEF WellFormed
  <2>2. CASE fields = <<f("code", "signed"), f("message", "string")>>
    BY <1>2, <1>3, <2>2 DEF WellFormed
  <2>3. CASE fields = <<f("message", "string")>>
    BY <1>2, <1>3, <2>3 DEF WellFormed
  <2>4. QED
    BY <1>1, <2>1, <2>2, <2>3
<1>5. Len(fields) <= FieldsMaximum
  BY <1>4, EventsAssumption DEF WellFormed
<1>6. draft' = [level |-> level, fields |-> fields] /\ meant' = E!Dictionary(fields)
  BY <1>1 DEF E!event_build
<1>7. QED
  BY <1>4, <1>5, <1>6, BuiltKeeps

LEMMA SetFieldFields ==
  ASSUME FieldsInv, NEW name \in Name, NEW type \in Type, E!SetField(name, type)
  PROVE  FieldsInv'
<1> DEFINE after == E!event_set(draft.fields, name, type)
           d == [n \in DOMAIN meant \cup {name} |-> IF n = name THEN type ELSE meant[n]]
<1>1. /\ draft # NULL
      /\ \/ UNCHANGED <<draft, meant>>
         \/ after # Exit /\ draft' = [draft EXCEPT !.fields = after] /\ meant' = d
  BY DEF E!SetField
<1>2. /\ draft \in Draft /\ WellFormed(draft.fields) /\ Len(draft.fields) <= FieldsMaximum
      /\ Describes(meant, draft.fields)
  BY <1>1 DEF FieldsInv
<1>3. name \in FieldName /\ type \in FieldType
  BY DEF FieldName, FieldType
<1>4. CASE UNCHANGED <<draft, meant>>
  BY <1>4 DEF FieldsInv, Describes, WellFormed
<1>5. CASE after # Exit /\ draft' = [draft EXCEPT !.fields = after] /\ meant' = d
  <2>1. SetTo(after, draft.fields, name, type)
    BY <1>2, <1>3, <1>5, SetKeeps
  <2>2. Describes(d, after)
    BY <1>2, <1>3, <1>5, SetDescribes
  <2> HIDE DEF after, d
  <2>3. WellFormed(after) /\ Len(after) <= FieldsMaximum /\ after \in Seq(Field)
    BY <2>1 DEF SetTo, WellFormed
  <2>4. draft' \in Draft /\ draft'.fields = after
    BY <1>2, <1>5, <2>3 DEF Draft
  <2>5. QED
    BY <1>5, <2>2, <2>3, <2>4 DEF FieldsInv, Describes, WellFormed
<1>6. QED
  BY <1>1, <1>4, <1>5

\* The crash handler sets at most three fields on one.
LEMMA CrashFields ==
  ASSUME NEW signal, NEW named, NEW addressed, E!crash_signal_callback(signal, named, addressed)
  PROVE  FieldsInv'
<1> DEFINE built == <<E!event_field("message", "char[]")>>
           first == E!event_set(built, "code", "string")
           second == E!event_set(built, "code", "signed")
           coded == IF signal = "SIGSEGV" /\ named THEN first ELSE second
           placed == IF addressed THEN E!event_set(coded, "address", "address") ELSE coded
           fields == E!event_set(placed, "signal-information", "address")
<1>1. E!crash_fields(signal, named, addressed) = fields
  BY DEF E!crash_fields
<1>2. WellFormed(built) /\ Len(built) = 1
  <2>1. built = <<[name |-> "message", type |-> "string"]>>
    BY FieldTypes
  <2>2. [name |-> "message", type |-> "string"] \in Field
    BY DEF Field, FieldName, FieldType
  <2>3. QED
    BY <2>1, <2>2 DEF WellFormed
<1>3. /\ FieldsMaximum \in Nat /\ FieldsMaximum >= 4
      /\ "code" \in FieldName /\ "address" \in FieldName /\ "signal-information" \in FieldName
      /\ "string" \in FieldType /\ "signed" \in FieldType /\ "address" \in FieldType
  BY EventsAssumption DEF FieldName, FieldType
<1> HIDE DEF built
<1>4. ASSUME NEW s, WellFormed(s), NEW n \in 1 .. 3, Len(s) <= n,
             NEW name \in FieldName, NEW type \in FieldType
      PROVE  WellFormed(E!event_set(s, name, type)) /\ Len(E!event_set(s, name, type)) <= n + 1
  <2>1. Len(s) \in Nat
    BY <1>4 DEF WellFormed
  <2>2. Len(s) <= FieldsMaximum /\ Len(s) # FieldsMaximum
    BY <1>3, <1>4, <2>1
  <2>3. SetTo(E!event_set(s, name, type), s, name, type)
    BY <1>4, <2>2, SetKeeps
  <2>4. WellFormed(E!event_set(s, name, type)) /\ Len(E!event_set(s, name, type)) <= Len(s) + 1
    BY <2>3 DEF SetTo
  <2>5. Len(E!event_set(s, name, type)) \in Nat
    BY <2>4 DEF WellFormed
  <2>6. QED
    BY <1>4, <2>1, <2>4, <2>5
<1>5. WellFormed(first) /\ Len(first) <= 2 /\ WellFormed(second) /\ Len(second) <= 2
  <2>1. 1 \in 1 .. 3 /\ Len(built) <= 1 /\ 1 + 1 = 2
    BY <1>2
  <2>2. WellFormed(first) /\ Len(first) <= 1 + 1 /\ WellFormed(second) /\ Len(second) <= 1 + 1
    BY <1>2, <1>3, <1>4, <2>1, Zenon
  <2>3. QED
    BY <2>1, <2>2
<1> HIDE DEF first, second
<1>6. WellFormed(coded) /\ Len(coded) <= 2
  BY <1>5
<1> HIDE DEF coded
<1>7. WellFormed(E!event_set(coded, "address", "address"))
      /\ Len(E!event_set(coded, "address", "address")) <= 3
  BY <1>3, <1>4, <1>6
<1>8. WellFormed(placed) /\ Len(placed) <= 3
  <2>1. Len(coded) \in Nat
    BY <1>6 DEF WellFormed
  <2>2. QED
    BY <1>6, <1>7, <2>1
<1> HIDE DEF placed
<1>9. WellFormed(fields) /\ Len(fields) <= 4
  BY <1>3, <1>4, <1>8
<1> HIDE DEF fields
<1>10. Len(fields) <= FieldsMaximum
  BY <1>3, <1>9 DEF WellFormed
<1>11. /\ draft' = [level |-> "panic", fields |-> fields] /\ meant' = E!Dictionary(fields)
       /\ "panic" \in EventLevel
  BY <1>1 DEF E!crash_signal_callback, EventLevel
<1>12. QED
  BY <1>9, <1>10, <1>11, BuiltKeeps

\* A step that leaves the event alone.
LEMMA QuietFields ==
  ASSUME FieldsInv, UNCHANGED <<draft, meant>>
  PROVE  FieldsInv'
  BY DEF FieldsInv, Describes, WellFormed

LEMMA HandedFields ==
  ASSUME E!Done
  PROVE  FieldsInv'
  BY DEF E!Done, FieldsInv

-----------------------------------------------------------------------------
(* Events, in every behaviour of the core. *)

LEMMA EventsStart ==
  ASSUME E!Init
  PROVE  OwnersInv /\ FieldsInv
<1>1. heap = [a \in Address |-> NULL] /\ draft = NULL /\ localEvent = NULL /\ tasks = {} /\ lost = {}
      /\ call = 0 /\ unchecked = 0 /\ raised = NULL
  BY DEF E!Init
<1>2. EventTypes
  BY <1>1 DEF EventTypes
<1>3. Owners
  BY <1>1, EventsAssumption DEF Owners
<1>4. LocalIsUnchecked /\ E!RaisedIsOwn /\ DraftLevel /\ FieldsInv
  BY <1>1 DEF LocalIsUnchecked, E!RaisedIsOwn, DraftLevel, FieldsInv
<1>5. QED
  BY <1>2, <1>3, <1>4 DEF OwnersInv

LEMMA EventsStep ==
  ASSUME OwnersInv, FieldsInv, E!Next
  PROVE  OwnersInv' /\ FieldsInv'
<1>1. CASE E!Build
  BY <1>1, BuildOwners, BuildFields
<1>2. ASSUME NEW name \in Name, NEW type \in Type, E!SetField(name, type)
      PROVE  OwnersInv' /\ FieldsInv'
  BY <1>2, DraftOwners, SetFieldFields
<1>3. ASSUME NEW name \in Name, NEW type \in Type, E!GetField(name, type)
      PROVE  OwnersInv' /\ FieldsInv'
  <2>1. UNCHANGED <<draft, meant>>
    BY <1>3 DEF E!GetField
  <2>2. QED
    BY <1>3, <2>1, DraftOwners, QuietFields
<1>4. CASE E!NoRoom \/ E!system_raise_event
  <2>1. UNCHANGED <<draft, meant>>
    BY <1>4 DEF E!NoRoom, E!system_raise_event
  <2>2. QED
    BY <1>4, <2>1, DraftOwners, QuietFields
<1>5. ASSUME NEW formatted \in BOOLEAN, E!ReportUnchecked(formatted) \/ E!ReportChecked(formatted)
      PROVE  OwnersInv' /\ FieldsInv'
  <2>1. E!Done
    BY <1>5 DEF E!ReportUnchecked, E!ReportChecked
  <2>2. QED
    BY <1>5, <2>1, ReportUncheckedOwners, ReportCheckedOwners, HandedFields
<1>6. ASSUME NEW formatted \in BOOLEAN, NEW payload \in E!Payloads,
             E!DiagnosticEvent(payload, formatted)
      PROVE  OwnersInv' /\ FieldsInv'
  <2>1. UNCHANGED <<draft, meant>>
    BY <1>6 DEF E!DiagnosticEvent
  <2>2. QED
    BY <1>6, <2>1, DiagnosticEventOwners, QuietFields
<1>7. ASSUME NEW a \in Address, E!TaskFails(a)
      PROVE  OwnersInv' /\ FieldsInv'
  <2>1. UNCHANGED <<draft, meant>>
    BY <1>7 DEF E!TaskFails
  <2>2. QED
    BY <1>7, <2>1, TaskFailsOwners, QuietFields
<1>8. ASSUME NEW silent \in BOOLEAN, E!system_print_event(silent)
      PROVE  OwnersInv' /\ FieldsInv'
  <2>1. E!Done
    BY <1>8 DEF E!system_print_event
  <2>2. QED
    BY <1>8, <2>1, PrintOwners, HandedFields
<1>9. CASE E!NullUnreported \/ E!ErrnoReturned
  <2>1. UNCHANGED <<draft, meant>>
    BY <1>9 DEF E!NullUnreported, E!ErrnoReturned
  <2>2. QED
    BY <1>9, <2>1, NullUnreportedOwners, ErrnoReturnedOwners, QuietFields
<1>10. ASSUME NEW signal \in {"SIGILL", "SIGBUS", "SIGFPE", "SIGSEGV"},
              NEW named \in BOOLEAN, NEW addressed \in BOOLEAN,
              E!crash_signal_callback(signal, named, addressed)
       PROVE  OwnersInv' /\ FieldsInv'
  BY <1>10, DraftOwners, CrashFields
<1>11. QED
  BY <1>1, <1>2, <1>3, <1>4, <1>5, <1>6, <1>7, <1>8, <1>9, <1>10 DEF E!Next

LEMMA EventsInvariant == CoreSpec => [](OwnersInv /\ FieldsInv)
<1>1. CoreInit => OwnersInv /\ FieldsInv
  BY EventsStart DEF CoreInit
<1>2. ASSUME OwnersInv, FieldsInv,
             [CoreNext]_<<part, vars, listVars, eventVars, contextVars, bufferVars>>
      PROVE  OwnersInv' /\ FieldsInv'
  <2>1. E!Next \/ UNCHANGED eventVars
    BY <1>2 DEF CoreNext
  <2>2. CASE UNCHANGED eventVars
    <3>1. UNCHANGED <<heap, localEvent, tasks, lost, unchecked, raised>> /\ UNCHANGED <<draft, meant>>
          /\ call' = call
      BY <2>2 DEF eventVars
    <3>2. call' \in Nat /\ DraftLevel'
      BY <1>2, <3>1 DEF OwnersInv, EventTypes, DraftLevel
    <3>3. QED
      BY <1>2, <3>1, <3>2, QuietOwners, QuietFields
  <2>3. QED
    BY <1>2, <2>1, <2>2, EventsStep
<1>3. QED
  BY <1>1, <1>2, PTL DEF CoreSpec

\* Whatever native code, the isolate and the tasks do with events, in any
\* order: an event is a dictionary of at most EVENT_FIELDS_MAXIMUM fields for
\* its setters, its getters and event_format, and every event handed over and
\* not destroyed has exactly one owner (LocalEvent, a task, or nobody when
\* LocalEvent forgot it or its level is not printed).
THEOREM EventsHold == CoreSpec => []EventsInv
<1>1. OwnersInv /\ FieldsInv => EventsInv
  BY OwnersMean, FieldsMean DEF OwnersInv, EventsInv
<1>2. QED
  BY <1>1, EventsInvariant, PTL

\* The exception systemCheck raises for a failing call carries the event of
\* that call or that of the last call whose error result was not checked,
\* never an older one.
THEOREM RaisedHolds == CoreSpec => []RaisedIsOwn
<1>1. OwnersInv => RaisedIsOwn
  BY DEF OwnersInv, RaisedIsOwn
<1>2. QED
  BY <1>1, EventsInvariant, PTL

-----------------------------------------------------------------------------
(* The table of modules, the launcher and the forks. *)

\* The first n modules of a list.
Below(s, n) == {s[j] : j \in 1 .. n}

\* What _create accepted: no module twice, none before what it depends on.
InOrder(s) ==
  \A i \in 1 .. Len(s) : s[i] \notin Below(s, i - 1) /\ Depends[s[i]] \subseteq Below(s, i - 1)

LauncherPart ==
  /\ launcher \in [pc : {"idle", "initializing", "main", "stopping", "clearing", "failed"},
                   made : Seq(Module), at : Nat, up : SUBSET Module]
  /\ InOrder(launcher.made) /\ launcher.at <= Len(launcher.made)
  /\ launcher.pc \in {"initializing", "main", "stopping"} => launcher.up = Below(launcher.made, launcher.at)
  /\ launcher.pc = "main" => launcher.at = Len(launcher.made)
  /\ launcher.pc = "failed" => \E n \in 0 .. Len(launcher.made) : launcher.up = Below(launcher.made, n)
  /\ launcher.pc \in {"idle", "clearing"} => launcher.up = {}
  /\ launcher.pc = "idle" => launcher.made = <<>>
  /\ launcher.pc = "clearing" => 1 <= launcher.at /\ launcher.at < Len(launcher.made)

\* How many of the modules _clear removed.
Cleared == IF launcher.pc = "clearing" THEN launcher.at ELSE 0

\* The slots of a list of which the first k modules were removed.
Slots(c, s, k) ==
  /\ c = [containers |-> c.containers, size |-> Len(s) - k, modules |-> c.modules]
  /\ c.modules = [m \in Module |-> c.modules[m]]
  /\ \A m \in Module : c.modules[m] # NULL =>
       c.modules[m] \in k + 1 .. Len(s) /\ s[c.modules[m]] = m
  /\ \A j \in k + 1 .. Len(s) : c.modules[s[j]] = j
  /\ s # <<>> => DOMAIN c.containers = 1 .. Len(s)
  /\ \A j \in 1 .. Len(s) : c.containers[j] = IF j <= k THEN NULL ELSE s[j]

TablePart == Slots(context, launcher.made, Cleared)

\* A fork that read the table while it was whole goes up and down the list.
ForkFits(o) ==
  /\ o = [pc |-> o.pc, made |-> o.made, at |-> o.at, up |-> o.up]
  /\ o.pc \in {"idle", "forking", "unforking", "failed"}
  /\ o.pc \in {"forking", "unforking"} =>
       /\ o.made \in Seq(Module) /\ InOrder(o.made)
       /\ o.at \in 0 .. Len(o.made) /\ o.up = Below(o.made, o.at)
  /\ o.pc \in {"idle", "failed"} => o.up = {}
ForkPart == DOMAIN forks = Fork /\ \A f \in Fork : ForkFits(forks[f])

\* Nobody forks before the first main, and nobody launches during it.
LaunchPart ==
  /\ counts = [launches |-> counts.launches, reloads |-> counts.reloads]
  /\ counts.launches \in Nat
  /\ counts.launches = 0 => launcher.pc = "idle"
  /\ counts.launches = 0 \/ (counts.launches = 1 /\ launcher.pc = "initializing") =>
       \A f \in Fork : forks[f].pc = "idle"
  /\ counts.launches = 1 /\ launcher.pc = "main" =>
       \A f \in Fork : forks[f].pc # "idle" => forks[f].made = launcher.made

ContextInv == LauncherPart /\ TablePart /\ ForkPart /\ LaunchPart

LEMMA LeastNatural ==
  ASSUME NEW S, S \subseteq Nat, S # {}
  PROVE  \E x \in S : \A y \in S : x <= y
<1>1. PICK R : R = OpToRel(<, Nat)
  OBVIOUS
<1>2. IsWellFoundedOn(R, Nat)
  BY <1>1, NatLessThanWellFounded
<1>3. \A x, y \in Nat : x < y => <<x, y>> \in R
  BY <1>1 DEF OpToRel
<1>4. PICK x \in S : \A y \in S : ~(<<y, x>> \in R)
  BY <1>2, WFMin
<1>5. \A y \in S : ~(y < x)
  BY <1>3, <1>4
<1>6. \A y \in S : y \in Nat /\ x \in Nat
  OBVIOUS
<1>7. \A y \in S : x <= y
  BY <1>5, <1>6
<1>8. QED
  BY <1>7

-----------------------------------------------------------------------------
(* Slots of a list of modules put one after the other. *)

\* The table after the first n modules of s.
Slot(s, n, m) == IF m \in Below(s, n) THEN CHOOSE j \in 1 .. n : s[j] = m ELSE NULL
Filled(s, n) ==
  [containers |-> [j \in 1 .. n |-> s[j]], size |-> n, modules |-> [m \in Module |-> Slot(s, n, m)]]

Distinct(s) == \A i \in 1 .. Len(s) : s[i] \notin Below(s, i - 1)

LEMMA BelowGrows ==
  ASSUME NEW s, NEW n \in Nat, n >= 1
  PROVE  Below(s, n) = Below(s, n - 1) \cup {s[n]} /\ Below(s, 0) = {}
<1>1. \A j : j \in 1 .. n <=> j \in 1 .. n - 1 \/ j = n
  OBVIOUS
<1>2. QED
  BY <1>1 DEF Below

LEMMA DistinctSlots ==
  ASSUME NEW s, Len(s) \in Nat, Distinct(s), NEW i \in 1 .. Len(s), NEW j \in 1 .. Len(s), s[i] = s[j]
  PROVE  i = j
<1>1. \A a, b \in 1 .. Len(s) : a < b => s[a] # s[b]
  <2>1. SUFFICES ASSUME NEW a \in 1 .. Len(s), NEW b \in 1 .. Len(s), a < b PROVE s[a] # s[b]
    OBVIOUS
  <2>2. a \in 1 .. b - 1
    BY <2>1
  <2>3. s[a] \in Below(s, b - 1)
    BY <2>2 DEF Below
  <2>4. QED
    BY <2>3 DEF Distinct
<1>2. i < j \/ j < i \/ i = j
  OBVIOUS
<1>3. QED
  BY <1>1, <1>2

LEMMA SlotIs ==
  ASSUME NEW s, Len(s) \in Nat, Distinct(s), NEW n \in 0 .. Len(s)
  PROVE  /\ \A j \in 1 .. n : Slot(s, n, s[j]) = j
         /\ \A m : m \notin Below(s, n) => Slot(s, n, m) = NULL
<1>1. ASSUME NEW j \in 1 .. n PROVE Slot(s, n, s[j]) = j
  <2>1. s[j] \in Below(s, n)
    BY DEF Below
  <2>2. PICK k : k = CHOOSE i \in 1 .. n : s[i] = s[j]
    OBVIOUS
  <2>3. k \in 1 .. n /\ s[k] = s[j]
    BY <2>2
  <2>4. k \in 1 .. Len(s) /\ j \in 1 .. Len(s)
    BY <2>3
  <2>5. k = j
    BY <2>3, <2>4, DistinctSlots
  <2>6. QED
    BY <2>1, <2>2, <2>5 DEF Slot
<1>2. QED
  BY <1>1 DEF Slot

LEMMA PutOne ==
  ASSUME NEW s \in Seq(Module), Distinct(s), NEW n \in 1 .. Len(s), NEW d, d.size = n - 1,
         \A j \in 1 .. n - 1 : d.containers[j] = s[j],
         d.modules = [m \in Module |-> Slot(s, n - 1, m)]
  PROVE  C!context_put_module(d, s[n]) = Filled(s, n)
<1>1. Below(s, n) = Below(s, n - 1) \cup {s[n]} /\ s[n] \in Module
  BY BelowGrows
<1>2. n - 1 \in 0 .. Len(s) /\ n \in 0 .. Len(s) /\ n - 1 + 1 = n /\ Len(s) \in Nat
  OBVIOUS
<1>3. \A m \in Module : m # s[n] => Slot(s, n, m) = Slot(s, n - 1, m)
  <2>1. SUFFICES ASSUME NEW m \in Module, m # s[n] PROVE Slot(s, n, m) = Slot(s, n - 1, m)
    OBVIOUS
  <2>2. CASE m \in Below(s, n - 1)
    <3>1. PICK j \in 1 .. n - 1 : m = s[j]
      BY <2>2 DEF Below
    <3>2. j \in 1 .. n
      OBVIOUS
    <3>3. Slot(s, n, s[j]) = j
      BY <1>2, <3>2, SlotIs
    <3>4. Slot(s, n - 1, s[j]) = j
      BY <1>2, SlotIs
    <3>5. QED
      BY <3>1, <3>3, <3>4
  <2>3. CASE m \notin Below(s, n - 1)
    BY <1>1, <1>2, <2>1, <2>3, SlotIs
  <2>4. QED
    BY <2>2, <2>3
<1>4. Slot(s, n, s[n]) = n
  BY <1>2, SlotIs
<1>5. [d.modules EXCEPT ![s[n]] = d.size + 1] = [m \in Module |-> Slot(s, n, m)]
  BY <1>1, <1>2, <1>3, <1>4
<1>6. [i \in 1 .. d.size + 1 |-> IF i = d.size + 1 THEN s[n] ELSE d.containers[i]]
      = [j \in 1 .. n |-> s[j]]
  BY <1>2
<1>7. d.size + 1 = n
  BY <1>2
<1>8. QED
  BY <1>5, <1>6, <1>7 DEF C!context_put_module, Filled

LEMMA PutAll ==
  ASSUME NEW s \in Seq(Module), Distinct(s), NEW c, Slots(c, <<>>, 0)
  PROVE  C!context_put_modules(c, s) = IF s = <<>> THEN c ELSE Filled(s, Len(s))
<1> DEFINE Puts(f) == f = [i \in 0 .. Len(s) |-> IF i = 0 THEN c ELSE C!context_put_module(f[i - 1], s[i])]
           g == [i \in 0 .. Len(s) |-> IF i = 0 THEN c ELSE Filled(s, i)]
<1>1. c.size = 0 /\ c.modules = [m \in Module |-> Slot(s, 0, m)]
  <2>1. c.size = Len(<<>>) - 0 /\ \A m \in Module : c.modules[m] = NULL
    BY DEF Slots
  <2>2. \A m : Slot(s, 0, m) = NULL
    BY DEF Slot, Below
  <2>3. c.modules = [m \in Module |-> c.modules[m]]
    BY DEF Slots
  <2>4. QED
    BY <2>1, <2>2, <2>3
<1>2. ASSUME NEW i \in 1 .. Len(s), NEW d, d = (IF i = 1 THEN c ELSE Filled(s, i - 1))
      PROVE  C!context_put_module(d, s[i]) = Filled(s, i)
  <2>1. /\ d.size = i - 1 /\ d.modules = [m \in Module |-> Slot(s, i - 1, m)]
        /\ \A j \in 1 .. i - 1 : d.containers[j] = s[j]
    <3>1. CASE i = 1
      BY <1>1, <1>2, <3>1
    <3>2. CASE i # 1
      BY <1>2, <3>2 DEF Filled
    <3>3. QED
      BY <3>1, <3>2
  <2>2. QED
    BY <2>1, PutOne
<1>3. \A i \in 1 .. Len(s) : g[i - 1] = (IF i = 1 THEN c ELSE Filled(s, i - 1)) /\ g[i] = Filled(s, i)
  OBVIOUS
<1>4. Puts(g)
  <2>1. \A i \in 1 .. Len(s) : C!context_put_module(g[i - 1], s[i]) = Filled(s, i)
    BY <1>2, <1>3
  <2>2. QED
    BY <2>1
<1>5. ASSUME NEW f, Puts(f)
      PROVE  \A i \in 0 .. Len(s) : f[i] = g[i]
  <2>1. SUFFICES ASSUME NEW k \in 0 .. Len(s), f[k] # g[k] PROVE FALSE
    OBVIOUS
  <2>2. PICK S : S = {i \in 0 .. Len(s) : f[i] # g[i]}
    OBVIOUS
  <2>3. S \subseteq Nat /\ S # {}
    BY <2>1, <2>2
  <2>4. PICK n \in S : \A y \in S : n <= y
    BY <2>3, LeastNatural
  <2>5. n \in 0 .. Len(s) /\ f[n] # g[n]
    BY <2>2, <2>4
  <2>6. f[0] = c /\ g[0] = c
    BY <1>5
  <2>7. n \in 1 .. Len(s) /\ n - 1 \in 0 .. Len(s) /\ n - 1 \notin S
    BY <2>4, <2>5, <2>6
  <2>8. f[n - 1] = g[n - 1]
    BY <2>2, <2>7
  <2>9. f[n] = C!context_put_module(f[n - 1], s[n])
    BY <1>5, <2>7
  <2>10. C!context_put_module(g[n - 1], s[n]) = Filled(s, n) /\ g[n] = Filled(s, n)
    BY <1>2, <1>3, <2>7
  <2>11. QED
    BY <2>5, <2>8, <2>9, <2>10
<1>6. PICK puts : puts = CHOOSE f : Puts(f)
  OBVIOUS
<1>7. Puts(puts)
  BY <1>4, <1>6
<1>8. puts[Len(s)] = g[Len(s)]
  BY <1>5, <1>7
<1>9. C!context_put_modules(c, s) = puts[Len(s)]
  BY <1>6 DEF C!context_put_modules
<1>10. QED
  BY <1>8, <1>9

\* A list that was put fills the table in its order.
LEMMA FilledSlots ==
  ASSUME NEW s \in Seq(Module), Distinct(s), s # <<>>
  PROVE  Slots(Filled(s, Len(s)), s, 0)
<1>1. Len(s) \in Nat /\ Len(s) \in 0 .. Len(s)
  OBVIOUS
<1>2. \A j \in 1 .. Len(s) : s[j] \in Module /\ Slot(s, Len(s), s[j]) = j
  BY <1>1, SlotIs
<1>3. \A m \in Module : Slot(s, Len(s), m) # NULL =>
        Slot(s, Len(s), m) \in 1 .. Len(s) /\ s[Slot(s, Len(s), m)] = m
  <2>1. SUFFICES ASSUME NEW m \in Module, Slot(s, Len(s), m) # NULL
                 PROVE  Slot(s, Len(s), m) \in 1 .. Len(s) /\ s[Slot(s, Len(s), m)] = m
    OBVIOUS
  <2>2. m \in Below(s, Len(s))
    BY <1>1, <2>1, SlotIs
  <2>3. PICK j \in 1 .. Len(s) : s[j] = m
    BY <2>2 DEF Below
  <2>4. QED
    BY <1>2, <2>3
<1>4. PICK F : F = Filled(s, Len(s))
  OBVIOUS
<1>5. /\ F = [containers |-> F.containers, size |-> Len(s), modules |-> F.modules]
      /\ F.containers = [j \in 1 .. Len(s) |-> s[j]]
      /\ F.modules = [m \in Module |-> Slot(s, Len(s), m)]
  BY <1>4 DEF Filled
<1>6. F.modules = [m \in Module |-> F.modules[m]]
  BY <1>5
<1>7. Slots(F, s, 0)
  BY <1>1, <1>2, <1>3, <1>5, <1>6 DEF Slots
<1>8. QED
  BY <1>4, <1>7

LEMMA AcceptedFits ==
  ASSUME NEW list \in Seq(Module)
  PROVE  C!Accepted(list) \in 0 .. Len(list) /\ InOrder(SubSeq(list, 1, C!Accepted(list)))
<1> DEFINE R(i) == C!Refused(SubSeq(list, 1, i - 1), list[i])
<1>1. PICK Bad : Bad = {i \in 1 .. Len(list) : R(i)}
  OBVIOUS
<1>2. C!Accepted(list) = IF Bad = {} THEN Len(list) ELSE (CHOOSE i \in Bad : \A j \in Bad : i <= j) - 1
  BY <1>1 DEF C!Accepted
<1>3. PICK n : n = C!Accepted(list)
  OBVIOUS
<1>4. n \in 0 .. Len(list) /\ \A i \in 1 .. n : i \notin Bad
  <2>1. CASE Bad = {}
    BY <1>2, <1>3, <2>1
  <2>2. CASE Bad # {}
    <3>1. Bad \subseteq Nat
      BY <1>1
    <3>2. \E i \in Bad : \A j \in Bad : i <= j
      BY <2>2, <3>1, LeastNatural
    <3>3. PICK k : k = CHOOSE i \in Bad : \A j \in Bad : i <= j
      OBVIOUS
    <3>4. k \in Bad /\ \A j \in Bad : k <= j
      BY <3>2, <3>3
    <3>5. n = k - 1 /\ k \in 1 .. Len(list)
      BY <1>1, <1>2, <1>3, <2>2, <3>3, <3>4
    <3>6. QED
      BY <3>4, <3>5
  <2>3. QED
    BY <2>1, <2>2
<1>5. PICK s : s = SubSeq(list, 1, n)
  OBVIOUS
<1>6. Len(s) = n /\ \A i \in 1 .. n : s[i] = list[i]
  BY <1>4, <1>5, SubSeqProperties
<1>7. \A i \in 1 .. n : C!Refused(SubSeq(list, 1, i - 1), list[i]) <=> (s[i] \in Below(s, i - 1) \/ ~(Depends[s[i]] \subseteq Below(s, i - 1)))
  <2>1. SUFFICES ASSUME NEW i \in 1 .. n
                 PROVE  C!Range(SubSeq(list, 1, i - 1)) = Below(s, i - 1)
    BY <1>6 DEF C!Refused
  <2>2. PICK t : t = SubSeq(list, 1, i - 1)
    OBVIOUS
  <2>3. i - 1 \in 0 .. Len(list)
    BY <1>4
  <2>4. Len(t) = i - 1 /\ t \in Seq(Module) /\ \A j \in 1 .. i - 1 : t[j] = list[j]
    BY <2>2, <2>3, SubSeqProperties
  <2>5. \A j \in 1 .. i - 1 : t[j] = s[j]
    BY <1>6, <2>4
  <2>6. DOMAIN t = 1 .. i - 1
    BY <2>4
  <2>7. C!Range(t) = Below(s, i - 1)
    BY <2>5, <2>6 DEF C!Range, Below
  <2>8. QED
    BY <2>2, <2>7
<1>8. \A i \in 1 .. n : ~R(i)
  BY <1>1, <1>4
<1>9. InOrder(s)
  BY <1>6, <1>7, <1>8 DEF InOrder
<1>10. QED
  BY <1>3, <1>4, <1>5, <1>9

LEMMA OrderDistinct ==
  ASSUME NEW s, InOrder(s)
  PROVE  Distinct(s)
  BY DEF InOrder, Distinct

\* Modules of which all lists before them are up need nothing that is down.
LEMMA OrderUp ==
  ASSUME NEW s, Len(s) \in Nat, InOrder(s), NEW n \in 0 .. Len(s)
  PROVE  \A m \in Below(s, n) : Depends[m] \subseteq Below(s, n)
<1>1. SUFFICES ASSUME NEW i \in 1 .. n PROVE Depends[s[i]] \subseteq Below(s, n)
  BY DEF Below
<1>2. Depends[s[i]] \subseteq Below(s, i - 1)
  <2>1. i \in 1 .. Len(s)
    OBVIOUS
  <2>2. QED
    BY <2>1 DEF InOrder
<1>3. Below(s, i - 1) \subseteq Below(s, n)
  <2>1. \A j \in 1 .. i - 1 : j \in 1 .. n
    OBVIOUS
  <2>2. QED
    BY <2>1 DEF Below
<1>4. QED
  BY <1>2, <1>3

LEMMA BelowShrinks ==
  ASSUME NEW s, Len(s) \in Nat, Distinct(s), NEW n \in 1 .. Len(s)
  PROVE  Below(s, n) \ {s[n]} = Below(s, n - 1)
<1>1. Below(s, n) = Below(s, n - 1) \cup {s[n]}
  BY BelowGrows
<1>2. s[n] \notin Below(s, n - 1)
  BY DEF Distinct
<1>3. QED
  BY <1>1, <1>2

LEMMA QuietContext ==
  ASSUME ContextInv, UNCHANGED <<context, launcher, forks, counts>>
  PROVE  ContextInv'
  BY DEF ContextInv, LauncherPart, TablePart, Cleared, ForkPart, LaunchPart

LEMMA LaunchContext ==
  ASSUME ContextInv, NEW list \in Factories, C!Launch(list)
  PROVE  ContextInv'
<1>1. list \in Seq(Module)
  BY ContextAssumption
<1>2. PICK made : made = SubSeq(list, 1, C!Accepted(list))
  OBVIOUS
<1>3. /\ launcher.pc = "idle" /\ context' = C!context_put_modules(context, made)
      /\ launcher' = [C!Idle EXCEPT !.pc = IF made = list THEN "initializing" ELSE "failed", !.made = made]
      /\ counts' = [counts EXCEPT !.launches = @ + 1] /\ forks' = forks
  BY <1>2 DEF C!Launch
<1>4. LauncherPart /\ TablePart /\ ForkPart /\ LaunchPart
  BY DEF ContextInv
<1>5. C!Accepted(list) \in 0 .. Len(list) /\ InOrder(made)
  BY <1>1, <1>2, AcceptedFits
<1>6. made \in Seq(Module) /\ Len(made) \in Nat
  BY <1>1, <1>2, <1>5, SubSeqProperties
<1>7. /\ launcher'.made = made /\ launcher'.at = 0 /\ launcher'.up = {}
      /\ launcher'.pc \in {"initializing", "failed"}
      /\ launcher' = [pc |-> launcher'.pc, made |-> made, at |-> 0, up |-> {}]
  BY <1>3 DEF C!Idle
<1>8. Below(made, 0) = {}
  BY DEF Below
<1>9. LauncherPart'
  BY <1>5, <1>6, <1>7, <1>8 DEF LauncherPart
<1>10. Slots(context, <<>>, 0)
  <2>1. launcher.made = <<>> /\ Cleared = 0
    BY <1>3, <1>4 DEF LauncherPart, Cleared
  <2>2. QED
    BY <1>4, <2>1 DEF TablePart
<1>11. Slots(context', made, 0)
  <2>1. context' = IF made = <<>> THEN context ELSE Filled(made, Len(made))
    BY <1>3, <1>5, <1>6, <1>10, OrderDistinct, PutAll
  <2>2. CASE made = <<>>
    BY <1>10, <2>1, <2>2
  <2>3. CASE made # <<>>
    BY <1>5, <1>6, <2>1, <2>3, OrderDistinct, FilledSlots
  <2>4. QED
    BY <2>2, <2>3
<1>12. TablePart'
  BY <1>7, <1>11 DEF TablePart, Cleared
<1>13. ForkPart'
  BY <1>3, <1>4 DEF ForkPart
<1>14. LaunchPart'
  <2>1. /\ counts' = [launches |-> counts.launches + 1, reloads |-> counts.reloads]
        /\ counts.launches \in Nat
    BY <1>3, <1>4 DEF LaunchPart
  <2>2. counts'.launches = 1 => \A f \in Fork : forks'[f].pc = "idle"
    BY <1>3, <1>4, <2>1 DEF LaunchPart
  <2>3. launcher'.pc # "main"
    BY <1>7
  <2>4. QED
    BY <2>1, <2>2, <2>3 DEF LaunchPart
<1>15. QED
  BY <1>9, <1>12, <1>13, <1>14 DEF ContextInv

\* A step of the launcher that leaves table, forks and list alone.
LEMMA LauncherContext ==
  ASSUME ContextInv, LauncherPart', UNCHANGED <<context, forks, counts>>,
         launcher'.made = launcher.made, launcher.pc # "clearing", launcher'.pc # "clearing",
         launcher.pc # "idle", launcher'.pc = "initializing" => launcher.pc = "initializing",
         launcher'.pc = "main" => launcher.pc = "initializing"
  PROVE  ContextInv'
<1>1. LauncherPart /\ TablePart /\ ForkPart /\ LaunchPart
  BY DEF ContextInv
<1>2. TablePart'
  BY <1>1 DEF TablePart, Cleared
<1>3. ForkPart'
  BY <1>1 DEF ForkPart
<1>4. LaunchPart'
  BY <1>1 DEF LaunchPart
<1>5. QED
  BY <1>2, <1>3, <1>4 DEF ContextInv

LEMMA InitializeContext ==
  ASSUME ContextInv, NEW ok \in BOOLEAN, C!Initialize(ok)
  PROVE  ContextInv'
<1>1. LauncherPart
  BY DEF ContextInv
<1>2. PICK s, n : s = launcher.made /\ n = launcher.at
  OBVIOUS
<1>3. /\ launcher.pc = "initializing" /\ n \in Nat /\ n < Len(s) /\ s \in Seq(Module)
      /\ InOrder(s) /\ launcher.up = Below(s, n) /\ UNCHANGED <<context, forks, counts>>
      /\ \/ launcher' = [launcher EXCEPT !.pc = "failed"]
         \/ launcher' = [launcher EXCEPT !.at = @ + 1, !.up = @ \cup {s[n + 1]}]
  BY <1>1, <1>2 DEF C!Initialize, LauncherPart
<1>4. CASE launcher' = [launcher EXCEPT !.pc = "failed"]
  <2>1. LauncherPart'
    BY <1>1, <1>2, <1>3, <1>4 DEF LauncherPart
  <2>2. launcher'.made = launcher.made /\ launcher'.pc = "failed"
    BY <1>1, <1>4 DEF LauncherPart
  <2>3. QED
    BY <1>3, <2>1, <2>2, LauncherContext
<1>5. CASE launcher' = [launcher EXCEPT !.at = @ + 1, !.up = @ \cup {s[n + 1]}]
  <2>1. n + 1 \in Nat /\ n + 1 >= 1 /\ n + 1 - 1 = n /\ n + 1 \in 1 .. Len(s) /\ n + 1 <= Len(s)
    BY <1>3
  <2>2. Below(s, n + 1) = Below(s, n) \cup {s[n + 1]} /\ s[n + 1] \in Module
    <3>1. PICK k : k = n + 1
      OBVIOUS
    <3>2. Below(s, k) = Below(s, k - 1) \cup {s[k]}
      BY <2>1, <3>1, BelowGrows
    <3>3. QED
      BY <1>3, <2>1, <3>1, <3>2
  <2>3. /\ launcher'.made = s /\ launcher'.pc = "initializing" /\ launcher'.at = n + 1
        /\ launcher'.up = Below(s, n + 1)
        /\ launcher' = [pc |-> "initializing", made |-> s, at |-> n + 1, up |-> launcher'.up]
    BY <1>1, <1>2, <1>3, <1>5, <2>2 DEF LauncherPart
  <2>4. launcher.up \in SUBSET Module
    BY <1>1 DEF LauncherPart
  <2>5. launcher'.up \in SUBSET Module
    BY <1>3, <2>2, <2>3, <2>4
  <2>6. LauncherPart'
    BY <1>3, <2>1, <2>3, <2>5 DEF LauncherPart
  <2>7. QED
    BY <1>2, <1>3, <2>3, <2>6, LauncherContext
<1>6. QED
  BY <1>3, <1>4, <1>5

LEMMA MainContext ==
  ASSUME ContextInv, C!Main \/ C!MainReturns
  PROVE  ContextInv'
<1>1. LauncherPart
  BY DEF ContextInv
<1>2. CASE C!Main
  <2>1. /\ launcher.pc = "initializing" /\ launcher.at = Len(launcher.made)
        /\ launcher' = [launcher EXCEPT !.pc = "main"] /\ UNCHANGED <<context, forks, counts>>
    BY <1>2 DEF C!Main
  <2>2. LauncherPart' /\ launcher'.made = launcher.made /\ launcher'.pc = "main"
    BY <1>1, <2>1 DEF LauncherPart
  <2>3. QED
    BY <2>1, <2>2, LauncherContext
<1>3. CASE C!MainReturns
  <2>1. /\ launcher.pc = "main"
        /\ launcher' = [launcher EXCEPT !.pc = "stopping"] /\ UNCHANGED <<context, forks, counts>>
    BY <1>3 DEF C!MainReturns
  <2>2. LauncherPart' /\ launcher'.made = launcher.made /\ launcher'.pc = "stopping"
    BY <1>1, <2>1 DEF LauncherPart
  <2>3. QED
    BY <2>1, <2>2, LauncherContext
<1>4. QED
  BY <1>2, <1>3

LEMMA ShutdownContext ==
  ASSUME ContextInv, NEW ok \in BOOLEAN, C!Shutdown(ok)
  PROVE  ContextInv'
<1>1. LauncherPart
  BY DEF ContextInv
<1>2. PICK s, n : s = launcher.made /\ n = launcher.at
  OBVIOUS
<1>3. /\ launcher.pc = "stopping" /\ n \in Nat /\ n > 0 /\ n <= Len(s) /\ s \in Seq(Module)
      /\ InOrder(s) /\ launcher.up = Below(s, n) /\ UNCHANGED <<context, forks, counts>>
      /\ \/ launcher' = [launcher EXCEPT !.pc = "failed"]
         \/ launcher' = [launcher EXCEPT !.at = @ - 1, !.up = @ \ {s[n]}]
  BY <1>1, <1>2 DEF C!Shutdown, C!Topmost, LauncherPart
<1>4. CASE launcher' = [launcher EXCEPT !.pc = "failed"]
  <2>1. LauncherPart'
    BY <1>1, <1>2, <1>3, <1>4 DEF LauncherPart
  <2>2. launcher'.made = launcher.made /\ launcher'.pc = "failed"
    BY <1>1, <1>4 DEF LauncherPart
  <2>3. QED
    BY <1>3, <2>1, <2>2, LauncherContext
<1>5. CASE launcher' = [launcher EXCEPT !.at = @ - 1, !.up = @ \ {s[n]}]
  <2>1. n \in 1 .. Len(s) /\ n - 1 \in Nat /\ n - 1 <= Len(s) /\ Len(s) \in Nat
    BY <1>3
  <2>2. Below(s, n) \ {s[n]} = Below(s, n - 1)
    BY <1>3, <2>1, OrderDistinct, BelowShrinks
  <2>3. /\ launcher'.made = s /\ launcher'.pc = "stopping" /\ launcher'.at = n - 1
        /\ launcher'.up = Below(s, n - 1)
        /\ launcher' = [pc |-> "stopping", made |-> s, at |-> n - 1, up |-> launcher'.up]
    BY <1>1, <1>2, <1>3, <1>5, <2>2 DEF LauncherPart
  <2>4. launcher.up \in SUBSET Module
    BY <1>1 DEF LauncherPart
  <2>5. launcher'.up \in SUBSET Module
    BY <1>3, <2>2, <2>3, <2>4
  <2>6. LauncherPart'
    BY <1>3, <2>1, <2>3, <2>5 DEF LauncherPart
  <2>7. QED
    BY <1>2, <1>3, <2>3, <2>6, LauncherContext
<1>6. QED
  BY <1>3, <1>4, <1>5

\* Removing the next module of the list empties its slot and no other.
LEMMA RemoveNext ==
  ASSUME NEW s \in Seq(Module), Distinct(s), NEW n \in Nat, n < Len(s), NEW c, Slots(c, s, n)
  PROVE  Slots(C!context_remove_module(c, s[n + 1]), s, n + 1)
<1>1. PICK k : k = n + 1
  OBVIOUS
<1>2. k \in 1 .. Len(s) /\ k \in n + 1 .. Len(s) /\ s[k] \in Module /\ k # NULL /\ k \in Nat
  BY <1>1, ContextAssumption
<1>3. c.modules[s[k]] = k
  BY <1>2 DEF Slots
<1>4. PICK d : d = C!context_remove_module(c, s[k])
  OBVIOUS
<1>5. d = [c EXCEPT !.containers[k] = NULL, !.modules[s[k]] = NULL, !.size = @ - 1]
  BY <1>2, <1>3, <1>4 DEF C!context_remove_module
<1>6. /\ d = [containers |-> d.containers, size |-> Len(s) - k, modules |-> d.modules]
      /\ d.containers = [c.containers EXCEPT ![k] = NULL]
      /\ d.modules = [c.modules EXCEPT ![s[k]] = NULL]
  <2>1. PICK a, b, w, m : a = c.containers /\ b = c.size /\ w = c.modules /\ m = s[k]
    BY Zenon
  <2>2. c = [containers |-> a, size |-> b, modules |-> w] /\ b = Len(s) - n
    BY <2>1 DEF Slots
  <2>3. d = [containers |-> [a EXCEPT ![k] = NULL], size |-> b - 1, modules |-> [w EXCEPT ![m] = NULL]]
    BY <1>5, <2>1, <2>2
  <2>4. b - 1 = Len(s) - k
    BY <1>1, <1>2, <2>2
  <2>5. QED
    BY <2>1, <2>3, <2>4
<1>7. /\ c.modules = [m \in Module |-> c.modules[m]] /\ DOMAIN c.containers = 1 .. Len(s)
      /\ \A m \in Module : c.modules[m] # NULL => c.modules[m] \in n + 1 .. Len(s) /\ s[c.modules[m]] = m
      /\ \A j \in n + 1 .. Len(s) : c.modules[s[j]] = j
      /\ \A j \in 1 .. Len(s) : c.containers[j] = IF j <= n THEN NULL ELSE s[j]
  BY <1>2 DEF Slots
<1>8. d.modules = [m \in Module |-> d.modules[m]]
  BY <1>6, <1>7
<1>9. \A m \in Module : d.modules[m] # NULL => d.modules[m] \in k + 1 .. Len(s) /\ s[d.modules[m]] = m
  <2>1. SUFFICES ASSUME NEW m \in Module, d.modules[m] # NULL
                 PROVE  d.modules[m] \in k + 1 .. Len(s) /\ s[d.modules[m]] = m
    OBVIOUS
  <2>2. m # s[k]
    BY <1>2, <1>6, <1>7, <2>1
  <2>3. d.modules[m] = c.modules[m]
    BY <1>6, <1>7, <2>2
  <2>4. c.modules[m] \in n + 1 .. Len(s) /\ s[c.modules[m]] = m
    BY <1>7, <2>1, <2>3
  <2>5. c.modules[m] # k
    BY <2>2, <2>4
  <2>6. c.modules[m] \in k + 1 .. Len(s)
    BY <1>1, <1>2, <2>4, <2>5
  <2>7. QED
    BY <2>3, <2>4, <2>6
<1>10. \A j \in k + 1 .. Len(s) : d.modules[s[j]] = j
  <2>1. SUFFICES ASSUME NEW j \in k + 1 .. Len(s) PROVE d.modules[s[j]] = j
    OBVIOUS
  <2>2. j \in n + 1 .. Len(s) /\ j \in 1 .. Len(s) /\ j # k /\ s[j] \in Module /\ Len(s) \in Nat
    BY <1>1, <1>2
  <2>3. s[j] # s[k]
    BY <1>2, <2>2, DistinctSlots
  <2>4. QED
    BY <1>6, <1>7, <2>2, <2>3
<1>11. \A j \in 1 .. Len(s) : d.containers[j] = IF j <= k THEN NULL ELSE s[j]
  BY <1>1, <1>2, <1>6, <1>7
<1>12. DOMAIN d.containers = 1 .. Len(s)
  BY <1>6, <1>7
<1>13. Slots(d, s, k)
  BY <1>6, <1>8, <1>9, <1>10, <1>11, <1>12 DEF Slots
<1>14. QED
  BY <1>1, <1>4, <1>13

\* A table whose modules were all removed is one nothing was put into.
LEMMA AllRemoved ==
  ASSUME NEW s \in Seq(Module), NEW c, Slots(c, s, Len(s))
  PROVE  Slots(c, <<>>, 0)
<1>1. /\ c = [containers |-> c.containers, size |-> 0, modules |-> c.modules]
      /\ c.modules = [m \in Module |-> c.modules[m]]
      /\ \A m \in Module : c.modules[m] = NULL
  BY DEF Slots
<1>2. QED
  BY <1>1 DEF Slots

LEMMA ClearContext ==
  ASSUME ContextInv, C!Clear
  PROVE  ContextInv'
<1>1. LauncherPart /\ TablePart /\ ForkPart /\ LaunchPart
  BY DEF ContextInv
<1>2. PICK s, n : s = launcher.made /\ n = launcher.at
  OBVIOUS
<1>3. /\ s \in Seq(Module) /\ InOrder(s) /\ n \in Nat /\ n < Len(s) /\ Len(s) \in Nat
      /\ launcher.pc \in {"stopping", "clearing"} /\ launcher.up \subseteq Module
      /\ launcher.pc = "stopping" => launcher.up = {} /\ launcher.up = Below(s, n)
      /\ context' = C!context_remove_module(context, s[n + 1])
      /\ launcher' = IF n + 1 = Len(s) THEN C!Idle ELSE [launcher EXCEPT !.pc = "clearing", !.at = @ + 1]
      /\ UNCHANGED <<forks, counts>>
  BY <1>1, <1>2 DEF C!Clear, LauncherPart
<1>4. launcher.pc = "stopping" => n = 0
  <2>1. n >= 1 => s[1] \in Below(s, n)
    BY <1>3 DEF Below
  <2>2. QED
    BY <1>3, <2>1
<1>5. Cleared = n /\ launcher.up = {}
  BY <1>1, <1>2, <1>3, <1>4 DEF Cleared, LauncherPart
<1>6. Slots(context', s, n + 1)
  <2>1. Slots(context, s, n)
    BY <1>1, <1>2, <1>5 DEF TablePart
  <2>2. QED
    BY <1>3, <2>1, OrderDistinct, RemoveNext
<1>7. CASE n + 1 = Len(s)
  <2>1. launcher' = C!Idle
    BY <1>3, <1>7
  <2>2. launcher' = [pc |-> "idle", made |-> <<>>, at |-> 0, up |-> {}]
    BY <2>1 DEF C!Idle
  <2>3. Slots(context', <<>>, 0)
    BY <1>3, <1>6, <1>7, AllRemoved
  <2>4. TablePart'
    BY <2>2, <2>3 DEF TablePart, Cleared
  <2>5. LauncherPart'
    BY <2>2 DEF LauncherPart, InOrder
  <2>6. ForkPart'
    BY <1>1, <1>3 DEF ForkPart
  <2>7. LaunchPart'
    BY <1>1, <1>3, <2>2 DEF LaunchPart
  <2>8. QED
    BY <2>4, <2>5, <2>6, <2>7 DEF ContextInv
<1>8. CASE n + 1 # Len(s)
  <2>1. launcher' = [pc |-> "clearing", made |-> s, at |-> n + 1, up |-> {}]
    BY <1>1, <1>2, <1>3, <1>5, <1>8 DEF LauncherPart
  <2>2. TablePart'
    BY <1>6, <2>1 DEF TablePart, Cleared
  <2>3. LauncherPart'
    <3>1. PICK k : k = n + 1
      OBVIOUS
    <3>2. k \in Nat /\ k <= Len(s) /\ 1 <= k /\ k < Len(s)
      BY <1>3, <1>8, <3>1
    <3>3. launcher' = [pc |-> "clearing", made |-> s, at |-> k, up |-> {}]
      BY <2>1, <3>1
    <3>4. PICK w : w = launcher'
      OBVIOUS
    <3>5. w.made = s /\ w.at = k /\ w.up = {} /\ w.pc = "clearing"
      BY <3>3, <3>4
    <3>6. w \in [pc : {"idle", "initializing", "main", "stopping", "clearing", "failed"},
                 made : Seq(Module), at : Nat, up : SUBSET Module]
      BY <1>3, <3>2, <3>3, <3>4
    <3>7. QED
      BY <1>3, <3>2, <3>4, <3>5, <3>6 DEF LauncherPart
  <2>4. ForkPart'
    BY <1>1, <1>3 DEF ForkPart
  <2>5. LaunchPart'
    BY <1>1, <1>3, <2>1 DEF LaunchPart
  <2>6. QED
    BY <2>2, <2>3, <2>4, <2>5 DEF ContextInv
<1>9. QED
  BY <1>7, <1>8

\* A step of one fork, which keeps its list until it is idle again.
LEMMA ForkContext ==
  ASSUME ContextInv, NEW f \in Fork, UNCHANGED <<context, launcher>>,
         counts'.launches = counts.launches, counts' = [launches |-> counts'.launches, reloads |-> counts'.reloads],
         NEW o, forks' = [forks EXCEPT ![f] = o], ForkFits(o),
         launcher.pc \in {"main", "stopping", "clearing"} \/ (forks[f].pc # "idle" /\ o.pc # "idle")
           \/ o.pc = "idle",
         counts.launches = 1 /\ launcher.pc = "main" /\ o.pc # "idle" =>
           o.made = launcher.made \/ (forks[f].pc # "idle" /\ o.made = forks[f].made)
  PROVE  ContextInv'
<1>1. LauncherPart /\ TablePart /\ ForkPart /\ LaunchPart
  BY DEF ContextInv
<1>2. LauncherPart' /\ TablePart'
  BY <1>1 DEF LauncherPart, TablePart, Cleared
<1>3. DOMAIN forks' = Fork /\ forks'[f] = o /\ \A g \in Fork : g # f => forks'[g] = forks[g]
  BY <1>1 DEF ForkPart
<1>4. ForkPart'
  BY <1>1, <1>3 DEF ForkPart
<1>5. LaunchPart'
  BY <1>1, <1>3 DEF LaunchPart
<1>6. QED
  BY <1>2, <1>4, <1>5 DEF ContextInv

LEMMA RestoreContext ==
  ASSUME ContextInv, NEW f \in Fork, C!Restore(f)
  PROVE  ContextInv'
<1>1. LauncherPart /\ TablePart /\ ForkPart /\ LaunchPart
  BY DEF ContextInv
<1>2. PICK read, o : /\ read = C!context_load(context)
                     /\ o = [pc |-> IF NULL \in C!Range(read) THEN "failed" ELSE "forking",
                             made |-> read, at |-> 0, up |-> {}]
  BY Zenon
<1>3. /\ forks[f].pc = "idle" /\ launcher.pc \in {"main", "stopping", "clearing"}
      /\ forks' = [forks EXCEPT ![f] = o] /\ UNCHANGED <<context, launcher, library, counts>>
  BY <1>2 DEF C!Restore
<1>4. PICK s : s = launcher.made
  OBVIOUS
<1>5. s \in Seq(Module) /\ Len(s) \in Nat /\ InOrder(s) /\ Cleared \in Nat /\ Cleared <= Len(s)
  BY <1>1, <1>4 DEF LauncherPart, Cleared
<1>6. /\ context.size = Len(s) - Cleared
      /\ \A j \in 1 .. Len(s) : context.containers[j] = IF j <= Cleared THEN NULL ELSE s[j]
  BY <1>1, <1>4 DEF TablePart, Slots
<1>7. /\ read = [i \in 1 .. Len(s) - Cleared |-> context.containers[i]]
      /\ DOMAIN read = 1 .. Len(s) - Cleared
  BY <1>2, <1>6 DEF C!context_load
<1>8. launcher.pc \in {"main", "stopping"} => read = s
  <2>1. SUFFICES ASSUME launcher.pc \in {"main", "stopping"} PROVE read = s
    OBVIOUS
  <2>2. Cleared = 0
    BY <2>1 DEF Cleared
  <2>3. read = [i \in 1 .. Len(s) |-> s[i]]
    BY <1>5, <1>6, <1>7, <2>2
  <2>4. QED
    BY <1>5, <2>3
<1>9. launcher.pc = "clearing" => o.pc = "failed"
  <2>1. SUFFICES ASSUME launcher.pc = "clearing" PROVE o.pc = "failed"
    OBVIOUS
  <2>2. 1 <= Cleared /\ Cleared < Len(s)
    BY <1>1, <1>4, <2>1 DEF LauncherPart, Cleared
  <2>3. 1 \in DOMAIN read /\ read[1] = NULL
    BY <1>5, <1>6, <1>7, <2>2
  <2>4. NULL \in C!Range(read)
    BY <2>3 DEF C!Range
  <2>5. QED
    BY <1>2, <2>4
<1>10. ForkFits(o)
  <2>1. o = [pc |-> o.pc, made |-> read, at |-> 0, up |-> {}] /\ o.pc \in {"failed", "forking"}
    BY <1>2
  <2>2. Below(read, 0) = {}
    BY DEF Below
  <2>3. o.pc = "forking" => read = s
    BY <1>3, <1>8, <1>9
  <2>4. ASSUME o.pc = "forking"
        PROVE  o.made \in Seq(Module) /\ InOrder(o.made) /\ o.at \in 0 .. Len(o.made) /\ o.up = Below(o.made, o.at)
    <3>1. o.made = s /\ o.at = 0 /\ o.up = {} /\ Below(s, 0) = {}
      BY <2>1, <2>2, <2>3, <2>4
    <3>2. QED
      BY <1>5, <3>1
  <2>5. QED
    BY <2>1, <2>4 DEF ForkFits
<1>11. launcher.pc = "main" => o.made = launcher.made
  BY <1>2, <1>4, <1>8
<1>12. counts' = [launches |-> counts'.launches, reloads |-> counts'.reloads]
  BY <1>1, <1>3 DEF LaunchPart
<1>13. QED
  BY <1>3, <1>10, <1>11, <1>12, ForkContext

LEMMA ForkModuleContext ==
  ASSUME ContextInv, NEW f \in Fork, C!ForkModule(f)
  PROVE  ContextInv'
<1>1. ForkPart /\ LaunchPart
  BY DEF ContextInv
<1>2. PICK s, n, u : s = forks[f].made /\ n = forks[f].at /\ u = forks[f].up
  BY Zenon
<1>3. /\ forks[f] = [pc |-> "forking", made |-> s, at |-> n, up |-> u]
      /\ s \in Seq(Module) /\ Len(s) \in Nat /\ InOrder(s) /\ n \in Nat /\ n < Len(s) /\ u = Below(s, n)
  BY <1>1, <1>2 DEF C!ForkModule, ForkPart, ForkFits
<1>4. PICK o : o = [pc |-> "forking", made |-> s, at |-> n + 1, up |-> u \cup {s[n + 1]}]
  OBVIOUS
<1>5. forks' = [forks EXCEPT ![f] = o] /\ UNCHANGED <<context, launcher, counts>>
  <2>1. /\ forks' = [forks EXCEPT ![f].at = @ + 1, ![f].up = @ \cup {s[n + 1]}]
        /\ UNCHANGED <<context, launcher, counts>>
    BY <1>2 DEF C!ForkModule
  <2>2. DOMAIN forks = Fork
    BY <1>1 DEF ForkPart
  <2>3. PICK q, r : q = forks[f] /\ r = [forks[f] EXCEPT !.at = @ + 1, !.up = @ \cup {s[n + 1]}]
    BY Zenon
  <2>4. forks' = [forks EXCEPT ![f] = r]
    BY <2>1, <2>2, <2>3
  <2>5. r = o
    <3>1. q = [pc |-> "forking", made |-> s, at |-> n, up |-> u]
      BY <1>3, <2>3
    <3>2. r = [q EXCEPT !.at = @ + 1, !.up = @ \cup {s[n + 1]}]
      BY <2>3
    <3>3. r = [[pc |-> "forking", made |-> s, at |-> n, up |-> u] EXCEPT !.at = n + 1, !.up = u \cup {s[n + 1]}]
      BY <3>1, <3>2
    <3>4. r = [pc |-> "forking", made |-> s, at |-> n + 1, up |-> u \cup {s[n + 1]}]
      BY <3>3
    <3>5. QED
      BY <1>4, <3>4, Zenon
  <2>6. QED
    BY <2>1, <2>4, <2>5
<1>6. ForkFits(o)
  <2>1. PICK k : k = n + 1
    OBVIOUS
  <2>2. k \in Nat /\ k >= 1 /\ k - 1 = n /\ k \in 0 .. Len(s)
    BY <1>3, <2>1
  <2>3. Below(s, k) = Below(s, k - 1) \cup {s[k]}
    BY <2>2, BelowGrows
  <2>4. o = [pc |-> "forking", made |-> s, at |-> k, up |-> Below(s, k)]
    BY <1>3, <1>4, <2>1, <2>2, <2>3
  <2>5. QED
    BY <1>3, <2>2, <2>4 DEF ForkFits
<1>7. counts' = [launches |-> counts'.launches, reloads |-> counts'.reloads]
  BY <1>1, <1>5 DEF LaunchPart
<1>8. forks[f].pc # "idle" /\ o.pc # "idle" /\ o.made = forks[f].made
  BY <1>3, <1>4
<1>9. QED
  BY <1>5, <1>6, <1>7, <1>8, ForkContext

LEMMA ForkReturnsContext ==
  ASSUME ContextInv, NEW f \in Fork, C!ForkReturns(f)
  PROVE  ContextInv'
<1>1. ForkPart /\ LaunchPart
  BY DEF ContextInv
<1>2. PICK o : o = [forks[f] EXCEPT !.pc = "unforking"]
  OBVIOUS
<1>3. /\ forks[f].pc = "forking" /\ forks' = [forks EXCEPT ![f] = o]
      /\ UNCHANGED <<context, launcher, counts>>
  BY <1>2 DEF C!ForkReturns
<1>4. ForkFits(forks[f])
  BY <1>1 DEF ForkPart
<1>5. ForkFits(o) /\ o.pc = "unforking" /\ o.made = forks[f].made
  BY <1>2, <1>3, <1>4 DEF ForkFits
<1>6. counts' = [launches |-> counts'.launches, reloads |-> counts'.reloads]
  BY <1>1, <1>3 DEF LaunchPart
<1>7. QED
  BY <1>3, <1>5, <1>6, ForkContext

LEMMA UnforkContext ==
  ASSUME ContextInv, NEW f \in Fork, C!Unfork(f)
  PROVE  ContextInv'
<1>1. ForkPart /\ LaunchPart
  BY DEF ContextInv
<1>2. PICK s, n, u : s = forks[f].made /\ n = forks[f].at /\ u = forks[f].up
  BY Zenon
<1>3. /\ forks[f] = [pc |-> "unforking", made |-> s, at |-> n, up |-> u]
      /\ s \in Seq(Module) /\ Len(s) \in Nat /\ InOrder(s) /\ n \in 0 .. Len(s) /\ u = Below(s, n)
      /\ UNCHANGED <<context, launcher, counts>>
  BY <1>1, <1>2 DEF C!Unfork, ForkPart, ForkFits
<1>4. counts' = [launches |-> counts'.launches, reloads |-> counts'.reloads]
  BY <1>1, <1>3 DEF LaunchPart
<1>5. CASE n = 0
  <2>1. forks' = [forks EXCEPT ![f] = C!Idle]
    BY <1>2, <1>5 DEF C!Unfork
  <2>2. PICK o : o = C!Idle
    OBVIOUS
  <2>3. o = [pc |-> "idle", made |-> <<>>, at |-> 0, up |-> {}]
    BY <2>2 DEF C!Idle
  <2>4. ForkFits(o) /\ o.pc = "idle" /\ forks' = [forks EXCEPT ![f] = o]
    BY <2>1, <2>2, <2>3 DEF ForkFits
  <2>5. QED
    BY <1>3, <1>4, <2>4, ForkContext
<1>6. CASE n # 0
  <2>1. PICK o : o = [pc |-> "unforking", made |-> s, at |-> n - 1, up |-> u \ {s[n]}]
    OBVIOUS
  <2>2. forks' = [forks EXCEPT ![f] = o]
    <3>1. forks' = [forks EXCEPT ![f].at = @ - 1, ![f].up = @ \ {s[n]}]
      BY <1>2, <1>6 DEF C!Unfork, C!Topmost
    <3>2. DOMAIN forks = Fork
      BY <1>1 DEF ForkPart
    <3>3. PICK q, r : q = forks[f] /\ r = [forks[f] EXCEPT !.at = @ - 1, !.up = @ \ {s[n]}]
      BY Zenon
    <3>4. forks' = [forks EXCEPT ![f] = r]
      BY <3>1, <3>2, <3>3
    <3>5. r = o
      <4>1. q = [pc |-> "unforking", made |-> s, at |-> n, up |-> u]
        BY <1>3, <3>3
      <4>2. r = [q EXCEPT !.at = @ - 1, !.up = @ \ {s[n]}]
        BY <3>3
      <4>3. r = [[pc |-> "unforking", made |-> s, at |-> n, up |-> u] EXCEPT !.at = n - 1, !.up = u \ {s[n]}]
        BY <4>1, <4>2
      <4>4. r = [pc |-> "unforking", made |-> s, at |-> n - 1, up |-> u \ {s[n]}]
        BY <4>3
      <4>5. QED
        BY <2>1, <4>4, Zenon
    <3>6. QED
      BY <3>4, <3>5
  <2>3. n \in 1 .. Len(s) /\ n - 1 \in 0 .. Len(s)
    BY <1>3, <1>6
  <2>4. Below(s, n) \ {s[n]} = Below(s, n - 1)
    BY <1>3, <2>3, OrderDistinct, BelowShrinks
  <2>5. ForkFits(o) /\ o.pc = "unforking" /\ o.made = forks[f].made /\ forks[f].pc # "idle"
    BY <1>3, <2>1, <2>3, <2>4 DEF ForkFits
  <2>6. QED
    BY <1>3, <1>4, <2>2, <2>5, ForkContext
<1>7. QED
  BY <1>5, <1>6

LEMMA ReloadContext ==
  ASSUME ContextInv, NEW i \in C!Isolate, C!Reload(i)
  PROVE  ContextInv'
<1>1. LauncherPart /\ TablePart /\ ForkPart /\ LaunchPart
  BY DEF ContextInv
<1>2. UNCHANGED <<context, launcher, forks>> /\ counts' = [counts EXCEPT !.reloads = @ + 1]
  BY DEF C!Reload
<1>3. /\ counts' = [launches |-> counts'.launches, reloads |-> counts'.reloads]
      /\ counts'.launches = counts.launches
  BY <1>1, <1>2 DEF LaunchPart
<1>4. LaunchPart'
  BY <1>1, <1>2, <1>3 DEF LaunchPart
<1>5. QED
  BY <1>1, <1>2, <1>4 DEF ContextInv, LauncherPart, TablePart, Cleared, ForkPart

LEMMA ContextStep ==
  ASSUME ContextInv, C!Next
  PROVE  ContextInv'
  BY LaunchContext, InitializeContext, ShutdownContext, MainContext, ClearContext, RestoreContext,
     ForkModuleContext, ForkReturnsContext, UnforkContext, ReloadContext DEF C!Next

LEMMA ContextMeans ==
  ASSUME ContextInv
  PROVE  ContextAgrees
<1>1. LauncherPart /\ TablePart /\ ForkPart /\ LaunchPart
  BY DEF ContextInv
<1>2. PICK s : s = launcher.made
  OBVIOUS
<1>3. s \in Seq(Module) /\ Len(s) \in Nat /\ InOrder(s) /\ Cleared \in Nat /\ Cleared <= Len(s)
  BY <1>1, <1>2 DEF LauncherPart, Cleared
<1>4. Slots(context, s, Cleared)
  BY <1>1, <1>2 DEF TablePart
<1>5. C!SlotsAgree
  <2>1. ASSUME launcher.pc # "clearing"
        PROVE  /\ context.size = Len(s)
               /\ \A i \in 1 .. context.size : context.containers[i] = s[i]
               /\ \A m \in Module : (context.modules[m] # NULL) <=> (m \in C!Range(s))
    <3>1. Cleared = 0
      BY <2>1 DEF Cleared
    <3>2. context.size = Len(s) /\ \A i \in 1 .. Len(s) : context.containers[i] = s[i]
      BY <1>3, <1>4, <3>1 DEF Slots
    <3>3. \A j \in 1 .. Len(s) : context.modules[s[j]] # NULL
      BY <1>3, <1>4, <3>1, ContextAssumption DEF Slots
    <3>4. \A m \in Module : context.modules[m] # NULL => \E j \in 1 .. Len(s) : s[j] = m
      BY <1>3, <1>4, <3>1 DEF Slots
    <3>5. QED
      BY <1>3, <3>2, <3>3, <3>4 DEF C!Range
  <2>2. \A m \in Module : context.modules[m] # NULL => context.containers[context.modules[m]] = m
    BY <1>3, <1>4 DEF Slots
  <2>3. \A f \in Fork : forks[f].pc # "idle" /\ launcher.pc = "main" /\ counts.launches = 1 =>
          forks[f].made = launcher.made
    BY <1>1 DEF LaunchPart
  <2>4. QED
    BY <1>2, <2>1, <2>2, <2>3 DEF C!SlotsAgree
<1>6. C!DependenciesUp
  <2>1. \E n \in 0 .. Len(s) : launcher.up = Below(s, n)
    <3>1. launcher.pc \in {"idle", "clearing"} => launcher.up = Below(s, 0)
      BY <1>1 DEF LauncherPart, Below
    <3>2. QED
      BY <1>1, <1>2, <1>3, <3>1 DEF LauncherPart
  <2>2. \A m \in launcher.up : Depends[m] \subseteq launcher.up
    BY <1>3, <2>1, OrderUp
  <2>3. ASSUME NEW f \in Fork PROVE \A m \in forks[f].up : Depends[m] \subseteq forks[f].up
    <3>1. ForkFits(forks[f])
      BY <1>1 DEF ForkPart
    <3>2. CASE forks[f].pc \in {"forking", "unforking"}
      <4>1. PICK t, n : t = forks[f].made /\ n = forks[f].at
        OBVIOUS
      <4>2. t \in Seq(Module) /\ Len(t) \in Nat /\ InOrder(t) /\ n \in 0 .. Len(t) /\ forks[f].up = Below(t, n)
        BY <3>1, <3>2, <4>1 DEF ForkFits
      <4>3. QED
        BY <4>2, OrderUp
    <3>3. CASE forks[f].pc \notin {"forking", "unforking"}
      BY <3>1, <3>3 DEF ForkFits
    <3>4. QED
      BY <3>2, <3>3
  <2>4. QED
    BY <2>2, <2>3 DEF C!DependenciesUp
<1>7. QED
  BY <1>5, <1>6 DEF ContextAgrees, C!ContextAgrees

LEMMA ContextInvariant == CoreSpec => []ContextInv
<1>1. ASSUME CoreInit PROVE ContextInv
  <2>1. /\ context = C!context_create /\ launcher = C!Idle /\ forks = [f \in Fork |-> C!Idle]
        /\ counts = [launches |-> 0, reloads |-> 0]
    BY <1>1 DEF CoreInit, C!Init
  <2>2. /\ context = [containers |-> <<>>, size |-> 0, modules |-> [m \in Module |-> NULL]]
        /\ launcher = [pc |-> "idle", made |-> <<>>, at |-> 0, up |-> {}]
    BY <2>1 DEF C!context_create, C!Idle
  <2>3. LauncherPart
    BY <2>2 DEF LauncherPart, InOrder
  <2>4. TablePart
    BY <2>2 DEF TablePart, Cleared, Slots
  <2>5. ForkPart
    BY <2>1 DEF ForkPart, ForkFits, C!Idle
  <2>6. LaunchPart
    BY <2>1, <2>2 DEF LaunchPart, C!Idle
  <2>7. QED
    BY <2>3, <2>4, <2>5, <2>6 DEF ContextInv
<1>2. ASSUME ContextInv,
             [CoreNext]_<<part, vars, listVars, eventVars, contextVars, bufferVars>>
      PROVE  ContextInv'
  <2>1. C!Next \/ UNCHANGED contextVars
    BY <1>2 DEF CoreNext
  <2>2. CASE UNCHANGED contextVars
    BY <1>2, <2>2, QuietContext DEF contextVars
  <2>3. QED
    BY <1>2, <2>1, <2>2, ContextStep
<1>3. QED
  BY <1>1, <1>2, PTL DEF CoreSpec

\* The containers of the context and its map agree whatever list the program
\* launches, and however launches that fail, clear or are forked follow each
\* other; a module is up only while those it depends on are.
THEOREM ContextHolds == CoreSpec => []ContextAgrees
<1>1. ContextInv => ContextAgrees
  BY ContextMeans
<1>2. QED
  BY <1>1, ContextInvariant, PTL

-----------------------------------------------------------------------------
(* The libraries the isolates hold. *)

Loads == [mapped : Library \cup {NULL}, live : SUBSET Library,
          held : [C!Isolate -> Library \cup {NULL}]]

\* Before main of the first launch, and while the launcher has its library.
Before == counts.launches = 0 \/ (counts.launches = 1 /\ launcher.pc = "initializing")
Lasts == counts.launches = 1 /\ Plugged \in launcher.up

\* What an isolate holds is alive.
Alive(i) == library.held[i] # NULL => library.held[i] \in library.live

\* No fork holds a library before main.
HeldPart == counts.reloads = 0 /\ Before => \A f \in Fork : library.held[f] = NULL

LibraryInv == library \in Loads /\ counts.reloads \in Nat /\ HeldPart /\ LibrariesAlive

\* A step leaves these properties to those of the libraries held.
LEMMA LibraryFollows ==
  ASSUME library' \in Loads, counts'.reloads \in Nat,
         library'.mapped # NULL => library'.mapped \in library'.live,
         counts'.reloads = 0 =>
           /\ Alive("launcher")'
           /\ Before' => \A f \in Fork : library'.held[f] = NULL
           /\ Lasts' => \A f \in Fork : Alive(f)'
  PROVE  LibraryInv'
<1>1. HeldPart'
  BY DEF HeldPart
<1>2. LibrariesAlive'
  BY DEF LibrariesAlive, C!LibrariesAlive, Alive, Lasts
<1>3. QED
  BY <1>1, <1>2 DEF LibraryInv, Loads

LEMMA LibraryMeans ==
  ASSUME LibraryInv
  PROVE  /\ library \in Loads /\ counts.reloads \in Nat
         /\ library.mapped # NULL => library.mapped \in library.live
         /\ counts.reloads = 0 =>
              /\ Alive("launcher")
              /\ Before => \A f \in Fork : library.held[f] = NULL
              /\ Lasts => \A f \in Fork : Alive(f)
         /\ "launcher" \in C!Isolate /\ \A f \in Fork : f \in C!Isolate /\ f # "launcher"
<1>1. library \in Loads /\ counts.reloads \in Nat /\ HeldPart /\ C!LibrariesAlive
  BY DEF LibraryInv, LibrariesAlive
<1>2. "launcher" \in C!Isolate /\ \A f \in Fork : f \in C!Isolate /\ f # "launcher"
  BY ContextAssumption DEF C!Isolate
<1>3. QED
  BY <1>1, <1>2 DEF HeldPart, C!LibrariesAlive, Alive, Lasts

\* The library an isolate gets is alive: the one in the map, or a new one.
LEMMA LoadKeeps ==
  ASSUME NEW l \in Loads, NEW i \in C!Isolate, NEW new \in Library
  PROVE  LET g == C!LoadByPath(l, i, new) IN
           /\ g \in Loads
           /\ l.live \subseteq g.live
           /\ g.held[i] = g.mapped /\ (g.mapped = l.mapped \/ g.mapped \in g.live)
           /\ \A j \in C!Isolate \ {i} : g.held[j] = l.held[j]
<1> DEFINE m == C!system_library_load(l, new)
<1>1. /\ m \in Loads
      /\ l.live \subseteq m.live /\ m.held = l.held
      /\ (m.mapped = l.mapped \/ m.mapped \in m.live)
  BY DEF C!system_library_load, C!system_library_get, Loads
<1>2. C!LoadByPath(l, i, new) = [m EXCEPT !.held[i] = m.mapped]
  BY DEF C!LoadByPath
<1> HIDE DEF m
<1>3. QED
  BY <1>1, <1>2 DEF Loads

\* An isolate loads the library: the launcher, or a fork after main began.
LEMMA LoadAlive ==
  ASSUME LibraryInv, NEW i \in C!Isolate, NEW new \in C!Unused,
         library' = C!LoadByPath(library, i, new), counts'.reloads = counts.reloads,
         Before' => Before /\ i = "launcher", Lasts' => Lasts \/ Before
  PROVE  LibraryInv'
<1>1. new \in Library
  BY DEF C!Unused
<1>2. /\ library \in Loads /\ counts.reloads \in Nat
      /\ library.mapped # NULL => library.mapped \in library.live
      /\ counts.reloads = 0 =>
           /\ Alive("launcher")
           /\ Before => \A f \in Fork : library.held[f] = NULL
           /\ Lasts => \A f \in Fork : Alive(f)
      /\ "launcher" \in C!Isolate /\ \A f \in Fork : f \in C!Isolate /\ f # "launcher"
  BY LibraryMeans
<1>3. /\ library' \in Loads
      /\ library.live \subseteq library'.live
      /\ library'.held[i] = library'.mapped
      /\ (library'.mapped = library.mapped \/ library'.mapped \in library'.live)
      /\ \A j \in C!Isolate \ {i} : library'.held[j] = library.held[j]
  BY <1>1, <1>2, LoadKeeps
<1>4. library'.mapped # NULL => library'.mapped \in library'.live
  BY <1>2, <1>3
<1>5. \A j \in C!Isolate : j = i \/ Alive(j) => Alive(j)'
  BY <1>3, <1>4 DEF Alive
<1>6. counts'.reloads = 0 => (Before' => \A f \in Fork : library'.held[f] = NULL)
  BY <1>2, <1>3
<1>7. counts'.reloads = 0 => (Lasts' => \A f \in Fork : Alive(f)')
  <2>1. counts.reloads = 0 /\ (Lasts \/ Before) => \A f \in Fork : Alive(f)
    BY <1>2 DEF Alive
  <2>2. QED
    BY <1>2, <1>5, <2>1
<1>8. QED
  BY <1>2, <1>3, <1>4, <1>5, <1>6, <1>7, LibraryFollows

\* A step of the launcher or of a fork that leaves the libraries alone, or a fork
\* that forgets what it held.
LEMMA LibraryRests ==
  ASSUME LibraryInv, counts'.reloads = counts.reloads,
         library' = library \/ \E f \in Fork : library' = C!Forget(library, f),
         Before' => Before, Lasts' => Lasts \/ Before
  PROVE  LibraryInv'
<1>1. /\ library \in Loads /\ counts.reloads \in Nat
      /\ library.mapped # NULL => library.mapped \in library.live
      /\ counts.reloads = 0 =>
           /\ Alive("launcher")
           /\ Before => \A f \in Fork : library.held[f] = NULL
           /\ Lasts => \A f \in Fork : Alive(f)
      /\ "launcher" \in C!Isolate /\ \A f \in Fork : f \in C!Isolate /\ f # "launcher"
  BY LibraryMeans
<1>2. /\ library' \in Loads
      /\ library'.mapped = library.mapped /\ library'.live = library.live
      /\ \A j \in C!Isolate : library'.held[j] = library.held[j] \/ library'.held[j] = NULL
  BY <1>1 DEF C!Forget, Loads
<1>3. \A j \in C!Isolate : Alive(j) => Alive(j)'
  BY <1>2 DEF Alive
<1>4. counts'.reloads = 0 /\ Before' => \A f \in Fork : library'.held[f] = NULL
  BY <1>1, <1>2
<1>5. counts'.reloads = 0 /\ Lasts' => \A f \in Fork : Alive(f)'
  <2>1. counts.reloads = 0 /\ (Lasts \/ Before) => \A f \in Fork : Alive(f)
    BY <1>1 DEF Alive
  <2>2. QED
    BY <1>1, <1>3, <2>1
<1>6. QED
  BY <1>1, <1>2, <1>3, <1>4, <1>5, LibraryFollows

\* The launcher unloads its library at its end: forks that hold it hold it still.
LEMMA UnloadAlive ==
  ASSUME LibraryInv, library' = C!Unload(library, "launcher"), counts'.reloads = counts.reloads,
         Before' => Before, ~Lasts'
  PROVE  LibraryInv'
<1>1. /\ library \in Loads /\ counts.reloads \in Nat
      /\ counts.reloads = 0 => (Before => \A f \in Fork : library.held[f] = NULL)
      /\ "launcher" \in C!Isolate /\ \A f \in Fork : f \in C!Isolate /\ f # "launcher"
  BY LibraryMeans
<1>2. /\ library' \in Loads /\ library'.mapped = NULL /\ library'.held["launcher"] = NULL
      /\ \A f \in Fork : library'.held[f] = library.held[f]
  BY <1>1 DEF C!Unload, C!system_library_unload, Loads
<1>3. QED
  BY <1>1, <1>2, LibraryFollows DEF Alive

\* A SIGHUP: from now on the launcher and the forks may hold a freed library.
LEMMA ReloadAlive ==
  ASSUME LibraryInv, ContextInv, NEW i \in C!Isolate, C!Reload(i)
  PROVE  LibraryInv'
<1> DEFINE g == C!Unload(library, i)
<1>1. PICK new \in C!Unused : library' = C!LoadByPath(g, i, new)
  BY DEF C!Reload
<1>2. library \in Loads /\ counts.reloads \in Nat
  BY LibraryMeans
<1>3. g \in Loads /\ g.mapped = NULL
  BY <1>2 DEF C!Unload, C!system_library_unload, Loads
<1>4. new \in Library
  BY DEF C!Unused
<1> HIDE DEF g
<1>5. library' \in Loads /\ (library'.mapped = g.mapped \/ library'.mapped \in library'.live)
  BY <1>1, <1>3, <1>4, LoadKeeps
<1>6. counts'.reloads = counts.reloads + 1
  <2>1. counts = [launches |-> counts.launches, reloads |-> counts.reloads]
    BY DEF ContextInv, LaunchPart
  <2>2. counts' = [counts EXCEPT !.reloads = @ + 1]
    BY DEF C!Reload
  <2>3. QED
    BY <2>1, <2>2
<1>7. counts'.reloads \in Nat /\ counts'.reloads # 0
  BY <1>2, <1>6
<1>8. QED
  BY <1>3, <1>5, <1>7, LibraryFollows

LEMMA LibraryStep ==
  ASSUME LibraryInv, ContextInv, C!Next
  PROVE  LibraryInv'
<1>0. "launcher" \in C!Isolate /\ \A f \in Fork : f \in C!Isolate /\ f # "launcher"
  BY LibraryMeans
<1>c. /\ counts = [launches |-> counts.launches, reloads |-> counts.reloads] /\ counts.launches \in Nat
      /\ counts.launches = 0 => launcher.pc = "idle"
      /\ Before => \A f \in Fork : forks[f].pc = "idle"
  BY DEF ContextInv, LaunchPart, Before
<1>l. launcher = [pc |-> launcher.pc, made |-> launcher.made, at |-> launcher.at, up |-> launcher.up]
  BY DEF ContextInv, LauncherPart
<1>1. ASSUME NEW list \in Factories, C!Launch(list)
      PROVE  LibraryInv'
  <2>1. counts' = [counts EXCEPT !.launches = @ + 1] /\ launcher'.up = {} /\ library' = library
    BY <1>1 DEF C!Launch, C!Idle
  <2>2. counts'.launches = counts.launches + 1 /\ counts'.reloads = counts.reloads
    BY <1>c, <2>1
  <2>3. (Before' => Before) /\ ~Lasts'
    BY <1>c, <2>1, <2>2 DEF Before, Lasts
  <2>4. QED
    BY <2>1, <2>2, <2>3, LibraryRests
<1>2. ASSUME NEW ok \in BOOLEAN, C!Initialize(ok)
      PROVE  LibraryInv'
  <2>1. /\ launcher.pc = "initializing" /\ counts' = counts
        /\ \/ UNCHANGED library
           \/ \E new \in C!Unused : library' = C!LoadByPath(library, "launcher", new)
    BY <1>2 DEF C!Initialize
  <2>2. (Before' => Before) /\ (Lasts' => Lasts \/ Before)
    BY <2>1 DEF Before, Lasts
  <2>3. QED
    BY <1>0, <2>1, <2>2, LibraryRests, LoadAlive
<1>3. ASSUME NEW ok \in BOOLEAN, C!Shutdown(ok)
      PROVE  LibraryInv'
  <2>1. /\ launcher.pc = "stopping" /\ counts' = counts
        /\ \/ launcher' = [launcher EXCEPT !.pc = "failed"] /\ library' = library
           \/ /\ launcher' = [launcher EXCEPT !.at = @ - 1, !.up = @ \ {C!Topmost(launcher)}]
              /\ \/ library' = library
                 \/ C!Topmost(launcher) = Plugged /\ library' = C!Unload(library, "launcher")
    BY <1>3 DEF C!Shutdown
  <2>2. launcher'.pc # "initializing" /\ launcher'.up \subseteq launcher.up
    BY <1>l, <2>1
  <2>3. (Before' => Before) /\ (Lasts' => Lasts)
    BY <2>1, <2>2 DEF Before, Lasts
  <2>4. CASE library' = library
    BY <2>1, <2>3, <2>4, LibraryRests
  <2>5. CASE /\ launcher' = [launcher EXCEPT !.at = @ - 1, !.up = @ \ {C!Topmost(launcher)}]
             /\ C!Topmost(launcher) = Plugged /\ library' = C!Unload(library, "launcher")
    <3>1. Plugged \notin launcher'.up
      BY <1>l, <2>5
    <3>2. ~Lasts'
      BY <3>1 DEF Lasts
    <3>3. QED
      BY <2>1, <2>3, <2>5, <3>2, UnloadAlive
  <2>6. QED
    BY <2>1, <2>4, <2>5
<1>4. CASE C!Main \/ C!MainReturns \/ C!Clear
  <2>1. /\ counts' = counts /\ library' = library
        /\ launcher' = C!Idle \/ (launcher'.up = launcher.up /\ launcher'.pc # "initializing")
    BY <1>l, <1>4 DEF C!Main, C!MainReturns, C!Clear
  <2>2. launcher'.pc # "initializing" /\ launcher'.up \subseteq launcher.up
    BY <2>1 DEF C!Idle
  <2>3. (Before' => Before) /\ (Lasts' => Lasts)
    BY <2>1, <2>2 DEF Before, Lasts
  <2>4. QED
    BY <2>1, <2>3, LibraryRests
<1>5. ASSUME NEW f \in Fork, C!Restore(f) \/ C!ForkReturns(f) \/ C!Unfork(f)
      PROVE  LibraryInv'
  <2>1. /\ counts' = counts /\ launcher' = launcher
        /\ library' = library \/ library' = C!Forget(library, f)
    BY <1>5 DEF C!Restore, C!ForkReturns, C!Unfork
  <2>2. QED
    BY <2>1, LibraryRests DEF Before, Lasts
<1>6. ASSUME NEW f \in Fork, C!ForkModule(f)
      PROVE  LibraryInv'
  <2>1. /\ counts' = counts /\ launcher' = launcher /\ forks[f].pc = "forking"
        /\ \/ UNCHANGED library
           \/ \E new \in C!Unused : library' = C!LoadByPath(library, f, new)
    BY <1>6 DEF C!ForkModule
  <2>2. ~Before' /\ (Lasts' => Lasts)
    BY <1>c, <2>1 DEF Before, Lasts
  <2>3. QED
    BY <1>0, <2>1, <2>2, LibraryRests, LoadAlive
<1>7. ASSUME NEW i \in C!Isolate, C!Reload(i)
      PROVE  LibraryInv'
  BY <1>7, ReloadAlive
<1>8. QED
  BY <1>1, <1>2, <1>3, <1>4, <1>5, <1>6, <1>7 DEF C!Next

\* Whatever the order of loads, reloads, forks and shutdowns, and however many
\* isolates share the library: the map returns no freed one, and without a SIGHUP the
\* launcher holds none, nor does a fork of the first launch until the launcher shut
\* the module down.
THEOREM LibrariesHold == CoreSpec => []LibrariesAlive
<1>1. ASSUME CoreInit PROVE LibraryInv
  <2>1. /\ library = [mapped |-> NULL, live |-> {}, held |-> [i \in C!Isolate |-> NULL]]
        /\ counts = [launches |-> 0, reloads |-> 0]
    BY <1>1 DEF CoreInit, C!Init
  <2>2. "launcher" \in C!Isolate /\ \A f \in Fork : f \in C!Isolate
    BY DEF C!Isolate
  <2>3. library \in Loads /\ counts.reloads \in Nat
    BY <2>1 DEF Loads
  <2>4. HeldPart /\ LibrariesAlive
    BY <2>1, <2>2 DEF HeldPart, LibrariesAlive, C!LibrariesAlive
  <2>5. QED
    BY <2>3, <2>4 DEF LibraryInv
<1>2. ASSUME LibraryInv, ContextInv,
             [CoreNext]_<<part, vars, listVars, eventVars, contextVars, bufferVars>>
      PROVE  LibraryInv'
  <2>1. C!Next \/ UNCHANGED contextVars
    BY <1>2 DEF CoreNext
  <2>2. CASE UNCHANGED contextVars
    BY <1>2, <2>2, LibraryRests DEF contextVars, Before, Lasts
  <2>3. QED
    BY <1>2, <2>1, <2>2, LibraryStep
<1>3. LibraryInv => LibrariesAlive
  BY DEF LibraryInv
<1>4. QED
  BY <1>1, <1>2, <1>3, ContextInvariant, PTL DEF CoreSpec

-----------------------------------------------------------------------------
(* The bytes of the growing buffers. *)

\* What the areas of a buffer hold, one after the other.
Flat(areas) == B!Content(areas, Len(areas))

\* The bytes in the areas are those finalized.
Holds(x, b, bytes) ==
  IF x \in Input THEN bytes = IF b.areas = <<>> THEN <<>> ELSE B!Top(b).bytes
                 ELSE bytes = Flat(b.areas)

\* The fields of the structure are up to date.
Shown(x, b) ==
  IF x \in Input THEN b.used = Len(B!Top(b).bytes) /\ b.unused = B!Room(b)
                 ELSE b.vectors = Len(b.areas) /\ b.size = Len(Flat(b.areas))

BufferFits(x, b, r, bytes) ==
  /\ bytes \in Seq(Nat)
  /\ b = NULL => r = NULL /\ bytes = <<>>
  /\ b # NULL => b \in BufferRecord /\ Holds(x, b, bytes)
  /\ r # NULL => r \in Seq(Nat) /\ b.areas # <<>> /\ Shown(x, b)

BuffersInv ==
  /\ buffer = [x \in B!Buffer |-> buffer[x]] /\ reserved = [x \in B!Buffer |-> reserved[x]]
  /\ written = [x \in B!Buffer |-> written[x]]
  /\ \A x \in B!Buffer : BufferFits(x, buffer[x], reserved[x], written[x])

\* What a loop computes, step by step: a function that begins with a and goes on by F.
Stays(F, n, D) == \A k \in 1 .. n, t \in D : F[<<k, t>>] \in D
Iterates(f, F, a, n, D) ==
  f \in [0 .. n -> D] /\ f[0] = a /\ \A k \in 1 .. n : f[k] = F[<<k, f[k - 1]>>]

LEMMA Iteration ==
  ASSUME NEW D, NEW a \in D, NEW n \in Nat, NEW F, Stays(F, n, D)
  PROVE  \E f : Iterates(f, F, a, n, D)
<1> DEFINE Goes(f, m) == f[0] = a /\ \A k \in 1 .. m : f[k] = F[<<k, f[k - 1]>>]
           Good(m) == \E f \in [0 .. m -> D] : Goes(f, m)
<1>1. SUFFICES ASSUME ~Good(n) PROVE FALSE
  BY DEF Iterates
<1>2. PICK S : S = {m \in 0 .. n : ~Good(m)}
  OBVIOUS
<1>3. S \subseteq Nat /\ S # {}
  <2>1. n \in 0 .. n
    OBVIOUS
  <2>2. n \in S /\ S \subseteq 0 .. n
    BY <1>1, <1>2, <2>1, Zenon
  <2>3. QED
    BY <2>2
<1>4. PICK m \in S : \A y \in S : m <= y
  BY <1>3, LeastNatural
<1>5. m \in 0 .. n /\ ~Good(m)
  BY <1>2, <1>4
<1>6. Good(0)
  <2>1. PICK f : f = [k \in 0 .. 0 |-> a]
    OBVIOUS
  <2>2. f \in [0 .. 0 -> D] /\ f[0] = a
    BY <2>1
  <2>3. Goes(f, 0)
    BY <2>2
  <2>4. QED
    BY <2>2, <2>3
<1>7. m # 0
  BY <1>5, <1>6
<1>8. PICK p : p = m - 1
  OBVIOUS
<1>9. p \in 0 .. n /\ p \notin S /\ m \in 1 .. n /\ p = m - 1 /\ p \in Nat
  BY <1>4, <1>5, <1>7, <1>8
<1>10. PICK f \in [0 .. p -> D] : Goes(f, p)
  BY <1>2, <1>9
<1>11. f[0] = a /\ \A k \in 1 .. p : f[k] = F[<<k, f[k - 1]>>]
  BY <1>10
<1>12. PICK g : g = [k \in 0 .. m |-> IF k = m THEN F[<<m, f[p]>>] ELSE f[k]]
  OBVIOUS
<1>13. F[<<m, f[p]>>] \in D
  BY <1>9, <1>10 DEF Stays
<1>14. g \in [0 .. m -> D]
  BY <1>9, <1>10, <1>12, <1>13
<1>15. g[0] = a
  BY <1>9, <1>11, <1>12
<1>16. \A k \in 1 .. m : g[k] = F[<<k, g[k - 1]>>]
  <2>1. SUFFICES ASSUME NEW k \in 1 .. m PROVE g[k] = F[<<k, g[k - 1]>>]
    OBVIOUS
  <2>2. k \in 0 .. m /\ k - 1 \in 0 .. m /\ k - 1 # m
    BY <1>9
  <2>3. g[k - 1] = f[k - 1]
    BY <1>12, <2>2
  <2>4. CASE k = m
    BY <1>9, <1>12, <2>2, <2>3, <2>4
  <2>5. CASE k # m
    <3>1. k \in 1 .. p
      BY <1>9, <2>5
    <3>2. g[k] = f[k]
      BY <1>12, <2>2, <2>5
    <3>3. QED
      BY <1>11, <2>3, <3>1, <3>2
  <2>6. QED
    BY <2>4, <2>5
<1>17. Goes(g, m)
  BY <1>15, <1>16
<1>18. QED
  BY <1>5, <1>14, <1>17

\* Two loops that go on alike are alike.
LEMMA SameLoop ==
  ASSUME NEW n \in Nat, NEW F, NEW f, NEW g, f[0] = g[0],
         \A k \in 1 .. n : f[k] = F[<<k, f[k - 1]>>] /\ g[k] = F[<<k, g[k - 1]>>]
  PROVE  \A k \in 0 .. n : f[k] = g[k]
<1>1. SUFFICES ASSUME NEW i \in 0 .. n, f[i] # g[i] PROVE FALSE
  OBVIOUS
<1>2. PICK S : S = {k \in 0 .. n : f[k] # g[k]}
  OBVIOUS
<1>3. S \subseteq Nat /\ S # {}
  BY <1>1, <1>2
<1>4. PICK m \in S : \A y \in S : m <= y
  BY <1>3, LeastNatural
<1>5. m \in 0 .. n /\ f[m] # g[m] /\ m # 0
  BY <1>2, <1>4
<1>6. m \in 1 .. n /\ m - 1 \in 0 .. n /\ m - 1 \notin S
  BY <1>4, <1>5
<1>7. f[m - 1] = g[m - 1]
  BY <1>2, <1>6
<1>8. QED
  BY <1>5, <1>6, <1>7

LEMMA DoubledType ==
  ASSUME NEW from \in Nat, NEW n \in Nat
  PROVE  B!Doubled(from, n) \in Nat
<1> DEFINE Step(k, c) == IF k = 0 THEN from ELSE IF c >= n THEN c ELSE 2 * c
           Loop(f) == f = [k \in 0 .. n |-> IF k = 0 THEN from
                                            ELSE IF f[k - 1] >= n THEN f[k - 1] ELSE 2 * f[k - 1]]
<1>1. PICK F : F = [x \in (1 .. n) \X Nat |-> IF x[2] >= n THEN x[2] ELSE 2 * x[2]]
  OBVIOUS
<1>3. \A k \in 1 .. n, c \in Nat : F[<<k, c>>] = IF c >= n THEN c ELSE 2 * c
  BY <1>1
<1>4. PICK f \in [0 .. n -> Nat] : f[0] = from /\ \A k \in 1 .. n : f[k] = F[<<k, f[k - 1]>>]
  <2>1. PICK D : D = Nat
    OBVIOUS
  <2>2. from \in D /\ Stays(F, n, D)
    BY <1>3, <2>1 DEF Stays
  <2>3. \E f : Iterates(f, F, from, n, D)
    BY <2>2, Iteration
  <2>4. QED
    BY <2>1, <2>3 DEF Iterates
<1>5. \A k \in 1 .. n : k - 1 \in 0 .. n /\ f[k - 1] \in Nat
  BY <1>4
<1>6. \A k \in 1 .. n : f[k] = IF f[k - 1] >= n THEN f[k - 1] ELSE 2 * f[k - 1]
  BY <1>3, <1>4, <1>5
<1>7. Loop(f)
  <2>1. f = [k \in 0 .. n |-> f[k]]
    BY <1>4
  <2>2. \A k \in 0 .. n : f[k] = IF k = 0 THEN from ELSE IF f[k - 1] >= n THEN f[k - 1] ELSE 2 * f[k - 1]
    BY <1>4, <1>6
  <2>3. QED
    BY <2>1, <2>2
<1>8. PICK c : c = CHOOSE g : Loop(g)
  OBVIOUS
<1>9. Loop(c)
  BY <1>7, <1>8
<1>10. \A k \in 0 .. n : c[k] \in Nat
  <2>1. SUFFICES ASSUME NEW i \in 0 .. n, c[i] \notin Nat PROVE FALSE
    OBVIOUS
  <2>2. PICK S : S = {k \in 0 .. n : c[k] \notin Nat}
    OBVIOUS
  <2>3. S \subseteq Nat /\ S # {}
    BY <2>1, <2>2
  <2>4. PICK m \in S : \A y \in S : m <= y
    BY <2>3, LeastNatural
  <2>5. m \in 0 .. n /\ c[m] \notin Nat
    BY <2>2, <2>4
  <2>6. c[0] = from
    BY <1>9
  <2>7. m \in 1 .. n /\ m - 1 \in 0 .. n /\ m - 1 \notin S
    BY <2>4, <2>5, <2>6
  <2>8. c[m - 1] \in Nat
    BY <2>2, <2>7
  <2>9. c[m] = IF c[m - 1] >= n THEN c[m - 1] ELSE 2 * c[m - 1]
    <3>1. \A k \in 0 .. n : c[k] = IF k = 0 THEN from ELSE IF c[k - 1] >= n THEN c[k - 1] ELSE 2 * c[k - 1]
      BY <1>9
    <3>2. m \in 0 .. n /\ m # 0
      BY <2>7
    <3>3. QED
      BY <3>1, <3>2
  <2>10. QED
    BY <2>5, <2>8, <2>9
<1>11. B!Doubled(from, n) = c[n]
  BY <1>8 DEF B!Doubled
<1>12. n \in 0 .. n
  OBVIOUS
<1>13. QED
  BY <1>10, <1>11, <1>12

\* What a loop over the areas has put together after each of them.
Adds(f, areas, n) == f[0] = <<>> /\ \A k \in 1 .. n : f[k] = f[k - 1] \o areas[k].bytes
Concats(f, areas, n) == f \in [0 .. n -> Seq(Nat)] /\ Adds(f, areas, n)
AlikeFrom0(f, g, n) == \A k \in 0 .. n : f[k] = g[k]
AlikeFrom1(x, y, n) == \A k \in 1 .. n : x[k] = y[k]

LEMMA SameConcats ==
  ASSUME NEW n \in Nat, NEW f, NEW g, NEW x, NEW y,
         Adds(f, x, n), Adds(g, y, n), AlikeFrom1(x, y, n)
  PROVE  AlikeFrom0(f, g, n)
<1>1. SUFFICES ASSUME NEW i \in 0 .. n, f[i] # g[i] PROVE FALSE
  BY DEF AlikeFrom0
<1>2. PICK S : S = {k \in 0 .. n : f[k] # g[k]}
  OBVIOUS
<1>3. S \subseteq Nat /\ S # {}
  BY <1>1, <1>2
<1>4. PICK m \in S : \A y1 \in S : m <= y1
  BY <1>3, LeastNatural
<1>5. m \in 0 .. n /\ f[m] # g[m] /\ m # 0
  BY <1>2, <1>4 DEF Adds
<1>6. m \in 1 .. n /\ m - 1 \in 0 .. n /\ m - 1 \notin S
  BY <1>4, <1>5
<1>7. f[m - 1] = g[m - 1] /\ x[m] = y[m]
  BY <1>2, <1>6 DEF AlikeFrom1
<1>8. f[m] = f[m - 1] \o x[m].bytes /\ g[m] = g[m - 1] \o y[m].bytes
  BY <1>6 DEF Adds
<1>9. QED
  BY <1>5, <1>7, <1>8

LEMMA ContentIs ==
  ASSUME NEW areas \in Seq(Area), NEW n, n = Len(areas)
  PROVE  \E f : Concats(f, areas, n) /\ B!Content(areas, n) = f[n]
<1> DEFINE Loop(f) == f = [i \in 0 .. n |-> IF i = 0 THEN <<>> ELSE f[i - 1] \o areas[i].bytes]
<1>1. n \in Nat /\ \A i \in 1 .. n : areas[i].bytes \in Seq(Nat)
  <2>1. n \in Nat /\ \A i \in 1 .. n : areas[i] \in Area
    OBVIOUS
  <2>2. \A a \in Area : a.bytes \in Seq(Nat)
    BY DEF Area
  <2>3. QED
    BY <2>1, <2>2
<1>2. PICK D, z : D = Seq(Nat) /\ z = <<>>
  BY Zenon
<1>3. z \in D
  BY <1>2
<1>4. PICK F : F = [x \in (1 .. n) \X D |-> x[2] \o areas[x[1]].bytes]
  OBVIOUS
<1>5. \A k \in 1 .. n, t \in D : F[<<k, t>>] = t \o areas[k].bytes
  BY <1>4
<1>6. \A k \in 1 .. n, t \in D : F[<<k, t>>] \in D
  <2>1. SUFFICES ASSUME NEW k \in 1 .. n, NEW t \in D PROVE F[<<k, t>>] \in D
    OBVIOUS
  <2>2. PICK u : u = areas[k].bytes
    BY Zenon
  <2>3. t \in Seq(Nat) /\ u \in Seq(Nat)
    BY <1>1, <1>2, <2>2
  <2>4. t \o u \in Seq(Nat)
    BY <2>3
  <2>5. F[<<k, t>>] = t \o u
    BY <1>5, <2>2
  <2>6. QED
    BY <1>2, <2>4, <2>5
<1>7. PICK g \in [0 .. n -> D] : g[0] = z /\ \A k \in 1 .. n : g[k] = F[<<k, g[k - 1]>>]
  <2>1. Stays(F, n, D)
    BY <1>6 DEF Stays
  <2>2. \E g : Iterates(g, F, z, n, D)
    BY <1>1, <1>3, <2>1, Iteration
  <2>3. QED
    BY <2>2 DEF Iterates
<1>8. \A k \in 1 .. n : k - 1 \in 0 .. n /\ g[k - 1] \in D
  BY <1>1, <1>7
<1>9. \A k \in 1 .. n : g[k] = g[k - 1] \o areas[k].bytes
  BY <1>5, <1>7, <1>8
<1>10. Adds(g, areas, n) /\ Concats(g, areas, n)
  BY <1>2, <1>7, <1>9 DEF Adds, Concats
<1>11. Loop(g)
  <2>1. g = [i \in 0 .. n |-> g[i]]
    BY <1>7
  <2>2. \A i \in 0 .. n : g[i] = IF i = 0 THEN <<>> ELSE g[i - 1] \o areas[i].bytes
    <3>1. SUFFICES ASSUME NEW i \in 0 .. n
                   PROVE  g[i] = IF i = 0 THEN <<>> ELSE g[i - 1] \o areas[i].bytes
      OBVIOUS
    <3>2. i = 0 \/ (i \in 1 .. n /\ i # 0)
      BY <1>1
    <3>3. QED
      BY <1>2, <1>7, <1>9, <3>2
  <2>3. QED
    BY <2>1, <2>2
<1>12. PICK c : c = CHOOSE f : Loop(f)
  OBVIOUS
<1>13. Loop(c)
  BY <1>11, <1>12
<1>14. Adds(c, areas, n)
  <2>1. \A k \in 0 .. n : c[k] = IF k = 0 THEN <<>> ELSE c[k - 1] \o areas[k].bytes
    BY <1>13
  <2>2. 0 \in 0 .. n /\ \A k \in 1 .. n : k \in 0 .. n /\ k # 0
    BY <1>1
  <2>3. QED
    BY <2>1, <2>2 DEF Adds
<1>15. \A k \in 0 .. n : c[k] = g[k]
  <2>1. AlikeFrom1(areas, areas, n)
    BY DEF AlikeFrom1
  <2>2. AlikeFrom0(c, g, n)
    BY <1>1, <1>10, <1>14, <2>1, SameConcats
  <2>3. QED
    BY <2>2 DEF AlikeFrom0
<1>16. B!Content(areas, n) = c[n]
  BY <1>12 DEF B!Content
<1>17. n \in 0 .. n
  BY <1>1
<1>18. QED
  BY <1>10, <1>15, <1>16, <1>17

LEMMA FlatAppend ==
  ASSUME NEW areas \in Seq(Area), NEW a \in Area
  PROVE  Flat(areas) \in Seq(Nat) /\ Flat(Append(areas, a)) = Flat(areas) \o a.bytes
<1>1. PICK t, n, m : t = Append(areas, a) /\ n = Len(areas) /\ m = Len(t)
  BY Zenon
<1>2. /\ t \in Seq(Area) /\ n \in Nat /\ m = n + 1 /\ t[m] = a
      /\ \A i \in 1 .. n : t[i] = areas[i]
  BY <1>1, AppendProperties
<1>3. PICK f : Concats(f, areas, n) /\ B!Content(areas, n) = f[n]
  BY <1>1, ContentIs
<1>4. PICK g : Concats(g, t, m) /\ B!Content(t, m) = g[m]
  BY <1>1, <1>2, ContentIs
<1>5. /\ f \in [0 .. n -> Seq(Nat)] /\ f[0] = <<>>
      /\ \A k \in 1 .. n : f[k] = f[k - 1] \o areas[k].bytes
  BY <1>3 DEF Concats, Adds
<1>6. g[0] = <<>> /\ \A k \in 1 .. m : g[k] = g[k - 1] \o t[k].bytes
  BY <1>4 DEF Concats, Adds
<1>7. \A k \in 1 .. n : k \in 1 .. m
  BY <1>2
<1>8. \A k \in 1 .. n : g[k] = g[k - 1] \o t[k].bytes
  BY <1>6, <1>7
<1>9. \A k \in 0 .. n : f[k] = g[k]
  <2>1. AlikeFrom1(areas, t, n)
    BY <1>2 DEF AlikeFrom1
  <2>2. Adds(f, areas, n) /\ Adds(g, t, n)
    BY <1>5, <1>6, <1>8 DEF Adds
  <2>3. AlikeFrom0(f, g, n)
    BY <1>2, <2>1, <2>2, SameConcats
  <2>4. QED
    BY <2>3 DEF AlikeFrom0
<1>10. n \in 0 .. n /\ m \in 1 .. m /\ m - 1 = n
  BY <1>2
<1>11. g[m] = f[n] \o a.bytes /\ f[n] \in Seq(Nat)
  BY <1>2, <1>5, <1>6, <1>9, <1>10
<1>12. Flat(areas) = f[n] /\ Flat(t) = g[m]
  BY <1>1, <1>3, <1>4 DEF Flat
<1>13. QED
  BY <1>1, <1>11, <1>12

LEMMA FlatEmpty == Flat(<<>>) = <<>>
<1>1. PICK s, n : s = <<>> /\ n = 0
  BY Zenon
<1>2. s \in Seq(Area) /\ n = Len(s)
  BY <1>1
<1>3. \E f : Concats(f, s, n) /\ B!Content(s, n) = f[n]
  BY <1>2, ContentIs
<1>4. B!Content(s, n) = <<>>
  BY <1>1, <1>3 DEF Concats, Adds
<1>5. QED
  BY <1>1, <1>2, <1>4 DEF Flat

\* A buffer with areas is one with an area at the end.
EndsIn(areas, front, a) ==
  /\ areas = Append(front, a) /\ areas[Len(areas)] = a
  /\ SubSeq(areas, 1, Len(areas) - 1) = front
  /\ \A b \in Area : [areas EXCEPT ![Len(areas)] = b] = Append(front, b)

LEMMA AreasEnd ==
  ASSUME NEW areas \in Seq(Area), areas # <<>>
  PROVE  \E front \in Seq(Area), a \in Area : EndsIn(areas, front, a)
<1>1. PICK front \in Seq(Area), a \in Area : areas = Append(front, a)
  BY SequenceEmptyOrAppend
<1>2. PICK n : n = Len(front)
  OBVIOUS
<1>3. /\ n \in Nat /\ Len(areas) = n + 1 /\ areas[n + 1] = a
      /\ \A i \in 1 .. n : areas[i] = front[i]
  BY <1>1, <1>2, AppendProperties
<1>4. SubSeq(areas, 1, Len(areas) - 1) = front
  <2>1. Len(areas) - 1 = n
    BY <1>3
  <2>2. PICK s : s = SubSeq(areas, 1, n)
    OBVIOUS
  <2>3. \A i \in 1 .. n : areas[i] \in Area
    BY <1>3
  <2>4. s \in Seq(Area) /\ Len(s) = n /\ \A i \in 1 .. n : s[i] = areas[i]
    BY <1>3, <2>2, <2>3, SubSeqProperties
  <2>5. s = front
    BY <1>2, <1>3, <2>4, SeqEqual
  <2>6. QED
    BY <2>1, <2>2, <2>5
<1>5. ASSUME NEW b \in Area PROVE [areas EXCEPT ![Len(areas)] = b] = Append(front, b)
  <2>1. PICK s, t : s = [areas EXCEPT ![n + 1] = b] /\ t = Append(front, b)
    BY Zenon
  <2>2. t \in Seq(Area) /\ Len(t) = n + 1 /\ t[n + 1] = b /\ \A i \in 1 .. n : t[i] = front[i]
    BY <1>2, <2>1, AppendProperties
  <2>3. n + 1 \in 1 .. Len(areas)
    BY <1>3
  <2>4. s \in Seq(Area) /\ Len(s) = n + 1 /\ \A j \in 1 .. n + 1 : s[j] = IF j = n + 1 THEN b ELSE areas[j]
    BY <1>3, <2>1, <2>3, ExceptSeq
  <2>5. \A j \in 1 .. n + 1 : s[j] = t[j]
    <3>1. \A j \in 1 .. n + 1 : j = n + 1 \/ j \in 1 .. n
      BY <1>3
    <3>2. QED
      BY <1>3, <2>2, <2>4, <3>1
  <2>6. s = t
    BY <2>2, <2>4, <2>5, SeqEqual
  <2>7. QED
    BY <1>3, <2>1, <2>6
<1>6. areas[Len(areas)] = a
  BY <1>3
<1>7. EndsIn(areas, front, a)
  BY <1>1, <1>4, <1>5, <1>6 DEF EndsIn
<1>8. QED
  BY <1>7

Fine(x, b, bytes) == b \in BufferRecord /\ Holds(x, b, bytes)
Ready(x, b, bytes) == Fine(x, b, bytes) /\ b.areas # <<>> /\ Shown(x, b)

LEMMA SetAreas ==
  ASSUME NEW b \in BufferRecord, NEW s \in Seq(Area), NEW c, c = [b EXCEPT !.areas = s]
  PROVE  c \in BufferRecord /\ c.areas = s
  BY DEF BufferRecord

LEMMA TopIs ==
  ASSUME NEW b \in BufferRecord, b.areas # <<>>
  PROVE  /\ B!Top(b) \in Area /\ B!Top(b).bytes \in Seq(Nat) /\ Len(B!Top(b).bytes) \in Nat
         /\ B!Top(b).capacity \in Nat /\ B!Room(b) \in Int
<1>1. b.areas \in Seq(Area)
  BY DEF BufferRecord
<1>2. PICK s : s = b.areas
  OBVIOUS
<1>3. s[Len(s)] \in Area
  BY <1>1, <1>2
<1>4. PICK t : t = B!Top(b)
  OBVIOUS
<1>5. t \in Area /\ t.bytes \in Seq(Nat) /\ t.capacity \in Nat
  BY <1>2, <1>3, <1>4 DEF B!Top, Area
<1>6. Len(t.bytes) \in Nat
  BY <1>5
<1>7. B!Room(b) = t.capacity - Len(t.bytes)
  BY <1>4 DEF B!Room
<1>8. QED
  BY <1>4, <1>5, <1>6, <1>7

LEMMA FieldsReady ==
  ASSUME NEW x, NEW b, NEW bytes, Fine(x, b, bytes), b.areas # <<>>
  PROVE  /\ x \in Input => Ready(x, B!input_fields(b), bytes)
         /\ x \notin Input => Ready(x, B!output_fields(b), bytes)
<1>1. b \in BufferRecord /\ b.areas \in Seq(Area) /\ Holds(x, b, bytes)
  BY DEF Fine, BufferRecord
<1>2. CASE x \in Input
  <2>1. PICK c, n, m : c = B!input_fields(b) /\ n = Len(B!Top(b).bytes) /\ m = B!Room(b)
    BY Zenon
  <2>2. n \in Nat /\ m \in Int
    BY <1>1, <2>1, TopIs
  <2>3. c = [b EXCEPT !.used = n, !.unused = m]
    BY <2>1 DEF B!input_fields
  <2>4. c \in BufferRecord /\ c.areas = b.areas /\ c.used = n /\ c.unused = m
    BY <1>1, <2>2, <2>3 DEF BufferRecord
  <2>5. B!Top(c) = B!Top(b) /\ B!Room(c) = B!Room(b)
    BY <2>4 DEF B!Top, B!Room
  <2>6. QED
    BY <1>1, <1>2, <2>1, <2>4, <2>5 DEF Ready, Fine, Holds, Shown
<1>3. CASE x \notin Input
  <2>1. PICK c, n, m : c = B!output_fields(b) /\ n = Len(b.areas) /\ m = Len(Flat(b.areas))
    BY Zenon
  <2>2. n \in Nat /\ m \in Nat
    <3>1. PICK front \in Seq(Area), a \in Area : b.areas = Append(front, a)
      BY <1>1, AreasEnd DEF EndsIn
    <3>2. Flat(b.areas) \in Seq(Nat)
      BY <1>1, <3>1, FlatAppend
    <3>3. QED
      BY <1>1, <2>1, <3>2
  <2>3. c = [b EXCEPT !.vectors = n, !.size = m]
    BY <2>1 DEF B!output_fields, Flat
  <2>4. c \in BufferRecord /\ c.areas = b.areas /\ c.vectors = n /\ c.size = m
    BY <1>1, <2>2, <2>3 DEF BufferRecord
  <2>5. QED
    BY <1>1, <1>3, <2>1, <2>4 DEF Ready, Fine, Holds, Shown
<1>4. QED
  BY <1>2, <1>3

LEMMA InputReserve ==
  ASSUME NEW x \in Input, NEW b, NEW bytes \in Seq(Nat), Fine(x, b, bytes), NEW n \in Nat, n >= 1
  PROVE  Fine(x, B!ibuf_reserve(b, n), bytes) /\ B!ibuf_reserve(b, n).areas # <<>>
<1>1. b \in BufferRecord /\ bytes = IF b.areas = <<>> THEN <<>> ELSE B!Top(b).bytes
  BY DEF Fine, Holds
<1>2. CASE B!Room(b) >= n
  <2>1. b.areas # <<>>
    BY <1>2 DEF B!Room
  <2>2. QED
    BY <1>2, <2>1 DEF B!ibuf_reserve
<1>3. CASE ~(B!Room(b) >= n)
  <2>1. PICK from, k, c : /\ from = (IF b.areas = <<>> THEN StartCapacity ELSE B!Top(b).capacity)
                          /\ k = B!Doubled(from, Len(bytes) + n) /\ c = B!ibuf_reserve(b, n)
    BY Zenon
  <2>2. c = [b EXCEPT !.areas = <<[capacity |-> k, bytes |-> bytes]>>]
    BY <1>1, <1>3, <2>1 DEF B!ibuf_reserve
  <2>3. from \in Nat /\ Len(bytes) + n \in Nat
    BY <1>1, <2>1, TopIs, BuffersAssumption
  <2>4. k \in Nat
    BY <2>1, <2>3, DoubledType
  <2>5. PICK a, s : a = [capacity |-> k, bytes |-> bytes] /\ s = <<a>>
    BY Zenon
  <2>6. a \in Area /\ a.bytes = bytes
    BY <2>4, <2>5 DEF Area
  <2>7. s \in Seq(Area) /\ s # <<>> /\ s[Len(s)] = a
    BY <2>5, <2>6
  <2>8. c \in BufferRecord /\ c.areas = s
    <3>1. c = [b EXCEPT !.areas = s]
      BY <2>2, <2>5, Zenon
    <3>2. QED
      BY <1>1, <2>7, <3>1, SetAreas
  <2>9. B!Top(c).bytes = bytes
    BY <2>6, <2>7, <2>8 DEF B!Top
  <2>10. QED
    BY <2>1, <2>7, <2>8, <2>9 DEF Fine, Holds
<1>4. QED
  BY <1>2, <1>3

LEMMA OutputReserve ==
  ASSUME NEW x, x \notin Input, NEW b, NEW bytes \in Seq(Nat), Fine(x, b, bytes), NEW n \in Nat, n >= 1
  PROVE  Fine(x, B!obuf_reserve(b, n), bytes) /\ B!obuf_reserve(b, n).areas # <<>>
<1>1. b \in BufferRecord /\ b.areas \in Seq(Area) /\ bytes = Flat(b.areas)
  BY DEF Fine, Holds, BufferRecord
<1>2. CASE B!Room(b) >= n
  <2>1. b.areas # <<>>
    BY <1>2 DEF B!Room
  <2>2. QED
    BY <1>2, <2>1 DEF B!obuf_reserve
<1>3. CASE ~(B!Room(b) >= n)
  <2>1. PICK from, k, c, s : /\ from = (IF b.areas = <<>> THEN StartCapacity ELSE 2 * B!Top(b).capacity)
                             /\ k = B!Doubled(from, n) /\ c = B!obuf_reserve(b, n) /\ s = b.areas
    BY Zenon
  <2>2. from \in Nat
    BY <1>1, <2>1, TopIs, BuffersAssumption
  <2>3. k \in Nat
    BY <2>1, <2>2, DoubledType
  <2>4. PICK a : a = [capacity |-> k, bytes |-> <<>>]
    OBVIOUS
  <2>5. a \in Area /\ a.bytes = <<>>
    BY <2>3, <2>4 DEF Area
  <2>6. PICK t : t = IF s # <<>> /\ B!Top(b).bytes = <<>> THEN Append(SubSeq(s, 1, Len(s) - 1), a) ELSE Append(s, a)
    OBVIOUS
  <2>7. c = [b EXCEPT !.areas = t]
    BY <1>3, <2>1, <2>4, <2>6 DEF B!obuf_reserve
  <2>8. t \in Seq(Area) /\ t # <<>> /\ Flat(t) = bytes
    <3>1. CASE s # <<>> /\ B!Top(b).bytes = <<>>
      <4>1. PICK front \in Seq(Area), z \in Area :
              s = Append(front, z) /\ s[Len(s)] = z /\ SubSeq(s, 1, Len(s) - 1) = front
        BY <1>1, <2>1, <3>1, AreasEnd DEF EndsIn
      <4>2. z.bytes = <<>>
        BY <2>1, <3>1, <4>1 DEF B!Top
      <4>3. Flat(front) \in Seq(Nat) /\ Flat(s) = Flat(front) \o z.bytes
        BY <4>1, FlatAppend
      <4>4. t = Append(front, a)
        BY <2>6, <3>1, <4>1
      <4>5. t \in Seq(Area) /\ t # <<>> /\ Flat(t) = Flat(front) \o a.bytes
        BY <2>5, <4>4, FlatAppend, AppendProperties
      <4>6. QED
        BY <1>1, <2>1, <2>5, <4>2, <4>3, <4>5
    <3>2. CASE ~(s # <<>> /\ B!Top(b).bytes = <<>>)
      <4>1. t = Append(s, a)
        BY <2>6, <3>2
      <4>2. s \in Seq(Area) /\ Flat(s) \in Seq(Nat)
        BY <1>1, <2>1
      <4>3. t \in Seq(Area) /\ t # <<>> /\ Flat(t) = Flat(s) \o a.bytes
        BY <2>5, <4>1, <4>2, FlatAppend, AppendProperties
      <4>4. Flat(s) \o <<>> = Flat(s)
        BY <4>2, ConcatEmptySeq
      <4>5. QED
        BY <1>1, <2>1, <2>5, <4>3, <4>4
    <3>3. QED
      BY <3>1, <3>2
  <2>9. c \in BufferRecord /\ c.areas = t
    BY <1>1, <2>7, <2>8, SetAreas
  <2>10. QED
    BY <2>1, <2>8, <2>9 DEF Fine, Holds
<1>4. QED
  BY <1>2, <1>3

\* A reserve that finds memory leaves the bytes and brings the fields up to date.
LEMMA ReserveReady ==
  ASSUME NEW x, NEW b, NEW bytes \in Seq(Nat), Fine(x, b, bytes), NEW n \in Nat
  PROVE  Ready(x, B!reserve(x, b, n), bytes)
<1>1. PICK k : k = B!Wanted(n)
  OBVIOUS
<1>2. k \in Nat /\ k >= 1
  BY <1>1, BuffersAssumption DEF B!Wanted
<1>3. CASE x \in Input
  <2>1. B!reserve(x, b, n) = B!input_fields(B!ibuf_reserve(b, k))
    BY <1>1, <1>3 DEF B!reserve, B!memory_input_buffer_reserve
  <2>2. PICK c : c = B!ibuf_reserve(b, k)
    OBVIOUS
  <2>3. Fine(x, c, bytes) /\ c.areas # <<>>
    BY <1>2, <1>3, <2>2, InputReserve
  <2>4. QED
    BY <1>3, <2>1, <2>2, <2>3, FieldsReady
<1>4. CASE x \notin Input
  <2>1. B!reserve(x, b, n) = B!output_fields(B!obuf_reserve(b, k))
    BY <1>1, <1>4 DEF B!reserve, B!memory_output_buffer_reserve
  <2>2. PICK c : c = B!obuf_reserve(b, k)
    OBVIOUS
  <2>3. Fine(x, c, bytes) /\ c.areas # <<>>
    BY <1>2, <1>4, <2>2, OutputReserve
  <2>4. QED
    BY <1>4, <2>1, <2>2, <2>3, FieldsReady
<1>5. QED
  BY <1>3, <1>4

LEMMA Regroup ==
  ASSUME NEW p \in Seq(Nat), NEW q \in Seq(Nat), NEW u \in Seq(Nat)
  PROVE  (p \o q) \o u = p \o (q \o u)
  OBVIOUS

LEMMA AllocFine ==
  ASSUME NEW x, NEW b, NEW bytes \in Seq(Nat), Fine(x, b, bytes), b.areas # <<>>, NEW u \in Seq(Nat)
  PROVE  Fine(x, B!alloc(b, u), bytes \o u) /\ B!alloc(b, u).areas # <<>>
<1>1. b \in BufferRecord /\ b.areas \in Seq(Area)
  BY DEF Fine, BufferRecord
<1>2. PICK s, c : s = b.areas /\ c = B!alloc(b, u)
  BY Zenon
<1>3. PICK front \in Seq(Area), a \in Area : EndsIn(s, front, a)
  <2>1. s \in Seq(Area) /\ s # <<>>
    BY <1>1, <1>2
  <2>2. QED
    BY <2>1, AreasEnd
<1>4. s = Append(front, a) /\ s[Len(s)] = a
  BY <1>3 DEF EndsIn
<1>5. \A z \in Area : [s EXCEPT ![Len(s)] = z] = Append(front, z)
  BY <1>3 DEF EndsIn
<1>6. PICK e : e = [a EXCEPT !.bytes = a.bytes \o u]
  OBVIOUS
<1>7. a.bytes \in Seq(Nat) /\ a.bytes \o u \in Seq(Nat)
  BY ConcatProperties DEF Area
<1>8. e \in Area /\ e.bytes = a.bytes \o u
  BY <1>6, <1>7 DEF Area
<1>9. PICK t : t = Append(front, e)
  OBVIOUS
<1>10. t \in Seq(Area) /\ t # <<>> /\ Len(t) = Len(front) + 1 /\ t[Len(t)] = e
  <2>1. t \in Seq(Area) /\ t # <<>> /\ Len(t) = Len(front) + 1 /\ t[Len(front) + 1] = e
    BY <1>8, <1>9, AppendProperties
  <2>2. QED
    BY <2>1
<1>11. c = [b EXCEPT !.areas = t]
  <2>1. c = [b EXCEPT !.areas[Len(s)].bytes = @ \o u]
    BY <1>2 DEF B!alloc
  <2>2. [s EXCEPT ![Len(s)].bytes = @ \o u] = [s EXCEPT ![Len(s)] = e]
    BY <1>4, <1>6
  <2>3. c = [b EXCEPT !.areas = [s EXCEPT ![Len(s)].bytes = @ \o u]]
    BY <1>2, <2>1
  <2>4. [s EXCEPT ![Len(s)] = e] = t
    BY <1>5, <1>8, <1>9
  <2>5. QED
    BY <2>2, <2>3, <2>4
<1>12. c \in BufferRecord /\ c.areas = t
  BY <1>1, <1>10, <1>11, SetAreas
<1>13. CASE x \in Input
  <2>1. bytes = a.bytes
    BY <1>2, <1>4, <1>13 DEF Fine, Holds, B!Top
  <2>2. B!Top(c).bytes = a.bytes \o u
    BY <1>8, <1>10, <1>12 DEF B!Top
  <2>3. QED
    BY <1>2, <1>10, <1>12, <1>13, <2>1, <2>2 DEF Fine, Holds
<1>14. CASE x \notin Input
  <2>1. bytes = Flat(s)
    BY <1>2, <1>14 DEF Fine, Holds
  <2>2. Flat(front) \in Seq(Nat) /\ Flat(s) = Flat(front) \o a.bytes /\ Flat(t) = Flat(front) \o (a.bytes \o u)
    BY <1>4, <1>8, <1>9, FlatAppend
  <2>3. Flat(t) = bytes \o u
    <3>1. PICK p, q : p = Flat(front) /\ q = a.bytes
      BY Zenon
    <3>2. p \in Seq(Nat) /\ q \in Seq(Nat)
      BY <1>7, <2>2, <3>1
    <3>3. (p \o q) \o u = p \o (q \o u)
      BY <3>2, Regroup
    <3>4. QED
      BY <2>1, <2>2, <3>1, <3>3
  <2>4. QED
    BY <1>2, <1>10, <1>12, <1>14, <2>3 DEF Fine, Holds
<1>15. QED
  BY <1>13, <1>14

\* A step that concerns one buffer.
Only(x, b, r, w) ==
  /\ buffer' = [buffer EXCEPT ![x] = b] /\ reserved' = [reserved EXCEPT ![x] = r]
  /\ written' = [written EXCEPT ![x] = w]

LEMMA OnlyFits ==
  ASSUME BuffersInv, NEW x \in B!Buffer, NEW b, NEW r, NEW w, Only(x, b, r, w), BufferFits(x, b, r, w)
  PROVE  BuffersInv'
<1>1. /\ buffer' = [y \in B!Buffer |-> buffer'[y]] /\ reserved' = [y \in B!Buffer |-> reserved'[y]]
      /\ written' = [y \in B!Buffer |-> written'[y]]
  BY DEF BuffersInv, Only
<1>2. ASSUME NEW y \in B!Buffer PROVE BufferFits(y, buffer'[y], reserved'[y], written'[y])
  <2>1. CASE y = x
    BY <2>1 DEF BuffersInv, Only
  <2>2. CASE y # x
    <3>1. buffer'[y] = buffer[y] /\ reserved'[y] = reserved[y] /\ written'[y] = written[y]
      BY <2>2 DEF BuffersInv, Only
    <3>2. BufferFits(y, buffer[y], reserved[y], written[y])
      BY DEF BuffersInv
    <3>3. QED
      BY <3>1, <3>2
  <2>3. QED
    BY <2>1, <2>2
<1>3. QED
  BY <1>1, <1>2 DEF BuffersInv

LEMMA SameHolds ==
  ASSUME BuffersInv, NEW x \in B!Buffer
  PROVE  /\ buffer = [buffer EXCEPT ![x] = buffer[x]] /\ reserved = [reserved EXCEPT ![x] = reserved[x]]
         /\ written = [written EXCEPT ![x] = written[x]]
         /\ BufferFits(x, buffer[x], reserved[x], written[x])
<1>1. PICK f, g, h : f = buffer /\ g = reserved /\ h = written
  BY Zenon
<1>2. /\ f = [y \in B!Buffer |-> f[y]] /\ g = [y \in B!Buffer |-> g[y]]
      /\ h = [y \in B!Buffer |-> h[y]]
  BY <1>1 DEF BuffersInv
<1>3. f = [f EXCEPT ![x] = f[x]] /\ g = [g EXCEPT ![x] = g[x]] /\ h = [h EXCEPT ![x] = h[x]]
  BY <1>2
<1>4. BufferFits(x, buffer[x], reserved[x], written[x])
  BY DEF BuffersInv
<1>5. QED
  BY <1>1, <1>3, <1>4, Zenon

LEMMA AllocateFits ==
  ASSUME BuffersInv, NEW x \in B!Buffer, B!Allocate(x)
  PROVE  BuffersInv'
<1>1. BufferFits(x, buffer[x], reserved[x], written[x]) /\ buffer[x] = NULL
  BY SameHolds DEF B!Allocate, B!memory_pool_allocate
<1>2. reserved[x] = NULL /\ written[x] = <<>>
  BY <1>1 DEF BufferFits
<1>3. CASE buffer' = buffer
  <2>1. Only(x, buffer[x], reserved[x], written[x])
    BY <1>3, SameHolds DEF B!Allocate, B!memory_pool_allocate, Only
  <2>2. QED
    BY <1>1, <2>1, OnlyFits
<1>4. CASE buffer' = [buffer EXCEPT ![x] = B!created]
  <2>1. PICK c : c = B!created
    OBVIOUS
  <2>2. Only(x, c, reserved[x], written[x])
    BY <1>4, <2>1, SameHolds DEF B!Allocate, B!memory_pool_allocate, Only
  <2>3. c = [areas |-> <<>>, used |-> 0, unused |-> 0, vectors |-> 0, size |-> 0]
    BY <2>1 DEF B!created
  <2>4. c \in BufferRecord /\ c.areas = <<>>
    <3>1. <<>> \in Seq(Area)
      OBVIOUS
    <3>2. QED
      BY <2>3, <3>1 DEF BufferRecord
  <2>5. Holds(x, c, <<>>)
    BY <2>4, FlatEmpty DEF Holds
  <2>6. BufferFits(x, c, reserved[x], written[x])
    BY <1>2, <2>4, <2>5 DEF BufferFits
  <2>7. QED
    BY <2>2, <2>6, OnlyFits
<1>5. QED
  BY <1>3, <1>4 DEF B!Allocate, B!memory_pool_allocate

\* A buffer the program has memory in.
LEMMA ReadyFits ==
  ASSUME NEW x, NEW b, NEW r \in Seq(Nat), NEW bytes \in Seq(Nat), Ready(x, b, bytes)
  PROVE  BufferFits(x, b, r, bytes)
<1>1. b # NULL
  BY BuffersAssumption DEF Ready, Fine
<1>2. QED
  BY <1>1 DEF Ready, Fine, BufferFits

LEMMA FineFits ==
  ASSUME NEW x, NEW b, NEW bytes \in Seq(Nat), Fine(x, b, bytes)
  PROVE  BufferFits(x, b, NULL, bytes)
<1>1. b # NULL
  BY BuffersAssumption DEF Fine
<1>2. QED
  BY <1>1 DEF Fine, BufferFits

LEMMA ReserveFits ==
  ASSUME BuffersInv, NEW x \in B!Buffer, NEW n \in Sizes, B!Reserve(x, n)
  PROVE  BuffersInv'
<1>1. PICK b, w : b = buffer[x] /\ w = written[x]
  BY Zenon
<1>2. n \in Nat /\ <<>> \in Seq(Nat)
  BY BuffersAssumption
<1>3. Fine(x, b, w) /\ w \in Seq(Nat)
  BY <1>1, SameHolds DEF B!Reserve, BufferFits, Fine
<1>4. CASE /\ buffer' = [buffer EXCEPT ![x] = B!reserve(x, @, n)]
           /\ reserved' = [reserved EXCEPT ![x] = <<>>] /\ UNCHANGED written
  <2>1. Only(x, B!reserve(x, b, n), <<>>, w)
    BY <1>1, <1>4, SameHolds DEF Only
  <2>2. BufferFits(x, B!reserve(x, b, n), <<>>, w)
    BY <1>2, <1>3, ReserveReady, ReadyFits
  <2>3. QED
    BY <2>1, <2>2, OnlyFits
<1>5. CASE B!NoMemory(x, n) /\ UNCHANGED <<buffer, written>>
  <2>1. Only(x, b, NULL, w)
    BY <1>1, <1>5, SameHolds DEF Only, B!NoMemory
  <2>2. BufferFits(x, b, NULL, w)
    BY <1>3, FineFits
  <2>3. QED
    BY <2>1, <2>2, OnlyFits
<1>6. QED
  BY <1>4, <1>5 DEF B!Reserve

LEMMA WriteFits ==
  ASSUME BuffersInv, NEW x \in B!Buffer, B!Write(x)
  PROVE  BuffersInv'
<1>1. PICK b, r, w : b = buffer[x] /\ r = reserved[x] /\ w = written[x]
  BY Zenon
<1>2. /\ BufferFits(x, b, r, w) /\ b # NULL /\ r # NULL
      /\ UNCHANGED <<buffer, written>>
      /\ reserved' = [reserved EXCEPT ![x] = Append(r, Len(w) + Len(r) + 1)]
  BY <1>1, SameHolds DEF B!Write
<1>3. Ready(x, b, w) /\ r \in Seq(Nat) /\ w \in Seq(Nat)
  BY <1>2 DEF BufferFits, Ready, Fine
<1>4. Append(r, Len(w) + Len(r) + 1) \in Seq(Nat)
  <2>1. Len(w) + Len(r) + 1 \in Nat
    BY <1>3
  <2>2. QED
    BY <1>3, <2>1, AppendProperties
<1>5. Only(x, b, Append(r, Len(w) + Len(r) + 1), w)
  BY <1>1, <1>2, SameHolds DEF Only
<1>6. BufferFits(x, b, Append(r, Len(w) + Len(r) + 1), w)
  BY <1>3, <1>4, ReadyFits
<1>7. QED
  BY <1>5, <1>6, OnlyFits

\* What is finalized and what stays behind the pointer.
LEMMA CutBytes ==
  ASSUME NEW r \in Seq(Nat), NEW d \in Nat, d <= Len(r)
  PROVE  SubSeq(r, 1, d) \in Seq(Nat) /\ SubSeq(r, d + 1, Len(r)) \in Seq(Nat)
<1>1. \A i \in 1 .. Len(r) : r[i] \in Nat
  OBVIOUS
<1>2. (\A i \in 1 .. d : r[i] \in Nat) /\ (\A i \in d + 1 .. Len(r) : r[i] \in Nat)
  BY <1>1
<1>3. Len(r) \in Int /\ 1 \in Int /\ d \in Int /\ d + 1 \in Int
  OBVIOUS
<1>4. QED
  BY <1>2, <1>3, SubSeqProperties

LEMMA FinalizeFits ==
  ASSUME BuffersInv, NEW x \in B!Buffer, NEW delta \in 0 .. MaxBytes, B!Finalize(x, delta)
  PROVE  BuffersInv'
<1>1. PICK b, r, w : b = buffer[x] /\ r = reserved[x] /\ w = written[x]
  BY Zenon
<1>2. PICK u, v, c : u = SubSeq(r, 1, delta) /\ v = SubSeq(r, delta + 1, Len(r)) /\ c = B!finalize(x, b, u)
  BY Zenon
<1>3. BufferFits(x, b, r, w) /\ b # NULL /\ r # NULL /\ delta <= Len(r) /\ delta \in Nat
  BY <1>1, SameHolds, BuffersAssumption DEF B!Finalize
<1>4. Ready(x, b, w) /\ r \in Seq(Nat) /\ w \in Seq(Nat)
  BY <1>3 DEF BufferFits, Ready, Fine
<1>5. Only(x, c, v, w \o u)
  BY <1>1, <1>2 DEF B!Finalize, Only
<1>6. u \in Seq(Nat) /\ v \in Seq(Nat) /\ w \o u \in Seq(Nat)
  BY <1>2, <1>3, <1>4, CutBytes, ConcatProperties
<1>7. Ready(x, c, w \o u)
  <2>1. PICK a : a = B!alloc(b, u)
    OBVIOUS
  <2>2. Fine(x, a, w \o u) /\ a.areas # <<>>
    BY <1>4, <1>6, <2>1, AllocFine DEF Ready
  <2>3. c = IF x \in Input THEN B!input_fields(a) ELSE B!output_fields(a)
    BY <1>2, <2>1 DEF B!finalize, B!memory_input_buffer_finalize, B!memory_output_buffer_finalize
  <2>4. QED
    BY <2>2, <2>3, FieldsReady
<1>8. QED
  BY <1>5, <1>6, <1>7, ReadyFits, OnlyFits

LEMMA FinalizeReserveFits ==
  ASSUME BuffersInv, NEW x \in B!Buffer, NEW delta \in 0 .. MaxBytes, NEW n \in Sizes,
         B!FinalizeReserve(x, delta, n)
  PROVE  BuffersInv'
<1>1. PICK b, r, w : b = buffer[x] /\ r = reserved[x] /\ w = written[x]
  BY Zenon
<1>2. PICK u, a : u = SubSeq(r, 1, delta) /\ a = B!alloc(b, u)
  BY Zenon
<1>3. BufferFits(x, b, r, w) /\ b # NULL /\ r # NULL /\ delta <= Len(r) /\ delta \in Nat /\ n \in Nat
  BY <1>1, SameHolds, BuffersAssumption DEF B!FinalizeReserve
<1>4. Ready(x, b, w) /\ r \in Seq(Nat) /\ w \in Seq(Nat)
  BY <1>3 DEF BufferFits, Ready, Fine
<1>5. u \in Seq(Nat) /\ w \o u \in Seq(Nat) /\ <<>> \in Seq(Nat)
  BY <1>2, <1>3, <1>4, CutBytes, ConcatProperties
<1>6. Fine(x, a, w \o u) /\ a.areas # <<>>
  BY <1>2, <1>4, <1>5, AllocFine DEF Ready
<1>7. /\ written' = [written EXCEPT ![x] = w \o u]
      /\ \/ /\ buffer' = [buffer EXCEPT ![x] = B!finalize_reserve(x, b, u, n)]
            /\ reserved' = [reserved EXCEPT ![x] = <<>>]
         \/ /\ B!NoMemory(x, n)
            /\ buffer' = [buffer EXCEPT ![x] = IF x \in Input THEN a ELSE B!output_fields(a)]
  BY <1>1, <1>2 DEF B!FinalizeReserve
<1>8. CASE /\ buffer' = [buffer EXCEPT ![x] = B!finalize_reserve(x, b, u, n)]
           /\ reserved' = [reserved EXCEPT ![x] = <<>>]
  <2>1. Only(x, B!finalize_reserve(x, b, u, n), <<>>, w \o u)
    BY <1>7, <1>8 DEF Only
  <2>2. B!finalize_reserve(x, b, u, n) = B!reserve(x, a, n)
    BY <1>2 DEF B!finalize_reserve, B!memory_input_buffer_finalize_reserve,
                B!memory_output_buffer_finalize_reserve, B!reserve
  <2>3. Ready(x, B!reserve(x, a, n), w \o u)
    BY <1>3, <1>5, <1>6, ReserveReady
  <2>4. PICK e : e = B!finalize_reserve(x, b, u, n)
    OBVIOUS
  <2>5. Ready(x, e, w \o u) /\ Only(x, e, <<>>, w \o u)
    BY <2>1, <2>2, <2>3, <2>4, Zenon
  <2>6. BufferFits(x, e, <<>>, w \o u)
    BY <1>5, <2>5, ReadyFits
  <2>7. QED
    BY <2>5, <2>6, OnlyFits
<1>9. CASE /\ B!NoMemory(x, n)
           /\ buffer' = [buffer EXCEPT ![x] = IF x \in Input THEN a ELSE B!output_fields(a)]
  <2>1. PICK c : c = IF x \in Input THEN a ELSE B!output_fields(a)
    OBVIOUS
  <2>2. Only(x, c, NULL, w \o u)
    BY <1>7, <1>9, <2>1 DEF Only, B!NoMemory
  <2>3. Fine(x, c, w \o u)
    BY <1>6, <2>1, FieldsReady DEF Ready
  <2>4. QED
    BY <1>5, <2>2, <2>3, FineFits, OnlyFits
<1>10. QED
  BY <1>7, <1>8, <1>9

LEMMA FreeFits ==
  ASSUME BuffersInv, NEW x \in B!Buffer, B!FreeBuffer(x)
  PROVE  BuffersInv'
<1>1. Only(x, NULL, NULL, <<>>)
  BY DEF B!FreeBuffer, Only
<1>2. <<>> \in Seq(Nat)
  OBVIOUS
<1>3. BufferFits(x, NULL, NULL, <<>>)
  BY <1>2 DEF BufferFits
<1>4. QED
  BY <1>1, <1>3, OnlyFits

LEMMA BuffersStep ==
  ASSUME BuffersInv, B!Next
  PROVE  BuffersInv'
  BY AllocateFits, WriteFits, FreeFits, ReserveFits, FinalizeFits, FinalizeReserveFits DEF B!Next

LEMMA BuffersMean ==
  ASSUME BuffersInv
  PROVE  BytesKept
<1>1. SUFFICES ASSUME NEW x \in B!Buffer, buffer[x] # NULL, reserved[x] # NULL
               PROVE  IF x \in Input
                      THEN /\ buffer[x].areas # <<>> => SubSeq(B!Top(buffer[x]).bytes, 1, buffer[x].used) = written[x]
                           /\ buffer[x].used = Len(written[x])
                           /\ buffer[x].unused = B!Room(buffer[x])
                      ELSE /\ B!Content(buffer[x].areas, buffer[x].vectors) = written[x]
                           /\ buffer[x].size = Len(written[x])
  BY DEF BytesKept, B!BytesKept
<1>2. PICK b, w : b = buffer[x] /\ w = written[x]
  BY Zenon
<1>3. b \in BufferRecord /\ Holds(x, b, w) /\ b.areas # <<>> /\ Shown(x, b) /\ w \in Seq(Nat)
  BY <1>1, <1>2 DEF BuffersInv, BufferFits
<1>4. CASE x \in Input
  <2>1. w = B!Top(b).bytes /\ b.used = Len(w) /\ b.unused = B!Room(b)
    BY <1>3, <1>4 DEF Holds, Shown
  <2>2. SubSeq(w, 1, Len(w)) = w
    BY <1>3
  <2>3. QED
    BY <1>2, <1>4, <2>1, <2>2
<1>5. CASE x \notin Input
  <2>1. w = Flat(b.areas) /\ b.vectors = Len(b.areas) /\ b.size = Len(w)
    BY <1>3, <1>5 DEF Holds, Shown
  <2>2. DOMAIN b.areas = 1 .. b.vectors
    BY <1>3, <2>1 DEF BufferRecord
  <2>3. QED
    BY <1>2, <1>5, <2>1, <2>2 DEF Flat
<1>6. QED
  BY <1>4, <1>5

\* What was finalized in a buffer is read from it in order and once, whatever
\* the sizes reserved and however often it moved or began another area.
THEOREM BytesHold == CoreSpec => []BytesKept
<1>1. ASSUME CoreInit PROVE BuffersInv
  <2>1. /\ buffer = [x \in B!Buffer |-> NULL] /\ reserved = [x \in B!Buffer |-> NULL]
        /\ written = [x \in B!Buffer |-> <<>>]
    BY <1>1 DEF CoreInit, B!Init
  <2>2. QED
    BY <2>1 DEF BuffersInv, BufferFits
<1>2. ASSUME BuffersInv,
             [CoreNext]_<<part, vars, listVars, eventVars, contextVars, bufferVars>>
      PROVE  BuffersInv'
  <2>1. B!Next \/ UNCHANGED bufferVars
    BY <1>2 DEF CoreNext
  <2>2. CASE UNCHANGED bufferVars
    BY <1>2, <2>2 DEF bufferVars, BuffersInv
  <2>3. QED
    BY <1>2, <2>1, <2>2, BuffersStep
<1>3. BuffersInv => BytesKept
  BY BuffersMean
<1>4. QED
  BY <1>1, <1>2, <1>3, PTL DEF CoreSpec

-----------------------------------------------------------------------------
(* The linked lists. *)

\* The i-th node of the ring of a head: the head, its items, the head again.
Spot(h, s, i) == IF i \in 1 .. Len(s) THEN s[i] ELSE h

Edge(l, a, b) == l.next[a] = b /\ l.prev[b] = a

Ring(l, h, s) == \A i \in 0 .. Len(s) : Edge(l, Spot(h, s, i), Spot(h, s, i + 1))

LinkRecord == [next : [L!Node -> L!Node], prev : [L!Node -> L!Node]]

Held(q, x) == \E h \in Anchor : \E i \in 1 .. Len(q[h]) : q[h][i] = x

\* No item is in two lists or twice in one.
Once(q) ==
  \A h \in Anchor, g \in Anchor : \A i \in 1 .. Len(q[h]), j \in 1 .. Len(q[g]) :
    q[h][i] = q[g][j] => h = g /\ i = j

\* The links l make the rings q; st are the items that point anywhere.
Whole(l, q, st) ==
  /\ l \in LinkRecord /\ q \in [Anchor -> Seq(Item)] /\ st \subseteq Item
  /\ Once(q)
  /\ \A h \in Anchor : Ring(l, h, q[h])
  /\ \A x \in st : ~Held(q, x)
  /\ \A x \in Item \ st : Held(q, x) \/ Edge(l, x, x)

\* The walk met the items before those that are still ahead of it.
Ahead(w, s, k) ==
  /\ w.at = Spot(w.head, s, k + 1)
  /\ Len(w.all) = Len(w.seen) + Len(s) - k
  /\ \A i \in 1 .. Len(w.seen) : w.all[i] = w.seen[i]
  /\ \A i \in k + 1 .. Len(s) : w.all[Len(w.seen) + i - k] = s[i]

WalkPart(w, q) ==
  w # NoWalk =>
    /\ w \in [head : Anchor, at : L!Node, seen : Seq(Item), all : Seq(Item)]
    /\ \E k \in 0 .. Len(q[w.head]) : Ahead(w, q[w.head], k)

WholeNow == Whole(links, lists, stale)
WalkNow == WalkPart(walk, lists)

\* The two pointers an assignment pair changes.
Joined(l, m, a, b) ==
  /\ m \in LinkRecord
  /\ m.next[a] = b /\ m.prev[b] = a
  /\ \A x \in L!Node : (x # a => m.next[x] = l.next[x]) /\ (x # b => m.prev[x] = l.prev[x])

LEMMA JoinIs ==
  ASSUME NEW l \in LinkRecord, NEW a \in L!Node, NEW b \in L!Node
  PROVE  Joined(l, L!Join(l, a, b), a, b)
<1>0. PICK m : m = L!Join(l, a, b)
  OBVIOUS
<1>1. m = [l EXCEPT !.next[a] = b, !.prev[b] = a]
  BY <1>0 DEF L!Join
<1>2. PICK f, g : f = l.next /\ g = l.prev
  BY Zenon
<1>3. f \in [L!Node -> L!Node] /\ g \in [L!Node -> L!Node] /\ l = [next |-> f, prev |-> g]
  BY <1>2 DEF LinkRecord
<1>4. PICK u, v : u = [f EXCEPT ![a] = b] /\ v = [g EXCEPT ![b] = a]
  BY Zenon
<1>5. m = [next |-> u, prev |-> v]
  BY <1>1, <1>3, <1>4
<1>6. u \in [L!Node -> L!Node] /\ v \in [L!Node -> L!Node]
  BY <1>3, <1>4
<1>7. m.next = u /\ m.prev = v /\ m \in LinkRecord
  BY <1>5, <1>6 DEF LinkRecord
<1>8. u[a] = b /\ v[b] = a
  BY <1>3, <1>4
<1>9. \A x \in L!Node : (x # a => u[x] = f[x]) /\ (x # b => v[x] = g[x])
  BY <1>3, <1>4
<1>10. QED
  BY <1>0, <1>2, <1>7, <1>8, <1>9 DEF Joined

\* The links outside T are as they were.
Alike(l, m, T) == \A x \in L!Node \ T : m.next[x] = l.next[x] /\ m.prev[x] = l.prev[x]

LEMMA SpotNode ==
  ASSUME NEW h \in Anchor, NEW s \in Seq(Item), NEW i \in Int
  PROVE  Spot(h, s, i) \in L!Node
  BY DEF Spot, L!Node

\* The nodes of a ring are different, but for the head that ends it.
LEMMA SpotsDiffer ==
  ASSUME NEW h \in Anchor, NEW s \in Seq(Item),
         \A i \in 1 .. Len(s), j \in 1 .. Len(s) : s[i] = s[j] => i = j
  PROVE  /\ \A i \in 0 .. Len(s), j \in 0 .. Len(s) : Spot(h, s, i) = Spot(h, s, j) => i = j
         /\ \A i \in 0 .. Len(s), j \in 0 .. Len(s) : Spot(h, s, i + 1) = Spot(h, s, j + 1) => i = j
<1>1. \A i \in 1 .. Len(s) : s[i] # h
  BY ListsAssumption
<1>2. QED
  BY <1>1 DEF Spot

Nodes(h, s) == {h} \cup {s[i] : i \in 1 .. Len(s)}

LEMMA RingFrame ==
  ASSUME NEW h \in Anchor, NEW s \in Seq(Item), NEW l, NEW m, NEW T, Alike(l, m, T),
         Ring(l, h, s), Nodes(h, s) \cap T = {}
  PROVE  Ring(m, h, s)
<1>1. SUFFICES ASSUME NEW i \in 0 .. Len(s) PROVE Edge(m, Spot(h, s, i), Spot(h, s, i + 1))
  BY DEF Ring
<1>2. PICK a, b : a = Spot(h, s, i) /\ b = Spot(h, s, i + 1)
  BY Zenon
<1>3. a \in Nodes(h, s) /\ b \in Nodes(h, s)
  BY <1>2 DEF Spot, Nodes
<1>4. Nodes(h, s) \subseteq L!Node
  BY DEF Nodes, L!Node
<1>5. a \in L!Node \ T /\ b \in L!Node \ T
  BY <1>3, <1>4
<1>6. Edge(l, a, b)
  BY <1>2 DEF Ring
<1>7. QED
  BY <1>2, <1>5, <1>6 DEF Edge, Alike

\* Some rings change and the links of their nodes, the rest stays whole.
LEMMA Changed ==
  ASSUME NEW l, NEW q, NEW st, Whole(l, q, st), NEW H, H \subseteq Anchor, NEW T,
         NEW m \in LinkRecord, NEW r \in [Anchor -> Seq(Item)], NEW up, up \subseteq Item,
         Alike(l, m, T), Once(r),
         \A h \in Anchor \ H : r[h] = q[h] /\ Nodes(h, q[h]) \cap T = {},
         \A h \in H : Ring(m, h, r[h]),
         \A x \in up : ~Held(r, x),
         \A x \in Item \ up : Held(r, x) \/ Edge(m, x, x)
  PROVE  Whole(m, r, up)
<1>1. ASSUME NEW h \in Anchor PROVE Ring(m, h, r[h])
  <2>1. CASE h \in H
    BY <2>1
  <2>2. CASE h \notin H
    <3>1. r[h] = q[h] /\ Nodes(h, q[h]) \cap T = {} /\ q[h] \in Seq(Item) /\ Ring(l, h, q[h])
      BY <2>2 DEF Whole
    <3>2. QED
      BY <3>1, RingFrame
  <2>3. QED
    BY <2>1, <2>2
<1>2. QED
  BY <1>1 DEF Whole

LEMMA EdgeJoined ==
  ASSUME NEW l \in LinkRecord, NEW a \in L!Node, NEW b \in L!Node, NEW m, m = L!Join(l, a, b)
  PROVE  /\ m \in LinkRecord /\ Edge(m, a, b)
         /\ \A u, v \in L!Node : Edge(l, u, v) /\ u # a /\ v # b => Edge(m, u, v)
<1>1. Joined(l, m, a, b)
  BY JoinIs
<1>2. QED
  BY <1>1 DEF Joined, Edge

LEMMA JoinSame ==
  ASSUME NEW l \in LinkRecord, NEW a \in L!Node, NEW b \in L!Node, NEW m, m = L!Join(l, a, b),
         NEW T, a \in T, b \in T
  PROVE  Alike(l, m, T)
<1>1. Joined(l, m, a, b)
  BY JoinIs
<1>2. QED
  BY <1>1 DEF Joined, Alike

LEMMA SameTwice ==
  ASSUME NEW l, NEW k, NEW m, NEW T, Alike(l, k, T), Alike(k, m, T)
  PROVE  Alike(l, m, T)
  BY DEF Alike

Differ(s) == \A i \in 1 .. Len(s), j \in 1 .. Len(s) : s[i] = s[j] => i = j

LEMMA RemovedIs ==
  ASSUME NEW s \in Seq(Item), NEW p \in 1 .. Len(s), NEW t, t = L!RemoveAt(s, p)
  PROVE  /\ t \in Seq(Item) /\ Len(t) = Len(s) - 1
         /\ \A i \in 1 .. Len(s) - 1 : t[i] = IF i < p THEN s[i] ELSE s[i + 1]
<1>1. PICK u, v : u = SubSeq(s, 1, p - 1) /\ v = SubSeq(s, p + 1, Len(s))
  BY Zenon
<1>2. t = u \o v
  BY <1>1 DEF L!RemoveAt
<1>3. /\ u \in Seq(Item) /\ Len(u) = p - 1 /\ \A i \in 1 .. p - 1 : u[i] = s[i]
  BY <1>1
<1>4. /\ v \in Seq(Item) /\ Len(v) = Len(s) - p /\ \A i \in 1 .. Len(s) - p : v[i] = s[p + i]
  BY <1>1
<1>5. t \in Seq(Item) /\ Len(t) = Len(s) - 1
  <2>1. t \in Seq(Item) /\ Len(t) = Len(u) + Len(v)
    BY <1>2, <1>3, <1>4, ConcatProperties
  <2>2. QED
    BY <1>3, <1>4, <2>1
<1>6. ASSUME NEW i \in 1 .. Len(s) - 1 PROVE t[i] = IF i < p THEN s[i] ELSE s[i + 1]
  <2>1. CASE i < p
    BY <1>2, <1>3, <1>4, <2>1
  <2>2. CASE ~(i < p)
    <3>1. t[i] = v[i - (p - 1)]
      BY <1>2, <1>3, <1>4, <2>2
    <3>2. i - (p - 1) \in 1 .. Len(s) - p /\ p + (i - (p - 1)) = i + 1
      BY <2>2
    <3>3. QED
      BY <1>4, <2>2, <3>1, <3>2
  <2>3. QED
    BY <2>1, <2>2
<1>7. QED
  BY <1>5, <1>6

\* Taking an item out closes its ring behind it.
LEMMA RingUnlink ==
  ASSUME NEW l \in LinkRecord, NEW h \in Anchor, NEW s \in Seq(Item), Ring(l, h, s), Differ(s),
         NEW p \in 1 .. Len(s), NEW m, m = L!Join(l, l.prev[s[p]], l.next[s[p]])
  PROVE  m \in LinkRecord /\ Alike(l, m, Nodes(h, s)) /\ Ring(m, h, L!RemoveAt(s, p))
<1>1. PICK t : t = L!RemoveAt(s, p)
  OBVIOUS
<1>2. PICK a, b : a = Spot(h, s, p - 1) /\ b = Spot(h, s, p + 1)
  BY Zenon
<1>3. a \in L!Node /\ b \in L!Node /\ a \in Nodes(h, s) /\ b \in Nodes(h, s)
  BY <1>2, SpotNode DEF Spot, Nodes
<1>4. l.prev[s[p]] = a /\ l.next[s[p]] = b
  <2>1. Spot(h, s, p) = s[p] /\ p \in 0 .. Len(s) /\ p - 1 \in 0 .. Len(s) /\ p - 1 + 1 = p
    BY DEF Spot
  <2>2. Edge(l, Spot(h, s, p), Spot(h, s, p + 1)) /\ Edge(l, Spot(h, s, p - 1), Spot(h, s, p - 1 + 1))
    BY <2>1 DEF Ring
  <2>3. QED
    BY <1>2, <2>1, <2>2 DEF Edge
<1>5. m = L!Join(l, a, b)
  BY <1>4
<1>6. m \in LinkRecord /\ Alike(l, m, Nodes(h, s))
  BY <1>3, <1>5, JoinSame, JoinIs DEF Joined
<1>7. Len(t) = Len(s) - 1 /\ \A i \in 1 .. Len(s) - 1 : t[i] = IF i < p THEN s[i] ELSE s[i + 1]
  BY <1>1, RemovedIs
<1>8. \A i \in 0 .. Len(s) : Spot(h, t, i) = IF i < p THEN Spot(h, s, i) ELSE Spot(h, s, i + 1)
  BY <1>7 DEF Spot
<1>9. /\ \A i \in 0 .. Len(s), j \in 0 .. Len(s) : Spot(h, s, i) = Spot(h, s, j) => i = j
      /\ \A i \in 0 .. Len(s), j \in 0 .. Len(s) : Spot(h, s, i + 1) = Spot(h, s, j + 1) => i = j
  BY SpotsDiffer DEF Differ
<1>10. ASSUME NEW i \in 0 .. Len(s), i # p - 1, i # p
       PROVE  Edge(m, Spot(h, s, i), Spot(h, s, i + 1))
  <2>1. Edge(l, Spot(h, s, i), Spot(h, s, i + 1))
    BY DEF Ring
  <2>2. Spot(h, s, i) # a /\ Spot(h, s, i + 1) # b
    BY <1>2, <1>9, <1>10
  <2>3. Spot(h, s, i) \in L!Node /\ Spot(h, s, i + 1) \in L!Node
    BY SpotNode
  <2>4. QED
    BY <1>3, <1>5, <2>1, <2>2, <2>3, EdgeJoined
<1>11. ASSUME NEW i \in 0 .. Len(t) PROVE Edge(m, Spot(h, t, i), Spot(h, t, i + 1))
  <2>1. i \in 0 .. Len(s) /\ i + 1 \in 0 .. Len(s)
    BY <1>7
  <2>2. CASE i < p - 1
    BY <1>8, <1>10, <2>1, <2>2
  <2>3. CASE i = p - 1
    <3>1. Spot(h, t, i) = a /\ Spot(h, t, i + 1) = b
      BY <1>2, <1>8, <2>1, <2>3
    <3>2. QED
      BY <1>3, <1>5, <3>1, EdgeJoined
  <2>4. CASE i > p - 1
    <3>1. Spot(h, t, i) = Spot(h, s, i + 1) /\ Spot(h, t, i + 1) = Spot(h, s, i + 1 + 1)
      BY <1>8, <2>1, <2>4
    <3>2. QED
      BY <1>10, <2>1, <2>4, <3>1
  <2>5. QED
    BY <2>2, <2>3, <2>4
<1>12. QED
  BY <1>1, <1>6, <1>11 DEF Ring

\* An item put behind the node of a ring in place c.
Inserted(s, c, x, t) ==
  /\ t \in Seq(Item) /\ Len(t) = Len(s) + 1
  /\ \A i \in 1 .. Len(s) + 1 : t[i] = IF i <= c THEN s[i] ELSE IF i = c + 1 THEN x ELSE s[i - 1]

LEMMA RingInsert ==
  ASSUME NEW l \in LinkRecord, NEW h \in Anchor, NEW s \in Seq(Item), Ring(l, h, s), Differ(s),
         NEW c \in 0 .. Len(s), NEW x \in Item, x \notin Nodes(h, s), NEW t, Inserted(s, c, x, t),
         NEW m, \/ m = L!Join(L!Join(l, x, Spot(h, s, c + 1)), Spot(h, s, c), x)
                \/ m = L!Join(L!Join(l, Spot(h, s, c), x), x, Spot(h, s, c + 1))
  PROVE  m \in LinkRecord /\ Alike(l, m, Nodes(h, s) \cup {x}) /\ Ring(m, h, t)
<1>1. PICK a, b : a = Spot(h, s, c) /\ b = Spot(h, s, c + 1)
  BY Zenon
<1>2. a \in L!Node /\ b \in L!Node /\ a \in Nodes(h, s) /\ b \in Nodes(h, s) /\ a # x /\ b # x
  BY <1>1, SpotNode DEF Spot, Nodes
<1>3. x \in L!Node
  BY DEF L!Node
<1>4. /\ m \in LinkRecord /\ Alike(l, m, Nodes(h, s) \cup {x})
      /\ Edge(m, a, x) /\ Edge(m, x, b)
      /\ \A u, v \in L!Node : Edge(l, u, v) /\ u # a /\ v # b /\ u # x /\ v # x => Edge(m, u, v)
  <2>1. CASE m = L!Join(L!Join(l, x, b), a, x)
    <3>1. PICK k : k = L!Join(l, x, b)
      OBVIOUS
    <3>2. k \in LinkRecord /\ m = L!Join(k, a, x)
      BY <1>2, <1>3, <2>1, <3>1, JoinIs DEF Joined
    <3>3. Alike(l, k, Nodes(h, s) \cup {x}) /\ Alike(k, m, Nodes(h, s) \cup {x})
      BY <1>2, <1>3, <3>1, <3>2, JoinSame
    <3>4. Alike(l, m, Nodes(h, s) \cup {x})
      BY <3>3, SameTwice
    <3>5. m \in LinkRecord /\ Edge(k, x, b) /\ Edge(m, a, x) /\ Edge(m, x, b)
      BY <1>2, <1>3, <3>1, <3>2, EdgeJoined
    <3>6. \A u, v \in L!Node : Edge(l, u, v) /\ u # a /\ v # b /\ u # x /\ v # x => Edge(m, u, v)
      BY <1>2, <1>3, <3>1, <3>2, EdgeJoined
    <3>7. QED
      BY <3>4, <3>5, <3>6
  <2>2. CASE m = L!Join(L!Join(l, a, x), x, b)
    <3>1. PICK k : k = L!Join(l, a, x)
      OBVIOUS
    <3>2. k \in LinkRecord /\ m = L!Join(k, x, b)
      BY <1>2, <1>3, <2>2, <3>1, JoinIs DEF Joined
    <3>3. Alike(l, k, Nodes(h, s) \cup {x}) /\ Alike(k, m, Nodes(h, s) \cup {x})
      BY <1>2, <1>3, <3>1, <3>2, JoinSame
    <3>4. Alike(l, m, Nodes(h, s) \cup {x})
      BY <3>3, SameTwice
    <3>5. m \in LinkRecord /\ Edge(k, a, x) /\ Edge(m, x, b) /\ Edge(m, a, x)
      BY <1>2, <1>3, <3>1, <3>2, EdgeJoined
    <3>6. \A u, v \in L!Node : Edge(l, u, v) /\ u # a /\ v # b /\ u # x /\ v # x => Edge(m, u, v)
      BY <1>2, <1>3, <3>1, <3>2, EdgeJoined
    <3>7. QED
      BY <3>4, <3>5, <3>6
  <2>3. QED
    BY <1>1, <2>1, <2>2
<1>5. Len(t) = Len(s) + 1
  BY DEF Inserted
<1>6. \A i \in 0 .. Len(s) + 2 :
        Spot(h, t, i) = IF i <= c THEN Spot(h, s, i) ELSE IF i = c + 1 THEN x ELSE Spot(h, s, i - 1)
  BY DEF Inserted, Spot
<1>7. /\ \A i \in 0 .. Len(s), j \in 0 .. Len(s) : Spot(h, s, i) = Spot(h, s, j) => i = j
      /\ \A i \in 0 .. Len(s), j \in 0 .. Len(s) : Spot(h, s, i + 1) = Spot(h, s, j + 1) => i = j
  BY SpotsDiffer DEF Differ
<1>8. ASSUME NEW i \in 0 .. Len(s), i # c
      PROVE  Edge(m, Spot(h, s, i), Spot(h, s, i + 1))
  <2>1. Edge(l, Spot(h, s, i), Spot(h, s, i + 1))
    BY DEF Ring
  <2>2. Spot(h, s, i) # a /\ Spot(h, s, i + 1) # b
    BY <1>1, <1>7, <1>8
  <2>3. /\ Spot(h, s, i) \in L!Node /\ Spot(h, s, i + 1) \in L!Node
        /\ Spot(h, s, i) # x /\ Spot(h, s, i + 1) # x
    BY SpotNode DEF Spot, Nodes
  <2>4. QED
    BY <1>4, <2>1, <2>2, <2>3
<1>9. ASSUME NEW i \in 0 .. Len(t) PROVE Edge(m, Spot(h, t, i), Spot(h, t, i + 1))
  <2>1. i \in 0 .. Len(s) + 2 /\ i + 1 \in 0 .. Len(s) + 2 /\ i + 1 - 1 = i
    BY <1>5
  <2>2. CASE i < c
    BY <1>6, <1>8, <2>1, <2>2
  <2>3. CASE i = c
    BY <1>1, <1>4, <1>6, <2>1, <2>3
  <2>4. CASE i = c + 1
    <3>1. Spot(h, t, i) = x /\ Spot(h, t, i + 1) = b
      BY <1>1, <1>6, <2>1, <2>4
    <3>2. QED
      BY <1>4, <3>1
  <2>5. CASE i > c + 1
    <3>1. i - 1 \in 0 .. Len(s) /\ i - 1 # c /\ i - 1 + 1 = i
      BY <1>5, <2>5
    <3>2. Spot(h, t, i) = Spot(h, s, i - 1) /\ Spot(h, t, i + 1) = Spot(h, s, i - 1 + 1)
      BY <1>6, <2>1, <2>5, <3>1
    <3>3. QED
      BY <1>8, <3>1, <3>2
  <2>6. QED
    BY <2>2, <2>3, <2>4, <2>5
<1>10. QED
  BY <1>4, <1>9 DEF Ring

\* What is known of one ring and of two.
OneRing(l, h, s) == h \in Anchor /\ s \in Seq(Item) /\ Ring(l, h, s) /\ Differ(s)

LEMMA WholeRing ==
  ASSUME NEW l, NEW q, NEW st, Whole(l, q, st), NEW h \in Anchor
  PROVE  OneRing(l, h, q[h])
  BY DEF Whole, Once, Differ, OneRing

LEMMA WholeApart ==
  ASSUME NEW l, NEW q, NEW st, Whole(l, q, st), NEW h \in Anchor, NEW g \in Anchor, h # g
  PROVE  Nodes(h, q[h]) \cap Nodes(g, q[g]) = {}
<1>1. q[h] \in Seq(Item) /\ q[g] \in Seq(Item)
  BY DEF Whole
<1>2. (\A i \in 1 .. Len(q[h]) : q[h][i] \in Item) /\ (\A i \in 1 .. Len(q[g]) : q[g][i] \in Item)
  BY <1>1
<1>3. \A i \in 1 .. Len(q[h]), j \in 1 .. Len(q[g]) : q[h][i] # q[g][j]
  BY DEF Whole, Once
<1>4. QED
  BY <1>2, <1>3, ListsAssumption DEF Nodes

LEMMA NotHeldApart ==
  ASSUME NEW l, NEW q, NEW st, Whole(l, q, st), NEW h \in Anchor, NEW x \in Item, ~Held(q, x)
  PROVE  x \notin Nodes(h, q[h])
  BY ListsAssumption DEF Held, Nodes

LEMMA CreateWhole ==
  ASSUME NEW l, NEW q, NEW st, Whole(l, q, st), NEW x \in st
  PROVE  Whole(L!create(l, x), q, st \ {x})
<1>1. PICK m, T, H : m = L!create(l, x) /\ T = {x} /\ H = {}
  BY Zenon
<1>2. l \in LinkRecord /\ q \in [Anchor -> Seq(Item)] /\ Once(q) /\ x \in Item /\ ~Held(q, x) /\ x \in L!Node
  BY DEF Whole, L!Node
<1>3. m = L!Join(l, x, x)
  BY <1>1 DEF L!create
<1>4. m \in LinkRecord /\ Alike(l, m, T) /\ Edge(m, x, x)
  BY <1>1, <1>2, <1>3, EdgeJoined, JoinSame
<1>5. \A h \in Anchor \ H : q[h] = q[h] /\ Nodes(h, q[h]) \cap T = {}
  BY <1>1, <1>2, NotHeldApart
<1>6. \A y \in Item \ (st \ {x}) : Held(q, y) \/ Edge(m, y, y)
  <2>1. \A y \in Item \ st : y # x /\ y \in L!Node
    BY DEF L!Node
  <2>2. \A y \in Item \ st : Edge(l, y, y) => Edge(m, y, y)
    BY <1>1, <1>4, <2>1 DEF Alike, Edge
  <2>3. QED
    BY <1>4, <2>2 DEF Whole
<1>7. H \subseteq Anchor /\ st \ {x} \subseteq Item /\ (\A h \in H : Ring(m, h, q[h])) /\ \A y \in st \ {x} : ~Held(q, y)
  BY <1>1 DEF Whole
<1>8. Whole(m, q, st \ {x})
  BY <1>2, <1>4, <1>5, <1>6, <1>7, Changed
<1>9. QED
  BY <1>1, <1>8

\* The lists without an item.
Gone(q, x) ==
  [h \in Anchor |-> IF x \in L!ToSet(q[h]) THEN L!RemoveAt(q[h], L!Position(q[h], x)) ELSE q[h]]

LEMMA PositionIs ==
  ASSUME NEW s \in Seq(Item), Differ(s), NEW p \in 1 .. Len(s)
  PROVE  L!Position(s, s[p]) = p
<1>1. PICK i : i = L!Position(s, s[p])
  OBVIOUS
<1>2. DOMAIN s = 1 .. Len(s)
  OBVIOUS
<1>3. i \in 1 .. Len(s) /\ s[i] = s[p]
  BY <1>1, <1>2 DEF L!Position
<1>4. QED
  BY <1>1, <1>3 DEF Differ

\* What taking out the item in place p of the list of h leaves.
LEMMA GoneIs ==
  ASSUME NEW l, NEW q, NEW st, Whole(l, q, st), NEW h \in Anchor, NEW p \in 1 .. Len(q[h])
  PROVE  Gone(q, q[h][p]) = [q EXCEPT ![h] = L!RemoveAt(q[h], p)]
<1>1. PICK x : x = q[h][p]
  OBVIOUS
<1>2. q \in [Anchor -> Seq(Item)] /\ q[h] \in Seq(Item)
  BY DEF Whole
<1>3. x \in L!ToSet(q[h]) /\ L!Position(q[h], x) = p
  <2>1. x \in L!ToSet(q[h])
    BY <1>1, <1>2 DEF L!ToSet
  <2>2. Differ(q[h])
    BY WholeRing DEF OneRing
  <2>3. QED
    BY <1>1, <1>2, <2>1, <2>2, PositionIs
<1>4. ASSUME NEW g \in Anchor, g # h PROVE x \notin L!ToSet(q[g])
  <2>1. q[g] \in Seq(Item)
    BY <1>2
  <2>2. DOMAIN q[g] = 1 .. Len(q[g])
    BY <2>1
  <2>3. \A i \in 1 .. Len(q[g]) : q[g][i] # x
    BY <1>1, <1>4 DEF Whole, Once
  <2>4. QED
    BY <2>2, <2>3 DEF L!ToSet
<1>5. \A g \in Anchor : Gone(q, x)[g] = IF g = h THEN L!RemoveAt(q[h], p) ELSE q[g]
  BY <1>3, <1>4 DEF Gone
<1>6. Gone(q, x) = [g \in Anchor |-> Gone(q, x)[g]]
  BY DEF Gone
<1>7. QED
  BY <1>1, <1>2, <1>5, <1>6

LEMMA GoneNone ==
  ASSUME NEW l, NEW q, NEW st, Whole(l, q, st), NEW x, ~Held(q, x)
  PROVE  Gone(q, x) = q
<1>1. q \in [Anchor -> Seq(Item)]
  BY DEF Whole
<1>2. ASSUME NEW g \in Anchor PROVE x \notin L!ToSet(q[g])
  <2>1. q[g] \in Seq(Item)
    BY <1>1
  <2>2. DOMAIN q[g] = 1 .. Len(q[g])
    BY <2>1
  <2>3. \A i \in 1 .. Len(q[g]) : q[g][i] # x
    BY DEF Held
  <2>4. QED
    BY <2>2, <2>3 DEF L!ToSet
<1>3. QED
  BY <1>1, <1>2 DEF Gone

\* Every list holds what it held but x.
Dropped(q, r, x) ==
  /\ r \in [Anchor -> Seq(Item)] /\ Once(r) /\ ~Held(r, x)
  /\ \A y : y # x => (Held(r, y) <=> Held(q, y))

\* A list without one of its items, among the others.
LEMMA OnceRemoved ==
  ASSUME NEW q \in [Anchor -> Seq(Item)], Once(q), NEW h \in Anchor, NEW p \in 1 .. Len(q[h]),
         NEW r, r = [q EXCEPT ![h] = L!RemoveAt(q[h], p)]
  PROVE  Dropped(q, r, q[h][p])
<1>1. PICK s, t, n, x : s = q[h] /\ t = L!RemoveAt(s, p) /\ n = Len(s) /\ x = s[p]
  BY Zenon
<1>2. s \in Seq(Item) /\ n \in Nat /\ p \in 1 .. n
  BY <1>1
<1>3. t \in Seq(Item) /\ Len(t) = n - 1 /\ \A i \in 1 .. n - 1 : t[i] = IF i < p THEN s[i] ELSE s[i + 1]
  BY <1>1, <1>2, RemovedIs
<1>4. r \in [Anchor -> Seq(Item)] /\ r[h] = t /\ \A g \in Anchor : g # h => r[g] = q[g]
  BY <1>1, <1>3
<1>5. \A i \in 1 .. n, j \in 1 .. n : s[i] = s[j] => i = j
  BY <1>1 DEF Once
<1>6. \A i \in 1 .. n - 1 : \E k \in 1 .. n : k # p /\ t[i] = s[k] /\ (k = IF i < p THEN i ELSE i + 1)
  <2>1. SUFFICES ASSUME NEW i \in 1 .. n - 1
                 PROVE  \E k \in 1 .. n : k # p /\ t[i] = s[k] /\ (k = IF i < p THEN i ELSE i + 1)
    OBVIOUS
  <2>2. CASE i < p
    BY <1>2, <1>3, <2>2
  <2>3. CASE ~(i < p)
    BY <1>2, <1>3, <2>3
  <2>4. QED
    BY <2>2, <2>3
<1>7. \A k \in 1 .. n : k # p => \E i \in 1 .. n - 1 : t[i] = s[k]
  <2>1. SUFFICES ASSUME NEW k \in 1 .. n, k # p PROVE \E i \in 1 .. n - 1 : t[i] = s[k]
    OBVIOUS
  <2>2. CASE k < p
    <3>1. k \in 1 .. n - 1 /\ t[k] = s[k]
      BY <1>2, <1>3, <2>2
    <3>2. QED
      BY <3>1
  <2>3. CASE ~(k < p)
    <3>1. k - 1 \in 1 .. n - 1 /\ t[k - 1] = s[k]
      <4>1. k - 1 \in 1 .. n - 1 /\ ~(k - 1 < p) /\ k - 1 + 1 = k
        BY <1>2, <2>1, <2>3
      <4>2. QED
        BY <1>3, <4>1
    <3>2. QED
      BY <3>1
  <2>4. QED
    BY <2>2, <2>3
<1>8. Once(r)
  <2>1. SUFFICES ASSUME NEW a \in Anchor, NEW b \in Anchor, NEW i \in 1 .. Len(r[a]), NEW j \in 1 .. Len(r[b]),
                        r[a][i] = r[b][j]
                 PROVE  a = b /\ i = j
    BY DEF Once
  <2>2. CASE a = h /\ b = h
    <3>1. i \in 1 .. n - 1 /\ j \in 1 .. n - 1 /\ t[i] = t[j]
      BY <1>3, <1>4, <2>1, <2>2
    <3>2. PICK k \in 1 .. n : t[i] = s[k] /\ (k = IF i < p THEN i ELSE i + 1)
      BY <1>6, <3>1
    <3>3. PICK m \in 1 .. n : t[j] = s[m] /\ (m = IF j < p THEN j ELSE j + 1)
      BY <1>6, <3>1
    <3>4. k = m
      BY <1>5, <3>1, <3>2, <3>3
    <3>5. QED
      BY <1>2, <2>2, <3>1, <3>2, <3>3, <3>4
  <2>3. CASE a = h /\ b # h
    <3>1. i \in 1 .. n - 1 /\ t[i] = q[b][j] /\ j \in 1 .. Len(q[b])
      BY <1>3, <1>4, <2>1, <2>3
    <3>2. PICK k \in 1 .. n : t[i] = s[k]
      BY <1>6, <3>1
    <3>3. QED
      BY <1>1, <2>3, <3>1, <3>2 DEF Once
  <2>4. CASE a # h /\ b = h
    <3>1. j \in 1 .. n - 1 /\ t[j] = q[a][i] /\ i \in 1 .. Len(q[a])
      BY <1>3, <1>4, <2>1, <2>4
    <3>2. PICK k \in 1 .. n : t[j] = s[k]
      BY <1>6, <3>1
    <3>3. QED
      BY <1>1, <2>4, <3>1, <3>2 DEF Once
  <2>5. CASE a # h /\ b # h
    BY <1>4, <2>1, <2>5 DEF Once
  <2>6. QED
    BY <2>2, <2>3, <2>4, <2>5
<1>9. ~Held(r, x)
  <2>1. SUFFICES ASSUME NEW a \in Anchor, NEW i \in 1 .. Len(r[a]), r[a][i] = x PROVE FALSE
    BY DEF Held
  <2>2. CASE a = h
    <3>1. PICK k \in 1 .. n : k # p /\ t[i] = s[k]
      BY <1>3, <1>4, <1>6, <2>2
    <3>2. QED
      BY <1>1, <1>2, <1>4, <1>5, <2>1, <2>2, <3>1
  <2>3. CASE a # h
    BY <1>1, <1>4, <2>1, <2>3 DEF Once
  <2>4. QED
    BY <2>2, <2>3
<1>10. ASSUME NEW y, y # x, Held(r, y) PROVE Held(q, y)
  <2>0. PICK a \in Anchor : \E i \in 1 .. Len(r[a]) : r[a][i] = y
    BY <1>10 DEF Held
  <2>1. PICK i \in 1 .. Len(r[a]) : r[a][i] = y
    BY <2>0
  <2>2. CASE a = h
    <3>1. PICK k \in 1 .. n : t[i] = s[k]
      BY <1>3, <1>4, <1>6, <2>1, <2>2
    <3>2. QED
      BY <1>1, <1>4, <2>1, <2>2, <3>1 DEF Held
  <2>3. CASE a # h
    BY <1>4, <2>1, <2>3 DEF Held
  <2>4. QED
    BY <2>2, <2>3
<1>11. ASSUME NEW y, y # x, Held(q, y) PROVE Held(r, y)
  <2>0. PICK a \in Anchor : \E k \in 1 .. Len(q[a]) : q[a][k] = y
    BY <1>11 DEF Held
  <2>1. PICK k \in 1 .. Len(q[a]) : q[a][k] = y
    BY <2>0
  <2>2. CASE a = h
    <3>1. k \in 1 .. n /\ k # p /\ s[k] = y
      BY <1>1, <1>11, <2>1, <2>2
    <3>2. PICK i \in 1 .. n - 1 : t[i] = y
      BY <1>7, <3>1
    <3>3. i \in 1 .. Len(r[h]) /\ r[h][i] = y
      BY <1>3, <1>4, <3>2
    <3>4. QED
      BY <3>3 DEF Held
  <2>3. CASE a # h
    BY <1>4, <2>1, <2>3 DEF Held
  <2>4. QED
    BY <2>2, <2>3
<1>12. QED
  BY <1>1, <1>4, <1>8, <1>9, <1>10, <1>11 DEF Dropped

Unlink(l, x) == L!Join(l, l.prev[x], l.next[x])

\* The neighbours of an item are joined; the item still points at them.
LEMMA UnlinkWhole ==
  ASSUME NEW l, NEW q, NEW st, Whole(l, q, st), NEW x \in Item, x \notin st
  PROVE  Whole(Unlink(l, x), Gone(q, x), st \cup {x})
<1>1. PICK m, r : m = Unlink(l, x) /\ r = Gone(q, x)
  BY Zenon
<1>2. /\ l \in LinkRecord /\ q \in [Anchor -> Seq(Item)] /\ Once(q) /\ x \in L!Node /\ st \cup {x} \subseteq Item
      /\ \A y \in st : ~Held(q, y)
  BY DEF Whole, L!Node
<1>3. CASE Held(q, x)
  <2>0. PICK h \in Anchor : \E p \in 1 .. Len(q[h]) : q[h][p] = x
    BY <1>3 DEF Held
  <2>1. PICK p \in 1 .. Len(q[h]) : q[h][p] = x
    BY <2>0
  <2>2. PICK s : s = q[h]
    OBVIOUS
  <2>3. OneRing(l, h, s)
    BY <2>2, WholeRing
  <2>4. r = [q EXCEPT ![h] = L!RemoveAt(s, p)]
    <3>1. Gone(q, q[h][p]) = [q EXCEPT ![h] = L!RemoveAt(q[h], p)]
      BY GoneIs
    <3>2. QED
      BY <1>1, <2>1, <2>2, <3>1, Zenon
  <2>5. m = L!Join(l, l.prev[s[p]], l.next[s[p]]) /\ p \in 1 .. Len(s)
    BY <1>1, <2>1, <2>2 DEF Unlink
  <2>6. m \in LinkRecord /\ Alike(l, m, Nodes(h, s)) /\ Ring(m, h, L!RemoveAt(s, p))
    BY <1>2, <2>3, <2>5, RingUnlink DEF OneRing
  <2>7. /\ r \in [Anchor -> Seq(Item)] /\ Once(r) /\ ~Held(r, x)
        /\ \A y : y # x => (Held(r, y) <=> Held(q, y))
    <3>1. r = [q EXCEPT ![h] = L!RemoveAt(q[h], p)]
      BY <2>2, <2>4
    <3>2. Dropped(q, r, q[h][p])
      BY <1>2, <3>1, OnceRemoved
    <3>3. Dropped(q, r, x)
      BY <2>1, <3>2
    <3>4. QED
      BY <3>3 DEF Dropped
  <2>8. PICK H, T : H = {h} /\ T = Nodes(h, s)
    BY Zenon
  <2>9. \A g \in Anchor \ H : r[g] = q[g] /\ Nodes(g, q[g]) \cap T = {}
    BY <1>2, <2>2, <2>4, <2>8, WholeApart
  <2>10. \A g \in H : Ring(m, g, r[g])
    BY <1>2, <2>4, <2>6, <2>8
  <2>11. \A y \in st \cup {x} : ~Held(r, y)
    BY <1>2, <2>7
  <2>12. ASSUME NEW y \in Item \ (st \cup {x}) PROVE Held(r, y) \/ Edge(m, y, y)
    <3>1. CASE Held(q, y)
      BY <2>7, <3>1
    <3>2. CASE ~Held(q, y)
      <4>1. y \in L!Node \ T
        BY <2>2, <2>8, <3>2, NotHeldApart DEF L!Node
      <4>2. Edge(l, y, y)
        BY <3>2 DEF Whole
      <4>3. QED
        BY <2>6, <2>8, <4>1, <4>2 DEF Alike, Edge
    <3>3. QED
      BY <3>1, <3>2
  <2>13. H \subseteq Anchor
    BY <2>8
  <2>14. Alike(l, m, T)
    BY <2>6, <2>8
  <2>15. Whole(m, r, st \cup {x})
    BY <1>2, <2>6, <2>7, <2>9, <2>10, <2>11, <2>12, <2>13, <2>14, Changed
  <2>16. QED
    BY <1>1, <2>15
<1>4. CASE ~Held(q, x)
  <2>1. Edge(l, x, x)
    BY <1>4 DEF Whole
  <2>2. m = L!create(l, x)
    BY <1>1, <2>1 DEF Edge, Unlink, L!create
  <2>3. r = q
    BY <1>1, <1>4, GoneNone
  <2>4. Whole(l, q, st \cup {x})
    BY <1>2, <1>4 DEF Whole
  <2>5. Whole(m, q, (st \cup {x}) \ {x})
    BY <2>2, <2>4, CreateWhole
  <2>6. Whole(m, q, st \cup {x})
    BY <1>2, <1>4, <2>5 DEF Whole
  <2>7. QED
    BY <1>1, <2>3, <2>6
<1>5. QED
  BY <1>3, <1>4

\* Every list holds what it held and x.
Grown(q, r, x) ==
  /\ r \in [Anchor -> Seq(Item)] /\ Once(r) /\ Held(r, x)
  /\ \A y : y # x => (Held(r, y) <=> Held(q, y))

LEMMA OnceInserted ==
  ASSUME NEW q \in [Anchor -> Seq(Item)], Once(q), NEW h \in Anchor, NEW c \in 0 .. Len(q[h]),
         NEW x \in Item, ~Held(q, x), NEW t, Inserted(q[h], c, x, t), NEW r, r = [q EXCEPT ![h] = t]
  PROVE  Grown(q, r, x)
<1>1. PICK s, n : s = q[h] /\ n = Len(s)
  BY Zenon
<1>2. s \in Seq(Item) /\ n \in Nat /\ c \in 0 .. n
  BY <1>1
<1>3. t \in Seq(Item) /\ Len(t) = n + 1
  BY <1>1 DEF Inserted
<1>4. \A i \in 1 .. n + 1 : t[i] = IF i <= c THEN s[i] ELSE IF i = c + 1 THEN x ELSE s[i - 1]
  BY <1>1 DEF Inserted
<1>5. r \in [Anchor -> Seq(Item)] /\ r[h] = t /\ \A g \in Anchor : g # h => r[g] = q[g]
  BY <1>1, <1>3
<1>6. \A i \in 1 .. n, j \in 1 .. n : s[i] = s[j] => i = j
  BY <1>1 DEF Once
<1>7. \A k \in 1 .. n : s[k] # x
  BY <1>1 DEF Held
<1>8. \A i \in 1 .. n + 1 : i # c + 1 => \E k \in 1 .. n : t[i] = s[k] /\ (k = IF i <= c THEN i ELSE i - 1)
  <2>1. SUFFICES ASSUME NEW i \in 1 .. n + 1, i # c + 1
                 PROVE  \E k \in 1 .. n : t[i] = s[k] /\ (k = IF i <= c THEN i ELSE i - 1)
    OBVIOUS
  <2>2. CASE i <= c
    BY <1>2, <1>4, <2>2
  <2>3. CASE ~(i <= c)
    <3>1. i - 1 \in 1 .. n
      BY <1>2, <2>1, <2>3
    <3>2. QED
      BY <1>4, <2>1, <2>3, <3>1
  <2>4. QED
    BY <2>2, <2>3
<1>9. c + 1 \in 1 .. n + 1 /\ t[c + 1] = x
  BY <1>2, <1>4
<1>10. \A k \in 1 .. n : \E i \in 1 .. n + 1 : t[i] = s[k]
  <2>1. SUFFICES ASSUME NEW k \in 1 .. n PROVE \E i \in 1 .. n + 1 : t[i] = s[k]
    OBVIOUS
  <2>2. CASE k <= c
    BY <1>2, <1>4, <2>2
  <2>3. CASE ~(k <= c)
    <3>1. k + 1 \in 1 .. n + 1 /\ ~(k + 1 <= c) /\ k + 1 # c + 1 /\ k + 1 - 1 = k
      BY <1>2, <2>3
    <3>2. t[k + 1] = s[k]
      BY <1>4, <3>1
    <3>3. QED
      BY <3>1, <3>2
  <2>4. QED
    BY <2>2, <2>3
<1>11. \A i \in 1 .. n + 1, j \in 1 .. n + 1 : t[i] = t[j] => i = j
  <2>1. SUFFICES ASSUME NEW i \in 1 .. n + 1, NEW j \in 1 .. n + 1, t[i] = t[j] PROVE i = j
    OBVIOUS
  <2>2. CASE i = c + 1 \/ j = c + 1
    BY <1>7, <1>8, <1>9, <2>1, <2>2
  <2>3. CASE i # c + 1 /\ j # c + 1
    <3>1. PICK k \in 1 .. n : t[i] = s[k] /\ (k = IF i <= c THEN i ELSE i - 1)
      BY <1>8, <2>3
    <3>2. PICK m \in 1 .. n : t[j] = s[m] /\ (m = IF j <= c THEN j ELSE j - 1)
      BY <1>8, <2>3
    <3>3. k = m
      BY <1>6, <2>1, <3>1, <3>2
    <3>4. QED
      BY <1>2, <2>3, <3>1, <3>2, <3>3
  <2>4. QED
    BY <2>2, <2>3
<1>12. ASSUME NEW i \in 1 .. n + 1, NEW b \in Anchor, b # h, NEW j \in 1 .. Len(q[b]) PROVE t[i] # q[b][j]
  <2>1. CASE i = c + 1
    BY <1>9, <1>12, <2>1 DEF Held
  <2>2. CASE i # c + 1
    <3>1. PICK k \in 1 .. n : t[i] = s[k]
      BY <1>8, <2>2
    <3>2. QED
      BY <1>1, <1>12, <3>1 DEF Once
  <2>3. QED
    BY <2>1, <2>2
<1>13. Once(r)
  <2>1. SUFFICES ASSUME NEW a \in Anchor, NEW b \in Anchor, NEW i \in 1 .. Len(r[a]), NEW j \in 1 .. Len(r[b]),
                        r[a][i] = r[b][j]
                 PROVE  a = b /\ i = j
    BY DEF Once
  <2>2. CASE a = h /\ b = h
    BY <1>3, <1>5, <1>11, <2>1, <2>2
  <2>3. CASE a = h /\ b # h
    BY <1>3, <1>5, <1>12, <2>1, <2>3
  <2>4. CASE a # h /\ b = h
    BY <1>3, <1>5, <1>12, <2>1, <2>4
  <2>5. CASE a # h /\ b # h
    BY <1>5, <2>1, <2>5 DEF Once
  <2>6. QED
    BY <2>2, <2>3, <2>4, <2>5
<1>14. Held(r, x)
  <2>1. c + 1 \in 1 .. Len(r[h]) /\ r[h][c + 1] = x
    BY <1>3, <1>5, <1>9
  <2>2. QED
    BY <2>1 DEF Held
<1>15. ASSUME NEW y, y # x, Held(r, y) PROVE Held(q, y)
  <2>0. PICK a \in Anchor : \E i \in 1 .. Len(r[a]) : r[a][i] = y
    BY <1>15 DEF Held
  <2>1. PICK i \in 1 .. Len(r[a]) : r[a][i] = y
    BY <2>0
  <2>2. CASE a = h
    <3>1. i \in 1 .. n + 1 /\ t[i] = y /\ i # c + 1
      BY <1>3, <1>5, <1>9, <1>15, <2>1, <2>2
    <3>2. PICK k \in 1 .. n : t[i] = s[k]
      BY <1>8, <3>1
    <3>3. QED
      BY <1>1, <3>1, <3>2 DEF Held
  <2>3. CASE a # h
    BY <1>5, <2>1, <2>3 DEF Held
  <2>4. QED
    BY <2>2, <2>3
<1>16. ASSUME NEW y, Held(q, y) PROVE Held(r, y)
  <2>0. PICK a \in Anchor : \E k \in 1 .. Len(q[a]) : q[a][k] = y
    BY <1>16 DEF Held
  <2>1. PICK k \in 1 .. Len(q[a]) : q[a][k] = y
    BY <2>0
  <2>2. CASE a = h
    <3>1. k \in 1 .. n /\ s[k] = y
      BY <1>1, <2>1, <2>2
    <3>2. PICK i \in 1 .. n + 1 : t[i] = y
      BY <1>10, <3>1
    <3>3. i \in 1 .. Len(r[h]) /\ r[h][i] = y
      BY <1>3, <1>5, <3>2
    <3>4. QED
      BY <3>3 DEF Held
  <2>3. CASE a # h
    BY <1>5, <2>1, <2>3 DEF Held
  <2>4. QED
    BY <2>2, <2>3
<1>17. QED
  BY <1>5, <1>13, <1>14, <1>15, <1>16 DEF Grown

\* An item of no list goes into one.
LEMMA InsertWhole ==
  ASSUME NEW l, NEW q, NEW st, Whole(l, q, st), NEW h \in Anchor, NEW c \in 0 .. Len(q[h]),
         NEW x \in Item, ~Held(q, x), NEW t, Inserted(q[h], c, x, t), NEW m,
         \/ m = L!Join(L!Join(l, x, Spot(h, q[h], c + 1)), Spot(h, q[h], c), x)
         \/ m = L!Join(L!Join(l, Spot(h, q[h], c), x), x, Spot(h, q[h], c + 1))
  PROVE  Whole(m, [q EXCEPT ![h] = t], st \ {x})
<1>1. PICK s, r : s = q[h] /\ r = [q EXCEPT ![h] = t]
  BY Zenon
<1>2. /\ l \in LinkRecord /\ q \in [Anchor -> Seq(Item)] /\ Once(q) /\ st \ {x} \subseteq Item
      /\ \A y \in st : ~Held(q, y)
  BY DEF Whole
<1>3. OneRing(l, h, s) /\ x \notin Nodes(h, s)
  BY <1>1, WholeRing, NotHeldApart
<1>4. m \in LinkRecord /\ Alike(l, m, Nodes(h, s) \cup {x}) /\ Ring(m, h, t)
  BY <1>1, <1>2, <1>3, RingInsert DEF OneRing
<1>5. Grown(q, r, x)
  BY <1>1, <1>2, OnceInserted
<1>6. /\ r \in [Anchor -> Seq(Item)] /\ Once(r) /\ Held(r, x)
      /\ \A y : y # x => (Held(r, y) <=> Held(q, y))
  BY <1>5 DEF Grown
<1>7. PICK H, T : H = {h} /\ T = Nodes(h, s) \cup {x}
  BY Zenon
<1>8. ASSUME NEW g \in Anchor \ H PROVE r[g] = q[g] /\ Nodes(g, q[g]) \cap T = {}
  <2>1. g # h /\ r[g] = q[g]
    BY <1>1, <1>2, <1>7
  <2>2. x \notin Nodes(g, q[g])
    BY NotHeldApart
  <2>3. Nodes(g, q[g]) \cap Nodes(h, s) = {}
    BY <1>1, <2>1, WholeApart
  <2>4. QED
    BY <1>7, <2>1, <2>2, <2>3
<1>9. \A g \in H : Ring(m, g, r[g])
  BY <1>1, <1>2, <1>4, <1>7
<1>10. \A y \in st \ {x} : ~Held(r, y)
  BY <1>2, <1>6
<1>11. ASSUME NEW y \in Item \ (st \ {x}) PROVE Held(r, y) \/ Edge(m, y, y)
  <2>1. CASE Held(q, y) \/ y = x
    BY <1>6, <2>1
  <2>2. CASE ~Held(q, y) /\ y # x
    <3>1. y \in L!Node \ T
      BY <1>1, <1>7, <2>2, NotHeldApart DEF L!Node
    <3>2. Edge(l, y, y)
      BY <2>2 DEF Whole
    <3>3. QED
      BY <1>4, <1>7, <3>1, <3>2 DEF Alike, Edge
  <2>3. QED
    BY <2>1, <2>2
<1>12. H \subseteq Anchor /\ Alike(l, m, T)
  BY <1>4, <1>7
<1>13. Whole(m, r, st \ {x})
  BY <1>2, <1>4, <1>6, <1>8, <1>9, <1>10, <1>11, <1>12, Changed
<1>14. QED
  BY <1>1, <1>13

\* The nodes beside a head and in an empty ring.
LEMMA HeadLinks ==
  ASSUME NEW l, NEW h, NEW s \in Seq(Item), Ring(l, h, s)
  PROVE  l.next[h] = Spot(h, s, 1) /\ l.prev[h] = Spot(h, s, Len(s))
<1>1. 0 \in 0 .. Len(s) /\ Len(s) \in 0 .. Len(s) /\ 0 + 1 = 1
  OBVIOUS
<1>2. Edge(l, Spot(h, s, 0), Spot(h, s, 1)) /\ Edge(l, Spot(h, s, Len(s)), Spot(h, s, Len(s) + 1))
  BY <1>1 DEF Ring
<1>3. Spot(h, s, 0) = h /\ Spot(h, s, Len(s) + 1) = h
  BY DEF Spot
<1>4. QED
  BY <1>2, <1>3 DEF Edge

LEMMA PutFirst ==
  ASSUME NEW s \in Seq(Item), NEW x \in Item
  PROVE  Inserted(s, 0, x, <<x>> \o s)
<1>1. PICK t : t = <<x>> \o s
  OBVIOUS
<1>2. <<x>> \in Seq(Item) /\ Len(<<x>>) = 1
  OBVIOUS
<1>3. t \in Seq(Item) /\ Len(t) = 1 + Len(s)
  BY <1>1, <1>2, ConcatProperties
<1>4. ASSUME NEW i \in 1 .. Len(s) + 1 PROVE t[i] = IF i <= 0 THEN s[i] ELSE IF i = 0 + 1 THEN x ELSE s[i - 1]
  BY <1>1
<1>5. QED
  BY <1>1, <1>3, <1>4 DEF Inserted

LEMMA PutLast ==
  ASSUME NEW s \in Seq(Item), NEW x \in Item
  PROVE  Inserted(s, Len(s), x, Append(s, x))
  BY DEF Inserted

LEMMA AddFirst ==
  ASSUME NEW l, NEW q, NEW st, Whole(l, q, st), NEW h \in Anchor, NEW x \in Item, ~Held(q, x)
  PROVE  Whole(L!add(l, h, x), [q EXCEPT ![h] = <<x>> \o q[h]], st \ {x})
<1>1. PICK s, t, m : s = q[h] /\ t = <<x>> \o s /\ m = L!add(l, h, x)
  BY Zenon
<1>2. OneRing(l, h, s)
  BY <1>1, WholeRing
<1>3. 0 \in 0 .. Len(s) /\ 0 + 1 = 1 /\ Spot(h, s, 0) = h
  BY <1>2 DEF OneRing, Spot
<1>4. l.next[h] = Spot(h, s, 0 + 1)
  BY <1>2, <1>3, HeadLinks DEF OneRing
<1>5. m = L!Join(L!Join(l, x, Spot(h, s, 0 + 1)), Spot(h, s, 0), x)
  BY <1>1, <1>3, <1>4 DEF L!add
<1>6. Inserted(s, 0, x, t)
  BY <1>1, <1>2, PutFirst DEF OneRing
<1>7. Whole(m, [q EXCEPT ![h] = t], st \ {x})
  BY <1>1, <1>3, <1>5, <1>6, InsertWhole
<1>8. QED
  BY <1>1, <1>7

LEMMA AddLast ==
  ASSUME NEW l, NEW q, NEW st, Whole(l, q, st), NEW h \in Anchor, NEW x \in Item, ~Held(q, x)
  PROVE  Whole(L!add_tail(l, h, x), [q EXCEPT ![h] = Append(q[h], x)], st \ {x})
<1>1. PICK s, t, m, n : s = q[h] /\ t = Append(s, x) /\ m = L!add_tail(l, h, x) /\ n = Len(s)
  BY Zenon
<1>2. OneRing(l, h, s)
  BY <1>1, WholeRing
<1>3. n \in 0 .. Len(s) /\ Spot(h, s, n + 1) = h
  BY <1>1, <1>2 DEF OneRing, Spot
<1>4. l.prev[h] = Spot(h, s, n)
  BY <1>1, <1>2, HeadLinks DEF OneRing
<1>5. m = L!Join(L!Join(l, Spot(h, s, n), x), x, Spot(h, s, n + 1))
  BY <1>1, <1>3, <1>4 DEF L!add_tail
<1>6. Inserted(s, n, x, t)
  BY <1>1, <1>2, PutLast DEF OneRing
<1>7. Whole(m, [q EXCEPT ![h] = t], st \ {x})
  BY <1>1, <1>3, <1>5, <1>6, InsertWhole
<1>8. QED
  BY <1>1, <1>7

\* linked_list_delete of an item that does not dangle.
LEMMA DeleteWhole ==
  ASSUME NEW l, NEW q, NEW st, Whole(l, q, st), NEW x \in Item, x \notin st
  PROVE  Whole(L!del(l, x), Gone(q, x), st)
<1>1. PICK m, k, r, up : m = L!del(l, x) /\ k = Unlink(l, x) /\ r = Gone(q, x) /\ up = st \cup {x}
  BY Zenon
<1>2. Whole(k, r, up)
  BY <1>1, UnlinkWhole
<1>3. m = L!create(k, x)
  BY <1>1 DEF Unlink, L!del
<1>4. x \in up /\ up \ {x} = st
  BY <1>1
<1>5. Whole(m, r, up \ {x})
  BY <1>2, <1>3, <1>4, CreateWhole
<1>6. QED
  BY <1>1, <1>4, <1>5

LEMMA GoneFree ==
  ASSUME NEW l, NEW q, NEW st, Whole(l, q, st), NEW x \in Item, x \notin st
  PROVE  ~Held(Gone(q, x), x) /\ Gone(q, x) \in [Anchor -> Seq(Item)]
  BY UnlinkWhole DEF Whole

LEMMA MoveFirst ==
  ASSUME NEW l, NEW q, NEW st, Whole(l, q, st), NEW h \in Anchor, NEW x \in Item, x \notin st
  PROVE  Whole(L!move(l, h, x), [Gone(q, x) EXCEPT ![h] = <<x>> \o Gone(q, x)[h]], st)
<1>1. PICK k, r : k = L!del(l, x) /\ r = Gone(q, x)
  BY Zenon
<1>2. Whole(k, r, st) /\ ~Held(r, x)
  BY <1>1, DeleteWhole, GoneFree
<1>3. Whole(L!add(k, h, x), [r EXCEPT ![h] = <<x>> \o r[h]], st \ {x})
  BY <1>2, AddFirst
<1>4. st \ {x} = st
  OBVIOUS
<1>5. QED
  BY <1>1, <1>3, <1>4 DEF L!move

LEMMA MoveLast ==
  ASSUME NEW l, NEW q, NEW st, Whole(l, q, st), NEW h \in Anchor, NEW x \in Item, x \notin st
  PROVE  Whole(L!move_tail(l, h, x), [Gone(q, x) EXCEPT ![h] = Append(Gone(q, x)[h], x)], st)
<1>1. PICK k, r, up : k = Unlink(l, x) /\ r = Gone(q, x) /\ up = st \cup {x}
  BY Zenon
<1>2. Whole(k, r, up) /\ ~Held(r, x)
  BY <1>1, UnlinkWhole, GoneFree
<1>3. Whole(L!add_tail(k, h, x), [r EXCEPT ![h] = Append(r[h], x)], up \ {x})
  BY <1>2, AddLast
<1>4. up \ {x} = st
  BY <1>1
<1>5. L!move_tail(l, h, x) = L!add_tail(k, h, x)
  BY <1>1 DEF Unlink, L!move_tail
<1>6. QED
  BY <1>1, <1>3, <1>4, <1>5

LEMMA SameSeq ==
  ASSUME NEW s \in Seq(Item), NEW t \in Seq(Item), Len(s) = Len(t), \A i \in 1 .. Len(s) : s[i] = t[i]
  PROVE  s = t
  OBVIOUS

LEMMA TailRemoves ==
  ASSUME NEW s \in Seq(Item), s # <<>>
  PROVE  Tail(s) = L!RemoveAt(s, 1)
<1>1. PICK t, u : t = Tail(s) /\ u = L!RemoveAt(s, 1)
  BY Zenon
<1>2. 1 \in 1 .. Len(s)
  OBVIOUS
<1>3. /\ u \in Seq(Item) /\ Len(u) = Len(s) - 1
      /\ \A i \in 1 .. Len(s) - 1 : u[i] = IF i < 1 THEN s[i] ELSE s[i + 1]
  BY <1>1, <1>2, RemovedIs
<1>4. t \in Seq(Item) /\ Len(t) = Len(s) - 1 /\ \A i \in 1 .. Len(s) - 1 : t[i] = s[i + 1]
  BY <1>1
<1>5. t = u
  BY <1>3, <1>4, SameSeq
<1>6. QED
  BY <1>1, <1>5

LEMMA FrontRemoves ==
  ASSUME NEW s \in Seq(Item), s # <<>>
  PROVE  L!Front(s) = L!RemoveAt(s, Len(s))
<1>1. PICK t, u : t = L!Front(s) /\ u = L!RemoveAt(s, Len(s))
  BY Zenon
<1>2. Len(s) \in 1 .. Len(s)
  OBVIOUS
<1>3. /\ u \in Seq(Item) /\ Len(u) = Len(s) - 1
      /\ \A i \in 1 .. Len(s) - 1 : u[i] = IF i < Len(s) THEN s[i] ELSE s[i + 1]
  BY <1>1, <1>2, RemovedIs
<1>4. t = SubSeq(s, 1, Len(s) - 1)
  BY <1>1 DEF L!Front
<1>5. t \in Seq(Item) /\ Len(t) = Len(s) - 1 /\ \A i \in 1 .. Len(s) - 1 : t[i] = s[i]
  <2>1. PICK k \in Nat : k = Len(s) - 1
    OBVIOUS
  <2>2. t = SubSeq(s, 1, k) /\ k <= Len(s)
    BY <1>4, <2>1
  <2>3. t \in Seq(Item) /\ Len(t) = k /\ \A i \in 1 .. k : t[i] = s[i]
    BY <2>2
  <2>4. QED
    BY <2>1, <2>3
<1>6. t = u
  BY <1>3, <1>5, SameSeq
<1>7. QED
  BY <1>1, <1>6

\* The first and the last item of a list are deleted as any other.
LEMMA ShiftWhole ==
  ASSUME NEW l, NEW q, NEW st, Whole(l, q, st), NEW h \in Anchor, q[h] # <<>>
  PROVE  /\ Whole(L!shift(l, h), [q EXCEPT ![h] = Tail(q[h])], st)
         /\ Whole(L!shift_tail(l, h), [q EXCEPT ![h] = L!Front(q[h])], st)
<1>1. PICK s, n : s = q[h] /\ n = Len(s)
  BY Zenon
<1>2. OneRing(l, h, s) /\ s \in Seq(Item) /\ s # <<>> /\ n \in Nat /\ 1 \in 1 .. n /\ n \in 1 .. n
  BY <1>1, WholeRing DEF OneRing
<1>3. s[1] \in Item /\ s[1] \notin st /\ s[n] \in Item /\ s[n] \notin st
  BY <1>1, <1>2 DEF Whole, Held
<1>4. l.next[h] = s[1] /\ l.prev[h] = s[n]
  <2>1. l.next[h] = Spot(h, s, 1) /\ l.prev[h] = Spot(h, s, n)
    BY <1>1, <1>2, HeadLinks DEF OneRing
  <2>2. QED
    BY <1>1, <1>2, <2>1 DEF Spot
<1>5. l.prev[s[1]] = h
  <2>1. 0 \in 0 .. n /\ 0 + 1 = 1
    BY <1>2
  <2>2. Edge(l, Spot(h, s, 0), Spot(h, s, 1))
    BY <1>1, <1>2, <2>1 DEF OneRing, Ring
  <2>3. Spot(h, s, 0) = h /\ Spot(h, s, 1) = s[1]
    BY <1>1, <1>2 DEF Spot
  <2>4. QED
    BY <2>2, <2>3 DEF Edge
<1>6. L!shift(l, h) = L!del(l, s[1])
  BY <1>4, <1>5 DEF L!shift, L!del
<1>7. L!shift_tail(l, h) = L!del(l, s[n])
  BY <1>4 DEF L!shift_tail
<1>8. Gone(q, s[1]) = [q EXCEPT ![h] = Tail(q[h])]
  <2>1. Gone(q, q[h][1]) = [q EXCEPT ![h] = L!RemoveAt(q[h], 1)]
    <3>1. PICK k : k = 1
      OBVIOUS
    <3>2. k \in 1 .. Len(q[h])
      BY <1>1, <1>2, <3>1
    <3>3. Gone(q, q[h][k]) = [q EXCEPT ![h] = L!RemoveAt(q[h], k)]
      BY <3>2, GoneIs
    <3>4. QED
      BY <3>1, <3>3, Zenon
  <2>2. Tail(q[h]) = L!RemoveAt(q[h], 1)
    BY <1>1, <1>2, TailRemoves
  <2>3. QED
    BY <1>1, <2>1, <2>2, Zenon
<1>9. Gone(q, s[n]) = [q EXCEPT ![h] = L!Front(q[h])]
  <2>1. Gone(q, q[h][n]) = [q EXCEPT ![h] = L!RemoveAt(q[h], n)]
    BY <1>1, <1>2, GoneIs
  <2>2. L!Front(q[h]) = L!RemoveAt(q[h], n)
    BY <1>1, <1>2, FrontRemoves
  <2>3. QED
    BY <1>1, <2>1, <2>2, Zenon
<1>10. Whole(L!del(l, s[1]), Gone(q, s[1]), st) /\ Whole(L!del(l, s[n]), Gone(q, s[n]), st)
  BY <1>3, DeleteWhole
<1>11. QED
  BY <1>6, <1>7, <1>8, <1>9, <1>10, Zenon

\* What Changed needs, in one predicate.
Change(l, q, m, r, H, T, up) ==
  /\ H \subseteq Anchor /\ m \in LinkRecord /\ r \in [Anchor -> Seq(Item)] /\ up \subseteq Item
  /\ Alike(l, m, T) /\ Once(r)
  /\ \A h \in Anchor \ H : r[h] = q[h] /\ Nodes(h, q[h]) \cap T = {}
  /\ \A h \in H : Ring(m, h, r[h])
  /\ \A x \in up : ~Held(r, x)
  /\ \A x \in Item \ up : Held(r, x) \/ Edge(m, x, x)

LEMMA ChangeWhole ==
  ASSUME NEW l, NEW q, NEW st, Whole(l, q, st), NEW m, NEW r, NEW H, NEW T, NEW up,
         Change(l, q, m, r, H, T, up)
  PROVE  Whole(m, r, up)
  BY Changed DEF Change

\* The items of a list.
Items(s) == {s[i] : i \in 1 .. Len(s)}

\* Two rings become u and v; the items of neither are left as they are.
LEMMA TwoWhole ==
  ASSUME NEW l, NEW q, NEW st, Whole(l, q, st), NEW h \in Anchor, NEW g \in Anchor, h # g,
         NEW m \in LinkRecord, NEW u \in Seq(Item), NEW v \in Seq(Item), NEW left,
         Alike(l, m, Nodes(h, q[h]) \cup Nodes(g, q[g])), Ring(m, h, u), Ring(m, g, v),
         Differ(u), Differ(v), Items(u) \cap Items(v) = {},
         Items(q[h]) \cup Items(q[g]) = Items(u) \cup Items(v) \cup left,
         left \cap (Items(u) \cup Items(v)) = {},
         NEW r, r = [q EXCEPT ![h] = u, ![g] = v]
  PROVE  Whole(m, r, st \cup left)
<1>1. /\ l \in LinkRecord /\ q \in [Anchor -> Seq(Item)] /\ Once(q) /\ st \subseteq Item
      /\ \A y \in st : ~Held(q, y)
  BY DEF Whole
<1>2. r \in [Anchor -> Seq(Item)] /\ r[h] = u /\ r[g] = v /\ \A f \in Anchor : f # h /\ f # g => r[f] = q[f]
  BY <1>1
<1>3. \A p, y : Held(p, y) <=> \E f \in Anchor : y \in Items(p[f])
  BY DEF Held, Items
<1>4. \A f \in Anchor, e \in Anchor : f # e => Items(q[f]) \cap Items(q[e]) = {}
  BY <1>1 DEF Once, Items
<1>5. \A f \in Anchor, e \in Anchor : f # e => Items(r[f]) \cap Items(r[e]) = {}
  <2>1. SUFFICES ASSUME NEW f \in Anchor, NEW e \in Anchor, f # e PROVE Items(r[f]) \cap Items(r[e]) = {}
    OBVIOUS
  <2>2. \A d \in Anchor : d # h /\ d # g => Items(r[d]) \cap (Items(u) \cup Items(v)) = {}
    BY <1>2, <1>4
  <2>3. CASE f \in {h, g} /\ e \in {h, g}
    BY <1>2, <2>1, <2>3
  <2>4. CASE f \in {h, g} /\ e \notin {h, g}
    BY <1>2, <2>2, <2>4
  <2>5. CASE f \notin {h, g} /\ e \in {h, g}
    BY <1>2, <2>2, <2>5
  <2>6. CASE f \notin {h, g} /\ e \notin {h, g}
    <3>1. r[f] = q[f] /\ r[e] = q[e]
      BY <1>2, <2>6
    <3>2. QED
      BY <1>4, <2>1, <3>1
  <2>7. QED
    BY <2>3, <2>4, <2>5, <2>6
<1>6. \A f \in Anchor : Differ(r[f])
  BY <1>1, <1>2 DEF Once, Differ
<1>7. Once(r)
  <2>1. SUFFICES ASSUME NEW a \in Anchor, NEW b \in Anchor, NEW i \in 1 .. Len(r[a]), NEW j \in 1 .. Len(r[b]),
                        r[a][i] = r[b][j]
                 PROVE  a = b /\ i = j
    BY DEF Once
  <2>2. r[a][i] \in Items(r[a]) /\ r[b][j] \in Items(r[b])
    BY DEF Items
  <2>3. a = b
    BY <1>5, <2>1, <2>2
  <2>4. QED
    BY <1>6, <2>1, <2>3 DEF Differ
<1>8. \A y : Held(r, y) => Held(q, y) /\ y \notin left
  <2>1. SUFFICES ASSUME NEW y, NEW f \in Anchor, y \in Items(r[f]) PROVE Held(q, y) /\ y \notin left
    BY <1>3
  <2>2. CASE f \in {h, g}
    BY <1>2, <1>3, <2>1, <2>2
  <2>3. CASE f \notin {h, g}
    <3>1. y \in Items(q[f]) /\ f # h /\ f # g
      BY <1>2, <2>1, <2>3
    <3>2. y \notin Items(q[h]) /\ y \notin Items(q[g])
      BY <1>4, <3>1
    <3>3. QED
      BY <1>3, <3>1, <3>2
  <2>4. QED
    BY <2>2, <2>3
<1>9. \A y : Held(q, y) => Held(r, y) \/ y \in left
  <2>1. SUFFICES ASSUME NEW y, NEW f \in Anchor, y \in Items(q[f]) PROVE Held(r, y) \/ y \in left
    BY <1>3
  <2>2. CASE f \in {h, g}
    BY <1>2, <1>3, <2>1, <2>2
  <2>3. CASE f \notin {h, g}
    BY <1>2, <1>3, <2>1, <2>3
  <2>4. QED
    BY <2>2, <2>3
<1>10. PICK H, T, up : H = {h, g} /\ T = Nodes(h, q[h]) \cup Nodes(g, q[g]) /\ up = st \cup left
  BY Zenon
<1>11. \A f \in Anchor \ H : r[f] = q[f] /\ Nodes(f, q[f]) \cap T = {}
  BY <1>2, <1>10, WholeApart
<1>12. \A f \in H : Ring(m, f, r[f])
  BY <1>2, <1>10
<1>13. up \subseteq Item
  <2>1. q[h] \in Seq(Item) /\ q[g] \in Seq(Item)
    BY <1>1
  <2>2. Items(q[h]) \subseteq Item /\ Items(q[g]) \subseteq Item
    BY <2>1 DEF Items
  <2>3. QED
    BY <1>1, <1>10, <2>2
<1>14. \A y \in up : ~Held(r, y)
  BY <1>1, <1>8, <1>10
<1>15. ASSUME NEW y \in Item \ up PROVE Held(r, y) \/ Edge(m, y, y)
  <2>1. CASE Held(q, y)
    BY <1>9, <1>10, <2>1
  <2>2. CASE ~Held(q, y)
    <3>1. y \in L!Node \ T
      BY <1>10, <2>2, NotHeldApart DEF L!Node
    <3>2. Edge(l, y, y)
      BY <1>10, <2>2 DEF Whole
    <3>3. Alike(l, m, T)
      BY <1>10
    <3>4. QED
      BY <3>1, <3>2, <3>3 DEF Alike, Edge
  <2>3. QED
    BY <2>1, <2>2
<1>16. H \subseteq Anchor /\ Alike(l, m, T)
  BY <1>10
<1>17. Whole(m, r, up)
  <2>1. Change(l, q, m, r, H, T, up)
    BY <1>2, <1>7, <1>11, <1>12, <1>13, <1>14, <1>15, <1>16 DEF Change
  <2>2. QED
    BY <2>1, ChangeWhole
<1>18. QED
  BY <1>10, <1>17

\* One list behind the other.
LEMMA JoinedItems ==
  ASSUME NEW u \in Seq(Item), NEW v \in Seq(Item), Differ(u), Differ(v), Items(u) \cap Items(v) = {}
  PROVE  /\ u \o v \in Seq(Item) /\ Differ(u \o v) /\ Items(u \o v) = Items(u) \cup Items(v)
         /\ Len(u \o v) = Len(u) + Len(v)
         /\ \A i \in 1 .. Len(u) + Len(v) : (u \o v)[i] = IF i <= Len(u) THEN u[i] ELSE v[i - Len(u)]
<1>1. PICK w, n, k : w = u \o v /\ n = Len(u) /\ k = Len(v)
  BY Zenon
<1>2. w \in Seq(Item) /\ n \in Nat /\ k \in Nat /\ Len(w) = n + k
  BY <1>1, ConcatProperties
<1>3. \A i \in 1 .. n + k : w[i] = IF i <= n THEN u[i] ELSE v[i - n]
  BY <1>1
<1>4. \A i \in 1 .. n + k : i <= n => i \in 1 .. n /\ w[i] = u[i]
  BY <1>2, <1>3
<1>5. \A i \in 1 .. n + k : ~(i <= n) => i - n \in 1 .. k /\ w[i] = v[i - n]
  BY <1>2, <1>3
<1>6. Differ(w)
  <2>1. SUFFICES ASSUME NEW i \in 1 .. n + k, NEW j \in 1 .. n + k, w[i] = w[j] PROVE i = j
    BY <1>2 DEF Differ
  <2>2. CASE i <= n /\ j <= n
    BY <1>1, <1>4, <2>1, <2>2 DEF Differ
  <2>3. CASE i <= n /\ ~(j <= n)
    <3>1. u[i] = v[j - n] /\ i \in 1 .. n /\ j - n \in 1 .. k
      BY <1>4, <1>5, <2>1, <2>3
    <3>2. u[i] \in Items(u) /\ v[j - n] \in Items(v)
      BY <1>1, <3>1 DEF Items
    <3>3. QED
      BY <3>1, <3>2
  <2>4. CASE ~(i <= n) /\ j <= n
    <3>1. u[j] = v[i - n] /\ j \in 1 .. n /\ i - n \in 1 .. k
      BY <1>4, <1>5, <2>1, <2>4
    <3>2. u[j] \in Items(u) /\ v[i - n] \in Items(v)
      BY <1>1, <3>1 DEF Items
    <3>3. QED
      BY <3>1, <3>2
  <2>5. CASE ~(i <= n) /\ ~(j <= n)
    <3>1. i - n = j - n
      BY <1>1, <1>5, <2>1, <2>5 DEF Differ
    <3>2. QED
      BY <1>2, <3>1
  <2>6. QED
    BY <2>2, <2>3, <2>4, <2>5
<1>7. Items(w) \subseteq Items(u) \cup Items(v)
  BY <1>1, <1>2, <1>4, <1>5 DEF Items
<1>8. Items(u) \cup Items(v) \subseteq Items(w)
  <2>1. ASSUME NEW i \in 1 .. n PROVE u[i] \in Items(w)
    <3>1. i \in 1 .. n + k /\ i <= n
      BY <1>2
    <3>2. QED
      BY <1>2, <1>4, <3>1 DEF Items
  <2>2. ASSUME NEW i \in 1 .. k PROVE v[i] \in Items(w)
    <3>1. PICK p : p = n + i
      OBVIOUS
    <3>2. p \in 1 .. n + k /\ ~(p <= n) /\ p - n = i
      BY <1>2, <3>1
    <3>3. w[p] = v[i]
      BY <1>5, <3>2
    <3>4. QED
      BY <1>2, <3>2, <3>3 DEF Items
  <2>3. QED
    BY <1>1, <2>1, <2>2 DEF Items
<1>9. QED
  BY <1>1, <1>2, <1>3, <1>6, <1>7, <1>8

\* A list cut in two.
Parts(t, n, u, v) ==
  /\ u \in Seq(Item) /\ Differ(u) /\ Len(u) = n /\ \A i \in 1 .. n : u[i] = t[i]
  /\ v \in Seq(Item) /\ Differ(v) /\ Len(v) = Len(t) - n /\ \A i \in 1 .. Len(t) - n : v[i] = t[n + i]
  /\ Items(u) \cap Items(v) = {} /\ Items(t) = Items(u) \cup Items(v)

LEMMA CutItems ==
  ASSUME NEW t \in Seq(Item), Differ(t), NEW n \in 0 .. Len(t),
         NEW u, u = SubSeq(t, 1, n), NEW v, v = SubSeq(t, n + 1, Len(t))
  PROVE  Parts(t, n, u, v)
<1>1. PICK k : k = Len(t)
  OBVIOUS
<1>2. k \in Nat /\ n \in Nat /\ n <= k /\ n \in 0 .. k
  BY <1>1
<1>3. u \in Seq(Item) /\ Len(u) = n /\ \A i \in 1 .. n : u[i] = t[i]
  BY <1>1, <1>2
<1>4. v \in Seq(Item) /\ Len(v) = k - n /\ \A i \in 1 .. k - n : v[i] = t[n + i]
  BY <1>1, <1>2
<1>5. \A i \in 1 .. k - n : n + i \in 1 .. k
  BY <1>2
<1>6. \A i \in 1 .. n : i \in 1 .. k
  BY <1>2
<1>7. \A i \in 1 .. k, j \in 1 .. k : t[i] = t[j] => i = j
  BY <1>1 DEF Differ
<1>8. Differ(u)
  BY <1>3, <1>6, <1>7 DEF Differ
<1>9. Differ(v)
  <2>1. SUFFICES ASSUME NEW i \in 1 .. k - n, NEW j \in 1 .. k - n, v[i] = v[j] PROVE i = j
    BY <1>4 DEF Differ
  <2>2. n + i = n + j
    BY <1>4, <1>5, <1>7, <2>1
  <2>3. QED
    BY <1>2, <2>2
<1>10. Items(u) \cap Items(v) = {}
  <2>1. SUFFICES ASSUME NEW i \in 1 .. n, NEW j \in 1 .. k - n, u[i] = v[j] PROVE FALSE
    BY <1>3, <1>4 DEF Items
  <2>2. i = n + j
    BY <1>3, <1>4, <1>5, <1>6, <1>7, <2>1
  <2>3. QED
    BY <1>2, <2>2
<1>11. Items(u) \cup Items(v) \subseteq Items(t)
  <2>1. \A i \in 1 .. k : t[i] \in Items(t)
    BY <1>1 DEF Items
  <2>2. Items(u) \subseteq Items(t)
    BY <1>3, <1>6, <2>1 DEF Items
  <2>3. Items(v) \subseteq Items(t)
    BY <1>4, <1>5, <2>1 DEF Items
  <2>4. QED
    BY <2>2, <2>3
<1>12. Items(t) \subseteq Items(u) \cup Items(v)
  <2>1. SUFFICES ASSUME NEW i \in 1 .. k PROVE t[i] \in Items(u) \cup Items(v)
    BY <1>1 DEF Items
  <2>2. CASE i <= n
    <3>1. i \in 1 .. n
      BY <1>2, <2>2
    <3>2. QED
      BY <1>3, <3>1 DEF Items
  <2>3. CASE ~(i <= n)
    <3>1. i - n \in 1 .. k - n /\ n + (i - n) = i
      BY <1>2, <2>3
    <3>2. v[i - n] = t[i]
      BY <1>4, <3>1
    <3>3. QED
      BY <1>4, <3>1, <3>2 DEF Items
  <2>4. QED
    BY <2>2, <2>3
<1>13. QED
  BY <1>1, <1>3, <1>4, <1>8, <1>9, <1>10, <1>11, <1>12 DEF Parts

\* Three pairs of pointers, set one after the other.
Joins(l, a, b, c, d, e, f) == L!Join(L!Join(L!Join(l, a, b), c, d), e, f)

AllJoined(l, m, T, a, b, c, d, e, f) ==
  /\ m \in LinkRecord /\ Alike(l, m, T)
  /\ a # c /\ b # d /\ a # e /\ b # f => Edge(m, a, b)
  /\ c # e /\ d # f => Edge(m, c, d)
  /\ Edge(m, e, f)
  /\ \A x, y \in L!Node : Edge(l, x, y) /\ x \notin {a, c, e} /\ y \notin {b, d, f} => Edge(m, x, y)

LEMMA ThreeJoins ==
  ASSUME NEW l \in LinkRecord, NEW T, T \subseteq L!Node, NEW a \in T, NEW b \in T, NEW c \in T,
         NEW d \in T, NEW e \in T, NEW f \in T, NEW m, m = Joins(l, a, b, c, d, e, f)
  PROVE  AllJoined(l, m, T, a, b, c, d, e, f)
<1>1. PICK j, k : j = L!Join(l, a, b) /\ k = L!Join(j, c, d)
  BY Zenon
<1>2. m = L!Join(k, e, f)
  BY <1>1 DEF Joins
<1>3. a \in L!Node /\ b \in L!Node /\ c \in L!Node /\ d \in L!Node /\ e \in L!Node /\ f \in L!Node
  OBVIOUS
<1>4. /\ j \in LinkRecord /\ Edge(j, a, b)
      /\ \A x, y \in L!Node : Edge(l, x, y) /\ x # a /\ y # b => Edge(j, x, y)
  BY <1>1, <1>3, EdgeJoined
<1>5. /\ k \in LinkRecord /\ Edge(k, c, d)
      /\ \A x, y \in L!Node : Edge(j, x, y) /\ x # c /\ y # d => Edge(k, x, y)
  BY <1>1, <1>3, <1>4, EdgeJoined
<1>6. /\ m \in LinkRecord /\ Edge(m, e, f)
      /\ \A x, y \in L!Node : Edge(k, x, y) /\ x # e /\ y # f => Edge(m, x, y)
  BY <1>2, <1>3, <1>5, EdgeJoined
<1>7. Alike(l, m, T)
  <2>1. Alike(l, j, T) /\ Alike(j, k, T) /\ Alike(k, m, T)
    BY <1>1, <1>2, <1>3, <1>4, <1>5, JoinSame
  <2>2. QED
    BY <2>1, SameTwice
<1>8. QED
  BY <1>3, <1>4, <1>5, <1>6, <1>7 DEF AllJoined

\* A ring of two lists, one behind the other.
LEMMA RingConcat ==
  ASSUME NEW m, NEW h, NEW u \in Seq(Item), NEW v \in Seq(Item),
         NEW w, Len(w) = Len(u) + Len(v),
         \A i \in 1 .. Len(u) + Len(v) : w[i] = IF i <= Len(u) THEN u[i] ELSE v[i - Len(u)],
         \A i \in 0 .. Len(u) - 1 : Edge(m, Spot(h, u, i), Spot(h, u, i + 1)),
         Edge(m, Spot(h, u, Len(u)), Spot(h, v, 1)),
         \A i \in 1 .. Len(v) : Edge(m, Spot(h, v, i), Spot(h, v, i + 1))
  PROVE  Ring(m, h, w)
<1>1. PICK n, k : n = Len(u) /\ k = Len(v)
  BY Zenon
<1>2. n \in Nat /\ k \in Nat /\ Len(w) = n + k
  BY <1>1
<1>3. \A i \in 0 .. n : Spot(h, w, i) = Spot(h, u, i)
  BY <1>1, <1>2 DEF Spot
<1>4. \A i \in n + 1 .. n + k + 1 : Spot(h, w, i) = Spot(h, v, i - n)
  <2>1. SUFFICES ASSUME NEW i \in n + 1 .. n + k + 1 PROVE Spot(h, w, i) = Spot(h, v, i - n)
    OBVIOUS
  <2>2. CASE i <= n + k
    <3>1. i \in 1 .. n + k /\ ~(i <= n) /\ i - n \in 1 .. k
      BY <1>2, <2>2
    <3>2. w[i] = v[i - n]
      BY <1>1, <3>1
    <3>3. QED
      BY <1>1, <1>2, <3>1, <3>2 DEF Spot
  <2>3. CASE i = n + k + 1
    <3>1. i \notin 1 .. n + k /\ i - n \notin 1 .. k
      BY <1>2, <2>3
    <3>2. QED
      BY <1>1, <1>2, <3>1 DEF Spot
  <2>4. QED
    BY <1>2, <2>2, <2>3
<1>5. ASSUME NEW i \in 0 .. Len(w) PROVE Edge(m, Spot(h, w, i), Spot(h, w, i + 1))
  <2>0. i \in 0 .. n + k
    BY <1>2
  <2>1. CASE i < n
    <3>1. i \in 0 .. n - 1 /\ i \in 0 .. n /\ i + 1 \in 0 .. n
      BY <1>2, <2>0, <2>1
    <3>2. Spot(h, w, i) = Spot(h, u, i) /\ Spot(h, w, i + 1) = Spot(h, u, i + 1)
      BY <1>3, <3>1
    <3>3. QED
      BY <1>1, <3>1, <3>2
  <2>2. CASE i = n
    <3>1. i \in 0 .. n /\ i + 1 \in n + 1 .. n + k + 1 /\ i + 1 - n = 1
      BY <1>2, <2>2
    <3>2. Spot(h, w, i) = Spot(h, u, n) /\ Spot(h, w, i + 1) = Spot(h, v, 1)
      BY <1>3, <1>4, <2>2, <3>1
    <3>3. QED
      BY <1>1, <3>2
  <2>3. CASE i > n
    <3>1. PICK j, p : j = i - n /\ p = i + 1
      BY Zenon
    <3>2. j \in 1 .. k /\ i \in n + 1 .. n + k + 1 /\ p \in n + 1 .. n + k + 1 /\ p - n = j + 1
      BY <1>2, <2>0, <2>3, <3>1
    <3>3. Spot(h, w, i) = Spot(h, v, j) /\ Spot(h, w, p) = Spot(h, v, j + 1)
      BY <1>4, <3>1, <3>2
    <3>4. QED
      BY <1>1, <3>1, <3>2, <3>3
  <2>4. QED
    BY <1>2, <2>0, <2>1, <2>2, <2>3
<1>6. QED
  BY <1>5 DEF Ring

\* What is known of the rings of two heads.
Rings(l, h, s, g, t) ==
  /\ l \in LinkRecord /\ h # g /\ OneRing(l, h, s) /\ OneRing(l, g, t)
  /\ Nodes(h, s) \cap Nodes(g, t) = {}

LEMMA WholeRings ==
  ASSUME NEW l, NEW q, NEW st, Whole(l, q, st), NEW h \in Anchor, NEW g \in Anchor, h # g
  PROVE  Rings(l, h, q[h], g, q[g])
<1>1. l \in LinkRecord
  BY DEF Whole
<1>2. QED
  BY <1>1, WholeRing, WholeApart DEF Rings

\* The nodes of two rings, by place.
LEMMA RingFacts ==
  ASSUME NEW l, NEW h, NEW s, NEW g, NEW t, Rings(l, h, s, g, t)
  PROVE  /\ Nodes(h, s) \subseteq L!Node /\ Nodes(g, t) \subseteq L!Node
         /\ \A i \in Int : Spot(h, s, i) \in Nodes(h, s) /\ Spot(g, t, i) \in Nodes(g, t)
         /\ \A i \in 0 .. Len(s), j \in 0 .. Len(s) : Spot(h, s, i) = Spot(h, s, j) => i = j
         /\ \A i \in 0 .. Len(s), j \in 0 .. Len(s) : Spot(h, s, i + 1) = Spot(h, s, j + 1) => i = j
         /\ \A i \in 0 .. Len(t), j \in 0 .. Len(t) : Spot(g, t, i) = Spot(g, t, j) => i = j
         /\ \A i \in 0 .. Len(t), j \in 0 .. Len(t) : Spot(g, t, i + 1) = Spot(g, t, j + 1) => i = j
         /\ Items(s) \cap Items(t) = {}
<1>1. h \in Anchor /\ g \in Anchor /\ s \in Seq(Item) /\ t \in Seq(Item) /\ Differ(s) /\ Differ(t)
  BY DEF Rings, OneRing
<1>2. Nodes(h, s) \subseteq L!Node /\ Nodes(g, t) \subseteq L!Node
  BY <1>1 DEF Nodes, L!Node
<1>3. \A i \in Int : Spot(h, s, i) \in Nodes(h, s) /\ Spot(g, t, i) \in Nodes(g, t)
  BY <1>1 DEF Nodes, Spot
<1>4. /\ \A i \in 0 .. Len(s), j \in 0 .. Len(s) : Spot(h, s, i) = Spot(h, s, j) => i = j
      /\ \A i \in 0 .. Len(s), j \in 0 .. Len(s) : Spot(h, s, i + 1) = Spot(h, s, j + 1) => i = j
  BY <1>1, SpotsDiffer DEF Differ
<1>5. /\ \A i \in 0 .. Len(t), j \in 0 .. Len(t) : Spot(g, t, i) = Spot(g, t, j) => i = j
      /\ \A i \in 0 .. Len(t), j \in 0 .. Len(t) : Spot(g, t, i + 1) = Spot(g, t, j + 1) => i = j
  BY <1>1, SpotsDiffer DEF Differ
<1>6. Items(s) \cap Items(t) = {}
  BY DEF Rings, Nodes, Items
<1>7. QED
  BY <1>2, <1>3, <1>4, <1>5, <1>6

\* What a ring and links without it look like, after the rings changed.
Both(l, m, h, s, g, t, u, v) ==
  m \in LinkRecord /\ Alike(l, m, Nodes(h, s) \cup Nodes(g, t)) /\ Ring(m, h, u) /\ Ring(m, g, v)

LEMMA EmptyIs ==
  ASSUME NEW l, NEW g \in Anchor, NEW t \in Seq(Item), Ring(l, g, t)
  PROVE  L!empty(l, g) <=> t = <<>>
<1>1. l.next[g] = Spot(g, t, 1) /\ l.prev[g] = Spot(g, t, Len(t))
  BY HeadLinks
<1>2. CASE t = <<>>
  BY <1>1, <1>2 DEF Spot, L!empty
<1>3. CASE t # <<>>
  <2>1. 1 \in 1 .. Len(t) /\ t[1] \in Item
    BY <1>3
  <2>2. l.next[g] = t[1] /\ t[1] # g
    BY <1>1, <2>1, ListsAssumption DEF Spot
  <2>3. QED
    BY <1>3, <2>2 DEF L!empty
<1>4. QED
  BY <1>2, <1>3

\* The inner edges of a ring survive links at its ends and in another ring.
LEMMA InnerKept ==
  ASSUME NEW m, NEW l, NEW g \in Anchor, NEW t \in Seq(Item), Ring(l, g, t), NEW P, NEW Q,
         \A x, y \in L!Node : Edge(l, x, y) /\ x \notin P /\ y \notin Q => Edge(m, x, y),
         NEW i \in 0 .. Len(t), Spot(g, t, i) \notin P, Spot(g, t, i + 1) \notin Q
  PROVE  Edge(m, Spot(g, t, i), Spot(g, t, i + 1))
<1>1. Spot(g, t, i) \in L!Node /\ Spot(g, t, i + 1) \in L!Node
  BY SpotNode
<1>2. Edge(l, Spot(g, t, i), Spot(g, t, i + 1))
  BY DEF Ring
<1>3. QED
  BY <1>1, <1>2

LEMMA SpliceRings ==
  ASSUME NEW l, NEW h, NEW s, NEW g, NEW t, Rings(l, h, s, g, t), t # <<>>
  PROVE  Both(l, L!splice(l, h, g), h, s, g, t, t \o s, <<>>)
<1>1. /\ l \in LinkRecord /\ h \in Anchor /\ g \in Anchor /\ h # g /\ s \in Seq(Item) /\ t \in Seq(Item)
      /\ Ring(l, h, s) /\ Ring(l, g, t) /\ Differ(s) /\ Differ(t) /\ Nodes(h, s) \cap Nodes(g, t) = {}
  BY DEF Rings, OneRing
<1>2. PICK n, k, m, w, T : /\ n = Len(s) /\ k = Len(t) /\ m = L!splice(l, h, g) /\ w = t \o s
                           /\ T = Nodes(h, s) \cup Nodes(g, t)
  BY Zenon
<1>3. n \in Nat /\ k \in Nat /\ k >= 1
  BY <1>1, <1>2
<1>4. PICK a, b, d : a = Spot(g, t, k) /\ b = Spot(h, s, 1) /\ d = Spot(g, t, 1)
  BY Zenon
<1>5. l.next[h] = b /\ l.next[g] = d /\ l.prev[g] = a
  BY <1>1, <1>2, <1>4, HeadLinks
<1>6. m = Joins(l, a, b, h, d, g, g)
  <2>1. ~L!empty(l, g)
    BY <1>1, EmptyIs
  <2>2. QED
    BY <1>2, <1>5, <2>1 DEF L!splice, L!create, Joins
<1>7. /\ Nodes(h, s) \subseteq L!Node /\ Nodes(g, t) \subseteq L!Node
      /\ \A i \in Int : Spot(h, s, i) \in Nodes(h, s) /\ Spot(g, t, i) \in Nodes(g, t)
      /\ \A i \in 0 .. n, j \in 0 .. n : Spot(h, s, i) = Spot(h, s, j) => i = j
      /\ \A i \in 0 .. n, j \in 0 .. n : Spot(h, s, i + 1) = Spot(h, s, j + 1) => i = j
      /\ \A i \in 0 .. k, j \in 0 .. k : Spot(g, t, i) = Spot(g, t, j) => i = j
      /\ \A i \in 0 .. k, j \in 0 .. k : Spot(g, t, i + 1) = Spot(g, t, j + 1) => i = j
  BY <1>2, RingFacts
<1>8. Spot(h, s, 0) = h /\ Spot(g, t, 0) = g
  BY DEF Spot
<1>9. a \in Nodes(g, t) /\ d \in Nodes(g, t) /\ g \in Nodes(g, t) /\ b \in Nodes(h, s) /\ h \in Nodes(h, s)
  BY <1>3, <1>4, <1>7 DEF Nodes
<1>10. a # g /\ d # g
  BY <1>3, <1>4, <1>7, <1>8
<1>11. a \in T /\ b \in T /\ h \in T /\ d \in T /\ g \in T /\ T \subseteq L!Node
  BY <1>2, <1>7, <1>9
<1>12. /\ m \in LinkRecord /\ Alike(l, m, T) /\ Edge(m, g, g)
       /\ (a # h /\ b # d /\ a # g /\ b # g => Edge(m, a, b)) /\ (h # g /\ d # g => Edge(m, h, d))
       /\ \A x, y \in L!Node : Edge(l, x, y) /\ x \notin {a, h, g} /\ y \notin {b, d, g} => Edge(m, x, y)
  <2>1. AllJoined(l, m, T, a, b, h, d, g, g)
    BY <1>1, <1>6, <1>11, ThreeJoins
  <2>2. QED
    BY <2>1 DEF AllJoined
<1>13. Edge(m, a, b) /\ Edge(m, h, d)
  BY <1>1, <1>9, <1>10, <1>12
<1>14. ASSUME NEW i \in 0 .. k - 1 PROVE Edge(m, Spot(h, t, i), Spot(h, t, i + 1))
  <2>1. CASE i = 0
    <3>1. Spot(h, t, i) = h /\ Spot(h, t, i + 1) = d
      BY <1>2, <1>3, <1>4, <2>1 DEF Spot
    <3>2. QED
      BY <1>13, <3>1
  <2>2. CASE i # 0
    <3>1. i \in 0 .. k /\ i \in Int /\ i + 1 \in Int /\ i # k /\ 0 \in 0 .. k /\ k \in 0 .. k
      BY <1>3
    <3>2. Spot(g, t, i) \notin {a, h, g}
      BY <1>1, <1>4, <1>7, <1>8, <1>9, <2>2, <3>1
    <3>3. Spot(g, t, i + 1) # d /\ Spot(g, t, i + 1) # g
      <4>1. Spot(g, t, k + 1) = g
        BY <1>2, <1>3 DEF Spot
      <4>2. d = Spot(g, t, 0 + 1)
        BY <1>4
      <4>3. QED
        BY <1>7, <2>2, <3>1, <4>1, <4>2
    <3>4. Spot(g, t, i + 1) \notin {b, d, g}
      BY <1>1, <1>7, <1>9, <3>1, <3>3
    <3>5. Edge(m, Spot(g, t, i), Spot(g, t, i + 1))
      BY <1>1, <1>2, <1>12, <3>1, <3>2, <3>4, InnerKept
    <3>6. Spot(h, t, i) = Spot(g, t, i) /\ Spot(h, t, i + 1) = Spot(g, t, i + 1)
      BY <1>2, <1>3, <2>2 DEF Spot
    <3>7. QED
      BY <3>5, <3>6
  <2>3. QED
    BY <2>1, <2>2
<1>15. Edge(m, Spot(h, t, k), Spot(h, s, 1))
  <2>1. Spot(h, t, k) = a
    BY <1>2, <1>3, <1>4 DEF Spot
  <2>2. QED
    BY <1>4, <1>13, <2>1
<1>16. ASSUME NEW i \in 1 .. n PROVE Edge(m, Spot(h, s, i), Spot(h, s, i + 1))
  <2>1. i \in 0 .. n /\ i # 0 /\ 0 \in 0 .. n /\ i \in Int /\ i + 1 \in Int
    BY <1>3
  <2>2. Spot(h, s, i) \notin {a, h, g}
    BY <1>1, <1>7, <1>8, <1>9, <2>1
  <2>3. Spot(h, s, i + 1) # b
    <3>1. b = Spot(h, s, 0 + 1)
      BY <1>4
    <3>2. QED
      BY <1>7, <2>1, <3>1
  <2>4. Spot(h, s, i + 1) \notin {b, d, g}
    BY <1>1, <1>7, <1>9, <2>1, <2>3
  <2>5. QED
    BY <1>1, <1>2, <1>12, <2>1, <2>2, <2>4, InnerKept
<1>17. Ring(m, h, w)
  <2>1. Items(t) \cap Items(s) = {}
    BY RingFacts
  <2>2. /\ Len(w) = Len(t) + Len(s)
        /\ \A i \in 1 .. Len(t) + Len(s) : w[i] = IF i <= Len(t) THEN t[i] ELSE s[i - Len(t)]
    BY <1>1, <1>2, <2>1, JoinedItems
  <2>3. QED
    BY <1>1, <1>2, <1>14, <1>15, <1>16, <2>2, RingConcat
<1>18. Ring(m, g, <<>>)
  BY <1>12 DEF Ring, Spot
<1>19. QED
  BY <1>2, <1>12, <1>17, <1>18 DEF Both

LEMMA SpliceTailRings ==
  ASSUME NEW l, NEW h, NEW s, NEW g, NEW t, Rings(l, h, s, g, t), t # <<>>
  PROVE  Both(l, L!splice_tail(l, h, g), h, s, g, t, s \o t, <<>>)
<1>1. /\ l \in LinkRecord /\ h \in Anchor /\ g \in Anchor /\ h # g /\ s \in Seq(Item) /\ t \in Seq(Item)
      /\ Ring(l, h, s) /\ Ring(l, g, t) /\ Differ(s) /\ Differ(t) /\ Nodes(h, s) \cap Nodes(g, t) = {}
  BY DEF Rings, OneRing
<1>2. PICK n, k, m, w, T : /\ n = Len(s) /\ k = Len(t) /\ m = L!splice_tail(l, h, g) /\ w = s \o t
                           /\ T = Nodes(h, s) \cup Nodes(g, t)
  BY Zenon
<1>3. n \in Nat /\ k \in Nat /\ k >= 1
  BY <1>1, <1>2
<1>4. PICK a, b, d : a = Spot(g, t, k) /\ b = Spot(h, s, n) /\ d = Spot(g, t, 1)
  BY Zenon
<1>5. l.prev[h] = b /\ l.next[g] = d /\ l.prev[g] = a
  BY <1>1, <1>2, <1>4, HeadLinks
<1>6. m = Joins(l, b, d, a, h, g, g)
  <2>1. ~L!empty(l, g)
    BY <1>1, EmptyIs
  <2>2. QED
    BY <1>2, <1>5, <2>1 DEF L!splice_tail, L!create, Joins
<1>7. /\ Nodes(h, s) \subseteq L!Node /\ Nodes(g, t) \subseteq L!Node
      /\ \A i \in Int : Spot(h, s, i) \in Nodes(h, s) /\ Spot(g, t, i) \in Nodes(g, t)
      /\ \A i \in 0 .. n, j \in 0 .. n : Spot(h, s, i) = Spot(h, s, j) => i = j
      /\ \A i \in 0 .. n, j \in 0 .. n : Spot(h, s, i + 1) = Spot(h, s, j + 1) => i = j
      /\ \A i \in 0 .. k, j \in 0 .. k : Spot(g, t, i) = Spot(g, t, j) => i = j
      /\ \A i \in 0 .. k, j \in 0 .. k : Spot(g, t, i + 1) = Spot(g, t, j + 1) => i = j
  BY <1>2, RingFacts
<1>8. Spot(h, s, 0) = h /\ Spot(g, t, 0) = g /\ Spot(g, t, k + 1) = g /\ Spot(h, s, n + 1) = h
  BY <1>2, <1>3 DEF Spot
<1>9. a \in Nodes(g, t) /\ d \in Nodes(g, t) /\ g \in Nodes(g, t) /\ b \in Nodes(h, s) /\ h \in Nodes(h, s)
  BY <1>3, <1>4, <1>7 DEF Nodes
<1>10. a # g /\ d # g
  BY <1>3, <1>4, <1>7, <1>8
<1>11. a \in T /\ b \in T /\ h \in T /\ d \in T /\ g \in T /\ T \subseteq L!Node
  BY <1>2, <1>7, <1>9
<1>12. /\ m \in LinkRecord /\ Alike(l, m, T) /\ Edge(m, g, g)
       /\ (b # a /\ d # h /\ b # g /\ d # g => Edge(m, b, d)) /\ (a # g /\ h # g => Edge(m, a, h))
       /\ \A x, y \in L!Node : Edge(l, x, y) /\ x \notin {b, a, g} /\ y \notin {d, h, g} => Edge(m, x, y)
  <2>1. AllJoined(l, m, T, b, d, a, h, g, g)
    BY <1>1, <1>6, <1>11, ThreeJoins
  <2>2. QED
    BY <2>1 DEF AllJoined
<1>13. Edge(m, b, d) /\ Edge(m, a, h)
  BY <1>1, <1>9, <1>10, <1>12
<1>14. ASSUME NEW i \in 0 .. n - 1 PROVE Edge(m, Spot(h, s, i), Spot(h, s, i + 1))
  <2>1. i \in 0 .. n /\ i # n /\ n \in 0 .. n /\ i \in Int /\ i + 1 \in Int
    BY <1>3
  <2>2. Spot(h, s, i) \notin {b, a, g}
    BY <1>1, <1>4, <1>7, <1>9, <2>1
  <2>3. Spot(h, s, i + 1) # h
    BY <1>7, <1>8, <2>1
  <2>4. Spot(h, s, i + 1) \notin {d, h, g}
    BY <1>1, <1>7, <1>9, <2>1, <2>3
  <2>5. QED
    BY <1>1, <1>2, <1>12, <2>1, <2>2, <2>4, InnerKept
<1>15. Edge(m, Spot(h, s, n), Spot(h, t, 1))
  <2>1. Spot(h, t, 1) = d
    BY <1>2, <1>3, <1>4 DEF Spot
  <2>2. QED
    BY <1>4, <1>13, <2>1
<1>16. ASSUME NEW i \in 1 .. k PROVE Edge(m, Spot(h, t, i), Spot(h, t, i + 1))
  <2>1. CASE i = k
    <3>1. Spot(h, t, i) = a /\ Spot(h, t, i + 1) = h
      BY <1>2, <1>3, <1>4, <2>1 DEF Spot
    <3>2. QED
      BY <1>13, <3>1
  <2>2. CASE i # k
    <3>1. i \in 0 .. k /\ i \in Int /\ i + 1 \in Int /\ i # 0 /\ 0 \in 0 .. k /\ k \in 0 .. k
      BY <1>3
    <3>2. Spot(g, t, i) \notin {b, a, g}
      BY <1>1, <1>4, <1>7, <1>8, <1>9, <2>2, <3>1
    <3>3. Spot(g, t, i + 1) # d /\ Spot(g, t, i + 1) # g
      <4>1. d = Spot(g, t, 0 + 1)
        BY <1>4
      <4>2. QED
        BY <1>7, <1>8, <2>2, <3>1, <4>1
    <3>4. Spot(g, t, i + 1) \notin {d, h, g}
      BY <1>1, <1>7, <1>9, <3>1, <3>3
    <3>5. Edge(m, Spot(g, t, i), Spot(g, t, i + 1))
      BY <1>1, <1>2, <1>12, <3>1, <3>2, <3>4, InnerKept
    <3>6. Spot(h, t, i) = Spot(g, t, i) /\ Spot(h, t, i + 1) = Spot(g, t, i + 1)
      BY <1>2, <1>3, <2>2 DEF Spot
    <3>7. QED
      BY <3>5, <3>6
  <2>3. QED
    BY <2>1, <2>2
<1>17. Ring(m, h, w)
  <2>1. Items(s) \cap Items(t) = {}
    BY RingFacts
  <2>2. /\ Len(w) = Len(s) + Len(t)
        /\ \A i \in 1 .. Len(s) + Len(t) : w[i] = IF i <= Len(s) THEN s[i] ELSE t[i - Len(s)]
    BY <1>1, <1>2, <2>1, JoinedItems
  <2>3. QED
    BY <1>1, <1>2, <1>14, <1>15, <1>16, <2>2, RingConcat
<1>18. Ring(m, g, <<>>)
  BY <1>12 DEF Ring, Spot
<1>19. QED
  BY <1>2, <1>12, <1>17, <1>18 DEF Both

\* The first n items of t go to h, whose own items are dropped.
LEMMA CutRings ==
  ASSUME NEW l, NEW h, NEW s, NEW g, NEW t, Rings(l, h, s, g, t), NEW n \in 0 .. Len(t)
  PROVE  Both(l, L!cut_before(l, h, g, Spot(g, t, n + 1)), h, s, g, t,
              SubSeq(t, 1, n), SubSeq(t, n + 1, Len(t)))
<1>1. /\ l \in LinkRecord /\ h \in Anchor /\ g \in Anchor /\ h # g /\ s \in Seq(Item) /\ t \in Seq(Item)
      /\ Ring(l, h, s) /\ Ring(l, g, t) /\ Differ(s) /\ Differ(t) /\ Nodes(h, s) \cap Nodes(g, t) = {}
  BY DEF Rings, OneRing
<1>2. PICK k, x, m, u, v, T : /\ k = Len(t) /\ x = Spot(g, t, n + 1) /\ m = L!cut_before(l, h, g, x)
                              /\ u = SubSeq(t, 1, n) /\ v = SubSeq(t, n + 1, k)
                              /\ T = Nodes(h, s) \cup Nodes(g, t)
  BY Zenon
<1>3. n \in Nat /\ k \in Nat /\ n <= k /\ n \in 0 .. k /\ n \in Int
  BY <1>1, <1>2
<1>4. PICK d, z : d = Spot(g, t, 1) /\ z = IF n = 0 THEN h ELSE Spot(g, t, n)
  BY Zenon
<1>5. /\ Nodes(h, s) \subseteq L!Node /\ Nodes(g, t) \subseteq L!Node
      /\ \A i \in Int : Spot(h, s, i) \in Nodes(h, s) /\ Spot(g, t, i) \in Nodes(g, t)
      /\ \A i \in 0 .. k, j \in 0 .. k : Spot(g, t, i) = Spot(g, t, j) => i = j
      /\ \A i \in 0 .. k, j \in 0 .. k : Spot(g, t, i + 1) = Spot(g, t, j + 1) => i = j
  BY <1>2, RingFacts
<1>6. Spot(g, t, 0) = g /\ Spot(g, t, k + 1) = g
  BY <1>2, <1>3 DEF Spot
<1>7. d \in Nodes(g, t) /\ x \in Nodes(g, t) /\ g \in Nodes(g, t) /\ h \in Nodes(h, s) /\ z \in T
  <2>1. d \in Nodes(g, t) /\ x \in Nodes(g, t) /\ g \in Nodes(g, t) /\ h \in Nodes(h, s)
    BY <1>2, <1>3, <1>4, <1>5 DEF Nodes
  <2>2. Spot(g, t, n) \in Nodes(g, t)
    BY <1>3, <1>5
  <2>3. QED
    BY <1>2, <1>4, <2>1, <2>2
<1>8. x \in T /\ h \in T /\ d \in T /\ g \in T /\ z \in T /\ T \subseteq L!Node
  BY <1>2, <1>5, <1>7
<1>9. l.next[g] = d /\ l.next[h] # x
  <2>1. l.next[g] = d /\ l.next[h] = Spot(h, s, 1)
    BY <1>1, <1>4, HeadLinks
  <2>2. QED
    BY <1>1, <1>5, <1>7, <2>1
<1>10. d = x <=> n = 0
  <2>1. 0 \in 0 .. k /\ d = Spot(g, t, 0 + 1)
    BY <1>3, <1>4
  <2>2. QED
    BY <1>2, <1>3, <1>5, <2>1
<1>11. m = Joins(l, h, d, z, h, g, x)
  <2>1. PICK j : j = L!Join(l, h, d)
    OBVIOUS
  <2>2. Joined(l, j, h, d)
    BY <1>1, <1>8, <2>1, JoinIs
  <2>3. j.prev[x] = z
    <3>1. CASE n = 0
      BY <1>4, <1>10, <2>2, <3>1 DEF Joined
    <3>2. CASE n # 0
      <4>1. Edge(l, Spot(g, t, n), Spot(g, t, n + 1))
        BY <1>1, <1>2, <1>3 DEF Ring
      <4>2. l.prev[x] = z
        BY <1>2, <1>4, <3>2, <4>1 DEF Edge
      <4>3. QED
        BY <1>8, <1>10, <2>2, <3>2, <4>2 DEF Joined
    <3>3. QED
      BY <3>1, <3>2
  <2>4. m = L!Join(L!Join(j, j.prev[x], h), g, x)
    BY <1>2, <1>9, <2>1 DEF L!cut_before
  <2>5. QED
    BY <2>1, <2>3, <2>4 DEF Joins
<1>12. /\ m \in LinkRecord /\ Alike(l, m, T) /\ Edge(m, g, x)
       /\ (h # z /\ d # h /\ h # g /\ d # x => Edge(m, h, d)) /\ (z # g /\ h # x => Edge(m, z, h))
       /\ \A p, q \in L!Node : Edge(l, p, q) /\ p \notin {h, z, g} /\ q \notin {d, h, x} => Edge(m, p, q)
  <2>1. AllJoined(l, m, T, h, d, z, h, g, x)
    BY <1>1, <1>8, <1>11, ThreeJoins
  <2>2. QED
    BY <2>1 DEF AllJoined
<1>13. Edge(m, z, h)
  <2>1. z # g
    <3>1. CASE n = 0
      BY <1>1, <1>4, <3>1
    <3>2. CASE n # 0
      <4>1. 0 \in 0 .. k
        BY <1>3
      <4>2. QED
        BY <1>3, <1>4, <1>5, <1>6, <3>2, <4>1
    <3>3. QED
      BY <3>1, <3>2
  <2>2. QED
    BY <1>1, <1>7, <1>12, <2>1
<1>14. n # 0 => Edge(m, h, d)
  BY <1>1, <1>3, <1>4, <1>5, <1>7, <1>10, <1>12
<1>15. /\ u \in Seq(Item) /\ Len(u) = n /\ (\A i \in 1 .. n : u[i] = t[i])
       /\ v \in Seq(Item) /\ Len(v) = k - n /\ (\A i \in 1 .. k - n : v[i] = t[n + i])
  <2>1. n \in 0 .. Len(t) /\ v = SubSeq(t, n + 1, Len(t))
    BY <1>2
  <2>2. QED
    <3>1. Parts(t, n, u, v)
      BY <1>1, <1>2, <2>1, CutItems
    <3>2. QED
      BY <1>2, <3>1 DEF Parts
<1>16. Ring(m, h, u)
  <2>1. SUFFICES ASSUME NEW i \in 0 .. n PROVE Edge(m, Spot(h, u, i), Spot(h, u, i + 1))
    BY <1>15 DEF Ring
  <2>2. CASE i = 0 /\ n = 0
    <3>1. Spot(h, u, i) = h /\ Spot(h, u, i + 1) = h
      BY <1>15, <2>2 DEF Spot
    <3>2. QED
      BY <1>4, <1>13, <2>2, <3>1
  <2>3. CASE i = 0 /\ n # 0
    <3>1. Spot(h, u, i) = h /\ Spot(h, u, i + 1) = d
      BY <1>2, <1>3, <1>4, <1>15, <2>3 DEF Spot
    <3>2. QED
      BY <1>14, <2>3, <3>1
  <2>4. CASE i # 0 /\ i = n
    <3>1. Spot(h, u, i) = z /\ Spot(h, u, i + 1) = h
      BY <1>2, <1>3, <1>4, <1>15, <2>4 DEF Spot
    <3>2. QED
      BY <1>13, <3>1
  <2>5. CASE i # 0 /\ i # n
    <3>1. i \in 0 .. k /\ i \in Int /\ i + 1 \in Int /\ 0 \in 0 .. k /\ n \in 0 .. k /\ i \in 0 .. Len(t)
      BY <1>2, <1>3
    <3>2. Spot(g, t, i) \notin {h, z, g}
      BY <1>1, <1>4, <1>5, <1>6, <1>7, <2>5, <3>1
    <3>3. Spot(g, t, i + 1) # d /\ Spot(g, t, i + 1) # x
      <4>1. d = Spot(g, t, 0 + 1)
        BY <1>4
      <4>2. QED
        BY <1>2, <1>5, <2>5, <3>1, <4>1
    <3>4. Spot(g, t, i + 1) \notin {d, h, x}
      BY <1>1, <1>5, <1>7, <3>1, <3>3
    <3>5. Edge(m, Spot(g, t, i), Spot(g, t, i + 1))
      BY <1>1, <1>12, <3>1, <3>2, <3>4, InnerKept
    <3>6. Spot(h, u, i) = Spot(g, t, i) /\ Spot(h, u, i + 1) = Spot(g, t, i + 1)
      <4>1. i \in 1 .. n /\ i + 1 \in 1 .. n /\ i \in 1 .. k /\ i + 1 \in 1 .. k
        BY <1>3, <2>5
      <4>2. QED
        BY <1>2, <1>15, <4>1 DEF Spot
    <3>7. QED
      BY <3>5, <3>6
  <2>6. QED
    BY <2>2, <2>3, <2>4, <2>5
<1>17. \A i \in 1 .. k - n + 1 : Spot(g, v, i) = Spot(g, t, n + i)
  <2>1. SUFFICES ASSUME NEW i \in 1 .. k - n + 1 PROVE Spot(g, v, i) = Spot(g, t, n + i)
    OBVIOUS
  <2>2. CASE i <= k - n
    <3>1. i \in 1 .. k - n /\ n + i \in 1 .. k
      BY <1>3, <2>2
    <3>2. QED
      BY <1>2, <1>15, <3>1 DEF Spot
  <2>3. CASE i = k - n + 1
    <3>1. i \notin 1 .. k - n /\ n + i \notin 1 .. k
      BY <1>3, <2>3
    <3>2. QED
      BY <1>2, <1>15, <3>1 DEF Spot
  <2>4. QED
    BY <1>3, <2>2, <2>3
<1>18. Ring(m, g, v)
  <2>1. SUFFICES ASSUME NEW i \in 0 .. k - n PROVE Edge(m, Spot(g, v, i), Spot(g, v, i + 1))
    BY <1>15 DEF Ring
  <2>2. CASE i = 0
    <3>1. 1 \in 1 .. k - n + 1 /\ i + 1 = 1
      BY <1>3, <2>2
    <3>2. Spot(g, v, i) = g /\ Spot(g, v, i + 1) = x
      BY <1>2, <1>17, <2>2, <3>1 DEF Spot
    <3>3. QED
      BY <1>12, <3>2
  <2>3. CASE i # 0
    <3>1. PICK j : j = n + i
      OBVIOUS
    <3>2. /\ j \in 0 .. k /\ j \in Int /\ j + 1 \in Int /\ 0 \in 0 .. k /\ n \in 0 .. k /\ j \in 0 .. Len(t)
          /\ j # 0 /\ j # n /\ j + 1 = n + (i + 1)
      BY <1>2, <1>3, <2>3, <3>1
    <3>3. Spot(g, t, j) \notin {h, z, g}
      BY <1>1, <1>4, <1>5, <1>6, <1>7, <3>2
    <3>4. Spot(g, t, j + 1) # d /\ Spot(g, t, j + 1) # x
      <4>1. d = Spot(g, t, 0 + 1)
        BY <1>4
      <4>2. QED
        BY <1>2, <1>5, <3>2, <4>1
    <3>5. Spot(g, t, j + 1) \notin {d, h, x}
      BY <1>1, <1>5, <1>7, <3>2, <3>4
    <3>6. Edge(m, Spot(g, t, j), Spot(g, t, j + 1))
      BY <1>1, <1>12, <3>2, <3>3, <3>5, InnerKept
    <3>7. Spot(g, v, i) = Spot(g, t, j) /\ Spot(g, v, i + 1) = Spot(g, t, j + 1)
      <4>1. i \in 1 .. k - n + 1 /\ i + 1 \in 1 .. k - n + 1
        BY <1>3, <2>3
      <4>2. QED
        BY <1>17, <3>1, <3>2, <4>1
    <3>8. QED
      BY <3>6, <3>7
  <2>4. QED
    BY <2>2, <2>3
<1>19. QED
  BY <1>2, <1>12, <1>16, <1>18 DEF Both

\* One pointer set.
NextIs(l, m, x, y) == m \in LinkRecord /\ m.next = [l.next EXCEPT ![x] = y] /\ m.prev = l.prev
PrevIs(l, m, x, y) == m \in LinkRecord /\ m.prev = [l.prev EXCEPT ![x] = y] /\ m.next = l.next

LEMMA PairIs ==
  ASSUME NEW u \in [L!Node -> L!Node], NEW v \in [L!Node -> L!Node], NEW m, m = [next |-> u, prev |-> v]
  PROVE  m \in LinkRecord /\ m.next = u /\ m.prev = v
  BY DEF LinkRecord

LEMMA NextSet ==
  ASSUME NEW l \in LinkRecord, NEW x \in L!Node, NEW y \in L!Node, NEW m, m = [l EXCEPT !.next[x] = y]
  PROVE  NextIs(l, m, x, y)
<1>1. PICK f, p : f = l.next /\ p = l.prev
  BY Zenon
<1>2. f \in [L!Node -> L!Node] /\ p \in [L!Node -> L!Node] /\ l = [next |-> f, prev |-> p]
  BY <1>1 DEF LinkRecord
<1>3. PICK u : u = [f EXCEPT ![x] = y]
  OBVIOUS
<1>4. m = [next |-> u, prev |-> p] /\ u \in [L!Node -> L!Node]
  BY <1>2, <1>3
<1>5. QED
  BY <1>1, <1>2, <1>3, <1>4, PairIs DEF NextIs

LEMMA PrevSet ==
  ASSUME NEW l \in LinkRecord, NEW x \in L!Node, NEW y \in L!Node, NEW m, m = [l EXCEPT !.prev[x] = y]
  PROVE  PrevIs(l, m, x, y)
<1>1. PICK f, p : f = l.next /\ p = l.prev
  BY Zenon
<1>2. f \in [L!Node -> L!Node] /\ p \in [L!Node -> L!Node] /\ l = [next |-> f, prev |-> p]
  BY <1>1 DEF LinkRecord
<1>3. PICK u : u = [p EXCEPT ![x] = y]
  OBVIOUS
<1>4. m = [next |-> f, prev |-> u] /\ u \in [L!Node -> L!Node]
  BY <1>2, <1>3
<1>5. QED
  BY <1>1, <1>2, <1>3, <1>4, PairIs DEF PrevIs

\* A head that took the pointers of the head of s becomes the head of s.
Taken(l, a, b, s) ==
  /\ l \in LinkRecord /\ a \in Anchor /\ b \in Anchor /\ a # b /\ s \in Seq(Item) /\ Differ(s)
  /\ \A i \in 1 .. Len(s) - 1 : Edge(l, s[i], s[i + 1])
  /\ l.next[a] = Spot(b, s, 1) /\ l.prev[a] = Spot(b, s, Len(s))

LEMMA RelinkRing ==
  ASSUME NEW l, NEW a, NEW b, NEW s, Taken(l, a, b, s)
  PROVE  /\ L!Relink(l, a, b) \in LinkRecord /\ Alike(l, L!Relink(l, a, b), Nodes(a, s))
         /\ Ring(L!Relink(l, a, b), a, s)
<1>1. /\ l \in LinkRecord /\ a \in Anchor /\ b \in Anchor /\ a # b /\ s \in Seq(Item) /\ Differ(s)
      /\ \A i \in 1 .. Len(s) - 1 : Edge(l, s[i], s[i + 1])
      /\ l.next[a] = Spot(b, s, 1) /\ l.prev[a] = Spot(b, s, Len(s))
  BY DEF Taken
<1>2. a \in L!Node /\ b \in L!Node /\ \A i \in 1 .. Len(s) : s[i] \in L!Node /\ s[i] \in Item
  BY <1>1 DEF L!Node
<1>3. PICK own, back, m : /\ own = IF l.next[a] = b THEN [l EXCEPT !.next[a] = a] ELSE l
                          /\ back = [own EXCEPT !.prev[own.next[a]] = a]
                          /\ m = [back EXCEPT !.next[back.prev[a]] = a]
  BY Zenon
<1>4. m = L!Relink(l, a, b)
  BY <1>3 DEF L!Relink
<1>5. l.next \in [L!Node -> L!Node] /\ l.prev \in [L!Node -> L!Node]
  BY <1>1 DEF LinkRecord
<1>6. CASE s = <<>>
  <2>1. l.next[a] = b
    BY <1>1, <1>6 DEF Spot
  <2>2. own = [l EXCEPT !.next[a] = a]
    BY <1>3, <2>1
  <2>3. own \in LinkRecord /\ own.next = [l.next EXCEPT ![a] = a] /\ own.prev = l.prev
    <3>1. NextIs(l, own, a, a)
      BY <1>1, <1>2, <2>2, NextSet
    <3>2. QED
      BY <3>1 DEF NextIs
  <2>4. own.next[a] = a
    BY <1>2, <1>5, <2>3
  <2>5. back = [own EXCEPT !.prev[a] = a]
    BY <1>3, <2>4
  <2>6. back \in LinkRecord /\ back.prev = [own.prev EXCEPT ![a] = a] /\ back.next = own.next
    <3>1. PrevIs(own, back, a, a)
      BY <1>2, <2>3, <2>5, PrevSet
    <3>2. QED
      BY <3>1 DEF PrevIs
  <2>7. back.prev[a] = a
    BY <1>2, <1>5, <2>3, <2>6
  <2>8. m = [back EXCEPT !.next[a] = a]
    BY <1>3, <2>7
  <2>9. m \in LinkRecord /\ m.next = [back.next EXCEPT ![a] = a] /\ m.prev = back.prev
    <3>1. NextIs(back, m, a, a)
      BY <1>2, <2>6, <2>8, NextSet
    <3>2. QED
      BY <3>1 DEF NextIs
  <2>10. m.next[a] = a /\ m.prev[a] = a
    BY <1>2, <1>5, <2>3, <2>6, <2>7, <2>9
  <2>11. \A x \in L!Node : x # a => m.next[x] = l.next[x] /\ m.prev[x] = l.prev[x]
    BY <1>5, <2>3, <2>6, <2>9
  <2>12. Alike(l, m, Nodes(a, s))
    BY <2>11 DEF Alike, Nodes
  <2>13. Ring(m, a, s)
    BY <1>6, <2>10 DEF Ring, Spot, Edge
  <2>14. QED
    BY <1>4, <2>9, <2>12, <2>13
<1>7. CASE s # <<>>
  <2>0. PICK n : n = Len(s)
    OBVIOUS
  <2>1. n \in Nat /\ n >= 1 /\ 1 \in 1 .. n /\ n \in 1 .. n
    BY <1>1, <1>7, <2>0
  <2>2. PICK x, y : x = s[1] /\ y = s[n]
    BY Zenon
  <2>3. x \in L!Node /\ y \in L!Node /\ x # a /\ y # a /\ x # b
    BY <1>1, <1>2, <2>0, <2>1, <2>2, ListsAssumption
  <2>4. l.next[a] = x /\ l.prev[a] = y
    BY <1>1, <2>0, <2>1, <2>2 DEF Spot
  <2>5. own = l
    BY <1>3, <2>3, <2>4
  <2>6. back = [l EXCEPT !.prev[x] = a]
    BY <1>3, <2>4, <2>5
  <2>7. back \in LinkRecord /\ back.prev = [l.prev EXCEPT ![x] = a] /\ back.next = l.next
    <3>1. PrevIs(l, back, x, a)
      BY <1>1, <1>2, <2>3, <2>6, PrevSet
    <3>2. QED
      BY <3>1 DEF PrevIs
  <2>8. back.prev[a] = y
    BY <1>2, <1>5, <2>3, <2>4, <2>7
  <2>9. m = [back EXCEPT !.next[y] = a]
    BY <1>3, <2>8
  <2>10. m \in LinkRecord /\ m.next = [l.next EXCEPT ![y] = a] /\ m.prev = [l.prev EXCEPT ![x] = a]
    <3>1. NextIs(back, m, y, a)
      BY <1>2, <2>3, <2>7, <2>9, NextSet
    <3>2. QED
      BY <2>7, <3>1 DEF NextIs
  <2>11. m.next[y] = a /\ m.prev[x] = a
    BY <1>5, <2>3, <2>10
  <2>12. \A z \in L!Node : (z # y => m.next[z] = l.next[z]) /\ (z # x => m.prev[z] = l.prev[z])
    BY <1>5, <2>10
  <2>13. Alike(l, m, Nodes(a, s))
    <3>1. x \in Nodes(a, s) /\ y \in Nodes(a, s)
      BY <2>0, <2>1, <2>2 DEF Nodes
    <3>2. QED
      BY <2>12, <3>1 DEF Alike
  <2>14. ASSUME NEW i \in 0 .. n PROVE Edge(m, Spot(a, s, i), Spot(a, s, i + 1))
    <3>1. CASE i = 0
      <4>1. Spot(a, s, i) = a /\ Spot(a, s, i + 1) = x
        BY <2>0, <2>1, <2>2, <3>1 DEF Spot
      <4>2. m.next[a] = x
        BY <1>2, <2>3, <2>4, <2>12
      <4>3. QED
        BY <2>11, <4>1, <4>2 DEF Edge
    <3>2. CASE i = n
      <4>1. Spot(a, s, i) = y /\ Spot(a, s, i + 1) = a
        BY <2>0, <2>1, <2>2, <3>2 DEF Spot
      <4>2. m.prev[a] = y
        BY <1>2, <2>3, <2>4, <2>12
      <4>3. QED
        BY <2>11, <4>1, <4>2 DEF Edge
    <3>3. CASE i # 0 /\ i # n
      <4>1. PICK j : j = i + 1
        OBVIOUS
      <4>2. i \in 1 .. n - 1 /\ i \in 1 .. n /\ j \in 1 .. n /\ i # n /\ j # 1
        BY <2>1, <3>3, <4>1
      <4>3. Edge(l, s[i], s[j])
        BY <1>1, <2>0, <4>1, <4>2
      <4>4. s[i] # y /\ s[j] # x
        BY <1>1, <2>0, <2>1, <2>2, <4>2 DEF Differ
      <4>5. s[i] \in L!Node /\ s[j] \in L!Node
        BY <1>2, <2>0, <4>2
      <4>6. Edge(m, s[i], s[j])
        BY <2>12, <4>3, <4>4, <4>5 DEF Edge
      <4>7. Spot(a, s, i) = s[i] /\ Spot(a, s, i + 1) = s[j]
        BY <2>0, <4>1, <4>2 DEF Spot
      <4>8. QED
        BY <4>6, <4>7
    <3>4. QED
      BY <3>1, <3>2, <3>3
  <2>15. Ring(m, a, s)
    BY <2>0, <2>14 DEF Ring
  <2>16. QED
    BY <1>4, <2>10, <2>13, <2>15
<1>8. QED
  BY <1>6, <1>7

\* The pointers of two heads exchanged.
Exchanged(l, m, h, g) ==
  /\ m \in LinkRecord
  /\ m.next[h] = l.next[g] /\ m.prev[h] = l.prev[g] /\ m.next[g] = l.next[h] /\ m.prev[g] = l.prev[h]
  /\ \A x \in L!Node : x # h /\ x # g => m.next[x] = l.next[x] /\ m.prev[x] = l.prev[x]

LEMMA ExchangedIs ==
  ASSUME NEW l \in LinkRecord, NEW h \in L!Node, NEW g \in L!Node, h # g, NEW m,
         m = [l EXCEPT !.next[h] = l.next[g], !.prev[h] = l.prev[g],
                       !.next[g] = l.next[h], !.prev[g] = l.prev[h]]
  PROVE  Exchanged(l, m, h, g)
<1>1. PICK f, p : f = l.next /\ p = l.prev
  BY Zenon
<1>2. f \in [L!Node -> L!Node] /\ p \in [L!Node -> L!Node] /\ l = [next |-> f, prev |-> p]
  BY <1>1 DEF LinkRecord
<1>3. PICK a, b, c, d : a = f[g] /\ b = p[g] /\ c = f[h] /\ d = p[h]
  BY Zenon
<1>4. a \in L!Node /\ b \in L!Node /\ c \in L!Node /\ d \in L!Node
  BY <1>2, <1>3
<1>5. PICK u, v : u = [f EXCEPT ![h] = a, ![g] = c] /\ v = [p EXCEPT ![h] = b, ![g] = d]
  BY Zenon
<1>6. m = [[next |-> f, prev |-> p] EXCEPT !.next[h] = a, !.prev[h] = b, !.next[g] = c, !.prev[g] = d]
  BY <1>1, <1>2, <1>3
<1>7. m = [next |-> u, prev |-> v]
  BY <1>5, <1>6
<1>8. u \in [L!Node -> L!Node] /\ v \in [L!Node -> L!Node]
  BY <1>2, <1>4, <1>5
<1>9. m \in LinkRecord /\ m.next = u /\ m.prev = v
  <2>1. PICK k : k = [next |-> u, prev |-> v]
    OBVIOUS
  <2>2. k \in LinkRecord /\ k.next = u /\ k.prev = v
    BY <1>8, <2>1, PairIs
  <2>3. m = k
    BY <1>7, <2>1, Zenon
  <2>4. QED
    BY <2>2, <2>3, Zenon
<1>10. /\ u[h] = a /\ v[h] = b /\ u[g] = c /\ v[g] = d
       /\ \A x \in L!Node : x # h /\ x # g => u[x] = f[x] /\ v[x] = p[x]
  BY <1>2, <1>5
<1>11. QED
  BY <1>1, <1>3, <1>9, <1>10 DEF Exchanged

LEMMA SwapRings ==
  ASSUME NEW l, NEW h, NEW s, NEW g, NEW t, Rings(l, h, s, g, t)
  PROVE  Both(l, L!swap(l, h, g), h, s, g, t, t, s)
<1>1. /\ l \in LinkRecord /\ h \in Anchor /\ g \in Anchor /\ h # g /\ s \in Seq(Item) /\ t \in Seq(Item)
      /\ Ring(l, h, s) /\ Ring(l, g, t) /\ Differ(s) /\ Differ(t) /\ Nodes(h, s) \cap Nodes(g, t) = {}
  BY DEF Rings, OneRing
<1>2. PICK n, k, T, P, Q : /\ n = Len(s) /\ k = Len(t) /\ T = Nodes(h, s) \cup Nodes(g, t)
                           /\ P = Nodes(g, s) /\ Q = Nodes(h, t)
  BY Zenon
<1>3. PICK both, one, m : /\ both = [l EXCEPT !.next[h] = l.next[g], !.prev[h] = l.prev[g],
                                              !.next[g] = l.next[h], !.prev[g] = l.prev[h]]
                          /\ one = L!Relink(both, g, h) /\ m = L!Relink(one, h, g)
  BY Zenon
<1>4. m = L!swap(l, h, g)
  BY <1>3 DEF L!swap
<1>5. h \in L!Node /\ g \in L!Node /\ Nodes(h, s) \subseteq L!Node /\ Nodes(g, t) \subseteq L!Node
  BY <1>1 DEF L!Node, Nodes
<1>6. /\ both \in LinkRecord
      /\ both.next[h] = l.next[g] /\ both.prev[h] = l.prev[g]
      /\ both.next[g] = l.next[h] /\ both.prev[g] = l.prev[h]
      /\ \A x \in L!Node : x # h /\ x # g => both.next[x] = l.next[x] /\ both.prev[x] = l.prev[x]
  <2>1. Exchanged(l, both, h, g)
    BY <1>1, <1>3, <1>5, ExchangedIs
  <2>2. QED
    BY <2>1 DEF Exchanged
<1>7. /\ l.next[h] = Spot(h, s, 1) /\ l.prev[h] = Spot(h, s, n)
      /\ l.next[g] = Spot(g, t, 1) /\ l.prev[g] = Spot(g, t, k)
  BY <1>1, <1>2, HeadLinks
<1>8. P \subseteq T /\ Q \subseteq T /\ Q \cap P = {}
  <2>1. (\A i \in 1 .. n : s[i] \in Nodes(h, s)) /\ \A i \in 1 .. k : t[i] \in Nodes(g, t)
    BY <1>2 DEF Nodes
  <2>2. h \in Nodes(h, s) /\ g \in Nodes(g, t)
    BY DEF Nodes
  <2>3. P \subseteq T /\ Q \subseteq T
    BY <1>2, <2>1, <2>2 DEF Nodes
  <2>4. P = {g} \cup {s[i] : i \in 1 .. n} /\ Q = {h} \cup {t[i] : i \in 1 .. k}
    BY <1>2 DEF Nodes
  <2>5. \A i \in 1 .. n : s[i] # h
    BY <1>1, <1>2, ListsAssumption
  <2>6. \A i \in 1 .. k : t[i] # g
    BY <1>1, <1>2, ListsAssumption
  <2>7. \A i \in 1 .. n, j \in 1 .. k : s[i] # t[j]
    BY <1>1, <2>1
  <2>8. QED
    BY <1>1, <2>3, <2>4, <2>5, <2>6, <2>7
<1>9. \A i \in 1 .. n - 1 : Edge(both, s[i], s[i + 1])
  <2>1. SUFFICES ASSUME NEW i \in 1 .. n - 1 PROVE Edge(both, s[i], s[i + 1])
    OBVIOUS
  <2>2. i \in 0 .. n /\ i \in 1 .. n /\ i + 1 \in 1 .. n /\ n \in Nat
    BY <1>1, <1>2
  <2>3. Edge(l, Spot(h, s, i), Spot(h, s, i + 1))
    BY <1>1, <1>2, <2>2 DEF Ring
  <2>4. Spot(h, s, i) = s[i] /\ Spot(h, s, i + 1) = s[i + 1]
    BY <1>2, <2>2 DEF Spot
  <2>5. s[i] \in Item /\ s[i + 1] \in Item
    BY <1>1, <1>2, <2>2
  <2>6. s[i] \in L!Node /\ s[i + 1] \in L!Node /\ s[i] \notin {h, g} /\ s[i + 1] \notin {h, g}
    BY <1>1, <2>5, ListsAssumption DEF L!Node
  <2>7. QED
    BY <1>6, <2>3, <2>4, <2>6 DEF Edge
<1>10. \A i \in 1 .. k - 1 : Edge(both, t[i], t[i + 1])
  <2>1. SUFFICES ASSUME NEW i \in 1 .. k - 1 PROVE Edge(both, t[i], t[i + 1])
    OBVIOUS
  <2>2. i \in 0 .. k /\ i \in 1 .. k /\ i + 1 \in 1 .. k /\ k \in Nat
    BY <1>1, <1>2
  <2>3. Edge(l, Spot(g, t, i), Spot(g, t, i + 1))
    BY <1>1, <1>2, <2>2 DEF Ring
  <2>4. Spot(g, t, i) = t[i] /\ Spot(g, t, i + 1) = t[i + 1]
    BY <1>2, <2>2 DEF Spot
  <2>5. t[i] \in Item /\ t[i + 1] \in Item
    BY <1>1, <1>2, <2>2
  <2>6. t[i] \in L!Node /\ t[i + 1] \in L!Node /\ t[i] \notin {h, g} /\ t[i + 1] \notin {h, g}
    BY <1>1, <2>5, ListsAssumption DEF L!Node
  <2>7. QED
    BY <1>6, <2>3, <2>4, <2>6 DEF Edge
<1>11. Taken(both, g, h, s)
  BY <1>1, <1>2, <1>6, <1>7, <1>9 DEF Taken
<1>12. one \in LinkRecord /\ Alike(both, one, P) /\ Ring(one, g, s)
  BY <1>2, <1>3, <1>11, RelinkRing
<1>13. Taken(one, h, g, t)
  <2>1. h \in L!Node \ P
    BY <1>2, <1>5, <1>8 DEF Nodes
  <2>2. one.next[h] = Spot(g, t, 1) /\ one.prev[h] = Spot(g, t, Len(t))
    BY <1>2, <1>6, <1>7, <1>12, <2>1 DEF Alike
  <2>3. ASSUME NEW i \in 1 .. Len(t) - 1 PROVE Edge(one, t[i], t[i + 1])
    <3>1. i \in 1 .. k - 1 /\ i \in 1 .. k /\ i + 1 \in 1 .. k /\ k \in Nat
      BY <1>1, <1>2
    <3>2. t[i] \in Q /\ t[i + 1] \in Q /\ t[i] \in Item /\ t[i + 1] \in Item
      BY <1>1, <1>2, <3>1 DEF Nodes
    <3>3. t[i] \in L!Node \ P /\ t[i + 1] \in L!Node \ P
      BY <1>8, <3>2 DEF L!Node
    <3>4. Edge(both, t[i], t[i + 1])
      BY <1>10, <3>1
    <3>5. QED
      BY <1>12, <3>3, <3>4 DEF Alike, Edge
  <2>4. QED
    BY <1>1, <1>12, <2>2, <2>3 DEF Taken
<1>14. m \in LinkRecord /\ Alike(one, m, Q) /\ Ring(m, h, t)
  BY <1>2, <1>3, <1>13, RelinkRing
<1>15. Ring(m, g, s)
  BY <1>1, <1>2, <1>8, <1>12, <1>14, RingFrame
<1>16. Alike(l, m, T)
  <2>1. h \in T /\ g \in T
    BY <1>2 DEF Nodes
  <2>2. Alike(l, both, T)
    BY <1>6, <2>1 DEF Alike
  <2>3. Alike(both, one, T) /\ Alike(one, m, T)
    BY <1>8, <1>12, <1>14 DEF Alike
  <2>4. QED
    BY <2>2, <2>3, SameTwice
<1>17. QED
  BY <1>2, <1>4, <1>14, <1>15, <1>16 DEF Both

\* A step that makes two rings of two.
LEMMA BothWhole ==
  ASSUME NEW l, NEW q, NEW st, Whole(l, q, st), NEW h \in Anchor, NEW g \in Anchor, h # g,
         NEW m, NEW u \in Seq(Item), NEW v \in Seq(Item), NEW left, Both(l, m, h, q[h], g, q[g], u, v),
         Differ(u), Differ(v), Items(u) \cap Items(v) = {},
         Items(q[h]) \cup Items(q[g]) = Items(u) \cup Items(v) \cup left,
         left \cap (Items(u) \cup Items(v)) = {}
  PROVE  Whole(m, [q EXCEPT ![h] = u, ![g] = v], st \cup left)
<1>1. /\ m \in LinkRecord /\ Alike(l, m, Nodes(h, q[h]) \cup Nodes(g, q[g]))
      /\ Ring(m, h, u) /\ Ring(m, g, v)
  BY DEF Both
<1>2. PICK r : r = [q EXCEPT ![h] = u, ![g] = v]
  OBVIOUS
<1>3. Whole(m, r, st \cup left)
  BY <1>1, <1>2, TwoWhole
<1>4. QED
  BY <1>2, <1>3

LEMMA NothingIs == Differ(<<>>) /\ Items(<<>>) = {} /\ <<>> \in Seq(Item)
  BY DEF Differ, Items

\* Two lists that exchange what they hold, or one that takes all of both.
LEMMA ListFacts ==
  ASSUME NEW l, NEW q, NEW st, Whole(l, q, st), NEW h \in Anchor, NEW g \in Anchor, h # g
  PROVE  /\ Rings(l, h, q[h], g, q[g]) /\ q \in [Anchor -> Seq(Item)]
         /\ q[h] \in Seq(Item) /\ q[g] \in Seq(Item) /\ Differ(q[h]) /\ Differ(q[g])
         /\ Items(q[h]) \cap Items(q[g]) = {}
<1>1. Rings(l, h, q[h], g, q[g])
  BY WholeRings
<1>2. Items(q[h]) \cap Items(q[g]) = {}
  BY <1>1, RingFacts
<1>3. QED
  BY <1>1, <1>2 DEF Rings, OneRing, Whole

LEMMA SpliceWhole ==
  ASSUME NEW l, NEW q, NEW st, Whole(l, q, st), NEW h \in Anchor, NEW g \in Anchor, h # g
  PROVE  Whole(L!splice(l, h, g), [q EXCEPT ![h] = q[g] \o q[h], ![g] = <<>>], st)
<1>1. PICK s, t : s = q[h] /\ t = q[g]
  BY Zenon
<1>2. /\ Rings(l, h, s, g, t) /\ q \in [Anchor -> Seq(Item)] /\ s \in Seq(Item) /\ t \in Seq(Item)
      /\ Differ(s) /\ Differ(t) /\ Items(s) \cap Items(t) = {}
  BY <1>1, ListFacts
<1>3. CASE t = <<>>
  <2>1. L!empty(l, g)
    BY <1>2, <1>3, EmptyIs DEF Rings, OneRing
  <2>2. L!splice(l, h, g) = l
    BY <2>1 DEF L!splice
  <2>3. t \o s = s
    BY <1>2, <1>3
  <2>4. [q EXCEPT ![h] = t \o s, ![g] = <<>>] = q
    BY <1>1, <1>2, <1>3, <2>3
  <2>5. QED
    BY <1>1, <2>2, <2>4
<1>4. CASE t # <<>>
  <2>1. Both(l, L!splice(l, h, g), h, s, g, t, t \o s, <<>>)
    BY <1>2, <1>4, SpliceRings
  <2>2. PICK u, v, none : u = t \o s /\ v = <<>> /\ none = {}
    BY Zenon
  <2>3. u \in Seq(Item) /\ Differ(u) /\ Items(u) = Items(t) \cup Items(s)
    <3>1. Items(t) \cap Items(s) = {}
      BY <1>2
    <3>2. QED
      BY <1>2, <2>2, <3>1, JoinedItems
  <2>4. Differ(v) /\ Items(v) = {} /\ v \in Seq(Item)
    BY <2>2, NothingIs
  <2>5. /\ Items(s) \cup Items(t) = Items(u) \cup Items(v) \cup none /\ Items(u) \cap Items(v) = {}
        /\ none \cap (Items(u) \cup Items(v)) = {}
    BY <2>2, <2>3, <2>4
  <2>6. Whole(L!splice(l, h, g), [q EXCEPT ![h] = u, ![g] = v], st \cup none)
    BY <1>1, <2>1, <2>2, <2>3, <2>4, <2>5, BothWhole
  <2>7. st \cup none = st
    BY <2>2
  <2>8. QED
    BY <1>1, <2>2, <2>6, <2>7
<1>5. QED
  BY <1>3, <1>4

LEMMA SpliceTailWhole ==
  ASSUME NEW l, NEW q, NEW st, Whole(l, q, st), NEW h \in Anchor, NEW g \in Anchor, h # g
  PROVE  Whole(L!splice_tail(l, h, g), [q EXCEPT ![h] = q[h] \o q[g], ![g] = <<>>], st)
<1>1. PICK s, t : s = q[h] /\ t = q[g]
  BY Zenon
<1>2. /\ Rings(l, h, s, g, t) /\ q \in [Anchor -> Seq(Item)] /\ s \in Seq(Item) /\ t \in Seq(Item)
      /\ Differ(s) /\ Differ(t) /\ Items(s) \cap Items(t) = {}
  BY <1>1, ListFacts
<1>3. CASE t = <<>>
  <2>1. L!empty(l, g)
    BY <1>2, <1>3, EmptyIs DEF Rings, OneRing
  <2>2. L!splice_tail(l, h, g) = l
    BY <2>1 DEF L!splice_tail
  <2>3. s \o t = s
    BY <1>2, <1>3
  <2>4. [q EXCEPT ![h] = s \o t, ![g] = <<>>] = q
    BY <1>1, <1>2, <1>3, <2>3
  <2>5. QED
    BY <1>1, <2>2, <2>4
<1>4. CASE t # <<>>
  <2>1. Both(l, L!splice_tail(l, h, g), h, s, g, t, s \o t, <<>>)
    BY <1>2, <1>4, SpliceTailRings
  <2>2. PICK u, v, none : u = s \o t /\ v = <<>> /\ none = {}
    BY Zenon
  <2>3. u \in Seq(Item) /\ Differ(u) /\ Items(u) = Items(s) \cup Items(t)
    BY <1>2, <2>2, JoinedItems
  <2>4. Differ(v) /\ Items(v) = {} /\ v \in Seq(Item)
    BY <2>2, NothingIs
  <2>5. /\ Items(s) \cup Items(t) = Items(u) \cup Items(v) \cup none /\ Items(u) \cap Items(v) = {}
        /\ none \cap (Items(u) \cup Items(v)) = {}
    BY <2>2, <2>3, <2>4
  <2>6. Whole(L!splice_tail(l, h, g), [q EXCEPT ![h] = u, ![g] = v], st \cup none)
    BY <1>1, <2>1, <2>2, <2>3, <2>4, <2>5, BothWhole
  <2>7. st \cup none = st
    BY <2>2
  <2>8. QED
    BY <1>1, <2>2, <2>6, <2>7
<1>5. QED
  BY <1>3, <1>4

\* The dropped items of h are left pointing where they pointed.
LEMMA CutWhole ==
  ASSUME NEW l, NEW q, NEW st, Whole(l, q, st), NEW h \in Anchor, NEW g \in Anchor, h # g,
         NEW n \in 0 .. Len(q[g])
  PROVE  Whole(L!cut_before(l, h, g, Spot(g, q[g], n + 1)),
               [q EXCEPT ![h] = SubSeq(q[g], 1, n), ![g] = SubSeq(q[g], n + 1, Len(q[g]))],
               st \cup Items(q[h]))
<1>1. PICK s, t : s = q[h] /\ t = q[g]
  BY Zenon
<1>2. /\ Rings(l, h, s, g, t) /\ s \in Seq(Item) /\ t \in Seq(Item)
      /\ Differ(s) /\ Differ(t) /\ Items(s) \cap Items(t) = {}
  BY <1>1, ListFacts
<1>3. PICK u, v : u = SubSeq(t, 1, n) /\ v = SubSeq(t, n + 1, Len(t))
  BY Zenon
<1>4. n \in 0 .. Len(t)
  BY <1>1
<1>5. Both(l, L!cut_before(l, h, g, Spot(g, t, n + 1)), h, s, g, t, u, v)
  BY <1>2, <1>3, <1>4, CutRings
<1>6. /\ u \in Seq(Item) /\ Differ(u) /\ v \in Seq(Item) /\ Differ(v)
      /\ Items(u) \cap Items(v) = {} /\ Items(t) = Items(u) \cup Items(v)
  <2>1. Parts(t, n, u, v)
    BY <1>2, <1>3, <1>4, CutItems
  <2>2. QED
    BY <2>1 DEF Parts
<1>7. Items(s) \cup Items(t) = Items(u) \cup Items(v) \cup Items(s) /\ Items(s) \cap (Items(u) \cup Items(v)) = {}
  BY <1>2, <1>6
<1>8. Whole(L!cut_before(l, h, g, Spot(g, t, n + 1)), [q EXCEPT ![h] = u, ![g] = v], st \cup Items(s))
  BY <1>1, <1>5, <1>6, <1>7, BothWhole
<1>9. QED
  BY <1>1, <1>3, <1>8

LEMMA SwapWhole ==
  ASSUME NEW l, NEW q, NEW st, Whole(l, q, st), NEW h \in Anchor, NEW g \in Anchor, h # g
  PROVE  Whole(L!swap(l, h, g), [q EXCEPT ![h] = q[g], ![g] = q[h]], st)
<1>1. PICK s, t : s = q[h] /\ t = q[g]
  BY Zenon
<1>2. /\ Rings(l, h, s, g, t) /\ s \in Seq(Item) /\ t \in Seq(Item)
      /\ Differ(s) /\ Differ(t) /\ Items(s) \cap Items(t) = {}
  BY <1>1, ListFacts
<1>3. Both(l, L!swap(l, h, g), h, s, g, t, t, s)
  BY <1>2, SwapRings
<1>0. PICK none : none = {}
  OBVIOUS
<1>4. /\ Items(s) \cup Items(t) = Items(t) \cup Items(s) \cup none /\ Items(t) \cap Items(s) = {}
      /\ none \cap (Items(t) \cup Items(s)) = {}
  BY <1>2, <1>0
<1>5. Whole(L!swap(l, h, g), [q EXCEPT ![h] = t, ![g] = s], st \cup none)
  BY <1>1, <1>2, <1>3, <1>4, BothWhole
<1>6. st \cup none = st
  BY <1>0
<1>7. QED
  BY <1>1, <1>5, <1>6

\* The lists as the actions of LinkedList know them.
LEMMA ListedIs ==
  ASSUME NEW q \in [Anchor -> Seq(Item)], NEW x
  PROVE  (\E h \in Anchor : x \in L!ToSet(q[h])) <=> Held(q, x)
<1>1. \A h \in Anchor : L!ToSet(q[h]) = {q[h][i] : i \in 1 .. Len(q[h])}
  BY DEF L!ToSet
<1>2. QED
  BY <1>1 DEF Held

LEMMA NowIs ==
  ASSUME WholeNow
  PROVE  /\ Whole(links, lists, stale) /\ lists \in [Anchor -> Seq(Item)] /\ stale \subseteq Item
         /\ \A x : x \in L!Listed <=> Held(lists, x)
<1>1. Whole(links, lists, stale) /\ lists \in [Anchor -> Seq(Item)] /\ stale \subseteq Item
  BY DEF WholeNow, Whole
<1>2. PICK q : q = lists
  BY Zenon
<1>3. \A x : (\E h \in Anchor : x \in L!ToSet(q[h])) <=> Held(q, x)
  BY <1>1, <1>2, ListedIs
<1>4. \A x : x \in L!Listed <=> \E h \in Anchor : x \in L!ToSet(q[h])
  BY <1>2 DEF L!Listed
<1>5. QED
  BY <1>1, <1>2, <1>3, <1>4

LEMMA WithoutIs ==
  ASSUME NEW x
  PROVE  L!Without(x) = Gone(lists, x)
  BY DEF L!Without, Gone

LEMMA AddStep ==
  ASSUME WholeNow, NEW h \in Anchor, NEW x \in Item, L!Add(h, x)
  PROVE  WholeNow'
<1>1. Whole(links, lists, stale) /\ ~Held(lists, x)
  BY NowIs DEF L!Add
<1>2. /\ Whole(L!add(links, h, x), [lists EXCEPT ![h] = <<x>> \o lists[h]], stale \ {x})
      /\ Whole(L!add_tail(links, h, x), [lists EXCEPT ![h] = Append(lists[h], x)], stale \ {x})
  BY <1>1, AddFirst, AddLast
<1>3. stale' = stale \ {x}
  BY DEF L!Add
<1>4. CASE links' = L!add(links, h, x) /\ lists' = [lists EXCEPT ![h] = <<x>> \o lists[h]]
  BY <1>2, <1>3, <1>4 DEF WholeNow
<1>5. CASE links' = L!add_tail(links, h, x) /\ lists' = [lists EXCEPT ![h] = Append(lists[h], x)]
  BY <1>2, <1>3, <1>5 DEF WholeNow
<1>6. QED
  BY <1>4, <1>5 DEF L!Add

LEMMA DeleteStep ==
  ASSUME WholeNow, NEW x \in Item, L!Delete(x)
  PROVE  WholeNow'
<1>1. Whole(links, lists, stale) /\ x \notin stale /\ stale' = stale /\ links' = L!del(links, x)
  BY NowIs DEF L!Delete
<1>2. lists' = Gone(lists, x)
  BY WithoutIs DEF L!Delete
<1>3. Whole(L!del(links, x), Gone(lists, x), stale)
  BY <1>1, DeleteWhole
<1>4. QED
  BY <1>1, <1>2, <1>3 DEF WholeNow

LEMMA ShiftStep ==
  ASSUME WholeNow, NEW h \in Anchor, L!Shift(h)
  PROVE  WholeNow'
<1>1. Whole(links, lists, stale) /\ lists[h] # <<>> /\ stale' = stale
  BY NowIs DEF L!Shift
<1>2. /\ Whole(L!shift(links, h), [lists EXCEPT ![h] = Tail(lists[h])], stale)
      /\ Whole(L!shift_tail(links, h), [lists EXCEPT ![h] = L!Front(lists[h])], stale)
  BY <1>1, ShiftWhole
<1>3. CASE links' = L!shift(links, h) /\ lists' = [lists EXCEPT ![h] = Tail(lists[h])]
  BY <1>1, <1>2, <1>3 DEF WholeNow
<1>4. CASE links' = L!shift_tail(links, h) /\ lists' = [lists EXCEPT ![h] = L!Front(lists[h])]
  BY <1>1, <1>2, <1>4 DEF WholeNow
<1>5. QED
  BY <1>3, <1>4 DEF L!Shift

LEMMA MoveStep ==
  ASSUME WholeNow, NEW h \in Anchor, NEW x \in Item, L!Move(h, x)
  PROVE  WholeNow'
<1>1. Whole(links, lists, stale) /\ x \notin stale /\ stale' = stale
  BY NowIs DEF L!Move
<1>2. PICK r : r = Gone(lists, x)
  OBVIOUS
<1>3. L!Without(x) = r
  BY <1>2, WithoutIs
<1>4. /\ Whole(L!move(links, h, x), [r EXCEPT ![h] = <<x>> \o r[h]], stale)
      /\ Whole(L!move_tail(links, h, x), [r EXCEPT ![h] = Append(r[h], x)], stale)
  BY <1>1, <1>2, MoveFirst, MoveLast
<1>5. CASE links' = L!move(links, h, x) /\ lists' = [r EXCEPT ![h] = <<x>> \o r[h]]
  BY <1>1, <1>4, <1>5 DEF WholeNow
<1>6. CASE links' = L!move_tail(links, h, x) /\ lists' = [r EXCEPT ![h] = Append(r[h], x)]
  BY <1>1, <1>4, <1>6 DEF WholeNow
<1>7. QED
  BY <1>3, <1>5, <1>6 DEF L!Move

LEMMA ExchangeStep ==
  ASSUME WholeNow, NEW h \in Anchor, NEW g \in Anchor, L!Exchange(h, g)
  PROVE  WholeNow'
<1>1. /\ Whole(links, lists, stale) /\ h # g /\ stale' = stale /\ links' = L!swap(links, h, g)
      /\ lists' = [lists EXCEPT ![h] = lists[g], ![g] = lists[h]]
  BY NowIs DEF L!Exchange
<1>2. Whole(L!swap(links, h, g), [lists EXCEPT ![h] = lists[g], ![g] = lists[h]], stale)
  BY <1>1, SwapWhole
<1>3. QED
  BY <1>1, <1>2 DEF WholeNow

LEMMA SpliceStep ==
  ASSUME WholeNow, NEW h \in Anchor, NEW g \in Anchor, L!Splice(h, g)
  PROVE  WholeNow'
<1>1. Whole(links, lists, stale) /\ h # g /\ stale' = stale
  BY NowIs DEF L!Splice
<1>2. /\ Whole(L!splice(links, h, g), [lists EXCEPT ![h] = lists[g] \o lists[h], ![g] = <<>>], stale)
      /\ Whole(L!splice_tail(links, h, g), [lists EXCEPT ![h] = lists[h] \o lists[g], ![g] = <<>>], stale)
  BY <1>1, SpliceWhole, SpliceTailWhole
<1>3. CASE /\ links' = L!splice(links, h, g)
           /\ lists' = [lists EXCEPT ![h] = lists[g] \o lists[h], ![g] = <<>>]
  BY <1>1, <1>2, <1>3 DEF WholeNow
<1>4. CASE /\ links' = L!splice_tail(links, h, g)
           /\ lists' = [lists EXCEPT ![h] = lists[h] \o lists[g], ![g] = <<>>]
  BY <1>1, <1>2, <1>4 DEF WholeNow
<1>5. QED
  BY <1>3, <1>4 DEF L!Splice

\* The place before an item, or the length for the head.
CutAt(g, s, x) == IF x = g THEN Len(s) ELSE L!Position(s, x) - 1
PlaceBefore(g, s, x, n) == n \in 0 .. Len(s) /\ x = Spot(g, s, n + 1)

LEMMA CutPlace ==
  ASSUME NEW g \in Anchor, NEW s \in Seq(Item), Differ(s), NEW x, x \in L!ToSet(s) \cup {g},
         NEW n, n = CutAt(g, s, x)
  PROVE  PlaceBefore(g, s, x, n)
<1>1. CASE x = g
  BY <1>1 DEF Spot, CutAt, PlaceBefore
<1>2. CASE x # g
  <2>1. L!ToSet(s) = {s[i] : i \in 1 .. Len(s)}
    BY DEF L!ToSet
  <2>2. PICK p \in 1 .. Len(s) : s[p] = x
    BY <1>2, <2>1
  <2>3. L!Position(s, x) = p
    BY <2>2, PositionIs
  <2>4. n = p - 1
    BY <1>2, <2>3 DEF CutAt
  <2>5. QED
    BY <2>2, <2>4 DEF Spot, PlaceBefore
<1>3. QED
  BY <1>1, <1>2

LEMMA CutStep ==
  ASSUME WholeNow, NEW h \in Anchor, NEW g \in Anchor, NEW x, L!Cut(h, g, x)
  PROVE  WholeNow'
<1>1. PICK s, t : s = lists[h] /\ t = lists[g]
  BY Zenon
<1>2. PICK n : n = CutAt(g, t, x)
  OBVIOUS
<1>3. /\ Whole(links, lists, stale) /\ h # g /\ x \in L!ToSet(t) \cup {g}
      /\ links' = L!cut_before(links, h, g, x) /\ stale' = stale \cup L!ToSet(s)
  BY <1>1, NowIs DEF L!Cut
<1>4. lists' = [lists EXCEPT ![h] = SubSeq(t, 1, n), ![g] = SubSeq(t, n + 1, Len(t))]
  BY <1>1, <1>2 DEF L!Cut, CutAt
<1>5. t \in Seq(Item) /\ Differ(t) /\ s \in Seq(Item)
  BY <1>1, <1>3, ListFacts
<1>6. n \in 0 .. Len(t) /\ x = Spot(g, t, n + 1)
  <2>1. PlaceBefore(g, t, x, n)
    BY <1>2, <1>3, <1>5, CutPlace
  <2>2. QED
    BY <2>1 DEF PlaceBefore
<1>7. L!ToSet(s) = Items(s)
  BY <1>5 DEF L!ToSet, Items
<1>8. Whole(L!cut_before(links, h, g, Spot(g, t, n + 1)),
            [lists EXCEPT ![h] = SubSeq(t, 1, n), ![g] = SubSeq(t, n + 1, Len(t))], stale \cup Items(s))
  BY <1>1, <1>3, <1>6, CutWhole
<1>9. QED
  BY <1>3, <1>4, <1>6, <1>7, <1>8 DEF WholeNow

LEMMA CreateStep ==
  ASSUME WholeNow, NEW x \in Item, L!Create(x)
  PROVE  WholeNow'
<1>1. Whole(links, lists, stale) /\ x \in stale /\ stale' = stale \ {x} /\ links' = L!create(links, x) /\ lists' = lists
  BY NowIs DEF L!Create
<1>2. Whole(L!create(links, x), lists, stale \ {x})
  BY <1>1, CreateWhole
<1>3. QED
  BY <1>1, <1>2 DEF WholeNow

\* The walk.
WalkRecord == [head : Anchor, at : L!Node, seen : Seq(Item), all : Seq(Item)]

\* The walk met x and stands at y.
Stepped(w, v, x, y) ==
  /\ v \in WalkRecord /\ v.head = w.head /\ v.all = w.all /\ v.at = y
  /\ v.seen \in Seq(Item) /\ Len(v.seen) = Len(w.seen) + 1 /\ v.seen[Len(w.seen) + 1] = x
  /\ \A i \in 1 .. Len(w.seen) : v.seen[i] = w.seen[i]

LEMMA SteppedIs ==
  ASSUME NEW w \in WalkRecord, NEW x \in Item, NEW y \in L!Node, NEW v,
         v = [w EXCEPT !.at = y, !.seen = Append(w.seen, x)]
  PROVE  Stepped(w, v, x, y)
<1>1. PICK a, b, c, d : a = w.head /\ b = w.at /\ c = w.seen /\ d = w.all
  BY Zenon
<1>2. a \in Anchor /\ b \in L!Node /\ c \in Seq(Item) /\ d \in Seq(Item)
  BY <1>1 DEF WalkRecord
<1>3. PICK e : e = Append(c, x)
  OBVIOUS
<1>4. /\ e \in Seq(Item) /\ Len(e) = Len(c) + 1 /\ e[Len(c) + 1] = x
      /\ \A i \in 1 .. Len(c) : e[i] = c[i]
  BY <1>2, <1>3
<1>5. v = [w EXCEPT !.at = y, !.seen = e]
  BY <1>1, <1>3
<1>6. v \in WalkRecord /\ v.head = w.head /\ v.all = w.all /\ v.at = y /\ v.seen = e
  BY <1>4, <1>5 DEF WalkRecord
<1>7. QED
  BY <1>1, <1>4, <1>6 DEF Stepped

LEMMA AheadKept ==
  ASSUME NEW w \in WalkRecord, NEW v, NEW s \in Seq(Item), NEW k \in 0 .. Len(s) - 1, Ahead(w, s, k),
         Stepped(w, v, s[k + 1], Spot(w.head, s, k + 2))
  PROVE  Ahead(v, s, k + 1)
<1>1. PICK n, m : n = Len(w.seen) /\ m = Len(s)
  BY Zenon
<1>2. n \in Nat /\ m \in Nat /\ k \in Nat /\ k < m
  BY <1>1 DEF WalkRecord
<1>3. /\ Len(w.all) = n + m - k /\ (\A i \in 1 .. n : w.all[i] = w.seen[i])
      /\ \A i \in k + 1 .. m : w.all[n + i - k] = s[i]
  BY <1>1 DEF Ahead
<1>4. /\ v.head = w.head /\ v.all = w.all /\ v.at = Spot(w.head, s, k + 2)
      /\ Len(v.seen) = n + 1 /\ v.seen[n + 1] = s[k + 1] /\ \A i \in 1 .. n : v.seen[i] = w.seen[i]
  BY <1>1 DEF Stepped
<1>5. (k + 1) + 1 = k + 2 /\ v.at = Spot(v.head, s, k + 2)
  BY <1>2, <1>4
<1>6. Len(v.all) = (n + 1) + m - (k + 1)
  BY <1>2, <1>3, <1>4
<1>7. ASSUME NEW i \in 1 .. n + 1 PROVE v.all[i] = v.seen[i]
  <2>1. CASE i = n + 1
    <3>1. k + 1 \in k + 1 .. m /\ n + (k + 1) - k = n + 1
      BY <1>2
    <3>2. w.all[n + (k + 1) - k] = s[k + 1]
      BY <1>3, <3>1
    <3>3. QED
      BY <1>4, <2>1, <3>1, <3>2
  <2>2. CASE i # n + 1
    <3>1. i \in 1 .. n
      BY <1>2, <2>2
    <3>2. QED
      BY <1>3, <1>4, <3>1
  <2>3. QED
    BY <2>1, <2>2
<1>8. ASSUME NEW i \in k + 2 .. m PROVE v.all[(n + 1) + i - (k + 1)] = s[i]
  <2>1. i \in k + 1 .. m /\ (n + 1) + i - (k + 1) = n + i - k
    BY <1>2
  <2>2. w.all[n + i - k] = s[i]
    BY <1>3, <2>1
  <2>3. QED
    BY <1>4, <2>1, <2>2
<1>9. QED
  BY <1>1, <1>4, <1>5, <1>6, <1>7, <1>8 DEF Ahead

LEMMA AheadRemoved ==
  ASSUME NEW w \in WalkRecord, NEW v, NEW s \in Seq(Item), NEW k \in 0 .. Len(s) - 1, Ahead(w, s, k),
         Stepped(w, v, s[k + 1], Spot(w.head, s, k + 2)), NEW t, t = L!RemoveAt(s, k + 1)
  PROVE  Ahead(v, t, k) /\ Len(t) = Len(s) - 1
<1>1. PICK n, m : n = Len(w.seen) /\ m = Len(s)
  BY Zenon
<1>2. n \in Nat /\ m \in Nat /\ k \in Nat /\ k < m /\ k + 1 \in 1 .. m
  BY <1>1 DEF WalkRecord
<1>3. /\ Len(w.all) = n + m - k /\ (\A i \in 1 .. n : w.all[i] = w.seen[i])
      /\ \A i \in k + 1 .. m : w.all[n + i - k] = s[i]
  BY <1>1 DEF Ahead
<1>4. /\ v.head = w.head /\ v.all = w.all /\ v.at = Spot(w.head, s, k + 2)
      /\ Len(v.seen) = n + 1 /\ v.seen[n + 1] = s[k + 1] /\ \A i \in 1 .. n : v.seen[i] = w.seen[i]
  BY <1>1 DEF Stepped
<1>5. PICK p : p = k + 1
  OBVIOUS
<1>6. Len(t) = m - 1 /\ \A i \in 1 .. m - 1 : t[i] = IF i < p THEN s[i] ELSE s[i + 1]
  <2>1. p \in 1 .. Len(s) /\ t = L!RemoveAt(s, p)
    BY <1>1, <1>2, <1>5
  <2>2. Len(t) = Len(s) - 1 /\ \A i \in 1 .. Len(s) - 1 : t[i] = IF i < p THEN s[i] ELSE s[i + 1]
    BY <2>1, RemovedIs
  <2>3. QED
    BY <1>1, <2>2
<1>7. Spot(v.head, t, k + 1) = Spot(w.head, s, k + 2)
  <2>1. CASE k + 2 <= m
    <3>1. k + 1 \in 1 .. m - 1 /\ k + 2 \in 1 .. m /\ ~(k + 1 < p) /\ (k + 1) + 1 = k + 2
      BY <1>2, <1>5, <2>1
    <3>2. t[k + 1] = s[k + 2]
      BY <1>6, <3>1
    <3>3. QED
      BY <1>1, <1>4, <1>6, <3>1, <3>2 DEF Spot
  <2>2. CASE ~(k + 2 <= m)
    <3>1. k + 1 \notin 1 .. m - 1 /\ k + 2 \notin 1 .. m
      BY <1>2, <2>2
    <3>2. QED
      BY <1>1, <1>4, <1>6, <3>1 DEF Spot
  <2>3. QED
    BY <2>1, <2>2
<1>8. Len(v.all) = (n + 1) + (m - 1) - k
  <2>1. (n + 1) + (m - 1) - k = n + m - k
    BY <1>2
  <2>2. Len(v.all) = n + m - k
    BY <1>3, <1>4
  <2>3. QED
    BY <2>1, <2>2
<1>9. ASSUME NEW i \in 1 .. n + 1 PROVE v.all[i] = v.seen[i]
  <2>1. CASE i = n + 1
    <3>1. k + 1 \in k + 1 .. m /\ n + (k + 1) - k = n + 1
      BY <1>2
    <3>2. w.all[n + (k + 1) - k] = s[k + 1]
      BY <1>3, <3>1
    <3>3. QED
      BY <1>4, <2>1, <3>1, <3>2
  <2>2. CASE i # n + 1
    <3>1. i \in 1 .. n
      BY <1>2, <2>2
    <3>2. QED
      BY <1>3, <1>4, <3>1
  <2>3. QED
    BY <2>1, <2>2
<1>10. ASSUME NEW i \in k + 1 .. m - 1 PROVE v.all[(n + 1) + i - k] = t[i]
  <2>1. i + 1 \in k + 1 .. m /\ n + (i + 1) - k = (n + 1) + i - k /\ i \in 1 .. m - 1 /\ ~(i < p)
    BY <1>2, <1>5
  <2>2. w.all[n + (i + 1) - k] = s[i + 1]
    BY <1>3, <2>1
  <2>3. t[i] = s[i + 1]
    BY <1>6, <2>1
  <2>4. QED
    BY <1>4, <2>1, <2>2, <2>3
<1>11. QED
  BY <1>1, <1>4, <1>6, <1>7, <1>8, <1>9, <1>10 DEF Ahead

LEMMA NoWalkStep ==
  ASSUME walk = NoWalk, walk' = walk
  PROVE  WalkNow'
  BY DEF WalkNow, WalkPart

LEMMA WalkStartStep ==
  ASSUME WholeNow, NEW h \in Anchor, L!WalkStart(h)
  PROVE  WholeNow' /\ WalkNow'
<1>1. /\ Whole(links, lists, stale) /\ links' = links /\ lists' = lists /\ stale' = stale
      /\ walk' = [head |-> h, at |-> links.next[h], seen |-> <<>>, all |-> lists[h]]
  BY NowIs DEF L!WalkStart
<1>2. PICK s, w : s = lists[h] /\ w = [head |-> h, at |-> links.next[h], seen |-> <<>>, all |-> s]
  BY Zenon
<1>3. OneRing(links, h, s)
  BY <1>1, <1>2, WholeRing
<1>4. s \in Seq(Item) /\ links.next[h] = Spot(h, s, 1)
  BY <1>3, HeadLinks DEF OneRing
<1>5. Spot(h, s, 1) \in L!Node
  <2>1. PICK i : i = 1
    OBVIOUS
  <2>2. i \in Int
    BY <2>1
  <2>3. Spot(h, s, i) \in L!Node
    BY <1>4, <2>2, SpotNode
  <2>4. QED
    BY <2>1, <2>3
<1>6. w.head = h /\ w.at = Spot(h, s, 1) /\ w.seen = <<>> /\ w.all = s /\ w \in WalkRecord
  BY <1>2, <1>4, <1>5 DEF WalkRecord
<1>7. Ahead(w, s, 0)
  BY <1>4, <1>6 DEF Ahead
<1>8. 0 \in 0 .. Len(s)
  BY <1>4
<1>9. WalkPart(w, lists)
  BY <1>2, <1>6, <1>7, <1>8 DEF WalkPart, WalkRecord
<1>10. walk' = w
  BY <1>1, <1>2
<1>11. WalkNow'
  BY <1>1, <1>9, <1>10 DEF WalkNow
<1>12. QED
  BY <1>1, <1>11 DEF WholeNow

\* Where the walk stands: at an item that is still ahead of it.
LEMMA WalkAt ==
  ASSUME WholeNow, WalkNow, walk # NoWalk, walk.at # walk.head,
         NEW w, w = walk, NEW s, s = lists[w.head]
  PROVE  /\ w \in WalkRecord /\ s \in Seq(Item) /\ Differ(s) /\ w.head \in Anchor
         /\ \E k \in 0 .. Len(s) - 1 : Ahead(w, s, k) /\ w.at = s[k + 1] /\ links.next[w.at] = Spot(w.head, s, k + 2)
<1>1. w \in WalkRecord /\ \E k \in 0 .. Len(s) : Ahead(w, s, k)
  BY DEF WalkNow, WalkPart, WalkRecord
<1>2. w.head \in Anchor
  BY <1>1 DEF WalkRecord
<1>3. PICK h : h = w.head
  OBVIOUS
<1>4. OneRing(links, h, s)
  BY <1>2, <1>3, NowIs, WholeRing
<1>5. s \in Seq(Item) /\ Differ(s) /\ Ring(links, h, s)
  BY <1>4 DEF OneRing
<1>6. PICK k \in 0 .. Len(s) : Ahead(w, s, k)
  BY <1>1
<1>7. w.at = Spot(h, s, k + 1)
  BY <1>3, <1>6 DEF Ahead
<1>8. k + 1 \in 1 .. Len(s) /\ w.at = s[k + 1]
  BY <1>3, <1>7 DEF Spot
<1>9. PICK j : j = k + 1
  OBVIOUS
<1>10. j \in 0 .. Len(s) /\ j + 1 = k + 2 /\ k \in 0 .. Len(s) - 1
  BY <1>5, <1>6, <1>8, <1>9
<1>11. Edge(links, Spot(h, s, j), Spot(h, s, j + 1))
  BY <1>5, <1>10 DEF Ring
<1>12. links.next[w.at] = Spot(h, s, k + 2)
  BY <1>7, <1>9, <1>10, <1>11 DEF Edge
<1>13. QED
  BY <1>1, <1>2, <1>3, <1>5, <1>6, <1>8, <1>10, <1>12

\* The body of the walk takes the entry it is given out of the list.
LEMMA BodyTakes ==
  ASSUME WholeNow, NEW h \in Anchor, NEW p \in 1 .. Len(lists[h]), NEW x, x = lists[h][p],
         L!Delete(x) \/ \E to \in Anchor \ {h} : L!Move(to, x)
  PROVE  lists'[h] = L!RemoveAt(lists[h], p) /\ x \in Item
<1>1. Whole(links, lists, stale) /\ lists \in [Anchor -> Seq(Item)]
  BY NowIs
<1>2. PICK q : q = lists
  BY Zenon
<1>3. Gone(q, x) = [q EXCEPT ![h] = L!RemoveAt(q[h], p)]
  <2>1. Whole(links, q, stale) /\ p \in 1 .. Len(q[h]) /\ x = q[h][p]
    BY <1>1, <1>2
  <2>2. Gone(q, q[h][p]) = [q EXCEPT ![h] = L!RemoveAt(q[h], p)]
    BY <2>1, GoneIs
  <2>3. QED
    BY <2>1, <2>2
<1>4. Gone(q, x)[h] = L!RemoveAt(q[h], p) /\ L!Without(x) = Gone(q, x)
  BY <1>1, <1>2, <1>3, WithoutIs
<1>5. CASE L!Delete(x)
  <2>1. lists' = L!Without(x)
    BY <1>5 DEF L!Delete
  <2>2. QED
    BY <1>1, <1>2, <1>4, <2>1
<1>6. ASSUME NEW to \in Anchor \ {h}, L!Move(to, x) PROVE lists'[h] = L!RemoveAt(lists[h], p)
  <2>1. PICK r : r = Gone(q, x)
    OBVIOUS
  <2>2. (\E z : lists' = [r EXCEPT ![to] = z]) /\ to # h
    BY <1>4, <1>6, <2>1 DEF L!Move
  <2>3. PICK z : lists' = [r EXCEPT ![to] = z]
    BY <2>2
  <2>4. h \in DOMAIN r
    BY <1>1, <1>2, <1>3, <2>1
  <2>5. lists'[h] = r[h]
    BY <2>2, <2>3, <2>4
  <2>6. QED
    BY <1>2, <1>4, <2>1, <2>5
<1>7. x \in Item
  BY <1>1
<1>8. QED
  BY <1>5, <1>6, <1>7

LEMMA WalkStepStep ==
  ASSUME WholeNow, WalkNow, walk # NoWalk, L!WalkStep
  PROVE  WholeNow' /\ WalkNow'
<1>1. walk.at # walk.head
  BY DEF L!WalkStep
<1>2. PICK w, q : w = walk /\ q = lists
  BY Zenon
<1>3. PICK s, h : s = q[w.head] /\ h = w.head
  BY Zenon
<1>4. s = lists[w.head]
  BY <1>2, <1>3
<1>5. /\ w \in WalkRecord /\ s \in Seq(Item) /\ Differ(s) /\ h \in Anchor
      /\ \E k \in 0 .. Len(s) - 1 : Ahead(w, s, k) /\ w.at = s[k + 1] /\ links.next[w.at] = Spot(h, s, k + 2)
  BY <1>1, <1>2, <1>3, <1>4, WalkAt
<1>6. PICK k \in 0 .. Len(s) - 1 : Ahead(w, s, k) /\ w.at = s[k + 1] /\ links.next[w.at] = Spot(h, s, k + 2)
  BY <1>5
<1>7. PICK x, y, p, v : x = w.at /\ y = links.next[x] /\ p = k + 1 /\ v = [w EXCEPT !.at = y, !.seen = Append(w.seen, x)]
  BY Zenon
<1>8. walk' = v
  BY <1>2, <1>7 DEF L!WalkStep
<1>9. p \in 1 .. Len(s) /\ x = s[p] /\ x \in Item
  BY <1>5, <1>6, <1>7
<1>10. y \in L!Node
  <2>1. k + 2 \in Int
    BY <1>5, <1>6
  <2>2. Spot(h, s, k + 2) \in L!Node
    BY <1>5, <2>1, SpotNode
  <2>3. QED
    BY <1>6, <1>7, <2>2
<1>11. Stepped(w, v, x, y)
  BY <1>5, <1>7, <1>9, <1>10, SteppedIs
<1>12. Stepped(w, v, s[k + 1], Spot(w.head, s, k + 2))
  BY <1>3, <1>6, <1>7, <1>11
<1>13. v \in WalkRecord /\ v.head = h
  BY <1>3, <1>11 DEF Stepped
<1>14. CASE UNCHANGED <<links, lists, stale>>
  <2>1. Ahead(v, s, k + 1)
    BY <1>5, <1>6, <1>12, AheadKept
  <2>2. k + 1 \in 0 .. Len(s)
    BY <1>5, <1>6
  <2>3. lists' = q
    BY <1>2, <1>14
  <2>4. WalkPart(v, q)
    BY <1>3, <1>13, <2>1, <2>2 DEF WalkPart, WalkRecord
  <2>5. WalkNow'
    BY <1>8, <2>3, <2>4 DEF WalkNow
  <2>6. WholeNow'
    BY <1>14 DEF WholeNow
  <2>7. QED
    BY <2>5, <2>6
<1>15. CASE L!Delete(x) \/ \E to \in Anchor \ {h} : L!Move(to, x)
  <2>1. PICK t : t = L!RemoveAt(s, p)
    OBVIOUS
  <2>2. p \in 1 .. Len(lists[h]) /\ x = lists[h][p]
    BY <1>2, <1>3, <1>9
  <2>3. lists'[h] = L!RemoveAt(lists[h], p)
    BY <1>5, <1>15, <2>2, BodyTakes
  <2>4. lists'[h] = t
    BY <1>2, <1>3, <2>1, <2>3
  <2>5. Ahead(v, t, k) /\ Len(t) = Len(s) - 1
    <3>1. t = L!RemoveAt(s, k + 1)
      BY <1>7, <2>1
    <3>2. w \in WalkRecord /\ s \in Seq(Item) /\ k \in 0 .. Len(s) - 1 /\ Ahead(w, s, k)
      BY <1>5, <1>6
    <3>3. QED
      BY <1>12, <3>1, <3>2, AheadRemoved
  <2>6. k \in 0 .. Len(t)
    BY <1>5, <1>6, <2>5
  <2>7. PICK r : r = lists'
    BY Zenon
  <2>8. r[v.head] = t
    BY <1>13, <2>4, <2>7
  <2>9. WalkPart(v, r)
    BY <1>13, <2>5, <2>6, <2>8 DEF WalkPart, WalkRecord
  <2>10. WalkNow'
    BY <1>8, <2>7, <2>9 DEF WalkNow
  <2>11. WholeNow'
    BY <1>9, <1>15, DeleteStep, MoveStep
  <2>12. QED
    BY <2>10, <2>11
<1>16. QED
  BY <1>2, <1>3, <1>7, <1>14, <1>15 DEF L!WalkStep

LEMMA WalkEndStep ==
  ASSUME WholeNow, L!WalkEnd
  PROVE  WholeNow' /\ WalkNow'
<1>1. links' = links /\ lists' = lists /\ stale' = stale /\ walk' = NoWalk
  BY DEF L!WalkEnd
<1>2. QED
  BY <1>1 DEF WholeNow, WalkNow, WalkPart

\* What linked_list_foreach meets.
Follows(f, h, s) ==
  /\ f \in [L!Node -> L!Node] /\ s \in Seq(Item) /\ Differ(s)
  /\ \A i \in 0 .. Len(s) : f[Spot(h, s, i)] = Spot(h, s, i + 1)

LEMMA NoLonger ==
  ASSUME NEW s \in Seq(Item), Differ(s)
  PROVE  Cardinality(Item) \in Nat /\ Len(s) <= Cardinality(Item)
<1>1. PICK n : n = Len(s)
  OBVIOUS
<1>2. n \in Nat /\ s \in [1 .. n -> Item]
  BY <1>1
<1>3. s \in Injection(1 .. n, Item)
  BY <1>1, <1>2 DEF Injection, IsInjective, Differ
<1>4. Cardinality(1 .. n) <= Cardinality(Item)
  BY <1>3, FS_Injection, ListsAssumption
<1>5. Cardinality(1 .. n) = n
  <2>1. PICK a : a = 1
    OBVIOUS
  <2>2. a \in Int /\ n \in Int
    BY <1>2, <2>1
  <2>3. Cardinality(a .. n) = IF a > n THEN 0 ELSE n - a + 1
    BY <2>2, FS_Interval
  <2>4. QED
    BY <1>2, <2>1, <2>3
<1>6. Cardinality(Item) \in Nat
  BY FS_CardinalityType, ListsAssumption
<1>7. QED
  BY <1>1, <1>4, <1>5, <1>6

\* The places of a ring, met one after the other.
LEMMA SpotsMet ==
  ASSUME NEW h \in Anchor, NEW s, NEW f, Follows(f, h, s), NEW N \in Nat, Len(s) <= N, NEW c,
         \A i \in 0 .. N : c[i] = IF i = 0 THEN f[h] ELSE f[c[i - 1]]
  PROVE  \A i \in 0 .. Len(s) : c[i] = Spot(h, s, i + 1)
<1>1. s \in Seq(Item) /\ \A i \in 0 .. Len(s) : f[Spot(h, s, i)] = Spot(h, s, i + 1)
  BY DEF Follows
<1>2. PICK n : n = Len(s)
  OBVIOUS
<1>3. n \in Nat /\ n <= N
  BY <1>1, <1>2
<1>4. SUFFICES ASSUME NEW j \in 0 .. n, c[j] # Spot(h, s, j + 1) PROVE FALSE
  BY <1>2
<1>5. PICK S : S = {i \in 0 .. n : c[i] # Spot(h, s, i + 1)}
  OBVIOUS
<1>6. S \subseteq Nat /\ S # {}
  BY <1>4, <1>5
<1>7. PICK m \in S : \A y \in S : m <= y
  BY <1>6, LeastNatural
<1>8. m \in 0 .. n /\ c[m] # Spot(h, s, m + 1) /\ m \in 0 .. N
  BY <1>3, <1>5, <1>7
<1>9. f[Spot(h, s, m)] = Spot(h, s, m + 1)
  BY <1>1, <1>2, <1>8
<1>10. CASE m = 0
  <2>1. c[m] = f[h]
    BY <1>8, <1>10
  <2>2. Spot(h, s, m) = h
    BY <1>10 DEF Spot
  <2>3. QED
    BY <1>8, <1>9, <2>1, <2>2
<1>11. CASE m # 0
  <2>1. PICK k : k = m - 1
    OBVIOUS
  <2>2. k \in 0 .. n /\ k \notin S /\ k + 1 = m
    <3>1. m \in Nat /\ m <= n /\ m # 0
      BY <1>3, <1>8, <1>11
    <3>2. k \in 0 .. n /\ k + 1 = m /\ ~(m <= k)
      BY <1>3, <2>1, <3>1
    <3>3. QED
      BY <1>7, <3>2
  <2>3. c[k] = Spot(h, s, k + 1)
    BY <1>5, <2>2
  <2>4. c[m] = f[c[k]]
    BY <1>8, <1>11, <2>1
  <2>5. QED
    BY <1>8, <1>9, <2>2, <2>3, <2>4
<1>12. QED
  BY <1>10, <1>11

LEMMA ForeachIs ==
  ASSUME NEW h \in Anchor, NEW s, NEW f, Follows(f, h, s)
  PROVE  L!foreach(f, h) = s
<1> DEFINE Loop(N, g) == g = [i \in 0 .. N |-> IF i = 0 THEN f[h] ELSE f[g[i - 1]]]
<1>1. f \in [L!Node -> L!Node] /\ s \in Seq(Item) /\ Differ(s)
  BY DEF Follows
<1>2. PICK N, n : N = Cardinality(Item) /\ n = Len(s)
  BY Zenon
<1>3. N \in Nat /\ n \in Nat /\ n <= N
  BY <1>1, <1>2, NoLonger
<1>4. PICK D, a : D = L!Node /\ a = f[h]
  BY Zenon
<1>5. a \in D /\ f \in [D -> D]
  BY <1>1, <1>4 DEF L!Node
<1>6. PICK F : F = [x \in (1 .. N) \X D |-> f[x[2]]]
  OBVIOUS
<1>7. \A k \in 1 .. N, t \in D : F[<<k, t>>] = f[t]
  BY <1>6
<1>8. PICK g \in [0 .. N -> D] : g[0] = a /\ \A k \in 1 .. N : g[k] = F[<<k, g[k - 1]>>]
  <2>1. Stays(F, N, D)
    BY <1>5, <1>7 DEF Stays
  <2>2. \E g : Iterates(g, F, a, N, D)
    BY <1>3, <1>5, <2>1, Iteration
  <2>3. QED
    BY <2>2 DEF Iterates
<1>9. Loop(N, g)
  <2>1. \A k \in 1 .. N : k - 1 \in 0 .. N /\ g[k - 1] \in D
    BY <1>3, <1>8
  <2>2. \A k \in 1 .. N : g[k] = f[g[k - 1]]
    BY <1>7, <1>8, <2>1
  <2>3. \A k \in 0 .. N : g[k] = IF k = 0 THEN f[h] ELSE f[g[k - 1]]
    BY <1>3, <1>4, <1>8, <2>2
  <2>4. g = [k \in 0 .. N |-> g[k]]
    BY <1>8
  <2>5. QED
    BY <2>3, <2>4
<1>10. PICK c : c = CHOOSE e : Loop(N, e)
  OBVIOUS
<1>11. Loop(N, c)
  BY <1>9, <1>10
<1>12. \A i \in 0 .. N : c[i] = IF i = 0 THEN f[h] ELSE f[c[i - 1]]
  BY <1>11
<1>13. \A i \in 0 .. n : c[i] = Spot(h, s, i + 1)
  BY <1>2, <1>3, <1>12, SpotsMet
<1>14. PICK back : back = {i \in 0 .. N : c[i] = h}
  OBVIOUS
<1>15. n \in back
  <2>1. n \in 0 .. n /\ n \in 0 .. N /\ n + 1 \notin 1 .. n
    BY <1>3
  <2>2. Spot(h, s, n + 1) = h
    BY <1>2, <2>1 DEF Spot
  <2>3. QED
    BY <1>13, <1>14, <2>1, <2>2
<1>16. \A i \in back : n <= i
  <2>1. SUFFICES ASSUME NEW i \in back, ~(n <= i) PROVE FALSE
    OBVIOUS
  <2>2. i \in 0 .. N /\ c[i] = h
    BY <1>14
  <2>3. i \in 0 .. n /\ i + 1 \in 1 .. n
    BY <1>3, <2>1, <2>2
  <2>4. c[i] = s[i + 1] /\ s[i + 1] \in Item
    BY <1>1, <1>2, <1>13, <2>3 DEF Spot
  <2>5. QED
    BY <2>2, <2>4, ListsAssumption
<1>17. L!Min(back) = n
  <2>1. PICK m : m = CHOOSE x \in back : \A y \in back : x <= y
    OBVIOUS
  <2>2. m \in back /\ \A y \in back : m <= y
    BY <1>15, <1>16, <2>1
  <2>3. m \in 0 .. N /\ m <= n /\ n <= m
    BY <1>14, <1>15, <1>16, <2>2
  <2>4. m = n
    BY <1>3, <2>3
  <2>5. QED
    BY <2>1, <2>4 DEF L!Min
<1>18. L!foreach(f, h) = IF back = {} THEN <<NoWalk>> ELSE [i \in 1 .. L!Min(back) |-> c[i - 1]]
  <2>1. L!Cardinality(Item) = N
    BY <1>2, Zenon DEF L!Cardinality, Cardinality
  <2>2. c = CHOOSE e : e = [i \in 0 .. L!Cardinality(Item) |-> IF i = 0 THEN f[h] ELSE f[e[i - 1]]]
    BY <1>10, <2>1
  <2>3. back = {i \in 0 .. L!Cardinality(Item) : c[i] = h}
    BY <1>14, <2>1
  <2>4. QED
    BY <2>2, <2>3 DEF L!foreach
<1>19. L!foreach(f, h) = [i \in 1 .. n |-> c[i - 1]]
  BY <1>15, <1>17, <1>18
<1>20. \A i \in 1 .. n : c[i - 1] = s[i]
  <2>1. SUFFICES ASSUME NEW i \in 1 .. n PROVE c[i - 1] = s[i]
    OBVIOUS
  <2>2. i - 1 \in 0 .. n /\ (i - 1) + 1 = i
    BY <1>3
  <2>3. c[i - 1] = Spot(h, s, i)
    BY <1>13, <2>2
  <2>4. QED
    BY <1>2, <2>3 DEF Spot
<1>21. s = [i \in 1 .. n |-> s[i]]
  BY <1>1, <1>2
<1>22. QED
  BY <1>19, <1>20, <1>21

\* Both directions of a ring lead through its items.
LEMMA RingFollows ==
  ASSUME NEW l \in LinkRecord, NEW h, NEW s, OneRing(l, h, s)
  PROVE  Follows(l.next, h, s) /\ Follows(l.prev, h, L!Reverse(s))
<1>1. h \in Anchor /\ s \in Seq(Item) /\ Ring(l, h, s) /\ Differ(s)
  BY DEF OneRing
<1>2. l.next \in [L!Node -> L!Node] /\ l.prev \in [L!Node -> L!Node]
  BY DEF LinkRecord
<1>3. Follows(l.next, h, s)
  <2>1. \A i \in 0 .. Len(s) : l.next[Spot(h, s, i)] = Spot(h, s, i + 1)
    BY <1>1 DEF Ring, Edge
  <2>2. QED
    BY <1>1, <1>2, <2>1 DEF Follows
<1>4. PICK n, t : n = Len(s) /\ t = L!Reverse(s)
  BY Zenon
<1>5. n \in Nat /\ t = [i \in 1 .. n |-> s[n - i + 1]]
  BY <1>1, <1>4 DEF L!Reverse
<1>6. \A i \in 1 .. n : n - i + 1 \in 1 .. n
  BY <1>5
<1>7. t \in Seq(Item) /\ Len(t) = n /\ \A i \in 1 .. n : t[i] = s[n - i + 1]
  <2>1. \A i \in 1 .. n : s[n - i + 1] \in Item
    BY <1>1, <1>4, <1>6
  <2>2. QED
    BY <1>5, <2>1
<1>8. Differ(t)
  <2>1. SUFFICES ASSUME NEW i \in 1 .. n, NEW j \in 1 .. n, t[i] = t[j] PROVE i = j
    BY <1>7 DEF Differ
  <2>2. PICK a, b : a = n - i + 1 /\ b = n - j + 1
    BY Zenon
  <2>3. a \in 1 .. Len(s) /\ b \in 1 .. Len(s) /\ s[a] = s[b]
    BY <1>4, <1>6, <1>7, <2>1, <2>2
  <2>4. a = b
    BY <1>1, <2>3 DEF Differ
  <2>5. QED
    BY <1>5, <2>2, <2>4
<1>9. ASSUME NEW i \in 0 .. n PROVE l.prev[Spot(h, t, i)] = Spot(h, t, i + 1)
  <2>1. PICK j : j = n - i
    OBVIOUS
  <2>2. j \in 0 .. n /\ j + 1 = n - i + 1
    BY <1>5, <2>1
  <2>3. Edge(l, Spot(h, s, j), Spot(h, s, j + 1))
    BY <1>1, <1>4, <2>2 DEF Ring
  <2>4. l.prev[Spot(h, s, j + 1)] = Spot(h, s, j)
    BY <2>3 DEF Edge
  <2>5. Spot(h, t, i) = Spot(h, s, j + 1)
    <3>1. i \in 1 .. n <=> j + 1 \in 1 .. n
      BY <1>5, <2>1
    <3>2. i \in 1 .. n => t[i] = s[j + 1]
      BY <1>7, <2>2
    <3>3. QED
      BY <1>4, <1>7, <3>1, <3>2 DEF Spot
  <2>6. Spot(h, t, i + 1) = Spot(h, s, j)
    <3>1. PICK k : k = i + 1
      OBVIOUS
    <3>2. (k \in 1 .. n <=> j \in 1 .. n) /\ n - k + 1 = j
      BY <1>5, <2>1, <3>1
    <3>3. k \in 1 .. n => t[k] = s[j]
      BY <1>7, <3>2
    <3>4. QED
      BY <1>4, <1>7, <3>1, <3>2, <3>3 DEF Spot
  <2>7. QED
    BY <2>4, <2>5, <2>6
<1>10. Follows(l.prev, h, t)
  BY <1>2, <1>7, <1>8, <1>9 DEF Follows
<1>11. QED
  BY <1>3, <1>4, <1>10

\* What the rings say of the lists.
LEMMA ListsMean ==
  ASSUME WholeNow
  PROVE  L!ListsAgree
<1>1. Whole(links, lists, stale)
  BY NowIs
<1>2. PICK l, q : l = links /\ q = lists
  BY Zenon
<1>3. l \in LinkRecord /\ q \in [Anchor -> Seq(Item)]
  BY <1>1, <1>2 DEF Whole
<1>4. ASSUME NEW h \in Anchor
      PROVE  /\ L!foreach(l.next, h) = q[h] /\ L!foreach(l.prev, h) = L!Reverse(q[h])
             /\ L!empty(l, h) <=> q[h] = <<>>
  <2>1. PICK s, t : s = q[h] /\ t = L!Reverse(s)
    BY Zenon
  <2>2. OneRing(l, h, s)
    BY <1>1, <1>2, <2>1, WholeRing
  <2>3. Follows(l.next, h, s) /\ Follows(l.prev, h, t)
    BY <1>3, <2>1, <2>2, RingFollows
  <2>4. L!foreach(l.next, h) = s /\ L!foreach(l.prev, h) = t
    BY <2>3, ForeachIs
  <2>5. L!empty(l, h) <=> s = <<>>
    BY <2>2, EmptyIs DEF OneRing
  <2>6. QED
    BY <2>1, <2>4, <2>5
<1>5. ASSUME NEW x \in Item \ (L!Listed \cup stale) PROVE L!empty(l, x)
  <2>1. ~Held(lists, x) /\ x \in Item \ stale
    BY NowIs
  <2>2. Edge(links, x, x)
    BY <1>1, <2>1 DEF Whole
  <2>3. QED
    BY <1>2, <2>2 DEF Edge, L!empty
<1>6. QED
  BY <1>2, <1>4, <1>5 DEF L!ListsAgree

\* What the entries that are ahead say of the walk.
LEMMA WalkMean ==
  ASSUME WholeNow, WalkNow
  PROVE  L!WalkMeetsAll
<1>1. SUFFICES ASSUME walk # NoWalk
               PROVE  IF walk.at = walk.head THEN walk.seen = walk.all
                      ELSE L!IsPrefix(Append(walk.seen, walk.at), walk.all)
  BY DEF L!WalkMeetsAll
<1>2. PICK w : w = walk
  OBVIOUS
<1>3. w \in WalkRecord /\ \E k \in 0 .. Len(lists[w.head]) : Ahead(w, lists[w.head], k)
  BY <1>1, <1>2 DEF WalkNow, WalkPart, WalkRecord
<1>4. PICK h, s, e, a : h = w.head /\ s = lists[h] /\ e = w.seen /\ a = w.all
  BY Zenon
<1>5. h \in Anchor /\ e \in Seq(Item) /\ a \in Seq(Item) /\ w.at \in L!Node
  BY <1>3, <1>4 DEF WalkRecord
<1>6. s \in Seq(Item)
  BY <1>4, <1>5, NowIs
<1>7. PICK k \in 0 .. Len(s) : Ahead(w, s, k)
  BY <1>3, <1>4
<1>8. PICK n, m : n = Len(e) /\ m = Len(s)
  BY Zenon
<1>9. n \in Nat /\ m \in Nat /\ k \in Nat /\ k <= m
  BY <1>5, <1>6, <1>7, <1>8
<1>10. /\ w.at = Spot(h, s, k + 1) /\ Len(a) = n + m - k /\ (\A i \in 1 .. n : a[i] = e[i])
       /\ \A i \in k + 1 .. m : a[n + i - k] = s[i]
  BY <1>4, <1>7, <1>8 DEF Ahead
<1>11. CASE k = m
  <2>1. w.at = h
    BY <1>8, <1>9, <1>10, <1>11 DEF Spot
  <2>2. Len(a) = n
    BY <1>9, <1>10, <1>11
  <2>3. e = a
    BY <1>5, <1>8, <1>10, <2>2, SameSeq
  <2>4. QED
    BY <1>2, <1>4, <2>1, <2>3
<1>12. CASE k # m
  <2>1. k + 1 \in 1 .. m /\ k + 1 \in k + 1 .. m /\ n + (k + 1) - k = n + 1
    BY <1>9, <1>12
  <2>2. PICK x : x = s[k + 1]
    OBVIOUS
  <2>3. w.at = x /\ a[n + 1] = x /\ x \in Item
    BY <1>6, <1>8, <1>10, <2>1, <2>2 DEF Spot
  <2>4. x # h
    BY <1>5, <2>3, ListsAssumption
  <2>5. PICK d : d = Append(e, x)
    OBVIOUS
  <2>6. d \in Seq(Item) /\ Len(d) = n + 1 /\ d[n + 1] = x /\ \A i \in 1 .. n : d[i] = e[i]
    BY <1>5, <1>8, <2>3, <2>5
  <2>7. n + 1 <= Len(a)
    <3>1. n + 1 <= n + m - k
      BY <1>9, <1>12
    <3>2. QED
      BY <1>10, <3>1
  <2>8. \A i \in 1 .. n + 1 : d[i] = a[i]
    <3>1. SUFFICES ASSUME NEW i \in 1 .. n + 1 PROVE d[i] = a[i]
      OBVIOUS
    <3>2. CASE i = n + 1
      BY <2>3, <2>6, <3>2
    <3>3. CASE i # n + 1
      <4>1. i \in 1 .. n
        BY <1>9, <3>3
      <4>2. QED
        BY <1>10, <2>6, <4>1
    <3>4. QED
      BY <3>2, <3>3
  <2>9. SubSeq(d, 1, n + 1) = SubSeq(a, 1, n + 1)
    <3>1. PICK u, v : u = SubSeq(d, 1, n + 1) /\ v = SubSeq(a, 1, n + 1)
      BY Zenon
    <3>2. u \in Seq(Item) /\ Len(u) = n + 1 /\ \A i \in 1 .. n + 1 : u[i] = d[i]
      BY <1>9, <2>6, <3>1
    <3>3. v \in Seq(Item) /\ Len(v) = n + 1 /\ \A i \in 1 .. n + 1 : v[i] = a[i]
      BY <1>5, <1>9, <2>7, <3>1
    <3>4. u = v
      BY <2>8, <3>2, <3>3, SameSeq
    <3>5. QED
      BY <3>1, <3>4
  <2>10. L!IsPrefix(d, a)
    BY <2>6, <2>7, <2>9 DEF L!IsPrefix
  <2>11. QED
    BY <1>2, <1>4, <2>3, <2>4, <2>5, <2>10
<1>13. QED
  BY <1>11, <1>12

ListsWhole == WholeNow /\ WalkNow

LEMMA ListsStep ==
  ASSUME ListsWhole, L!Next
  PROVE  ListsWhole'
<1>1. WholeNow /\ WalkNow
  BY DEF ListsWhole
<1>2. WholeNow' /\ WalkNow' => ListsWhole'
  BY DEF ListsWhole
<1>3. ASSUME walk = NoWalk, walk' = walk, WholeNow' PROVE ListsWhole'
  BY <1>2, <1>3, NoWalkStep
<1>4. ASSUME walk = NoWalk, walk' = walk, NEW h \in Anchor, NEW x \in Item, L!Add(h, x) \/ L!Move(h, x)
      PROVE  ListsWhole'
  BY <1>1, <1>3, <1>4, AddStep, MoveStep
<1>5. ASSUME walk = NoWalk, walk' = walk, NEW x \in Item, L!Delete(x) \/ L!Create(x)
      PROVE  ListsWhole'
  BY <1>1, <1>3, <1>5, DeleteStep, CreateStep
<1>6. ASSUME walk = NoWalk, walk' = walk, NEW h \in Anchor, NEW g \in Anchor,
             L!Exchange(h, g) \/ L!Splice(h, g) \/ \E x \in L!Node : L!Cut(h, g, x)
      PROVE  ListsWhole'
  BY <1>1, <1>3, <1>6, ExchangeStep, SpliceStep, CutStep
<1>7. ASSUME walk = NoWalk, walk' = walk, NEW h \in Anchor, L!Shift(h)
      PROVE  ListsWhole'
  BY <1>1, <1>3, <1>7, ShiftStep
<1>8. ASSUME NEW h \in Anchor, L!WalkStart(h) PROVE ListsWhole'
  BY <1>1, <1>2, <1>8, WalkStartStep
<1>9. ASSUME walk # NoWalk, L!WalkStep PROVE ListsWhole'
  BY <1>1, <1>2, <1>9, WalkStepStep
<1>10. ASSUME L!WalkEnd PROVE ListsWhole'
  BY <1>1, <1>2, <1>10, WalkEndStep
<1>11. CASE /\ walk = NoWalk /\ walk' = walk
            /\ \/ \E h \in Anchor, item \in Item : L!Add(h, item) \/ L!Move(h, item)
               \/ \E item \in Item : L!Delete(item) \/ L!Create(item)
               \/ \E h, g \in Anchor : L!Exchange(h, g) \/ L!Splice(h, g) \/ \E x \in L!Node : L!Cut(h, g, x)
               \/ \E h \in Anchor : L!Shift(h)
  BY <1>4, <1>5, <1>6, <1>7, <1>11
<1>12. QED
  BY <1>8, <1>9, <1>10, <1>11 DEF L!Next

\* Whatever calls built them, both directions of every linked_list meet the
\* items the calls left in it, and linked_list_foreach_entry_safe meets every
\* entry though its body deletes or moves the entry it is given.
THEOREM ListsHold == CoreSpec => []ListsInv
<1>1. ASSUME CoreInit PROVE ListsWhole
  <2>1. /\ links = [next |-> [x \in L!Node |-> x], prev |-> [x \in L!Node |-> x]]
        /\ lists = [h \in Anchor |-> <<>>] /\ stale = {} /\ walk = NoWalk
    BY <1>1 DEF CoreInit, L!Init
  <2>2. \A h \in Anchor : h \in L!Node
    BY DEF L!Node
  <2>3. \A x \in Item : x \in L!Node
    BY DEF L!Node
  <2>4. links \in LinkRecord /\ \A x \in L!Node : Edge(links, x, x)
    BY <2>1 DEF LinkRecord, Edge
  <2>5. lists \in [Anchor -> Seq(Item)] /\ \A h \in Anchor : lists[h] = <<>>
    BY <2>1
  <2>6. \A h \in Anchor : Ring(links, h, lists[h])
    BY <2>2, <2>4, <2>5 DEF Ring, Spot
  <2>7. Once(lists)
    BY <2>5 DEF Once
  <2>8. WholeNow
    BY <2>1, <2>3, <2>4, <2>5, <2>6, <2>7 DEF WholeNow, Whole
  <2>9. WalkNow
    BY <2>1 DEF WalkNow, WalkPart
  <2>10. QED
    BY <2>8, <2>9 DEF ListsWhole
<1>2. ASSUME ListsWhole,
             [CoreNext]_<<part, vars, listVars, eventVars, contextVars, bufferVars>>
      PROVE  ListsWhole'
  <2>1. L!Next \/ UNCHANGED listVars
    BY <1>2 DEF CoreNext
  <2>2. CASE UNCHANGED listVars
    BY <1>2, <2>2 DEF listVars, ListsWhole, WholeNow, WalkNow
  <2>3. QED
    BY <1>2, <2>1, <2>2, ListsStep
<1>3. ListsWhole => ListsInv
  BY ListsMean, WalkMean DEF ListsWhole, ListsInv, L!ListsInv
<1>4. QED
  BY <1>1, <1>2, <1>3, PTL DEF CoreSpec
=============================================================================
