----------------------------- MODULE CoreEvents -----------------------------
(***************************************************************************)
(* The events with which native code reports what went wrong               *)
(* (core/native/events, system, crash and storage_convert_error) and the   *)
(* way they reach Dart: event_propagate_local hands an event to the        *)
(* isolate's LocalEvent, systemCheck consumes it for a failing call and    *)
(* raises it, a task carries it in its output, print_event prints it and   *)
(* raise_panic ends the process.  Whoever raises or prints an event        *)
(* destroys it.                                                            *)
(*                                                                         *)
(* Native code fills one event at a time (draft).  A field is its name and *)
(* its type, which selects the member of the union that is read.  Once an  *)
(* event is handed over only its level, its call and whether it has a      *)
(* stack trace matter.                                                     *)
(***************************************************************************)
EXTENDS Integers, Sequences, FiniteSetsExt, Functions

CONSTANTS
    Address,        \* where calloc puts an event; free makes it available again
    FieldsMaximum,  \* EVENT_FIELDS_MAXIMUM
    PrintLevel,     \* configuration.print_level
    Name, Type,     \* the names and the types of the fields native code sets
    MaxCalls,       \* bound: how many native calls report something
    NULL, Exit

VARIABLES
    heap,       \* what every address holds: an event or NULL
    draft,      \* the event native code is filling, or NULL
    meant,      \* history: the fields the calls on draft should have left
    localEvent, \* LocalEvent._event of the isolate
    tasks,      \* the events in the output of a task on its way to Dart
    lost,       \* history: events nobody will destroy
    call,       \* the native call under way or made last
    unchecked,  \* history: the last call whose error result Dart did not check
    raised,     \* the last exception: the call it was raised for, its event's
    exited      \* the process has ended

vars == <<heap, draft, meant, localEvent, tasks, lost, call, unchecked, raised, exited>>
handed == <<localEvent, tasks, lost, call, unchecked, raised>>

Levels == [panic |-> 0, error |-> 1, warning |-> 2, information |-> 3, trace |-> 4]

(***************************************************************************)
(* Fields.                                                                 *)
(***************************************************************************)
\* event_find_field: the position of the first field of that name, or 0.
event_find_field(fields, name) ==
    LET same == {i \in DOMAIN fields : fields[i].name = name}
    IN IF same = {} THEN 0 ELSE Min(same)

\* event_field: the setter the C type of the value selects.  int8_t is
\* missing from the choice (uint8_t is there twice), so it becomes an address.
event_field(name, ctype) ==
    [name |-> name,
     type |-> CASE ctype = "char" -> "character"
                [] ctype = "bool" -> "boolean"
                [] ctype \in {"uint8_t", "uint16_t", "uint32_t", "uint64_t"} -> "unsigned"
                [] ctype \in {"int16_t", "int32_t", "int64_t"} -> "signed"
                [] ctype \in {"float", "double"} -> "double"
                [] ctype \in {"char[]", "char*", "const char*"} -> "string"
                [] OTHER -> "address"]

\* event_set_field; at the limit it ends the process.
event_set_field(fields, name, type) ==
    LET i == event_find_field(fields, name) IN
        IF i # 0 THEN [fields EXCEPT ![i].type = type]
        ELSE IF Len(fields) = FieldsMaximum THEN Exit
        ELSE Append(fields, [name |-> name, type |-> type])

\* event_set_boolean ... event_set_character; nothing after an exit.
event_set(fields, name, type) ==
    IF fields = Exit THEN Exit ELSE event_set_field(fields, name, type)

\* event_get_character ... event_get_string end the process unless the
\* field is there and has their type.
event_get(fields, name, type) ==
    LET i == event_find_field(fields, name) IN
        IF i = 0 THEN Exit ELSE IF fields[i].type # type THEN Exit ELSE fields[i]

\* event_field_is_signed, event_field_is_unsigned.
event_field_is(fields, name, type) ==
    LET i == event_find_field(fields, name) IN i # 0 /\ fields[i].type = type

\* event_format prints every field with the format of its type.
event_format(fields) == [i \in DOMAIN fields |-> <<fields[i].name, fields[i].type>>]

event_put_stack_trace(fields, formatted) ==
    IF formatted THEN event_set(fields, "stack-trace", "string") ELSE fields

\* storage_convert_error: the code and the message, then the payload of the
\* diagnostic, whose names may repeat them.
storage_convert_error(payload) ==
    LET FieldType(mp) == CASE mp = "MP_STR" -> "string" [] mp = "MP_UINT" -> "unsigned"
                           [] mp = "MP_INT" -> "signed" [] mp = "MP_BOOL" -> "boolean"
                           [] mp \in {"MP_FLOAT", "MP_DOUBLE"} -> "double" [] OTHER -> NULL
        AddField(fields, f) == IF FieldType(f.mp) = NULL THEN fields
                               ELSE event_set(fields, f.name, FieldType(f.mp))
        added[i \in 0 .. Len(payload)] ==
            IF i = 0 THEN <<event_field("code", "uint32_t"), event_field("message", "char[]")>>
            ELSE AddField(added[i - 1], payload[i])
    IN added[Len(payload)]

\* crash_signal_callback: a segmentation fault has a name for its code.
crash_fields(signal, named, addressed) ==
    LET built == <<event_field("message", "char[]")>>
        coded == IF signal = "SIGSEGV" /\ named THEN event_set(built, "code", "string")
                                                ELSE event_set(built, "code", "signed")
        placed == IF addressed THEN event_set(coded, "address", "address") ELSE coded
    IN event_set(placed, "signal-information", "address")

\* What a list of fields says of every name: the dictionary it stands for.
Dictionary(fields) == [n \in {fields[i].name : i \in DOMAIN fields} |->
                           fields[CHOOSE i \in DOMAIN fields : fields[i].name = n].type]
-----------------------------------------------------------------------------
(***************************************************************************)
(* Native code builds an event and sets its fields.                        *)
(***************************************************************************)
Init ==
    /\ heap = [a \in Address |-> NULL]
    /\ draft = NULL /\ meant = <<>>
    /\ localEvent = NULL /\ tasks = {} /\ lost = {}
    /\ call = 0 /\ unchecked = 0 /\ raised = NULL
    /\ exited = FALSE

\* The address calloc returns: one that is free, as good as any other.
Calloc == CHOOSE a \in Address : heap[a] = NULL

HasMemory == \E a \in Address : heap[a] = NULL

\* event_build, for a call that reports: the fields are those of the macros
\* event_error, event_module_error, event_panic of events.h.
event_build(level, fields) ==
    /\ draft = NULL /\ HasMemory /\ call < MaxCalls
    /\ draft' = [level |-> level, fields |-> fields]
    /\ meant' = Dictionary(fields)
    /\ call' = call + 1
    /\ UNCHANGED <<heap, localEvent, tasks, lost, unchecked, raised, exited>>

Build ==
    \/ event_build("error", <<event_field("error-kind", "const char*"), event_field("code", "int32_t"),
                              event_field("message", "char[]")>>)
    \/ event_build("panic", <<event_field("code", "int32_t"), event_field("message", "char*")>>)
    \/ event_build("information", <<event_field("message", "const char*")>>)

\* A field set by native code, or the limit met.
SetField(name, type) ==
    /\ draft # NULL
    /\ LET fields == event_set(draft.fields, name, type) IN
        IF fields = Exit THEN exited' = TRUE /\ UNCHANGED <<draft, meant>>
        ELSE /\ draft' = [draft EXCEPT !.fields = fields]
             /\ meant' = [n \in DOMAIN meant \cup {name} |-> IF n = name THEN type ELSE meant[n]]
             /\ UNCHANGED exited
    /\ UNCHANGED <<heap, localEvent, tasks, lost, call, unchecked, raised>>

\* A field read by native code: ends the process or changes nothing.
GetField(name, type) ==
    /\ draft # NULL
    /\ event_get(draft.fields, name, type) = Exit
    /\ exited' = TRUE
    /\ UNCHANGED <<heap, draft, meant, handed>>

(***************************************************************************)
(* Handing it over.                                                        *)
(***************************************************************************)
\* The heap with the finished event, its stack trace put last.
Finished(formatted) ==
    LET fields == event_put_stack_trace(draft.fields, formatted) IN
        [heap EXCEPT ![Calloc] = [level |-> draft.level, call |-> call,
                                  traced |-> event_field_is(fields, "stack-trace", "string")]]

Fits(formatted) == HasMemory /\ event_put_stack_trace(draft.fields, formatted) # Exit

Done == draft' = NULL /\ meant' = <<>>

\* No room for the stack trace: event_set_string ends the process.
NoRoom ==
    /\ draft # NULL
    /\ event_put_stack_trace(draft.fields, TRUE) = Exit
    /\ exited' = TRUE
    /\ UNCHANGED <<heap, draft, meant, handed>>

\* Fault: an event that is still there is kept.
Faulty_produce(a) == IF localEvent = NULL THEN a ELSE localEvent

\* event_propagate_local calls LocalEvent._produce, which forgets the event
\* that is still there.
_produce(a) == a

\* LocalEvent.consume.
Faulty_consumed == localEvent

consumed == NULL

\* Event.raise: ModuleException formats the event, reads its stack trace and
\* destroys it.
Raise(h, a) == [h EXCEPT ![a] = NULL]

Raised(for, event) == [for |-> for, event |-> event, unchecked |-> unchecked]

\* A call that reports and whose result Dart does not check: the transport's
\* operations and memory_static_buffers_pop.
ReportUnchecked(formatted) ==
    /\ draft # NULL /\ draft.level = "error"
    /\ Fits(formatted)
    /\ heap' = Finished(formatted)
    /\ Done
    /\ localEvent' = _produce(Calloc)
    /\ lost' = lost \cup ({localEvent} \ {NULL})
    /\ unchecked' = call
    /\ UNCHANGED <<tasks, call, raised, exited>>

\* A call that reports and is checked: systemCheck of MODULE_ERROR_CODE or
\* of a null pointer.  What _produce forgot is lost here too.
ReportChecked(formatted) ==
    /\ draft # NULL /\ draft.level = "error"
    /\ Fits(formatted)
    /\ heap' = Raise(Finished(formatted), _produce(Calloc))
    /\ raised' = Raised(call, Finished(formatted)[_produce(Calloc)].call)
    /\ Done
    /\ localEvent' = consumed
    /\ lost' = lost \cup ({localEvent} \ {NULL})
    /\ UNCHANGED <<tasks, call, unchecked, exited>>

\* A call that returns a null pointer and reports nothing (the allocators):
\* systemCheck raises what LocalEvent holds, or ENOMEM.
NullUnreported ==
    /\ draft = NULL /\ call < MaxCalls
    /\ call' = call + 1
    /\ IF localEvent = NULL
       THEN raised' = Raised(call', call') /\ UNCHANGED <<heap, localEvent>>
       ELSE /\ raised' = Raised(call', heap[localEvent].call)
            /\ heap' = Raise(heap, localEvent)
            /\ localEvent' = consumed
    /\ UNCHANGED <<draft, meant, tasks, lost, unchecked, exited>>

\* A call that returns -errno: Event.system, and LocalEvent is left alone.
ErrnoReturned ==
    /\ draft = NULL /\ call < MaxCalls
    /\ call' = call + 1
    /\ raised' = Raised(call', call')
    /\ UNCHANGED <<heap, draft, meant, localEvent, tasks, lost, unchecked, exited>>

\* storage_get_diagnostic_event in the storage thread: the event travels in
\* the output of the task.
DiagnosticEvent(payload, formatted) ==
    /\ draft = NULL /\ HasMemory /\ call < MaxCalls
    /\ call' = call + 1
    /\ LET fields == event_put_stack_trace(storage_convert_error(payload), formatted) IN
        IF fields = Exit THEN exited' = TRUE /\ UNCHANGED <<heap, tasks>>
        ELSE /\ heap' = [heap EXCEPT ![Calloc] = [level |-> "error", call |-> call', traced |-> formatted]]
             /\ tasks' = tasks \cup {Calloc}
             /\ UNCHANGED exited
    /\ UNCHANGED <<draft, meant, localEvent, lost, unchecked, raised>>

\* ExecutorProducerExecutor.callback raises it for the call of that task.
TaskFails(a) ==
    /\ draft = NULL /\ a \in tasks
    /\ tasks' = tasks \ {a}
    /\ raised' = Raised(heap[a].call, heap[a].call)
    /\ heap' = Raise(heap, a)
    /\ UNCHANGED <<draft, meant, localEvent, lost, call, unchecked, exited>>

\* storage_say and the scheduler print: system_default_event_printer returns
\* before it destroys an event of a level that is not printed, while the
\* empty printer of a silent system destroys every event.
system_print_event(silent) ==
    /\ draft # NULL /\ draft.level # "panic"
    /\ IF ~silent /\ PrintLevel < Levels[draft.level]
       THEN Fits(FALSE) /\ heap' = Finished(FALSE) /\ lost' = lost \cup {Calloc}
       ELSE UNCHANGED <<heap, lost>>
    /\ Done
    /\ UNCHANGED <<localEvent, tasks, call, unchecked, raised, exited>>

\* raise_panic: system_default_event_raiser prints and exits, with -1 when
\* the code is not an unsigned field.
system_raise_event ==
    /\ draft # NULL /\ draft.level = "panic" /\ PrintLevel >= Levels[draft.level]
    /\ exited' = TRUE
    /\ UNCHANGED <<heap, draft, meant, handed>>

\* crash_signal_callback: prints its own event and aborts.
crash_signal_callback(signal, named, addressed) ==
    /\ exited' = TRUE
    /\ LET fields == crash_fields(signal, named, addressed) IN
        /\ draft' = [level |-> "panic", fields |-> fields]
        /\ meant' = Dictionary(fields)
    /\ UNCHANGED <<heap, handed>>

Payloads == {<<>>} \cup {<<[name |-> n, mp |-> mp]>> : n \in Name, mp \in {"MP_UINT", "MP_NIL"}}
            \cup {<<[name |-> n, mp |-> "MP_INT"], [name |-> m, mp |-> "MP_BOOL"]>> : n, m \in Name}

Next ==
    /\ ~exited
    /\ \/ Build
       \/ \E name \in Name, type \in Type : SetField(name, type) \/ GetField(name, type)
       \/ NoRoom
       \/ \E formatted \in BOOLEAN : \/ ReportUnchecked(formatted)
                                     \/ ReportChecked(formatted)
                                     \/ \E p \in Payloads : DiagnosticEvent(p, formatted)
       \/ \E a \in Address : TaskFails(a)
       \/ \E silent \in BOOLEAN : system_print_event(silent)
       \/ NullUnreported
       \/ ErrnoReturned
       \/ system_raise_event
       \/ \E signal \in {"SIGILL", "SIGBUS", "SIGFPE", "SIGSEGV"}, named, addressed \in BOOLEAN :
            crash_signal_callback(signal, named, addressed)

Spec == Init /\ [][Next]_vars
-----------------------------------------------------------------------------
(***************************************************************************)
(* Properties.                                                             *)
(***************************************************************************)
\* An event is a dictionary of at most EVENT_FIELDS_MAXIMUM fields: whatever
\* was set last for a name is what a getter of that type returns, a getter
\* of another type or name ends the process, and event_format prints every
\* name once.
FieldsAgree ==
    draft # NULL =>
        /\ Len(draft.fields) <= FieldsMaximum
        /\ {f[1] : f \in Range(event_format(draft.fields))} = DOMAIN meant
        /\ Len(event_format(draft.fields)) = Cardinality(DOMAIN meant)
        /\ \A name \in Name, type \in Type :
            (event_get(draft.fields, name, type) # Exit) <=>
                (name \in DOMAIN meant /\ meant[name] = type)

\* Every event that was handed over and not destroyed has one owner, who
\* will destroy it: the isolate's LocalEvent or a task.  No owner holds an
\* event that was destroyed.  The events nobody owns are those LocalEvent
\* forgot and those whose level is not printed.
EventsOwned ==
    LET kept == {localEvent} \ {NULL} IN
        /\ {a \in Address : heap[a] # NULL} = kept \cup tasks \cup lost
        /\ kept \cap tasks = {} /\ (kept \cup tasks) \cap lost = {}

\* The exception raised for a failing call carries the event of that call;
\* only a call whose error result was not checked can leave its event to be
\* raised for a later one, and then it is the last such call.
RaisedIsOwn ==
    raised # NULL => raised.event \in {raised.for, raised.unchecked}
=============================================================================
