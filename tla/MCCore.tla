------------------------------- MODULE MCCore -------------------------------
(* The building blocks of core and memory, one instance of each.  A         *)
(* behaviour works on one of them (part), so the states are the sum of the  *)
(* five state spaces.                                                       *)
(*                                                                          *)
(* The keys of the map share their first slot in a table of 7 (1, 8, 15) or *)
(* of 3, and the sizes make both a resize at once and one of several        *)
(* batches happen.                                                          *)
EXTENDS SimpleMap, TLC

CONSTANTS Anchor, Item, NoWalk,
          Address, FieldsMaximum, PrintLevel, Name, Type, MaxCalls, Exit,
          Module, Depends, Factories, Fork, Library, Plugged, MaxLaunches, MaxReloads,
          Input, Output, Sizes, StartCapacity, MaxBytes, NULL

VARIABLES part,
          links, lists, stale, walk,
          heap, draft, meant, localEvent, tasks, lost, call, unchecked, raised, exited,
          context, launcher, forks, library, counts,
          buffer, reserved, written, crashed

listVars == <<links, lists, stale, walk>>
eventVars == <<heap, draft, meant, localEvent, tasks, lost, call, unchecked, raised, exited>>
contextVars == <<context, launcher, forks, library, counts>>
bufferVars == <<buffer, reserved, written, crashed>>

L == INSTANCE LinkedList WITH None <- NoWalk
E == INSTANCE CoreEvents
C == INSTANCE CoreContext
B == INSTANCE MemoryBuffers

\* A head is no item, and there are finitely many items.
ASSUME ListsAssumption == Anchor \cap Item = {} /\ IsFiniteSet(Item)

\* Events and fields as native code makes them; NULL and Exit are neither.
EventLevel == {"panic", "error", "information"}
EventRecord == [level : EventLevel, call : Nat, traced : BOOLEAN]
FieldName == Name \cup {"error-kind", "code", "message", "stack-trace", "address", "signal-information"}
FieldType == Type \cup {"string", "signed", "unsigned", "address"}
Field == [name : FieldName, type : FieldType]

ASSUME EventsAssumption ==
    /\ FieldsMaximum \in Nat /\ FieldsMaximum >= 4
    /\ NULL \notin Address /\ NULL \notin EventRecord
    /\ Exit \notin Field /\ Exit \notin Seq(Field)

\* The launcher creates modules of the program and is none of the isolates that
\* fork; NULL is not the slot of a module.
ASSUME ContextAssumption ==
    /\ Factories \subseteq Seq(Module) /\ NULL \notin Nat
    /\ "launcher" \notin Fork

\* The buffers of the pools; NULL is none of them.
Area == [capacity : Nat, bytes : Seq(Nat)]
BufferRecord == [areas : Seq(Area), used : Nat, unused : Int, vectors : Nat, size : Nat]
ASSUME BuffersAssumption ==
    StartCapacity \in Nat \ {0} /\ MaxBytes \in Nat /\ Sizes \subseteq Nat /\ NULL \notin BufferRecord

MCDepends == [m \in Module |-> CASE m = "core" -> {} [] m = "executor" -> {"core"}
                              [] m = "storage" -> {"core", "executor"}]
MCFactories == {<<"core", "executor", "storage">>, <<"core", "storage", "executor">>, <<"core", "core">>}
MCHash == [k \in Key |-> k]
MCPrimeList == <<3, 7, 17>>
Symmetry == Permutations(Value)

CoreInit ==
    /\ part \in {"map", "list", "event", "context", "buffer"}
    /\ Init /\ L!Init /\ E!Init /\ C!Init /\ B!Init

CoreNext ==
    /\ UNCHANGED part
    /\ \/ part = "map" /\ Next /\ UNCHANGED <<listVars, eventVars, contextVars, bufferVars>>
       \/ part = "list" /\ L!Next /\ UNCHANGED <<vars, eventVars, contextVars, bufferVars>>
       \/ part = "event" /\ E!Next /\ UNCHANGED <<vars, listVars, contextVars, bufferVars>>
       \/ part = "context" /\ C!Next /\ UNCHANGED <<vars, listVars, eventVars, bufferVars>>
       \/ part = "buffer" /\ B!Next /\ UNCHANGED <<vars, listVars, eventVars, contextVars>>

CoreSpec == CoreInit /\ [][CoreNext]_<<part, vars, listVars, eventVars, contextVars, bufferVars>>
-----------------------------------------------------------------------------
\* Both directions of every linked_list agree and meet exactly the items the
\* calls made so far left in it, and linked_list_foreach_entry_safe meets every
\* entry though the body takes entries out of the list.
ListsInv == L!ListsInv

\* An event is a dictionary of at most EVENT_FIELDS_MAXIMUM typed fields for
\* its setters, its getters and event_format.  Every event handed over and not
\* destroyed has one owner; the events lost are those LocalEvent forgot and
\* those whose level is not printed.
EventsInv == E!FieldsAgree /\ E!EventsOwned

\* systemCheck raises the event of the failing call, or that of the last
\* call whose error result was not checked.
RaisedIsOwn == E!RaisedIsOwn

\* The containers of the context and its map agree, also after a launch that
\* was cleared, a fork restores what the launcher made, and in every isolate a
\* module is up only while its dependencies are.
ContextAgrees == C!ContextAgrees

\* The map returns no freed library; without a SIGHUP the launcher holds none,
\* and the forks none until the launcher shut the module down.
LibrariesAlive == C!LibrariesAlive

\* What was finalized in an input or an output buffer is what is read from
\* it, in order and once.
BytesKept == B!BytesKept
=============================================================================
