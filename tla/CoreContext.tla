----------------------------- MODULE CoreContext -----------------------------
(***************************************************************************)
(* The context of the process: the table of modules the native side keeps  *)
(* (core/native/context/context.c), the launcher isolate that fills it,    *)
(* initialises the modules, runs the program and takes everything down     *)
(* (launch), the isolates that attach to it (fork), and the shared         *)
(* libraries the modules load (core/native/system/system.c).               *)
(*                                                                         *)
(* launch and fork run on different threads.  Between two awaits of        *)
(* launch another isolate may do anything; clearing the context is one     *)
(* native call per module and other isolates run between them.             *)
(***************************************************************************)
EXTENDS Integers, Sequences, FiniteSets, Functions

CONSTANTS
    Module,         \* the names of the modules
    Depends,        \* Module.dependencies
    Factories,      \* the lists of modules the program may launch
    Fork,           \* the isolates that fork
    Library,        \* addresses of struct system_library
    Plugged,        \* the module that loads a library by path (storage)
    MaxLaunches, MaxReloads,    \* bounds
    NULL

VARIABLES
    context,    \* context_instance: containers, size and the map of modules
    launcher,   \* the isolate that launches
    forks,      \* the isolates that fork
    library,    \* system_instance.libraries and the structures themselves
    counts      \* launches and reloads made so far

vars == <<context, launcher, forks, library, counts>>

Isolate == Fork \cup {"launcher"}
-----------------------------------------------------------------------------
(***************************************************************************)
(* The native table.  A container that was zeroed holds NULL.              *)
(***************************************************************************)
context_create == [containers |-> <<>>, size |-> 0, modules |-> [m \in Module |-> NULL]]

\* The container goes to the slot of the current size, whoever is there.
context_put_module(c, name) ==
    [containers |-> [i \in 1 .. c.size + 1 |-> IF i = c.size + 1 THEN name ELSE c.containers[i]],
     size |-> c.size + 1,
     modules |-> [c.modules EXCEPT ![name] = c.size + 1]]

\* The modules of a list, one call after the other.
context_put_modules(c, names) ==
    LET put[i \in 0 .. Len(names)] ==
            IF i = 0 THEN c ELSE context_put_module(put[i - 1], names[i])
    IN put[Len(names)]

\* Fault: the size is left alone.
Faulty_remove_module(c, name) ==
    IF c.modules[name] = NULL THEN c
    ELSE [c EXCEPT !.containers[c.modules[name]] = NULL, !.modules[name] = NULL]

\* The size shrinks, found or not; the slots behind it are not moved.
context_remove_module(c, name) ==
    IF c.modules[name] = NULL THEN [c EXCEPT !.size = @ - 1]
    ELSE [c EXCEPT !.containers[c.modules[name]] = NULL, !.modules[name] = NULL, !.size = @ - 1]

\* What _restore and context_load read: the first size containers.
context_load(c) == [i \in 1 .. c.size |-> c.containers[i]]

(***************************************************************************)
(* Libraries: the map holds one structure for the path of the plug-in, and *)
(* the isolates keep pointers to the structure.                            *)
(***************************************************************************)
system_library_get(l) == l.mapped

\* A library that is there is returned, without counting the holders.
system_library_load(l, new) ==
    IF system_library_get(l) # NULL THEN l
    ELSE [l EXCEPT !.mapped = new, !.live = @ \cup {new}]

\* The entry is removed by the path of the structure, which is then freed.
system_library_unload(l, old) == [mapped |-> NULL, live |-> l.live \ {old}, held |-> l.held]

Unused == Library \ (library.live \cup {library.held[i] : i \in Isolate})

\* SystemLibrary.loadByPath: the isolate keeps what it got.
LoadByPath(l, i, new) ==
    LET loaded == system_library_load(l, new) IN [loaded EXCEPT !.held[i] = loaded.mapped]

\* SystemLibrary.unload; a library that was freed already is taken as if its
\* path could still be read.
Unload(l, i) == [system_library_unload(l, l.held[i]) EXCEPT !.held[i] = NULL]

\* Fault: unfork unloads the library, as shutdown does.
Unloads(l, f) == IF l.held[f] = NULL THEN l ELSE Unload(l, f)

\* unfork leaves the library to the others, and its isolate ends.
Forget(l, f) == [l EXCEPT !.held[f] = NULL]
-----------------------------------------------------------------------------
(***************************************************************************)
(* launch.                                                                 *)
(***************************************************************************)
Idle == [pc |-> "idle", made |-> <<>>, at |-> 0, up |-> {}]

Init ==
    /\ context = context_create
    /\ launcher = Idle
    /\ forks = [f \in Fork |-> Idle]
    /\ library = [mapped |-> NULL, live |-> {}, held |-> [i \in Isolate |-> NULL]]
    /\ counts = [launches |-> 0, reloads |-> 0]

\* _Context._create throws for a module that is there or whose dependencies
\* are not.
Refused(made, m) == m \in Range(made) \/ ~(Depends[m] \subseteq Range(made))

\* How many modules of the list _create accepts before it throws.
Accepted(list) ==
    LET Bad == {i \in 1 .. Len(list) : Refused(SubSeq(list, 1, i - 1), list[i])} IN
        IF Bad = {} THEN Len(list) ELSE (CHOOSE i \in Bad : \A j \in Bad : i <= j) - 1

\* The synchronous part of launch: context_create (a table that exists is
\* kept), the factory and _create of its modules.  When it throws, _launched
\* stays true and nothing is taken back.
Launch(list) ==
    /\ launcher.pc = "idle" /\ counts.launches < MaxLaunches
    /\ LET made == SubSeq(list, 1, Accepted(list)) IN
        /\ context' = context_put_modules(context, made)
        /\ launcher' = [Idle EXCEPT !.pc = IF made = list THEN "initializing" ELSE "failed", !.made = made]
    /\ counts' = [counts EXCEPT !.launches = @ + 1]
    /\ UNCHANGED <<forks, library>>

\* One module.initialize(), awaited; the plugged module loads its library, then
\* boots.  A throw, also of the boot, ends launch where it stands.
Initialize(ok) ==
    /\ launcher.pc = "initializing" /\ launcher.at < Len(launcher.made)
    /\ LET m == launcher.made[launcher.at + 1] IN
        /\ launcher' = IF ok THEN [launcher EXCEPT !.at = @ + 1, !.up = @ \cup {m}]
                       ELSE [launcher EXCEPT !.pc = "failed"]
        /\ \/ /\ m = Plugged
              /\ \E new \in Unused : library' = LoadByPath(library, "launcher", new)
           \/ (ok => m # Plugged) /\ UNCHANGED library
    /\ UNCHANGED <<context, forks, counts>>

\* main runs and returns.
Main ==
    /\ launcher.pc = "initializing" /\ launcher.at = Len(launcher.made)
    /\ launcher' = [launcher EXCEPT !.pc = "main"]
    /\ UNCHANGED <<context, forks, library, counts>>

MainReturns ==
    /\ launcher.pc = "main"
    /\ launcher' = [launcher EXCEPT !.pc = "stopping"]
    /\ UNCHANGED <<context, forks, library, counts>>

\* The module an isolate takes down next: values.toList().reversed.
Topmost(o) == o.made[o.at]

\* One module.shutdown(), awaited, in the reverse order.
Shutdown(ok) ==
    /\ launcher.pc = "stopping" /\ launcher.at > 0
    /\ IF ~ok THEN launcher' = [launcher EXCEPT !.pc = "failed"] /\ UNCHANGED library
       ELSE /\ launcher' = [launcher EXCEPT !.at = @ - 1, !.up = @ \ {Topmost(launcher)}]
            /\ library' = IF Topmost(launcher) = Plugged /\ library.held["launcher"] # NULL
                          THEN Unload(library, "launcher") ELSE library
    /\ UNCHANGED <<context, forks, counts>>

\* module.destroy() of all, then _clear: one removal per step, in the order
\* the modules were made.
Clear ==
    /\ launcher.pc \in {"stopping", "clearing"} /\ launcher.at < Len(launcher.made)
    /\ launcher.pc = "stopping" => launcher.up = {}
    /\ context' = context_remove_module(context, launcher.made[launcher.at + 1])
    /\ launcher' = IF launcher.at + 1 = Len(launcher.made) THEN Idle
                   ELSE [launcher EXCEPT !.pc = "clearing", !.at = @ + 1]
    /\ UNCHANGED <<forks, library, counts>>
-----------------------------------------------------------------------------
(***************************************************************************)
(* fork, in another isolate.                                               *)
(***************************************************************************)
\* _Context._restore and context_load, by an isolate that main started; a
\* zeroed container makes it throw.
Restore(f) ==
    /\ forks[f].pc = "idle" /\ launcher.pc \in {"main", "stopping", "clearing"}
    /\ LET read == context_load(context) IN
        forks' = [forks EXCEPT ![f] = [pc |-> IF NULL \in Range(read) THEN "failed" ELSE "forking",
                                       made |-> read, at |-> 0, up |-> {}]]
    /\ UNCHANGED <<context, launcher, library, counts>>

\* One module.fork(), awaited.
ForkModule(f) ==
    /\ forks[f].pc = "forking" /\ forks[f].at < Len(forks[f].made)
    /\ LET m == forks[f].made[forks[f].at + 1] IN
        /\ forks' = [forks EXCEPT ![f].at = @ + 1, ![f].up = @ \cup {m}]
        /\ IF m = Plugged THEN \E new \in Unused : library' = LoadByPath(library, f, new)
                          ELSE UNCHANGED library
    /\ UNCHANGED <<context, launcher, counts>>

\* main of the fork returns.
ForkReturns(f) ==
    /\ forks[f].pc = "forking" /\ forks[f].at = Len(forks[f].made)
    /\ forks' = [forks EXCEPT ![f].pc = "unforking"]
    /\ UNCHANGED <<context, launcher, library, counts>>

\* One module.unfork(), in the reverse order; the library is forgotten, not
\* unloaded.
Unfork(f) ==
    /\ forks[f].pc = "unforking"
    /\ IF forks[f].at = 0
       THEN forks' = [forks EXCEPT ![f] = Idle] /\ UNCHANGED library
       ELSE /\ forks' = [forks EXCEPT ![f].at = @ - 1, ![f].up = @ \ {Topmost(forks[f])}]
            /\ library' = IF Topmost(forks[f]) = Plugged THEN Forget(library, f) ELSE library
    /\ UNCHANGED <<context, launcher, counts>>

\* SIGHUP: every isolate that has the plugged module reloads its library,
\* unload and loadByPath.  A structure that was freed is not followed here.
Reload(i) ==
    /\ counts.reloads < MaxReloads
    /\ library.held[i] \in library.live
    /\ \E new \in Unused : library' = LoadByPath(Unload(library, i), i, new)
    /\ counts' = [counts EXCEPT !.reloads = @ + 1]
    /\ UNCHANGED <<context, launcher, forks>>

Next ==
    \/ \E list \in Factories : Launch(list)
    \/ \E ok \in BOOLEAN : Initialize(ok) \/ Shutdown(ok)
    \/ Main \/ MainReturns \/ Clear
    \/ \E f \in Fork : Restore(f) \/ ForkModule(f) \/ ForkReturns(f) \/ Unfork(f)
    \/ \E i \in Isolate : Reload(i)

Spec == Init /\ [][Next]_vars
-----------------------------------------------------------------------------
(***************************************************************************)
(* Properties.                                                             *)
(***************************************************************************)
\* The slot of a module is its own: outside of _clear the containers below
\* the size are exactly the modules of the map, in the order they were put,
\* also after a launch that was cleared; and what a fork restored while main
\* ran is what the launcher made.
SlotsAgree ==
    /\ launcher.pc # "clearing" =>
        /\ context.size = Len(launcher.made)
        /\ \A i \in 1 .. context.size : context.containers[i] = launcher.made[i]
        /\ \A m \in Module : (context.modules[m] # NULL) <=> (m \in Range(launcher.made))
    /\ \A m \in Module : context.modules[m] # NULL => context.containers[context.modules[m]] = m
    /\ \A f \in Fork : forks[f].pc # "idle" /\ launcher.pc = "main" /\ counts.launches = 1 =>
        forks[f].made = launcher.made

\* A module is up only while the modules it depends on are: initialize and
\* fork go up the list, shutdown and unfork down, in every isolate, and the
\* list was accepted only in an order the dependencies allow.
DependenciesUp ==
    /\ \A m \in launcher.up : Depends[m] \subseteq launcher.up
    /\ \A f \in Fork : \A m \in forks[f].up : Depends[m] \subseteq forks[f].up

\* The isolates share the one structure of a path, and nobody counts them.  Whoever
\* unloads it, the map does not return a freed library.  Only a SIGHUP takes the
\* library away under the launcher, and under the forks of the first launch only a
\* SIGHUP or the shutdown of the launcher, which does not wait for them: a fork
\* that ends takes it from nobody.
LibrariesAlive ==
    /\ library.mapped # NULL => library.mapped \in library.live
    /\ counts.reloads = 0 =>
        /\ library.held["launcher"] # NULL => library.held["launcher"] \in library.live
        /\ counts.launches = 1 /\ Plugged \in launcher.up =>
            \A f \in Fork : library.held[f] # NULL => library.held[f] \in library.live

\* What a module finds when it runs, in the launcher and in forks: its own slot, and
\* below it all it depends on.
ContextAgrees == SlotsAgree /\ DependenciesUp
=============================================================================
