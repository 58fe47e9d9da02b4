---------------------------- MODULE StaticBuffers ----------------------------
(***************************************************************************)
(* The pool of fixed size buffers of the memory package: the native stack  *)
(* of free buffer ids (static_buffers.h) and the Dart object that hands    *)
(* them out (MemoryStaticBuffers in buffers.dart), with callers that wait  *)
(* for a buffer when the stack is empty.                                   *)
(*                                                                         *)
(* A client is one asynchronous call of allocate() or allocateArray()      *)
(* together with the code that later releases what it got.  Dart runs one  *)
(* piece of synchronous code at a time, so an action is what a client does *)
(* between two awaits.                                                     *)
(***************************************************************************)
EXTENDS Naturals, Sequences, FiniteSets

CONSTANTS
  Clients,     \* the concurrent callers
  Capacity,    \* the number of buffers: memory_static_buffers.capacity
  MaxCount,    \* the largest count a caller gives to allocateArray
  MaxCalls     \* bound of the model: how many calls a client makes

ASSUME CapacityAssumption == Capacity \in Nat \ {0}
ASSUME MaxCountAssumption == MaxCount \in Nat \ {0}
ASSUME MaxCallsAssumption == MaxCalls \in Nat

VARIABLES
  ids,         \* the free ids, top of the stack last; available is its length
  finalizers,  \* _finalizers: for each queued completer, the clients awaiting it
  woken,       \* clients whose awaited future completed: they wait for their turn
  step,        \* where a client is: "idle", in "allocate", or back in "array"
  want,        \* how many buffers the client's call still has to get
  held,        \* the ids the client got and has not released, in order
  calls        \* how many calls the client has made

vars == <<ids, finalizers, woken, step, want, held, calls>>

Buffers == 0 .. Capacity - 1

Steps == {"idle", "allocate", "array"}

TypeOK ==
  /\ ids \in Seq(Buffers)
  /\ finalizers \in Seq(SUBSET Clients)
  /\ woken \in SUBSET Clients
  /\ step \in [Clients -> Steps]
  /\ want \in [Clients -> Nat]
  /\ held \in [Clients -> Seq(Buffers)]
  /\ calls \in [Clients -> Nat]

-----------------------------------------------------------------------------
(* The native stack. *)

\* memory_static_buffers_create: the ids are pushed in ascending order.
Created == [i \in 1 .. Capacity |-> i - 1]

\* A bug to tell apart: pop reads the top and leaves it on the stack.
FaultyPopped(k) == ids

\* What is left of the stack, and what was taken, when get() pops k times.
Popped(k) == SubSeq(ids, 1, Len(ids) - k)
TopIds(k) == [i \in 1 .. k |-> ids[Len(ids) - i + 1]]

-----------------------------------------------------------------------------
(* The queue of completers. *)

\* allocate() found no id: it awaits the last completer, or queues a new one.
Awaited(c) ==
  IF finalizers # <<>>
  THEN [finalizers EXCEPT ![Len(finalizers)] = @ \union {c}]
  ELSE <<{c}>>

Fewest(m, n) == IF m < n THEN m ELSE n

\* The completers that k calls of release remove from the end of the queue.
Completed(k) ==
  LET n == Len(finalizers) IN n - Fewest(k, n) + 1 .. n

\* A bug to tell apart: the released id wakes nobody.
SilentWake(k) == UNCHANGED <<finalizers, woken>>

\* A bug to tell apart: a completer resumes only one of those who await it.
FaultyWake(k) ==
  /\ finalizers' = SubSeq(finalizers, 1, Len(finalizers) - Fewest(k, Len(finalizers)))
  /\ woken' = woken \union {CHOOSE c \in finalizers[i] : TRUE : i \in Completed(k)}

\* k calls of release, after the pushes: each takes the last completer of the
\* queue, if there is one, and completes it.
Wake(k) ==
  /\ finalizers' = SubSeq(finalizers, 1, Len(finalizers) - Fewest(k, Len(finalizers)))
  /\ woken' = woken \union UNION {finalizers[i] : i \in Completed(k)}

-----------------------------------------------------------------------------
(* Clients. *)

\* The loop of allocateArray (allocate() alone is a count of one) from where n
\* buffers are missing: take ids as long as there are some, else await.
Loop(c, n) ==
  LET k == Fewest(n, Len(ids)) IN
  /\ ids' = Popped(k)
  /\ held' = [held EXCEPT ![c] = @ \o TopIds(k)]
  /\ want' = [want EXCEPT ![c] = n - k]
  /\ step' = [step EXCEPT ![c] = IF k = n THEN "idle" ELSE "allocate"]
  /\ finalizers' = IF k = n THEN finalizers ELSE Awaited(c)

\* A client calls allocate() (n = 1) or allocateArray(n).
AllocateArray(c, n) ==
  /\ step[c] = "idle"
  /\ held[c] = <<>>
  /\ calls[c] < MaxCalls
  /\ calls' = [calls EXCEPT ![c] = @ + 1]
  /\ Loop(c, n)
  /\ UNCHANGED woken

\* A client whose completer completed resumes inside allocate(): it takes one
\* id and returns it to the loop of allocateArray in a later microtask, or
\* finds the stack empty again and goes back to waiting.
ResumeAllocate(c) ==
  /\ c \in woken
  /\ step[c] = "allocate"
  /\ IF ids = <<>>
     THEN /\ finalizers' = Awaited(c)
          /\ woken' = woken \ {c}
          /\ UNCHANGED <<ids, step, want, held>>
     ELSE /\ ids' = Popped(1)
          /\ held' = [held EXCEPT ![c] = @ \o TopIds(1)]
          /\ want' = [want EXCEPT ![c] = @ - 1]
          /\ step' = [step EXCEPT ![c] = IF want[c] = 1 THEN "idle" ELSE "array"]
          /\ woken' = IF want[c] = 1 THEN woken \ {c} ELSE woken
          /\ UNCHANGED finalizers
  /\ UNCHANGED calls

\* The await of allocate() in allocateArray returns: the loop goes on.
ResumeArray(c) ==
  /\ c \in woken
  /\ step[c] = "array"
  /\ woken' = woken \ {c}
  /\ Loop(c, want[c])
  /\ UNCHANGED calls

\* release(bufferId): push the id, then wake the waiters of a completer.
Release(c, i) ==
  /\ step[c] = "idle"
  /\ ids' = Append(ids, held[c][i])
  /\ held' = [held EXCEPT ![c] = SubSeq(@, 1, i - 1) \o SubSeq(@, i + 1, Len(@))]
  /\ Wake(1)
  /\ UNCHANGED <<step, want, calls>>

\* A bug to tell apart: the loop of releaseArray skips the first buffer.
FaultyReleaseArray(c) ==
  /\ step[c] = "idle"
  /\ held[c] # <<>>
  /\ ids' = ids \o Tail(held[c])
  /\ held' = [held EXCEPT ![c] = <<>>]
  /\ Wake(Len(held[c]) - 1)
  /\ UNCHANGED <<step, want, calls>>

\* releaseArray(buffers): release for every id, in one piece of code.
ReleaseArray(c) ==
  /\ step[c] = "idle"
  /\ held[c] # <<>>
  /\ ids' = ids \o held[c]
  /\ held' = [held EXCEPT ![c] = <<>>]
  /\ Wake(Len(held[c]))
  /\ UNCHANGED <<step, want, calls>>

-----------------------------------------------------------------------------
Init ==
  /\ ids = Created
  /\ finalizers = <<>>
  /\ woken = {}
  /\ step = [c \in Clients |-> "idle"]
  /\ want = [c \in Clients |-> 0]
  /\ held = [c \in Clients |-> <<>>]
  /\ calls = [c \in Clients |-> 0]

Next ==
  \E c \in Clients :
    \/ \E n \in 1 .. MaxCount : AllocateArray(c, n)
    \/ ResumeAllocate(c)
    \/ ResumeArray(c)
    \/ \E i \in 1 .. Len(held[c]) : Release(c, i)
    \/ ReleaseArray(c)

Spec == Init /\ [][Next]_vars

\* Dart's event loop runs every continuation that is due, and the callers
\* release what they got (the transport does it when the operation completes).
Fairness ==
  \A c \in Clients :
    /\ WF_vars(ResumeAllocate(c) \/ ResumeArray(c))
    /\ WF_vars(ReleaseArray(c))

LiveSpec == Spec /\ Fairness

-----------------------------------------------------------------------------
(* Properties. *)

\* No buffer is in two places: an id is at most once on the stack, a client
\* has it at most once, no two clients have it, and no client has an id that
\* is on the stack (the interleaving of get() and release() through awaits).
SingleOwner ==
  /\ \A i, j \in DOMAIN ids : ids[i] = ids[j] => i = j
  /\ \A c \in Clients : \A i, j \in DOMAIN held[c] : held[c][i] = held[c][j] => i = j
  /\ \A c \in Clients : \A i \in DOMAIN ids, j \in DOMAIN held[c] : ids[i] # held[c][j]
  /\ \A c, d \in Clients :
       c # d => \A i \in DOMAIN held[c], j \in DOMAIN held[d] : held[c][i] # held[d][j]

\* No buffer is lost: every id is on the stack or in some client's hands.
NoneLost ==
  \A b \in Buffers :
    \/ \E i \in DOMAIN ids : ids[i] = b
    \/ \E c \in Clients : \E i \in DOMAIN held[c] : held[c][i] = b

\* A completer stays in the queue only while no buffer is free, so that a
\* client left waiting can count on a later release to wake it; in particular
\* one release never leaves waiters behind on an older completer.
NoLostWaiter ==
  /\ Len(finalizers) <= 1
  /\ finalizers # <<>> => ids = <<>>

\* A client inside allocate() is known to exactly one of the two places that
\* can resume it: the completers of _finalizers or the microtask queue.
WaiterTracked ==
  \A c \in Clients :
    /\ step[c] = "allocate" <=>
         \/ c \in woken /\ step[c] # "array"
         \/ \E i \in DOMAIN finalizers : c \in finalizers[i]
    /\ step[c] = "array" => c \in woken
    /\ c \in woken => \A i \in DOMAIN finalizers : c \notin finalizers[i]

\* Nothing is lost on the way through the awaits: every id is on the stack or in
\* some client's hands, and every client inside of a call can be resumed.
NothingLost == TypeOK /\ NoneLost /\ WaiterTracked

\* Nothing can run any more although calls are outstanding.
Stalled ==
  /\ woken = {}
  /\ \E c \in Clients : step[c] # "idle"
  /\ \A c \in Clients : step[c] = "idle" => held[c] = <<>>

\* The stall of hold and wait: at least two array calls share all of the buffers
\* between them and each waits for the other's.
HoldAndWait ==
  Stalled /\ Cardinality({c \in Clients : step[c] # "idle" /\ held[c] # <<>>}) >= 2

\* Every call returns, or the pool stalls between two array calls: a release is
\* never lost on a client that waits, and neither a single waiting call nor calls
\* for one buffer each stall the pool.
CallsReturn == \A c \in Clients : step[c] # "idle" ~> step[c] = "idle" \/ HoldAndWait
=============================================================================
