-------------------------- MODULE ExecutorScheduler --------------------------
(***************************************************************************)
(* Executors and the scheduler thread (executor.c, executor.h,             *)
(* scheduler.c, executor.dart), with the broker's producers and consumers  *)
(* (broker.dart, producer.dart, consumer.dart) as the code that runs on an *)
(* executor.                                                               *)
(*                                                                         *)
(* An executor is an io_uring owned by a Dart isolate.  It is woken        *)
(* through the scheduler: a poll armed on the executor's ring fires in the *)
(* scheduler's ring, the scheduler posts a message to the isolate's port,  *)
(* and the isolate consumes its completions and asks the scheduler, by a   *)
(* message from ring to ring, to arm the poll again.  The isolates, the    *)
(* scheduler thread, the native threads that call and answer, and the      *)
(* kernel interleave; an isolate is interrupted only between two steps of  *)
(* its own, which for _awake are: begin and peek, each completion, and     *)
(* complete.                                                               *)
(***************************************************************************)
EXTENDS Integers, Sequences, FiniteSets

CONSTANTS
  Executors,    \* the executors, each owned by an isolate of its own
  RingSize,     \* configuration.ring_size: submission queue entries, batch limit
  MaxCalls,     \* bound of the model: calls an isolate makes
  MaxIncoming,  \* bound of the model: calls the native side makes to an executor
  MaxPauses     \* bound of the model: deactivations of an executor

ASSUME RingSizeAssumption == RingSize \in Nat \ {0}
ASSUME BoundsAssumption == MaxCalls \in Nat /\ MaxIncoming \in Nat /\ MaxPauses \in Nat

VARIABLES
  state,       \* executor_instance.state
  pc,          \* the isolate: "out" of _awake, in the "batch", in a consumer's "callback"
  phase,       \* of the Dart Executor: "running", "stopping" (awaits _stopper), "closed"
  sqCalls,     \* EXECUTOR_CALL entries queued in the ring and not submitted
  sqResponses, \* EXECUTOR_CALLBACK entries queued in the ring and not submitted
  cq,          \* the completion queue of the executor's ring
  taken,       \* the completions executor_peek returned and cq_advance still owes
  left,        \* those of them the processor has not seen yet
  port,        \* messages in the isolate's RawReceivePort
  armed,       \* polls armed for the executor in the scheduler's ring
  registered,  \* executors[id] of the scheduler thread is not zero
  inbox,       \* the completion queue of the scheduler's ring
  remote,      \* calls a native thread received and has not answered
  calls,       \* entries of _calls: the producer's part of _pending()
  failed,      \* those of them that an answer with an event completed
  settled,     \* calls completed, their _onComplete microtask still to run
  consuming,   \* the consumer's part of _pending()
  lost,        \* history: the executor took one of the two paths that lose its wake-up
  made, incoming, pauses   \* counters for the bounds

nativeVars == <<registered, armed, inbox>>
bounds == <<made, incoming, pauses>>
callVars == <<calls, failed, settled, consuming>>
vars == <<state, pc, phase, sqCalls, sqResponses, cq, taken, left, port,
          nativeVars, remote, callVars, lost, bounds>>

States == {"PAUSED", "IDLE", "WAKING", "STOPPING", "STOPPED"}
Completions == {"CALLBACK", "ERROR", "CALL"}
Kinds == {"POLLIN", "POLL", "REGISTER", "UNREGISTER"}
Events == [kind : Kinds, executor : Executors]

\* What the wake-up cycle is about,
WakeTypes ==
  /\ state \in [Executors -> States]
  /\ pc \in [Executors -> {"out", "batch", "callback"}]
  /\ phase \in [Executors -> {"running", "stopping", "closed"}]
  /\ port \in [Executors -> Nat]
  /\ armed \in [Executors -> Nat]
  /\ registered \in [Executors -> BOOLEAN]
  /\ inbox \in Seq(Events)
  /\ lost \in [Executors -> BOOLEAN]

\* the rings,
RingTypes ==
  /\ sqCalls \in [Executors -> Nat]
  /\ sqResponses \in [Executors -> Nat]
  /\ cq \in [Executors -> Seq(Completions)]
  /\ taken \in [Executors -> Nat]
  /\ left \in [Executors -> Nat]
  /\ remote \in [Executors -> Nat]

\* and the calls; that calls is never negative is part of CallsAccounted.
CallTypes ==
  /\ calls \in [Executors -> Int]
  /\ failed \in [Executors -> Nat]
  /\ settled \in [Executors -> Nat]
  /\ consuming \in [Executors -> Nat]
  /\ made \in [Executors -> Nat]
  /\ incoming \in [Executors -> Nat]
  /\ pauses \in [Executors -> Nat]

TypeOK == WakeTypes /\ RingTypes /\ CallTypes

-----------------------------------------------------------------------------
(* The executor's ring. *)

Fewest(m, n) == IF m < n THEN m ELSE n

Event(kind, e) == [kind |-> kind, executor |-> e]

\* io_uring_get_sqe returns NULL.
Full(e) == sqCalls[e] + sqResponses[e] >= RingSize

\* io_uring_submit: the queued calls reach the native threads' rings, the
\* responses leave the model.
Submitted(e) ==
  /\ remote' = [remote EXCEPT ![e] = @ + sqCalls[e]]
  /\ sqCalls' = [sqCalls EXCEPT ![e] = 0]
  /\ sqResponses' = [sqResponses EXCEPT ![e] = 0]

NotSubmitted == UNCHANGED <<remote, sqCalls, sqResponses>>

\* The isolate runs code of the application: outside of _awake, or in a
\* callback of a consumer that the processor called.
Application(e) == phase[e] = "running" /\ pc[e] \in {"out", "callback"}

\* A bug to tell apart: the calls of the consumers are not counted.
FaultyPending(e) == calls[e]

\* _pending() of the broker: the calls of the producers and of the consumers.
Pending(e) == calls[e] + consuming[e]

-----------------------------------------------------------------------------
(* The isolate: Executor and ExecutorBroker. *)

\* activate: the state changes before the entry for REGISTER is obtained, so
\* a full ring leaves an executor that says IDLE and is registered nowhere.
\* The application is taken to activate only what is paused and to pause only
\* what is active; the code does not test it.
Activate(e) ==
  /\ Application(e)
  /\ state[e] = "PAUSED"
  /\ state' = [state EXCEPT ![e] = "IDLE"]
  /\ IF Full(e)
     THEN /\ lost' = [lost EXCEPT ![e] = TRUE]
          /\ NotSubmitted
          /\ UNCHANGED inbox
     ELSE /\ inbox' = Append(inbox, Event("REGISTER", e))
          /\ Submitted(e)
          /\ UNCHANGED lost
  /\ UNCHANGED <<pc, phase, cq, taken, left, port, armed, registered, callVars, bounds>>

\* deactivate.  In a callback the state PAUSED does not last: _awake goes on
\* and executor_awake_complete makes it IDLE again.
Deactivate(e) ==
  /\ Application(e)
  /\ state[e] \in {"IDLE", "WAKING"}
  /\ pauses[e] < MaxPauses
  /\ pauses' = [pauses EXCEPT ![e] = @ + 1]
  /\ state' = [state EXCEPT ![e] = "PAUSED"]
  /\ lost' = [lost EXCEPT ![e] = @ \/ pc[e] = "callback"]
  /\ IF Full(e)
     THEN NotSubmitted /\ UNCHANGED inbox
     ELSE inbox' = Append(inbox, Event("UNREGISTER", e)) /\ Submitted(e)
  /\ UNCHANGED <<pc, phase, cq, taken, left, port, armed, registered, callVars,
                 made, incoming>>

\* A producer's method call: executor_call_native, which throws when the ring
\* is full and submits only in the state IDLE, then the entry in _calls.
Call(e) ==
  /\ Application(e)
  /\ made[e] < MaxCalls
  /\ made' = [made EXCEPT ![e] = @ + 1]
  /\ ~Full(e)
  /\ IF state[e] = "IDLE"
     THEN /\ remote' = [remote EXCEPT ![e] = @ + sqCalls[e] + 1]
          /\ sqCalls' = [sqCalls EXCEPT ![e] = 0]
          /\ sqResponses' = [sqResponses EXCEPT ![e] = 0]
     ELSE /\ sqCalls' = [sqCalls EXCEPT ![e] = @ + 1]
          /\ UNCHANGED <<remote, sqResponses>>
  /\ calls' = [calls EXCEPT ![e] = @ + 1]
  /\ UNCHANGED <<state, pc, phase, cq, taken, left, port, nativeVars, failed,
                 settled, consuming, lost, incoming, pauses>>

\* _onComplete of a call: a microtask, so never inside of _awake.
Settle(e) ==
  /\ pc[e] = "out" /\ phase[e] # "closed"
  /\ settled[e] > 0
  /\ settled' = [settled EXCEPT ![e] = @ - 1]
  /\ calls' = [calls EXCEPT ![e] = @ - 1]
  /\ UNCHANGED <<state, pc, phase, sqCalls, sqResponses, cq, taken, left, port,
                 nativeVars, remote, failed, consuming, lost, bounds>>

\* The future of a consumer's callback completed: _respond, then _pending--.
\* There is no response when the callback failed, and when the ring is full the
\* response is dropped with an unhandled error.
Respond(e) ==
  /\ pc[e] = "out" /\ phase[e] # "closed"
  /\ consuming[e] > 0
  /\ consuming' = [consuming EXCEPT ![e] = @ - 1]
  /\ \/ NotSubmitted
     \/ ~Full(e) /\ state[e] = "IDLE" /\ Submitted(e)
     \/ /\ ~Full(e) /\ state[e] # "IDLE"
        /\ sqResponses' = [sqResponses EXCEPT ![e] = @ + 1]
        /\ UNCHANGED <<remote, sqCalls>>
  /\ UNCHANGED <<state, pc, phase, cq, taken, left, port, nativeVars, calls,
                 failed, settled, lost, bounds>>

\* _awake on a message of the port in the states PAUSED and STOPPED: nothing,
\* or the completion of _stopper.
AwakeIgnored(e) ==
  /\ pc[e] = "out" /\ phase[e] # "closed"
  /\ port[e] > 0
  /\ state[e] \in {"PAUSED", "STOPPED"}
  /\ port' = [port EXCEPT ![e] = @ - 1]
  /\ phase' = [phase EXCEPT ![e] =
                 IF state[e] = "STOPPED" /\ @ = "stopping" THEN "closed" ELSE @]
  /\ UNCHANGED <<state, pc, sqCalls, sqResponses, cq, taken, left, nativeVars,
                 remote, callVars, lost, bounds>>

\* _awake up to executor_peek: WAKING, the message POLL, submission.  With no
\* completion executor_awake_complete follows at once.  A full ring throws out
\* of _awake and leaves the state WAKING, with no poll asked for.
AwakeBegin(e) ==
  /\ pc[e] = "out" /\ phase[e] # "closed"
  /\ port[e] > 0
  /\ state[e] \notin {"PAUSED", "STOPPED"}
  /\ port' = [port EXCEPT ![e] = @ - 1]
  /\ IF Full(e)
     THEN /\ state' = [state EXCEPT ![e] = "WAKING"]
          /\ lost' = [lost EXCEPT ![e] = TRUE]
          /\ NotSubmitted
          /\ UNCHANGED <<pc, taken, left, inbox>>
     ELSE /\ LET count == Fewest(Len(cq[e]), RingSize) IN
             /\ state' = [state EXCEPT ![e] = IF count = 0 THEN "IDLE" ELSE "WAKING"]
             /\ pc' = [pc EXCEPT ![e] = IF count = 0 THEN "out" ELSE "batch"]
             /\ taken' = [taken EXCEPT ![e] = count]
             /\ left' = [left EXCEPT ![e] = count]
          /\ inbox' = Append(inbox, Event("POLL", e))
          /\ Submitted(e)
          /\ UNCHANGED lost
  /\ UNCHANGED <<phase, cq, armed, registered, callVars, bounds>>

\* One completion of the batch in ExecutorBroker._process: the answer of a call
\* completes it (an answer with an event completes it with an error, and then
\* nothing removes it from _calls), a call runs a consumer's callback.
Process(e) ==
  /\ pc[e] \in {"batch", "callback"}
  /\ left[e] > 0
  /\ left' = [left EXCEPT ![e] = @ - 1]
  /\ LET completion == cq[e][taken[e] - left[e] + 1] IN
     /\ settled' = [settled EXCEPT ![e] = IF completion = "CALLBACK" THEN @ + 1 ELSE @]
     /\ failed' = [failed EXCEPT ![e] = IF completion = "ERROR" THEN @ + 1 ELSE @]
     /\ consuming' = [consuming EXCEPT ![e] = IF completion = "CALL" THEN @ + 1 ELSE @]
     /\ pc' = [pc EXCEPT ![e] = IF completion = "CALL" THEN "callback" ELSE "batch"]
  /\ UNCHANGED <<state, phase, sqCalls, sqResponses, cq, taken, port, nativeVars,
                 remote, calls, lost, bounds>>

\* A bug to tell apart: the queue is advanced to its end, over completions that
\* came while the batch was processed.
OvershootAwakeComplete(e) ==
  /\ pc[e] \in {"batch", "callback"}
  /\ left[e] = 0
  /\ cq' = [cq EXCEPT ![e] = <<>>]
  /\ taken' = [taken EXCEPT ![e] = 0]
  /\ Submitted(e)
  /\ state' = [state EXCEPT ![e] = "IDLE"]
  /\ pc' = [pc EXCEPT ![e] = "out"]
  /\ UNCHANGED <<phase, left, port, nativeVars, callVars, lost, bounds>>

\* executor_awake_complete and the rest of _awake, which stops the executor when it
\* is STOPPING with nothing pending: executor_unregister_from_scheduler with the state
\* STOPPED.  The test comes after executor_awake_complete, and before the microtasks
\* of the batch take its calls out of _pending().
AwakeComplete(e) ==
  LET completed == [state EXCEPT ![e] = "IDLE"]
      stop == completed[e] = "STOPPING" /\ Pending(e) = 0 IN
  /\ pc[e] \in {"batch", "callback"}
  /\ left[e] = 0
  /\ cq' = [cq EXCEPT ![e] = SubSeq(@, taken[e] + 1, Len(@))]
  /\ taken' = [taken EXCEPT ![e] = 0]
  /\ Submitted(e)
  /\ state' = IF stop THEN [completed EXCEPT ![e] = "STOPPED"] ELSE completed
  /\ inbox' = IF stop THEN Append(inbox, Event("UNREGISTER", e)) ELSE inbox
  /\ pc' = [pc EXCEPT ![e] = "out"]
  /\ UNCHANGED <<phase, left, port, armed, registered, callVars, lost, bounds>>

\* The tail of shutdown: registry entry, port and native executor are gone.
Closed(e) ==
  /\ phase' = [phase EXCEPT ![e] = "closed"]
  /\ port' = [port EXCEPT ![e] = 0]

\* shutdown: waits for _stopper if calls are pending, else destroys at once.
Shutdown(e) ==
  /\ Application(e)
  /\ state' = [state EXCEPT ![e] = "STOPPING"]
  /\ IF Pending(e) # 0
     THEN phase' = [phase EXCEPT ![e] = "stopping"] /\ UNCHANGED port
     ELSE Closed(e)
  /\ UNCHANGED <<pc, sqCalls, sqResponses, cq, taken, left, nativeVars, remote,
                 callVars, lost, bounds>>

-----------------------------------------------------------------------------
(* Native threads and the kernel. *)

\* A native thread answers a call; flags may say that the output is an event.
Answer(e) ==
  /\ remote[e] > 0
  /\ remote' = [remote EXCEPT ![e] = @ - 1]
  /\ \E completion \in {"CALLBACK", "ERROR"} :
       cq' = [cq EXCEPT ![e] = IF phase[e] = "closed" THEN @ ELSE Append(@, completion)]
  /\ UNCHANGED <<state, pc, phase, sqCalls, sqResponses, taken, left, port,
                 nativeVars, callVars, lost, bounds>>

\* executor_call_dart of a native thread.
CallDart(e) ==
  /\ phase[e] # "closed"
  /\ incoming[e] < MaxIncoming
  /\ incoming' = [incoming EXCEPT ![e] = @ + 1]
  /\ cq' = [cq EXCEPT ![e] = Append(@, "CALL")]
  /\ UNCHANGED <<state, pc, phase, sqCalls, sqResponses, taken, left, port,
                 nativeVars, remote, callVars, lost, made, pauses>>

\* The kernel completes an armed one-shot poll once the ring has a completion.
PollFires(e) ==
  /\ armed[e] > 0
  /\ cq[e] # <<>>
  /\ armed' = [armed EXCEPT ![e] = @ - 1]
  /\ inbox' = Append(inbox, Event("POLLIN", e))
  /\ UNCHANGED <<state, pc, phase, sqCalls, sqResponses, cq, taken, left, port,
                 registered, remote, callVars, lost, bounds>>

-----------------------------------------------------------------------------
(* The scheduler thread: one completion of executor_scheduler_listen. *)

\* Dart_PostInteger: a closed port refuses.
Posted(e) == port' = [port EXCEPT ![e] = IF phase[e] = "closed" THEN @ ELSE @ + 1]

Schedule(e, kind) ==
  /\ inbox # <<>>
  /\ Head(inbox) = Event(kind, e)
  /\ inbox' = Tail(inbox)
  /\ UNCHANGED <<state, pc, phase, sqCalls, sqResponses, cq, taken, left, remote,
                 callVars, lost, bounds>>

\* A bug to tell apart: an executor that is awake is not told, it is believed
\* to look at its ring anyway.
FaultySchedulePollin(e) ==
  /\ Schedule(e, "POLLIN")
  /\ IF registered[e] /\ state[e] # "WAKING" THEN Posted(e) ELSE UNCHANGED port
  /\ UNCHANGED <<armed, registered>>

\* POLLIN: the isolate of a registered executor gets a message.
SchedulePollin(e) ==
  /\ Schedule(e, "POLLIN")
  /\ IF registered[e] THEN Posted(e) ELSE UNCHANGED port
  /\ UNCHANGED <<armed, registered>>

\* POLL: the poll of a registered executor is armed again.
SchedulePoll(e) ==
  /\ Schedule(e, "POLL")
  /\ armed' = [armed EXCEPT ![e] = IF registered[e] THEN @ + 1 ELSE @]
  /\ UNCHANGED <<port, registered>>

\* A bug to tell apart: the poll is armed and the executor not remembered.
FaultyScheduleRegister(e) ==
  /\ Schedule(e, "REGISTER")
  /\ armed' = [armed EXCEPT ![e] = @ + 1]
  /\ UNCHANGED <<port, registered>>

\* REGISTER: the executor is remembered and its poll armed.
ScheduleRegister(e) ==
  /\ Schedule(e, "REGISTER")
  /\ armed' = [armed EXCEPT ![e] = @ + 1]
  /\ registered' = [registered EXCEPT ![e] = TRUE]
  /\ UNCHANGED port

\* UNREGISTER: the poll is removed if it has not fired, and the isolate gets a
\* last message.
ScheduleUnregister(e) ==
  /\ Schedule(e, "UNREGISTER")
  /\ IF registered[e]
     THEN /\ armed' = [armed EXCEPT ![e] = IF @ = 0 THEN 0 ELSE @ - 1]
          /\ registered' = [registered EXCEPT ![e] = FALSE]
          /\ Posted(e)
     ELSE UNCHANGED <<armed, registered, port>>

-----------------------------------------------------------------------------
Init ==
  /\ state = [e \in Executors |-> "PAUSED"]
  /\ pc = [e \in Executors |-> "out"]
  /\ phase = [e \in Executors |-> "running"]
  /\ sqCalls = [e \in Executors |-> 0]
  /\ sqResponses = [e \in Executors |-> 0]
  /\ cq = [e \in Executors |-> <<>>]
  /\ taken = [e \in Executors |-> 0]
  /\ left = [e \in Executors |-> 0]
  /\ port = [e \in Executors |-> 0]
  /\ armed = [e \in Executors |-> 0]
  /\ registered = [e \in Executors |-> FALSE]
  /\ inbox = <<>>
  /\ remote = [e \in Executors |-> 0]
  /\ calls = [e \in Executors |-> 0]
  /\ failed = [e \in Executors |-> 0]
  /\ settled = [e \in Executors |-> 0]
  /\ consuming = [e \in Executors |-> 0]
  /\ lost = [e \in Executors |-> FALSE]
  /\ made = [e \in Executors |-> 0]
  /\ incoming = [e \in Executors |-> 0]
  /\ pauses = [e \in Executors |-> 0]

Isolate(e) ==
  \/ Activate(e) \/ Deactivate(e) \/ Call(e) \/ Shutdown(e)
  \/ Settle(e) \/ Respond(e)
  \/ AwakeIgnored(e) \/ AwakeBegin(e) \/ Process(e) \/ AwakeComplete(e)

Native(e) == Answer(e) \/ CallDart(e) \/ PollFires(e)

Scheduler(e) ==
  SchedulePollin(e) \/ SchedulePoll(e) \/ ScheduleRegister(e) \/ ScheduleUnregister(e)

Next == \E e \in Executors : Isolate(e) \/ Native(e) \/ Scheduler(e)

Spec == Init /\ [][Next]_vars

\* The event loop delivers port messages and runs microtasks and futures, the
\* scheduler thread loops, the kernel completes polls, native threads answer.
\* Nothing forces the application to call, pause or shut down.
Fairness ==
  /\ \A e \in Executors :
       /\ WF_vars(AwakeBegin(e) \/ AwakeIgnored(e))
       /\ WF_vars(Process(e) \/ AwakeComplete(e))
       /\ WF_vars(Settle(e))
       /\ WF_vars(Respond(e))
       /\ WF_vars(PollFires(e))
       /\ WF_vars(Answer(e))
  /\ WF_vars(\E e \in Executors : Scheduler(e))

LiveSpec == Spec /\ Fairness
-----------------------------------------------------------------------------
(* Properties. *)

\* The scheduler's ring holds an event that leads to a wake-up of the executor.
Coming(e) ==
  \E i \in DOMAIN inbox :
    inbox[i].executor = e /\ inbox[i].kind \in {"POLLIN", "POLL", "REGISTER"}

\* The executor's wake-up is somewhere on its way.
WakeUp(e) == armed[e] > 0 \/ port[e] > 0 \/ Coming(e)

\* The executor takes part in the wake-up cycle: Executor.active, unless it has
\* taken one of the paths recorded in lost.
Active(e) ==
  /\ phase[e] = "running"
  /\ state[e] \in {"IDLE", "WAKING"}
  /\ ~lost[e]

\* An active executor is never forgotten: whatever the order of completions,
\* pauses, re-activations and wake-ups, something will wake it.  Only a ring
\* that is full in activate or _awake, or a deactivate from inside a consumer's
\* callback, can break the cycle (executor.c, executor.dart, scheduler.c).
NoLostWakeUp == \A e \in Executors : Active(e) => WakeUp(e)

Unregistering(e) == \E i \in DOMAIN inbox : inbox[i] = Event("UNREGISTER", e)

Reregistering(e) ==
  \E i \in DOMAIN inbox :
    /\ inbox[i] = Event("REGISTER", e)
    /\ \A j \in i + 1 .. Len(inbox) : inbox[j] # Event("UNREGISTER", e)

\* The last word of an active executor in the scheduler's ring is REGISTER:
\* an UNREGISTER of an earlier pause never outlives the activation after it.
RegistrationSettles ==
  \A e \in Executors :
    Active(e) => (registered[e] /\ ~Unregistering(e)) \/ Reregistering(e)

\* A running executor is not in the states of shutdown.
RunningStates ==
  \A e \in Executors : phase[e] = "running" => state[e] \in {"PAUSED", "IDLE", "WAKING"}

\* Only a deactivate from a callback makes an executor PAUSED inside of _awake.
PausedOutside ==
  \A e \in Executors : pc[e] # "out" /\ state[e] = "PAUSED" => lost[e]

\* The inductive invariant behind NoLostWakeUp: the events of the scheduler's
\* ring matter only in order, and PAUSED only outside of _awake.
WakeUpInv ==
  WakeTypes /\ RunningStates /\ PausedOutside /\ RegistrationSettles /\ NoLostWakeUp

\* An idle executor has nothing queued that was not submitted: calls and
\* responses issued while it was paused, stopping or awake are not forgotten.
IdleMeansSubmitted ==
  \A e \in Executors :
    state[e] = "IDLE" /\ pc[e] = "out" /\ ~lost[e] => sqCalls[e] = 0 /\ sqResponses[e] = 0

\* Answers of the executor's calls that its batch has not processed yet.
Unprocessed(e) ==
  {i \in taken[e] - left[e] + 1 .. Len(cq[e]) : cq[e][i] # "CALL"}

\* No call is lost or answered twice on its way through the two rings, the
\* batch and the microtask: every entry of _calls is in exactly one place.
CallsAccounted ==
  \A e \in Executors :
    phase[e] # "closed" =>
      calls[e] = sqCalls[e] + remote[e] + Cardinality(Unprocessed(e)) + settled[e] + failed[e]

\* One executor has one wake-up in circulation unless it was paused: duplicates
\* appear only with a deactivation, at most two for each.
WakeUps(e) ==
  armed[e] + port[e]
  + Cardinality({i \in DOMAIN inbox :
      inbox[i].executor = e /\ inbox[i].kind \in {"POLLIN", "POLL", "REGISTER"}})

FewWakeUps == \A e \in Executors : WakeUps(e) <= 1 + 2 * pauses[e]

\* Calls get on: none is lost between the rings, the batch and the microtasks,
\* nothing stays queued while the executor is idle, and a pause adds at most two
\* wake-ups to the one in circulation.
CallsInv == TypeOK /\ CallsAccounted /\ IdleMeansSubmitted /\ FewWakeUps

\* shutdown destroys no executor that is at work: whether it finds nothing pending at
\* once, from a callback in the middle of a batch too, or is told by _stopper, then no
\* call of a producer is in the ring, with a native thread, in the completion queue or
\* in a microtask, and no call of a consumer has its answer ahead of it.  _stopper is
\* completed by the state STOPPED alone, which _awake never reaches since it overwrites
\* STOPPING before it tests it: a shutdown that has to wait destroys nothing.
DestroyedAtRest ==
  \A e \in Executors : phase[e] = "closed" =>
    /\ pc[e] = "out" /\ taken[e] = 0
    /\ calls[e] = 0 /\ consuming[e] = 0
    /\ sqCalls[e] = 0 /\ remote[e] = 0 /\ settled[e] = 0 /\ failed[e] = 0
    /\ \A i \in DOMAIN cq[e] : cq[e][i] = "CALL"

\* An active executor gets to its completions: none stays in the ring for ever.
CompletionsConsumed ==
  \A e \in Executors : (cq[e] # <<>> /\ Active(e)) ~> (cq[e] = <<>> \/ ~Active(e))
=============================================================================
