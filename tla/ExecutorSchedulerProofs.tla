----------------------- MODULE ExecutorSchedulerProofs -----------------------
(***************************************************************************)
(* Proofs about ExecutorScheduler for every set of executors, every ring   *)
(* size and every bound: an active executor always has a wake-up on its    *)
(* way, and no call is lost or answered twice, whatever the interleaving   *)
(* of isolates, native threads, scheduler and kernel.                      *)
(***************************************************************************)
EXTENDS ExecutorScheduler, ThreadLifecycle, FiniteSetTheorems, TLAPS

-----------------------------------------------------------------------------
(* Facts about functions and about the scheduler's ring. *)

\* An update with a value of the codomain keeps the type of a function.
LEMMA Updated ==
  ASSUME NEW S, NEW T, NEW f \in [S -> T], NEW s \in S, NEW t \in T
  PROVE  [f EXCEPT ![s] = t] \in [S -> T]
  OBVIOUS

\* A message or a poll completion added to the scheduler's ring keeps its type.
LEMMA AppendEvent ==
  ASSUME NEW e \in Executors, NEW k \in Kinds, NEW box \in Seq(Events)
  PROVE  Append(box, Event(k, e)) \in Seq(Events)
  BY DEF Event, Events

\* An event added at the end hides no event that was there; only UNREGISTER
\* disturbs the standing of its executor.
LEMMA AppendKeeps ==
  ASSUME inbox \in Seq(Events),
         NEW k \in Kinds, NEW e \in Executors, NEW f \in Executors,
         inbox' = Append(inbox, Event(k, e))
  PROVE  /\ Coming(f) => Coming(f)'
         /\ k # "UNREGISTER" \/ f # e =>
              /\ Unregistering(f)' => Unregistering(f)
              /\ Reregistering(f) => Reregistering(f)'
<1>1. /\ Len(inbox) \in Nat
      /\ DOMAIN inbox = 1 .. Len(inbox)
      /\ DOMAIN inbox' = 1 .. Len(inbox) + 1
      /\ Len(inbox') = Len(inbox) + 1
      /\ \A i \in 1 .. Len(inbox) : inbox'[i] = inbox[i]
      /\ inbox'[Len(inbox) + 1] = Event(k, e)
  BY AppendEvent
<1>2. Coming(f) => Coming(f)'
  BY <1>1 DEF Coming
<1>3. k # "UNREGISTER" \/ f # e => Event(k, e) # Event("UNREGISTER", f)
  BY DEF Event
<1>4. k # "UNREGISTER" \/ f # e => (Unregistering(f)' => Unregistering(f))
  BY <1>1, <1>3 DEF Unregistering
<1>5. ASSUME k # "UNREGISTER" \/ f # e, Reregistering(f)
      PROVE  Reregistering(f)'
  <2>1. PICK i \in DOMAIN inbox :
          /\ inbox[i] = Event("REGISTER", f)
          /\ \A j \in i + 1 .. Len(inbox) : inbox[j] # Event("UNREGISTER", f)
    BY <1>5 DEF Reregistering
  <2>2. i \in DOMAIN inbox' /\ inbox'[i] = Event("REGISTER", f)
    BY <1>1, <2>1
  <2>3. ASSUME NEW j \in i + 1 .. Len(inbox')
        PROVE  inbox'[j] # Event("UNREGISTER", f)
    <3>1. j \in i + 1 .. Len(inbox) \/ j = Len(inbox) + 1
      BY <1>1, <2>1
    <3>2. QED
      BY <3>1, <2>1, <1>1, <1>3, <1>5
  <2>4. QED
    BY <2>2, <2>3 DEF Reregistering
<1>6. QED
  BY <1>2, <1>4, <1>5

\* A poll request, a poll completion or a registration that was just added will
\* wake its executor; a registration also settles its standing.
LEMMA AppendAdds ==
  ASSUME inbox \in Seq(Events), NEW e \in Executors,
         NEW k \in {"POLLIN", "POLL", "REGISTER"},
         inbox' = Append(inbox, Event(k, e))
  PROVE  /\ Coming(e)'
         /\ k = "REGISTER" => Reregistering(e)'
<1>1. /\ Len(inbox) \in Nat
      /\ DOMAIN inbox' = 1 .. Len(inbox) + 1
      /\ Len(inbox') = Len(inbox) + 1
      /\ inbox'[Len(inbox) + 1] = Event(k, e)
  BY AppendEvent DEF Kinds
<1>2. Event(k, e).executor = e /\ Event(k, e).kind = k
  BY DEF Event
<1>3. Len(inbox) + 1 \in DOMAIN inbox'
  BY <1>1
<1>4. Coming(e)'
  BY <1>1, <1>2, <1>3 DEF Coming
<1>5. \A j \in (Len(inbox) + 1) + 1 .. Len(inbox') : FALSE
  BY <1>1
<1>6. k = "REGISTER" => Reregistering(e)'
  BY <1>1, <1>3, <1>5 DEF Reregistering
<1>7. QED
  BY <1>4, <1>6

\* The scheduler takes the first event: all other events stay, in their order.
LEMMA TailKeeps ==
  ASSUME inbox \in Seq(Events), inbox # <<>>,
         NEW k \in Kinds, NEW e \in Executors, NEW f \in Executors,
         Head(inbox) = Event(k, e), inbox' = Tail(inbox)
  PROVE  /\ Unregistering(f)' => Unregistering(f)
         /\ Coming(f) /\ f # e => Coming(f)'
         /\ Reregistering(f) /\ (k # "REGISTER" \/ f # e) => Reregistering(f)'
         /\ Reregistering(f) => Reregistering(f)' \/ ~Unregistering(f)'
<1>1. /\ Len(inbox) \in Nat
      /\ Len(inbox) > 0
      /\ DOMAIN inbox = 1 .. Len(inbox)
      /\ DOMAIN inbox' = 1 .. Len(inbox) - 1
      /\ Len(inbox') = Len(inbox) - 1
      /\ \A i \in 1 .. Len(inbox) - 1 : inbox'[i] = inbox[i + 1]
      /\ inbox[1] = Event(k, e)
  OBVIOUS
<1>2. Unregistering(f)' => Unregistering(f)
  BY <1>1 DEF Unregistering
<1>3. /\ f # e => Event(k, e).executor # f
      /\ k # "REGISTER" \/ f # e => Event(k, e) # Event("REGISTER", f)
  BY DEF Event
<1>4. \A i \in DOMAIN inbox : i = 1 \/ (i - 1 \in DOMAIN inbox' /\ inbox'[i - 1] = inbox[i])
  BY <1>1
<1>5. Coming(f) /\ f # e => Coming(f)'
  BY <1>1, <1>3, <1>4 DEF Coming
<1>6. ASSUME Reregistering(f)
      PROVE  /\ k # "REGISTER" \/ f # e => Reregistering(f)'
             /\ Reregistering(f)' \/ ~Unregistering(f)'
  <2>1. PICK i \in DOMAIN inbox :
          /\ inbox[i] = Event("REGISTER", f)
          /\ \A j \in i + 1 .. Len(inbox) : inbox[j] # Event("UNREGISTER", f)
    BY <1>6 DEF Reregistering
  <2>2. ASSUME NEW j \in i .. Len(inbox')
        PROVE  inbox'[j] # Event("UNREGISTER", f)
    <3>1. j \in 1 .. Len(inbox) - 1 /\ j + 1 \in i + 1 .. Len(inbox)
      BY <1>1, <2>1
    <3>2. QED
      BY <3>1, <1>1, <2>1
  <2>3. CASE i = 1
    <3>1. ~Unregistering(f)'
      BY <2>2, <2>3, <1>1 DEF Unregistering
    <3>2. QED
      BY <3>1, <2>3, <2>1, <1>1, <1>3
  <2>4. CASE i # 1
    <3>1. i - 1 \in DOMAIN inbox' /\ inbox'[i - 1] = Event("REGISTER", f)
      BY <1>4, <2>1, <2>4
    <3>2. \A j \in (i - 1) + 1 .. Len(inbox') : inbox'[j] # Event("UNREGISTER", f)
      BY <2>2, <2>1, <1>1
    <3>3. QED
      BY <3>1, <3>2 DEF Reregistering
  <2>5. QED
    BY <2>3, <2>4
<1>7. QED
  BY <1>2, <1>5, <1>6

\* A registration on its way is a wake-up on its way.
LEMMA ReregisteringComes ==
  ASSUME NEW f \in Executors, Reregistering(f)
  PROVE  Coming(f)
<1>1. Event("REGISTER", f).executor = f /\ Event("REGISTER", f).kind = "REGISTER"
  BY DEF Event
<1>2. QED
  BY <1>1 DEF Reregistering, Coming

-----------------------------------------------------------------------------
(* What the inductive invariant says of one executor. *)

Good(f) ==
  /\ phase[f] = "running" => state[f] \in {"PAUSED", "IDLE", "WAKING"}
  /\ pc[f] # "out" /\ state[f] = "PAUSED" => lost[f]
  /\ Active(f) => (registered[f] /\ ~Unregistering(f)) \/ Reregistering(f)
  /\ Active(f) => WakeUp(f)

\* The state that an executor does not share with the others.
Local(f) == <<state[f], phase[f], pc[f], lost[f], port[f], armed[f], registered[f]>>

\* The invariant of an executor is not disturbed by an event of another one
\* that is added to or taken from the scheduler's ring.
LEMMA OthersKeep ==
  ASSUME WakeTypes, NEW e \in Executors, NEW f \in Executors, f # e, Good(f),
         UNCHANGED Local(f),
         \/ UNCHANGED inbox
         \/ \E k \in Kinds : inbox' = Append(inbox, Event(k, e))
         \/ \E k \in Kinds : /\ inbox # <<>> /\ Head(inbox) = Event(k, e)
                             /\ inbox' = Tail(inbox)
  PROVE  Good(f)'
<1>1. inbox \in Seq(Events)
  BY DEF WakeTypes
<1>2. /\ Coming(f) => Coming(f)'
      /\ Unregistering(f)' => Unregistering(f)
      /\ Reregistering(f) => Reregistering(f)'
  <2>1. CASE UNCHANGED inbox
    BY <2>1 DEF Coming, Unregistering, Reregistering
  <2>2. CASE \E k \in Kinds : inbox' = Append(inbox, Event(k, e))
    BY <2>2, <1>1, AppendKeeps
  <2>3. CASE \E k \in Kinds : /\ inbox # <<>> /\ Head(inbox) = Event(k, e)
                              /\ inbox' = Tail(inbox)
    BY <2>3, <1>1, TailKeeps
  <2>4. QED
    BY <2>1, <2>2, <2>3
<1>3. /\ state'[f] = state[f] /\ phase'[f] = phase[f] /\ pc'[f] = pc[f]
      /\ lost'[f] = lost[f] /\ port'[f] = port[f] /\ armed'[f] = armed[f]
      /\ registered'[f] = registered[f]
  BY DEF Local
<1>4. QED
  BY <1>2, <1>3 DEF Good, Active, WakeUp

\* Nor by a step of the executor itself that leaves the cycle alone.
LEMMA QuietKeeps ==
  ASSUME NEW f \in Executors, Good(f), UNCHANGED Local(f), UNCHANGED inbox
  PROVE  Good(f)'
<1>1. /\ Coming(f) <=> Coming(f)'
      /\ Unregistering(f) <=> Unregistering(f)'
      /\ Reregistering(f) <=> Reregistering(f)'
  BY DEF Coming, Unregistering, Reregistering
<1>2. /\ state'[f] = state[f] /\ phase'[f] = phase[f] /\ pc'[f] = pc[f]
      /\ lost'[f] = lost[f] /\ port'[f] = port[f] /\ armed'[f] = armed[f]
      /\ registered'[f] = registered[f]
  BY DEF Local
<1>3. QED
  BY <1>1, <1>2 DEF Good, Active, WakeUp

-----------------------------------------------------------------------------
(* The steps of an isolate. *)

\* activate registers the executor, or records that it could not.
LEMMA ActivateKeeps ==
  ASSUME WakeTypes, NEW e \in Executors, NEW f \in Executors, Good(f), Activate(e)
  PROVE  WakeTypes' /\ Good(f)'
<1>1. /\ state' = [state EXCEPT ![e] = "IDLE"]
      /\ UNCHANGED <<phase, pc, port, armed, registered>>
      /\ \/ lost' = [lost EXCEPT ![e] = TRUE] /\ inbox' = inbox
         \/ lost' = lost /\ inbox' = Append(inbox, Event("REGISTER", e))
  BY DEF Activate
<1>2. "REGISTER" \in Kinds /\ "IDLE" \in States /\ TRUE \in BOOLEAN
  BY DEF Kinds, States
<1>3. /\ inbox \in Seq(Events) /\ state \in [Executors -> States]
      /\ lost \in [Executors -> BOOLEAN]
  BY DEF WakeTypes
<1>4. inbox' \in Seq(Events)
  BY <1>1, <1>2, <1>3, AppendEvent
<1>5. state' \in [Executors -> States] /\ lost' \in [Executors -> BOOLEAN]
  BY <1>1, <1>2, <1>3, Updated
<1>6. WakeTypes'
  BY <1>1, <1>4, <1>5 DEF WakeTypes
<1>7. CASE f # e
  <2>1. UNCHANGED Local(f)
    BY <1>1, <1>3, <1>7 DEF Local
  <2>2. QED
    BY <2>1, <1>1, <1>2, <1>6, <1>7, OthersKeep
<1>8. CASE f = e
  <2>1. state'[f] = "IDLE"
    BY <1>1, <1>3, <1>8
  <2>2. CASE lost' = [lost EXCEPT ![e] = TRUE]
    <3>1. lost'[f]
      BY <2>2, <1>3, <1>8
    <3>2. QED
      BY <3>1, <2>1, <1>6 DEF Good, Active
  <2>3. CASE inbox' = Append(inbox, Event("REGISTER", e))
    <3>1. Coming(f)' /\ Reregistering(f)'
      BY <2>3, <1>3, <1>8, AppendAdds
    <3>2. QED
      BY <3>1, <2>1, <1>6 DEF Good, Active, WakeUp
  <2>4. QED
    BY <2>2, <2>3, <1>1
<1>9. QED
  BY <1>6, <1>7, <1>8

\* deactivate makes the executor PAUSED and, from a callback, records it.
LEMMA DeactivateKeeps ==
  ASSUME WakeTypes, NEW e \in Executors, NEW f \in Executors, Good(f), Deactivate(e)
  PROVE  WakeTypes' /\ Good(f)'
<1>1. /\ state' = [state EXCEPT ![e] = "PAUSED"]
      /\ lost' = [lost EXCEPT ![e] = lost[e] \/ pc[e] = "callback"]
      /\ UNCHANGED <<phase, pc, port, armed, registered>>
      /\ inbox' = inbox \/ inbox' = Append(inbox, Event("UNREGISTER", e))
      /\ pc[e] \in {"out", "callback"}
  BY DEF Deactivate, Application
<1>2. "UNREGISTER" \in Kinds /\ "PAUSED" \in States
  BY DEF Kinds, States
<1>3. /\ inbox \in Seq(Events) /\ state \in [Executors -> States]
      /\ lost \in [Executors -> BOOLEAN]
  BY DEF WakeTypes
<1>4. inbox' \in Seq(Events)
  BY <1>1, <1>2, <1>3, AppendEvent
<1>5. state' \in [Executors -> States] /\ lost' \in [Executors -> BOOLEAN]
  BY <1>1, <1>2, <1>3, Updated
<1>6. WakeTypes'
  BY <1>1, <1>4, <1>5 DEF WakeTypes
<1>7. CASE f # e
  <2>1. UNCHANGED Local(f)
    BY <1>1, <1>3, <1>7 DEF Local
  <2>2. QED
    BY <2>1, <1>1, <1>2, <1>6, <1>7, OthersKeep
<1>8. CASE f = e
  <2>1. state'[f] = "PAUSED" /\ (pc'[f] # "out" => lost'[f])
    BY <1>1, <1>3, <1>8
  <2>2. QED
    BY <2>1, <1>6 DEF Good, Active
<1>9. QED
  BY <1>6, <1>7, <1>8

\* Calls, answers and responses leave the cycle alone.
LEMMA CallsKeep ==
  ASSUME WakeTypes, NEW e \in Executors, NEW f \in Executors, Good(f),
         Call(e) \/ Settle(e) \/ Respond(e) \/ Answer(e) \/ CallDart(e)
  PROVE  WakeTypes' /\ Good(f)'
<1>1. UNCHANGED <<state, phase, pc, lost, port, armed, registered, inbox>>
  BY DEF Call, Settle, Respond, Answer, CallDart, nativeVars
<1>2. UNCHANGED Local(f) /\ UNCHANGED inbox
  BY <1>1 DEF Local
<1>3. WakeTypes'
  BY <1>1 DEF WakeTypes
<1>4. QED
  BY <1>2, <1>3, QuietKeeps

\* A wake-up that finds the executor paused or stopped is dropped.
LEMMA AwakeIgnoredKeeps ==
  ASSUME WakeTypes, NEW e \in Executors, NEW f \in Executors, Good(f), AwakeIgnored(e)
  PROVE  WakeTypes' /\ Good(f)'
<1>1. /\ UNCHANGED <<state, pc, lost, armed, registered, inbox>>
      /\ port[e] > 0 /\ port' = [port EXCEPT ![e] = port[e] - 1]
      /\ state[e] \in {"PAUSED", "STOPPED"}
      /\ \/ phase' = phase
         \/ phase' = [phase EXCEPT ![e] = "closed"]
  BY DEF AwakeIgnored, nativeVars, WakeTypes
<1>2. /\ port \in [Executors -> Nat] /\ port[e] - 1 \in Nat
      /\ phase \in [Executors -> {"running", "stopping", "closed"}]
  BY <1>1 DEF WakeTypes
<1>3. /\ port' \in [Executors -> Nat]
      /\ phase' \in [Executors -> {"running", "stopping", "closed"}]
  BY <1>1, <1>2, Updated
<1>4. WakeTypes'
  BY <1>1, <1>3 DEF WakeTypes
<1>5. CASE f # e
  <2>1. UNCHANGED Local(f)
    BY <1>1, <1>2, <1>5 DEF Local
  <2>2. QED
    BY <2>1, <1>1, <1>4, <1>5, OthersKeep
<1>6. CASE f = e
  <2>1. /\ ~Active(f)' /\ state'[f] = state[f] /\ pc'[f] = pc[f] /\ lost'[f] = lost[f]
        /\ phase'[f] = "running" => phase[f] = "running"
    BY <1>1, <1>2, <1>6 DEF Active
  <2>2. QED
    BY <2>1, <1>4 DEF Good
<1>7. QED
  BY <1>4, <1>5, <1>6

\* _awake asks for a new poll before it looks at the completions.
LEMMA AwakeBeginKeeps ==
  ASSUME WakeTypes, NEW e \in Executors, NEW f \in Executors, Good(f), AwakeBegin(e)
  PROVE  WakeTypes' /\ Good(f)'
<1>1. /\ port[e] > 0 /\ port' = [port EXCEPT ![e] = port[e] - 1]
      /\ pc[e] = "out"
      /\ state[e] \notin {"PAUSED", "STOPPED"}
      /\ UNCHANGED <<phase, armed, registered>>
  BY DEF AwakeBegin
<1>2. \/ /\ lost' = [lost EXCEPT ![e] = TRUE] /\ inbox' = inbox
         /\ state' = [state EXCEPT ![e] = "WAKING"] /\ pc' = pc
      \/ /\ lost' = lost /\ inbox' = Append(inbox, Event("POLL", e))
         /\ \E s \in {"IDLE", "WAKING"} : state' = [state EXCEPT ![e] = s]
         /\ \E p \in {"out", "batch"} : pc' = [pc EXCEPT ![e] = p]
  BY DEF AwakeBegin
<1>3. /\ inbox \in Seq(Events) /\ state \in [Executors -> States]
      /\ lost \in [Executors -> BOOLEAN] /\ port \in [Executors -> Nat]
      /\ pc \in [Executors -> {"out", "batch", "callback"}]
      /\ port[e] - 1 \in Nat
  BY <1>1 DEF WakeTypes
<1>4. "POLL" \in Kinds /\ {"IDLE", "WAKING"} \subseteq States /\ TRUE \in BOOLEAN
  BY DEF Kinds, States
<1>5. inbox' \in Seq(Events)
  <2>1. inbox' = inbox \/ inbox' = Append(inbox, Event("POLL", e))
    BY <1>2
  <2>2. inbox \in Seq(Events) /\ "POLL" \in Kinds
    BY <1>3, <1>4
  <2>3. QED
    BY <2>1, <2>2, AppendEvent
<1>6. state' \in [Executors -> States]
  <2>1. PICK s \in {"IDLE", "WAKING"} : state' = [state EXCEPT ![e] = s]
    BY <1>2
  <2>2. s \in States /\ state \in [Executors -> States]
    BY <1>3, <1>4
  <2>3. QED
    BY <2>1, <2>2, Updated
<1>7. pc' \in [Executors -> {"out", "batch", "callback"}]
  BY <1>2, <1>3, Updated
<1>8. lost' \in [Executors -> BOOLEAN] /\ port' \in [Executors -> Nat]
  BY <1>1, <1>2, <1>3, <1>4, Updated
<1>9. WakeTypes'
  BY <1>1, <1>5, <1>6, <1>7, <1>8 DEF WakeTypes
<1>10. CASE f # e
  <2>1. state'[f] = state[f] /\ pc'[f] = pc[f] /\ lost'[f] = lost[f]
    BY <1>2, <1>3, <1>10
  <2>2. UNCHANGED Local(f)
    BY <2>1, <1>1, <1>3, <1>10 DEF Local
  <2>3. QED
    BY <2>2, <1>2, <1>4, <1>9, <1>10, OthersKeep
<1>11. CASE f = e
  <2>1. state'[f] \in {"IDLE", "WAKING"}
    BY <1>2, <1>3, <1>11
  <2>2. CASE lost' = [lost EXCEPT ![e] = TRUE]
    <3>1. lost'[f]
      BY <2>2, <1>3, <1>11
    <3>2. QED
      BY <3>1, <2>1, <1>9 DEF Good, Active
  <2>3. CASE lost' = lost /\ inbox' = Append(inbox, Event("POLL", e))
    <3>1. Coming(f)'
      BY <2>3, <1>3, <1>11, AppendAdds
    <3>2. /\ Unregistering(f)' => Unregistering(f)
          /\ Reregistering(f) => Reregistering(f)'
      BY <2>3, <1>3, <1>4, <1>11, AppendKeeps
    <3>3. Active(f)' => Active(f)
      BY <2>3, <1>1, <1>11 DEF Good, Active
    <3>4. registered'[f] = registered[f]
      BY <1>1
    <3>5. QED
      BY <3>1, <3>2, <3>3, <3>4, <2>1, <1>9 DEF Good, WakeUp
  <2>4. QED
    BY <2>2, <2>3, <1>2
<1>12. QED
  BY <1>9, <1>10, <1>11

\* The processor only moves between a completion and a callback.
LEMMA ProcessKeeps ==
  ASSUME WakeTypes, NEW e \in Executors, NEW f \in Executors, Good(f), Process(e)
  PROVE  WakeTypes' /\ Good(f)'
<1>1. /\ UNCHANGED <<state, phase, lost, port, armed, registered, inbox>>
      /\ pc[e] \in {"batch", "callback"}
      /\ \E p \in {"batch", "callback"} : pc' = [pc EXCEPT ![e] = p]
  BY DEF Process, nativeVars
<1>2. pc \in [Executors -> {"out", "batch", "callback"}]
  BY DEF WakeTypes
<1>3. pc' \in [Executors -> {"out", "batch", "callback"}]
  BY <1>1, <1>2, Updated
<1>4. WakeTypes'
  BY <1>1, <1>3 DEF WakeTypes
<1>5. CASE f # e
  <2>1. UNCHANGED Local(f)
    BY <1>1, <1>2, <1>5 DEF Local
  <2>2. QED
    BY <2>1, <1>1, <1>4, <1>5, OthersKeep
<1>6. CASE f = e
  <2>1. pc[f] # "out"
    BY <1>1, <1>6
  <2>2. /\ Active(f)' <=> Active(f)
        /\ WakeUp(f)' <=> WakeUp(f)
        /\ Unregistering(f)' <=> Unregistering(f)
        /\ Reregistering(f)' <=> Reregistering(f)
    BY <1>1 DEF Active, WakeUp, Coming, Unregistering, Reregistering
  <2>3. QED
    BY <2>1, <2>2, <1>1, <1>4 DEF Good
<1>7. QED
  BY <1>4, <1>5, <1>6

\* What a step of AwakeComplete does: the test for STOPPING follows the assignment of
\* IDLE, so the branch that unregisters the executor is not taken.
Completes(e) ==
  /\ pc[e] \in {"batch", "callback"}
  /\ left[e] = 0
  /\ cq' = [cq EXCEPT ![e] = SubSeq(@, taken[e] + 1, Len(@))]
  /\ taken' = [taken EXCEPT ![e] = 0]
  /\ Submitted(e)
  /\ state' = [state EXCEPT ![e] = "IDLE"]
  /\ pc' = [pc EXCEPT ![e] = "out"]
  /\ UNCHANGED <<phase, left, port, nativeVars, callVars, lost, bounds>>

LEMMA AwakeCompleteIs ==
  ASSUME WakeTypes, NEW e \in Executors, AwakeComplete(e)
  PROVE  Completes(e)
<1>1. [state EXCEPT ![e] = "IDLE"][e] # "STOPPING"
  BY DEF WakeTypes
<1>2. QED
  BY <1>1 DEF AwakeComplete, Completes, nativeVars

\* executor_awake_complete says IDLE: the executor was active before, unless
\* it was deactivated in a callback, which lost records.
LEMMA AwakeCompleteKeeps ==
  ASSUME WakeTypes, NEW e \in Executors, NEW f \in Executors, Good(f), AwakeComplete(e)
  PROVE  WakeTypes' /\ Good(f)'
<1>1. /\ UNCHANGED <<phase, lost, port, armed, registered, inbox>>
      /\ pc[e] \in {"batch", "callback"}
      /\ pc' = [pc EXCEPT ![e] = "out"]
      /\ state' = [state EXCEPT ![e] = "IDLE"]
  BY AwakeCompleteIs DEF Completes, nativeVars
<1>2. /\ pc \in [Executors -> {"out", "batch", "callback"}]
      /\ state \in [Executors -> States] /\ "IDLE" \in States
  BY DEF WakeTypes, States
<1>3. /\ pc' \in [Executors -> {"out", "batch", "callback"}]
      /\ state' \in [Executors -> States]
  BY <1>1, <1>2, Updated
<1>4. WakeTypes'
  BY <1>1, <1>3 DEF WakeTypes
<1>5. CASE f # e
  <2>1. UNCHANGED Local(f)
    BY <1>1, <1>2, <1>5 DEF Local
  <2>2. QED
    BY <2>1, <1>1, <1>4, <1>5, OthersKeep
<1>6. CASE f = e
  <2>1. state'[f] = "IDLE" /\ pc'[f] = "out"
    BY <1>1, <1>2, <1>6
  <2>2. Active(f)' => Active(f)
    BY <1>1, <1>6 DEF Good, Active
  <2>3. /\ WakeUp(f)' <=> WakeUp(f)
        /\ Unregistering(f)' <=> Unregistering(f)
        /\ Reregistering(f)' <=> Reregistering(f)
    BY <1>1 DEF WakeUp, Coming, Unregistering, Reregistering
  <2>4. QED
    BY <2>1, <2>2, <2>3, <1>1, <1>4 DEF Good
<1>7. QED
  BY <1>4, <1>5, <1>6

\* shutdown takes the executor out of the cycle.
LEMMA ShutdownKeeps ==
  ASSUME WakeTypes, NEW e \in Executors, NEW f \in Executors, Good(f), Shutdown(e)
  PROVE  WakeTypes' /\ Good(f)'
<1>1. /\ UNCHANGED <<pc, lost, armed, registered, inbox>>
      /\ state' = [state EXCEPT ![e] = "STOPPING"]
      /\ \E p \in {"stopping", "closed"} : phase' = [phase EXCEPT ![e] = p]
      /\ port' = port \/ port' = [port EXCEPT ![e] = 0]
  BY DEF Shutdown, Closed, nativeVars
<1>2. /\ phase \in [Executors -> {"running", "stopping", "closed"}]
      /\ state \in [Executors -> States] /\ "STOPPING" \in States
      /\ port \in [Executors -> Nat]
  BY DEF WakeTypes, States
<1>3. /\ phase' \in [Executors -> {"running", "stopping", "closed"}]
      /\ state' \in [Executors -> States]
  BY <1>1, <1>2, Updated
<1>4. port' \in [Executors -> Nat]
  BY <1>1, <1>2, Updated
<1>5. WakeTypes'
  BY <1>1, <1>3, <1>4 DEF WakeTypes
<1>6. CASE f # e
  <2>1. state'[f] = state[f] /\ phase'[f] = phase[f] /\ port'[f] = port[f]
    BY <1>1, <1>2, <1>6
  <2>2. UNCHANGED Local(f)
    BY <2>1, <1>1 DEF Local
  <2>3. QED
    BY <2>2, <1>1, <1>5, <1>6, OthersKeep
<1>7. CASE f = e
  <2>1. state'[f] = "STOPPING" /\ phase'[f] \in {"stopping", "closed"}
    BY <1>1, <1>2, <1>7
  <2>2. QED
    BY <2>1, <1>5 DEF Good, Active
<1>8. QED
  BY <1>5, <1>6, <1>7

-----------------------------------------------------------------------------
(* The kernel and the scheduler thread. *)

\* A poll that fires becomes an event of the scheduler's ring.
LEMMA PollFiresKeeps ==
  ASSUME WakeTypes, NEW e \in Executors, NEW f \in Executors, Good(f), PollFires(e)
  PROVE  WakeTypes' /\ Good(f)'
<1>1. /\ UNCHANGED <<state, phase, pc, lost, port, registered>>
      /\ armed[e] > 0 /\ armed' = [armed EXCEPT ![e] = armed[e] - 1]
      /\ inbox' = Append(inbox, Event("POLLIN", e))
  BY DEF PollFires
<1>2. /\ inbox \in Seq(Events) /\ armed \in [Executors -> Nat]
      /\ armed[e] - 1 \in Nat /\ "POLLIN" \in Kinds
  BY <1>1 DEF WakeTypes, Kinds
<1>3. inbox' \in Seq(Events) /\ armed' \in [Executors -> Nat]
  BY <1>1, <1>2, AppendEvent, Updated
<1>4. WakeTypes'
  BY <1>1, <1>3 DEF WakeTypes
<1>5. CASE f # e
  <2>1. UNCHANGED Local(f)
    BY <1>1, <1>2, <1>5 DEF Local
  <2>2. QED
    BY <2>1, <1>1, <1>2, <1>4, <1>5, OthersKeep
<1>6. CASE f = e
  <2>1. Coming(f)'
    BY <1>1, <1>2, <1>6, AppendAdds
  <2>2. /\ Unregistering(f)' => Unregistering(f)
        /\ Reregistering(f) => Reregistering(f)'
    BY <1>1, <1>2, <1>6, AppendKeeps
  <2>3. Active(f)' <=> Active(f)
    BY <1>1 DEF Active
  <2>4. QED
    BY <2>1, <2>2, <2>3, <1>1, <1>4 DEF Good, WakeUp
<1>7. QED
  BY <1>4, <1>5, <1>6

\* What every event does that the scheduler takes from its ring.
LEMMA ScheduleTakes ==
  ASSUME WakeTypes, NEW e \in Executors, NEW k \in Kinds, Schedule(e, k)
  PROVE  /\ UNCHANGED <<state, phase, pc, lost>>
         /\ inbox \in Seq(Events) /\ inbox # <<>> /\ Head(inbox) = Event(k, e)
         /\ inbox' = Tail(inbox) /\ inbox' \in Seq(Events)
<1>1. /\ UNCHANGED <<state, phase, pc, lost>>
      /\ inbox # <<>> /\ Head(inbox) = Event(k, e) /\ inbox' = Tail(inbox)
  BY DEF Schedule
<1>2. inbox \in Seq(Events)
  BY DEF WakeTypes
<1>3. QED
  BY <1>1, <1>2

\* POLLIN posts to the port of a registered executor; an active executor that
\* is not registered has its REGISTER behind this event.
LEMMA SchedulePollinKeeps ==
  ASSUME WakeTypes, NEW e \in Executors, NEW f \in Executors, Good(f), SchedulePollin(e)
  PROVE  WakeTypes' /\ Good(f)'
<1>1. /\ Schedule(e, "POLLIN") /\ UNCHANGED <<armed, registered>>
      /\ IF registered[e] /\ phase[e] # "closed"
         THEN port' = [port EXCEPT ![e] = port[e] + 1]
         ELSE port' = port
  <2>1. port = [port EXCEPT ![e] = port[e]]
    BY DEF WakeTypes
  <2>2. QED
    BY <2>1 DEF SchedulePollin, Posted
<1>2. "POLLIN" \in Kinds
  BY DEF Kinds
<1>3. /\ UNCHANGED <<state, phase, pc, lost>>
      /\ inbox \in Seq(Events) /\ inbox # <<>> /\ Head(inbox) = Event("POLLIN", e)
      /\ inbox' = Tail(inbox) /\ inbox' \in Seq(Events)
  BY <1>1, <1>2, ScheduleTakes
<1>4. port \in [Executors -> Nat] /\ port[e] + 1 \in Nat
  BY DEF WakeTypes
<1>5. port' \in [Executors -> Nat]
  BY <1>1, <1>4, Updated
<1>6. WakeTypes'
  BY <1>1, <1>3, <1>5 DEF WakeTypes
<1>7. CASE f # e
  <2>1. port'[f] = port[f]
    BY <1>1, <1>4, <1>7
  <2>2. UNCHANGED Local(f)
    BY <2>1, <1>1, <1>3 DEF Local
  <2>3. QED
    BY <2>2, <1>2, <1>3, <1>6, <1>7, OthersKeep
<1>8. CASE f = e
  <2>1. /\ Unregistering(f)' => Unregistering(f)
        /\ Reregistering(f) => Reregistering(f)'
    BY <1>2, <1>3, <1>8, TailKeeps
  <2>2. Active(f)' <=> Active(f)
    BY <1>3 DEF Active
  <2>3. Reregistering(f)' => Coming(f)'
    BY ReregisteringComes, PTL
  <2>4. ASSUME Active(f), registered[f] PROVE port'[f] > 0
    BY <2>4, <1>1, <1>4, <1>8 DEF Active
  <2>5. QED
    BY <2>1, <2>2, <2>3, <2>4, <1>1, <1>3, <1>6 DEF Good, WakeUp
<1>9. QED
  BY <1>6, <1>7, <1>8

\* POLL arms a poll for a registered executor.
LEMMA SchedulePollKeeps ==
  ASSUME WakeTypes, NEW e \in Executors, NEW f \in Executors, Good(f), SchedulePoll(e)
  PROVE  WakeTypes' /\ Good(f)'
<1>1. /\ Schedule(e, "POLL") /\ UNCHANGED <<port, registered>>
      /\ armed' = [armed EXCEPT ![e] = IF registered[e] THEN armed[e] + 1 ELSE armed[e]]
  BY DEF SchedulePoll
<1>2. "POLL" \in Kinds
  BY DEF Kinds
<1>3. /\ UNCHANGED <<state, phase, pc, lost>>
      /\ inbox \in Seq(Events) /\ inbox # <<>> /\ Head(inbox) = Event("POLL", e)
      /\ inbox' = Tail(inbox) /\ inbox' \in Seq(Events)
  BY <1>1, <1>2, ScheduleTakes
<1>4. /\ armed \in [Executors -> Nat]
      /\ (IF registered[e] THEN armed[e] + 1 ELSE armed[e]) \in Nat
  BY DEF WakeTypes
<1>5. armed' \in [Executors -> Nat]
  BY <1>1, <1>4, Updated
<1>6. WakeTypes'
  BY <1>1, <1>3, <1>5 DEF WakeTypes
<1>7. CASE f # e
  <2>1. UNCHANGED Local(f)
    BY <1>1, <1>3, <1>4, <1>7 DEF Local
  <2>2. QED
    BY <2>1, <1>2, <1>3, <1>6, <1>7, OthersKeep
<1>8. CASE f = e
  <2>1. /\ Unregistering(f)' => Unregistering(f)
        /\ Reregistering(f) => Reregistering(f)'
    BY <1>2, <1>3, <1>8, TailKeeps
  <2>2. Active(f)' <=> Active(f)
    BY <1>3 DEF Active
  <2>3. Reregistering(f)' => Coming(f)'
    BY ReregisteringComes, PTL
  <2>4. registered[f] => armed'[f] > 0
    BY <1>1, <1>4, <1>8
  <2>5. QED
    BY <2>1, <2>2, <2>3, <2>4, <1>1, <1>3, <1>6 DEF Good, WakeUp
<1>9. QED
  BY <1>6, <1>7, <1>8

\* REGISTER arms a poll and enters the executor.
LEMMA ScheduleRegisterKeeps ==
  ASSUME WakeTypes, NEW e \in Executors, NEW f \in Executors, Good(f), ScheduleRegister(e)
  PROVE  WakeTypes' /\ Good(f)'
<1>1. /\ Schedule(e, "REGISTER") /\ UNCHANGED port
      /\ armed' = [armed EXCEPT ![e] = armed[e] + 1]
      /\ registered' = [registered EXCEPT ![e] = TRUE]
  BY DEF ScheduleRegister
<1>2. "REGISTER" \in Kinds
  BY DEF Kinds
<1>3. /\ UNCHANGED <<state, phase, pc, lost>>
      /\ inbox \in Seq(Events) /\ inbox # <<>> /\ Head(inbox) = Event("REGISTER", e)
      /\ inbox' = Tail(inbox) /\ inbox' \in Seq(Events)
  BY <1>1, <1>2, ScheduleTakes
<1>4. /\ armed \in [Executors -> Nat] /\ armed[e] + 1 \in Nat /\ armed[e] + 1 > 0
      /\ registered \in [Executors -> BOOLEAN] /\ TRUE \in BOOLEAN
  BY DEF WakeTypes
<1>5. armed' \in [Executors -> Nat] /\ registered' \in [Executors -> BOOLEAN]
  BY <1>1, <1>4, Updated
<1>6. WakeTypes'
  BY <1>1, <1>3, <1>5 DEF WakeTypes
<1>7. CASE f # e
  <2>1. UNCHANGED Local(f)
    BY <1>1, <1>3, <1>4, <1>7 DEF Local
  <2>2. QED
    BY <2>1, <1>2, <1>3, <1>6, <1>7, OthersKeep
<1>8. CASE f = e
  <2>1. /\ Unregistering(f)' => Unregistering(f)
        /\ Reregistering(f) => Reregistering(f)' \/ ~Unregistering(f)'
    BY <1>2, <1>3, <1>8, TailKeeps
  <2>2. Active(f)' <=> Active(f)
    BY <1>3 DEF Active
  <2>3. armed'[f] > 0 /\ registered'[f]
    BY <1>1, <1>4, <1>8
  <2>4. QED
    BY <2>1, <2>2, <2>3, <1>3, <1>6 DEF Good, WakeUp
<1>9. QED
  BY <1>6, <1>7, <1>8

\* UNREGISTER removes a poll; an executor that is active again has its REGISTER
\* behind this event.
LEMMA ScheduleUnregisterKeeps ==
  ASSUME WakeTypes, NEW e \in Executors, NEW f \in Executors, Good(f), ScheduleUnregister(e)
  PROVE  WakeTypes' /\ Good(f)'
<1>1. /\ Schedule(e, "UNREGISTER")
      /\ armed' = armed \/ armed' = [armed EXCEPT ![e] = IF armed[e] = 0 THEN 0 ELSE armed[e] - 1]
      /\ registered' = registered \/ registered' = [registered EXCEPT ![e] = FALSE]
      /\ port' = port \/ port' = [port EXCEPT ![e] = IF phase[e] = "closed" THEN port[e] ELSE port[e] + 1]
  BY DEF ScheduleUnregister, Posted
<1>2. "UNREGISTER" \in Kinds
  BY DEF Kinds
<1>3. /\ UNCHANGED <<state, phase, pc, lost>>
      /\ inbox \in Seq(Events) /\ inbox # <<>> /\ Head(inbox) = Event("UNREGISTER", e)
      /\ inbox' = Tail(inbox) /\ inbox' \in Seq(Events)
  BY <1>1, <1>2, ScheduleTakes
<1>4. /\ armed \in [Executors -> Nat] /\ port \in [Executors -> Nat]
      /\ (IF armed[e] = 0 THEN 0 ELSE armed[e] - 1) \in Nat
      /\ (IF phase[e] = "closed" THEN port[e] ELSE port[e] + 1) \in Nat
      /\ registered \in [Executors -> BOOLEAN] /\ FALSE \in BOOLEAN
  BY DEF WakeTypes
<1>5. armed' \in [Executors -> Nat]
  BY <1>1, <1>4, Updated
<1>6. registered' \in [Executors -> BOOLEAN]
  BY <1>1, <1>4, Updated
<1>7. port' \in [Executors -> Nat]
  BY <1>1, <1>4, Updated
<1>8. WakeTypes'
  BY <1>3, <1>5, <1>6, <1>7 DEF WakeTypes
<1>9. CASE f # e
  <2>1. armed'[f] = armed[f]
    BY <1>1, <1>4, <1>9
  <2>2. registered'[f] = registered[f]
    BY <1>1, <1>4, <1>9
  <2>3. port'[f] = port[f]
    BY <1>1, <1>4, <1>9
  <2>4. UNCHANGED Local(f)
    BY <2>1, <2>2, <2>3, <1>3 DEF Local
  <2>5. QED
    BY <2>4, <1>2, <1>3, <1>8, <1>9, OthersKeep
<1>10. CASE f = e
  <2>1. Reregistering(f) => Reregistering(f)'
    BY <1>2, <1>3, <1>10, TailKeeps
  <2>2. Active(f)' <=> Active(f)
    BY <1>3 DEF Active
  <2>3. Reregistering(f)' => Coming(f)'
    BY ReregisteringComes, PTL
  <2>4. Unregistering(f)
    BY <1>3, <1>10 DEF Unregistering
  <2>5. QED
    BY <2>1, <2>2, <2>3, <2>4, <1>3, <1>8 DEF Good, WakeUp
<1>11. QED
  BY <1>8, <1>9, <1>10

-----------------------------------------------------------------------------
(* The invariant. *)

LEMMA InvIsGood == WakeUpInv <=> WakeTypes /\ \A f \in Executors : Good(f)
  BY DEF WakeUpInv, Good, RunningStates, PausedOutside, RegistrationSettles, NoLostWakeUp

\* Before activation every executor is PAUSED and the scheduler's ring is empty.
LEMMA WakeUpInit == Init => WakeUpInv
<1> SUFFICES ASSUME Init PROVE WakeUpInv
  OBVIOUS
<1>1. WakeTypes
  BY DEF Init, WakeTypes, States
<1>2. ASSUME NEW f \in Executors PROVE Good(f)
  BY DEF Init, Good, Active
<1>3. QED
  BY <1>1, <1>2, InvIsGood

\* Every step of an isolate, a native thread, the kernel or the scheduler keeps
\* the invariant.
LEMMA WakeUpNext == WakeUpInv /\ [Next]_vars => WakeUpInv'
<1> SUFFICES ASSUME WakeTypes, \A f \in Executors : Good(f), [Next]_vars
             PROVE  WakeTypes' /\ \A f \in Executors : Good(f)'
  <2>1. WakeTypes' /\ (\A f \in Executors : Good(f)') => WakeUpInv'
    BY DEF WakeUpInv, Good, RunningStates, PausedOutside, RegistrationSettles, NoLostWakeUp
  <2>2. QED
    BY <2>1, InvIsGood
<1>1. CASE UNCHANGED vars
  <2>1. /\ UNCHANGED <<state, phase, pc, lost, port, armed, registered>>
        /\ UNCHANGED inbox
    BY <1>1 DEF vars, nativeVars
  <2>2. \A f \in Executors : UNCHANGED Local(f)
    BY <2>1 DEF Local
  <2>3. WakeTypes'
    BY <2>1 DEF WakeTypes
  <2>4. QED
    BY <2>1, <2>2, <2>3, QuietKeeps
<1>2. ASSUME NEW e \in Executors, Isolate(e) \/ Native(e) \/ Scheduler(e), NEW f \in Executors
      PROVE  WakeTypes' /\ Good(f)'
  BY <1>2, ActivateKeeps, DeactivateKeeps, CallsKeep, AwakeIgnoredKeeps, AwakeBeginKeeps,
     ProcessKeeps, AwakeCompleteKeeps, ShutdownKeeps, PollFiresKeeps, SchedulePollinKeeps,
     SchedulePollKeeps, ScheduleRegisterKeeps, ScheduleUnregisterKeeps
     DEF Isolate, Native, Scheduler
<1>3. QED
  BY <1>1, <1>2 DEF Next

\* The inductive invariant holds in every reachable state.
THEOREM WakeUpInvariant == Spec => []WakeUpInv
  BY WakeUpInit, WakeUpNext, PTL DEF Spec

\* For every number of executors: an active executor always has a wake-up on
\* its way, through any order of completions, pauses and re-activations.
THEOREM WakeUpNeverLost == Spec => []NoLostWakeUp
<1>1. WakeUpInv => NoLostWakeUp
  BY DEF WakeUpInv
<1>2. QED
  BY <1>1, WakeUpInvariant, PTL

\* For every number of executors: a registration is never undone by an
\* UNREGISTER that was sent before it.
THEOREM RegistrationHolds == Spec => []RegistrationSettles
<1>1. WakeUpInv => RegistrationSettles
  BY DEF WakeUpInv
<1>2. QED
  BY <1>1, WakeUpInvariant, PTL

-----------------------------------------------------------------------------
(* Counting in sequences. *)

Positions(s, V) == {i \in DOMAIN s : s[i] \in V}

LEMMA PositionsFinite ==
  ASSUME NEW T, NEW s \in Seq(T), NEW V
  PROVE  IsFiniteSet(Positions(s, V)) /\ Cardinality(Positions(s, V)) \in Nat
<1>1. Positions(s, V) \subseteq 1 .. Len(s) /\ 1 \in Int /\ Len(s) \in Int
  BY DEF Positions
<1>2. IsFiniteSet(1 .. Len(s))
  BY <1>1, FS_Interval
<1>3. QED
  BY <1>1, <1>2, FS_Subset, FS_CardinalityType

LEMMA PositionsAppend ==
  ASSUME NEW T, NEW s \in Seq(T), NEW v \in T, NEW V
  PROVE  Cardinality(Positions(Append(s, v), V))
           = Cardinality(Positions(s, V)) + (IF v \in V THEN 1 ELSE 0)
<1>1. /\ Len(s) \in Nat /\ DOMAIN s = 1 .. Len(s) /\ DOMAIN Append(s, v) = 1 .. Len(s) + 1
      /\ \A i \in 1 .. Len(s) : Append(s, v)[i] = s[i]
      /\ Append(s, v)[Len(s) + 1] = v
  OBVIOUS
<1>2. Len(s) + 1 \notin Positions(s, V)
  BY <1>1 DEF Positions
<1>3. CASE v \in V
  <2>1. Positions(Append(s, v), V) = Positions(s, V) \union {Len(s) + 1}
    BY <1>1, <1>3 DEF Positions
  <2>2. QED
    BY <1>2, <1>3, <2>1, PositionsFinite, FS_AddElement
<1>4. CASE v \notin V
  <2>1. Positions(Append(s, v), V) = Positions(s, V)
    BY <1>1, <1>4 DEF Positions
  <2>2. QED
    BY <1>4, <2>1, PositionsFinite
<1>5. QED
  BY <1>3, <1>4

\* Positions moved by n.
LEMMA Shifted ==
  ASSUME NEW A \in SUBSET Int, NEW B \in SUBSET Int, NEW n \in Int, IsFiniteSet(A),
         \A i \in Int : i \in B <=> i - n \in A
  PROVE  IsFiniteSet(B) /\ Cardinality(B) = Cardinality(A)
<1> DEFINE f == [i \in A |-> i + n]
<1>1. f \in [A -> B]
  BY Z3
<1>2. \A i, j \in A : f[i] = f[j] => i = j
  OBVIOUS
<1>3. \A j \in B : j - n \in A /\ f[j - n] = j
  OBVIOUS
<1> HIDE DEF f
<1>4. f \in Injection(A, B)
  BY <1>1, <1>2 DEF Injection, IsInjective
<1>5. \A j \in B : \E i \in A : f[i] = j
  BY <1>3
<1>6. f \in Surjection(A, B)
  BY <1>1, <1>5 DEF Surjection
<1>7. f \in Bijection(A, B)
  BY <1>4, <1>6 DEF Bijection
<1>8. QED
  BY <1>7, FS_Bijection DEF ExistsBijection

\* Positions from m on stay, moved.
LEMMA PositionsDrop ==
  ASSUME NEW T, NEW s \in Seq(T), NEW m \in 1 .. Len(s) + 1, NEW V
  PROVE  Cardinality(Positions(SubSeq(s, m, Len(s)), V))
           = Cardinality({i \in m .. Len(s) : s[i] \in V})
<1> DEFINE t == SubSeq(s, m, Len(s))
           n == m - 1
           A == Positions(t, V)
           B == {i \in m .. Len(s) : s[i] \in V}
<1>1. /\ Len(s) \in Nat /\ t \in Seq(T) /\ DOMAIN t = 1 .. Len(s) - n
      /\ \A i \in 1 .. Len(s) - n : t[i] = s[i + n]
  OBVIOUS
<1>2. IsFiniteSet(A)
  BY <1>1, PositionsFinite
<1>3. A \in SUBSET Int /\ B \in SUBSET Int /\ n \in Int
  BY <1>1 DEF Positions
<1>4. ASSUME NEW i \in Int PROVE i \in B <=> i - n \in A
  <2>1. i \in m .. Len(s) <=> i - n \in 1 .. Len(s) - n
    BY <1>1, <1>3
  <2>2. i - n \in 1 .. Len(s) - n => t[i - n] = s[i]
    BY <1>1, <1>3
  <2>3. QED
    BY <1>1, <2>1, <2>2 DEF Positions
<1> HIDE DEF A, B, n
<1>5. Cardinality(B) = Cardinality(A)
  BY <1>2, <1>3, <1>4, Shifted
<1>6. QED
  BY <1>5 DEF A, B

LEMMA PositionsTail ==
  ASSUME NEW T, NEW s \in Seq(T), s # <<>>, NEW V
  PROVE  Cardinality(Positions(Tail(s), V))
           = Cardinality(Positions(s, V)) - (IF Head(s) \in V THEN 1 ELSE 0)
<1>1. /\ Len(s) \in Nat /\ Len(s) > 0 /\ Tail(s) = SubSeq(s, 2, Len(s)) /\ Head(s) = s[1]
      /\ DOMAIN s = 1 .. Len(s) /\ 2 \in 1 .. Len(s) + 1
  OBVIOUS
<1>2. Cardinality(Positions(SubSeq(s, 2, Len(s)), V)) = Cardinality({i \in 2 .. Len(s) : s[i] \in V})
  BY <1>1, PositionsDrop
<1>3. {i \in 2 .. Len(s) : s[i] \in V} = Positions(s, V) \ {1}
  BY <1>1 DEF Positions
<1>4. 1 \in Positions(s, V) <=> Head(s) \in V
  BY <1>1 DEF Positions
<1>5. IsFiniteSet(Positions(s, V)) /\ Cardinality(Positions(s, V)) \in Nat
  BY PositionsFinite
<1>6. Cardinality(Positions(s, V) \ {1})
        = IF 1 \in Positions(s, V) THEN Cardinality(Positions(s, V)) - 1 ELSE Cardinality(Positions(s, V))
  BY <1>5, FS_RemoveElement
<1>7. Tail(s) = SubSeq(s, 2, Len(s))
  BY <1>1
<1>8. Cardinality(Positions(Tail(s), V)) = Cardinality(Positions(s, V) \ {1})
  BY <1>2, <1>3, <1>7, Zenon
<1>9. QED
  BY <1>4, <1>5, <1>6, <1>8

-----------------------------------------------------------------------------
(* How many wake-ups circulate. *)

Wakes(e) == {Event(k, e) : k \in {"POLLIN", "POLL", "REGISTER"}}
Waking(e) == Cardinality(Positions(inbox, Wakes(e)))
Leaving(e) == Cardinality(Positions(inbox, {Event("UNREGISTER", e)}))
Idle(e) == IF state[e] = "PAUSED" THEN 1 ELSE 0

\* A pause allows for two wake-ups: the one of its UNREGISTER, and that of the
\* activation after it.  A paused executor still has the latter to come.
Circulates(e) ==
  armed[e] + port[e] + Waking(e) + Leaving(e) + Idle(e) <= 1 + 2 * pauses[e]

LEMMA EventEqual ==
  ASSUME NEW k, NEW l, NEW e, NEW f
  PROVE  Event(k, e) = Event(l, f) <=> k = l /\ e = f
<1>1. /\ Event(k, e).kind = k /\ Event(k, e).executor = e
      /\ Event(l, f).kind = l /\ Event(l, f).executor = f
  BY DEF Event
<1>2. QED
  BY <1>1

LEMMA WakesHas ==
  ASSUME NEW k \in Kinds, NEW e, NEW f
  PROVE  /\ Event(k, e) \in Wakes(f) <=> k # "UNREGISTER" /\ e = f
         /\ Event(k, e) \in {Event("UNREGISTER", f)} <=> k = "UNREGISTER" /\ e = f
  BY EventEqual DEF Wakes, Kinds

LEMMA CountTypes ==
  ASSUME inbox \in Seq(Events), NEW f
  PROVE  Waking(f) \in Nat /\ Leaving(f) \in Nat
  BY PositionsFinite DEF Waking, Leaving

LEMMA CountAppend ==
  ASSUME inbox \in Seq(Events), NEW k \in Kinds, NEW e \in Executors, NEW f \in Executors,
         inbox' = Append(inbox, Event(k, e))
  PROVE  /\ Waking(f)' = Waking(f) + (IF f = e /\ k # "UNREGISTER" THEN 1 ELSE 0)
         /\ Leaving(f)' = Leaving(f) + (IF f = e /\ k = "UNREGISTER" THEN 1 ELSE 0)
<1>1. Event(k, e) \in Events
  BY DEF Event, Events
<1>2. Cardinality(Positions(Append(inbox, Event(k, e)), Wakes(f)))
        = Cardinality(Positions(inbox, Wakes(f))) + (IF Event(k, e) \in Wakes(f) THEN 1 ELSE 0)
  BY <1>1, PositionsAppend
<1>3. Cardinality(Positions(Append(inbox, Event(k, e)), {Event("UNREGISTER", f)}))
        = Cardinality(Positions(inbox, {Event("UNREGISTER", f)}))
          + (IF Event(k, e) \in {Event("UNREGISTER", f)} THEN 1 ELSE 0)
  BY <1>1, PositionsAppend
<1>4. /\ Event(k, e) \in Wakes(f) <=> f = e /\ k # "UNREGISTER"
      /\ Event(k, e) \in {Event("UNREGISTER", f)} <=> f = e /\ k = "UNREGISTER"
  BY WakesHas
<1>5. Waking(f)' = Cardinality(Positions(Append(inbox, Event(k, e)), Wakes(f)))
      /\ Leaving(f)' = Cardinality(Positions(Append(inbox, Event(k, e)), {Event("UNREGISTER", f)}))
  BY DEF Waking, Leaving, Wakes, Event
<1>6. QED
  BY <1>2, <1>3, <1>4, <1>5 DEF Waking, Leaving

LEMMA CountTail ==
  ASSUME inbox \in Seq(Events), NEW k \in Kinds, NEW e \in Executors, NEW f \in Executors,
         inbox # <<>>, Head(inbox) = Event(k, e), inbox' = Tail(inbox)
  PROVE  /\ Waking(f)' = Waking(f) - (IF f = e /\ k # "UNREGISTER" THEN 1 ELSE 0)
         /\ Leaving(f)' = Leaving(f) - (IF f = e /\ k = "UNREGISTER" THEN 1 ELSE 0)
<1>2. Cardinality(Positions(Tail(inbox), Wakes(f)))
        = Cardinality(Positions(inbox, Wakes(f))) - (IF Head(inbox) \in Wakes(f) THEN 1 ELSE 0)
  BY PositionsTail
<1>3. Cardinality(Positions(Tail(inbox), {Event("UNREGISTER", f)}))
        = Cardinality(Positions(inbox, {Event("UNREGISTER", f)}))
          - (IF Head(inbox) \in {Event("UNREGISTER", f)} THEN 1 ELSE 0)
  BY PositionsTail
<1>4. /\ Head(inbox) \in Wakes(f) <=> f = e /\ k # "UNREGISTER"
      /\ Head(inbox) \in {Event("UNREGISTER", f)} <=> f = e /\ k = "UNREGISTER"
  BY WakesHas
<1>5. Waking(f)' = Cardinality(Positions(Tail(inbox), Wakes(f)))
      /\ Leaving(f)' = Cardinality(Positions(Tail(inbox), {Event("UNREGISTER", f)}))
  BY DEF Waking, Leaving, Wakes, Event
<1>6. QED
  BY <1>2, <1>3, <1>4, <1>5 DEF Waking, Leaving

LEMMA CountSame ==
  ASSUME inbox' = inbox, NEW f
  PROVE  Waking(f)' = Waking(f) /\ Leaving(f)' = Leaving(f)
  BY DEF Waking, Leaving, Wakes, Event

\* An event that may be added at the end is at most one more of its sort.
LEMMA CountAdded ==
  ASSUME inbox \in Seq(Events), NEW k \in Kinds, NEW e \in Executors, NEW f \in Executors,
         inbox' = inbox \/ inbox' = Append(inbox, Event(k, e))
  PROVE  /\ Waking(f)' \in Int /\ Leaving(f)' \in Int
         /\ Waking(f)' <= Waking(f) + 1 /\ Leaving(f)' <= Leaving(f) + 1
         /\ f # e \/ k = "UNREGISTER" => Waking(f)' = Waking(f)
         /\ f # e \/ k # "UNREGISTER" => Leaving(f)' = Leaving(f)
<1>1. Waking(f) \in Nat /\ Leaving(f) \in Nat
  BY CountTypes
<1>2. CASE inbox' = inbox
  <2>1. Waking(f)' = Waking(f) /\ Leaving(f)' = Leaving(f)
    BY <1>2, CountSame
  <2>2. QED
    BY <1>1, <2>1
<1>3. CASE inbox' = Append(inbox, Event(k, e))
  <2>1. /\ Waking(f)' = Waking(f) + (IF f = e /\ k # "UNREGISTER" THEN 1 ELSE 0)
        /\ Leaving(f)' = Leaving(f) + (IF f = e /\ k = "UNREGISTER" THEN 1 ELSE 0)
    BY <1>3, CountAppend
  <2>2. QED
    BY <1>1, <2>1
<1>4. QED
  BY <1>2, <1>3

LEMMA KindsAre == {"POLLIN", "POLL", "REGISTER", "UNREGISTER"} = Kinds
  BY DEF Kinds

LEMMA CirculationKeeps ==
  ASSUME WakeTypes, pauses \in [Executors -> Nat], NEW e \in Executors, NEW f \in Executors,
         Circulates(f), Isolate(e) \/ Native(e) \/ Scheduler(e)
  PROVE  Circulates(f)'
<1>1. /\ state \in [Executors -> States] /\ port \in [Executors -> Nat]
      /\ armed \in [Executors -> Nat] /\ inbox \in Seq(Events)
  BY DEF WakeTypes
<1>2. /\ armed[f] \in Nat /\ port[f] \in Nat /\ pauses[f] \in Nat
      /\ Waking(f) \in Nat /\ Leaving(f) \in Nat /\ Idle(f) \in {0, 1}
  BY <1>1, CountTypes DEF Idle
<1>3. armed[f] + port[f] + Waking(f) + Leaving(f) + Idle(f) <= 1 + 2 * pauses[f]
  BY DEF Circulates
\* It is enough that nothing is added but what a pause allows for.
<1>4. ASSUME armed'[f] + port'[f] + Waking(f)' + Leaving(f)' + Idle(f)' - 2 * pauses'[f]
               <= armed[f] + port[f] + Waking(f) + Leaving(f) + Idle(f) - 2 * pauses[f],
             armed'[f] \in Nat, port'[f] \in Nat, pauses'[f] \in Nat,
             Waking(f)' \in Int, Leaving(f)' \in Int, Idle(f)' \in {0, 1}
      PROVE  Circulates(f)'
  BY <1>2, <1>3, <1>4 DEF Circulates
<1>5. Idle(f)' \in {0, 1}
  BY DEF Idle
<1>6. CASE Activate(e)
  <2>1. /\ UNCHANGED <<armed, port, pauses>> /\ state[e] = "PAUSED"
        /\ state' = [state EXCEPT ![e] = "IDLE"]
        /\ inbox' = inbox \/ inbox' = Append(inbox, Event("REGISTER", e))
    BY <1>6 DEF Activate, bounds
  <2>0. "REGISTER" \in Kinds
    BY DEF Kinds
  <2>2. /\ Waking(f)' \in Int /\ Leaving(f)' = Leaving(f) /\ Waking(f)' <= Waking(f) + 1
        /\ f # e => Waking(f)' = Waking(f)
    BY <1>1, <2>0, <2>1, CountAdded
  <2>3. f = e => Idle(f)' = 0 /\ Idle(f) = 1
    BY <1>1, <2>1 DEF Idle
  <2>4. f # e => Idle(f)' = Idle(f)
    BY <1>1, <2>1 DEF Idle
  <2>5. armed'[f] = armed[f] /\ port'[f] = port[f] /\ pauses'[f] = pauses[f]
    BY <2>1
  <2>6. CASE f = e
    BY <1>2, <1>4, <1>5, <2>2, <2>3, <2>5, <2>6
  <2>7. CASE f # e
    BY <1>2, <1>4, <1>5, <2>2, <2>4, <2>5, <2>7
  <2>8. QED
    BY <2>6, <2>7
<1>7. CASE Deactivate(e)
  <2>1. /\ UNCHANGED <<armed, port>> /\ state[e] # "PAUSED"
        /\ state' = [state EXCEPT ![e] = "PAUSED"]
        /\ pauses' = [pauses EXCEPT ![e] = pauses[e] + 1]
        /\ inbox' = inbox \/ inbox' = Append(inbox, Event("UNREGISTER", e))
    BY <1>7 DEF Deactivate
  <2>0. "UNREGISTER" \in Kinds
    BY DEF Kinds
  <2>2. /\ Leaving(f)' \in Int /\ Waking(f)' = Waking(f) /\ Leaving(f)' <= Leaving(f) + 1
        /\ f # e => Leaving(f)' = Leaving(f)
    BY <1>1, <2>0, <2>1, CountAdded
  <2>3. f = e => Idle(f)' = 1 /\ Idle(f) = 0 /\ pauses'[f] = pauses[f] + 1
    BY <1>1, <2>1 DEF Idle
  <2>4. f # e => Idle(f)' = Idle(f) /\ pauses'[f] = pauses[f]
    BY <1>1, <2>1 DEF Idle
  <2>5. armed'[f] = armed[f] /\ port'[f] = port[f]
    BY <2>1
  <2>6. CASE f = e
    BY <1>2, <1>4, <1>5, <2>2, <2>3, <2>5, <2>6
  <2>7. CASE f # e
    BY <1>2, <1>4, <1>5, <2>2, <2>4, <2>5, <2>7
  <2>8. QED
    BY <2>6, <2>7
<1>8. CASE Call(e) \/ Settle(e) \/ Respond(e) \/ Process(e) \/ Answer(e) \/ CallDart(e)
  <2>1. UNCHANGED <<armed, port, pauses, state, inbox>>
    BY <1>8 DEF Call, Settle, Respond, Process, Answer, CallDart, nativeVars, bounds
  <2>2. Waking(f)' = Waking(f) /\ Leaving(f)' = Leaving(f) /\ Idle(f)' = Idle(f)
    BY <2>1, CountSame DEF Idle
  <2>3. QED
    BY <1>2, <1>4, <2>1, <2>2
<1>9. CASE AwakeComplete(e)
  <2>1. UNCHANGED <<armed, port, pauses, inbox>> /\ state' = [state EXCEPT ![e] = "IDLE"]
    BY <1>9, AwakeCompleteIs DEF Completes, nativeVars, bounds
  <2>2. Waking(f)' = Waking(f) /\ Leaving(f)' = Leaving(f)
    BY <2>1, CountSame
  <2>3. Idle(f)' <= Idle(f)
    BY <1>1, <2>1 DEF Idle
  <2>4. QED
    BY <1>2, <1>4, <1>5, <2>1, <2>2, <2>3
<1>10. CASE Shutdown(e)
  <2>1. /\ UNCHANGED <<armed, pauses, inbox>> /\ state' = [state EXCEPT ![e] = "STOPPING"]
        /\ port' = port \/ port' = [port EXCEPT ![e] = 0]
    BY <1>10 DEF Shutdown, Closed, nativeVars, bounds
  <2>2. Waking(f)' = Waking(f) /\ Leaving(f)' = Leaving(f)
    BY <2>1, CountSame
  <2>3. Idle(f)' <= Idle(f)
    BY <1>1, <2>1 DEF Idle
  <2>4. port'[f] \in Nat /\ port'[f] <= port[f]
    BY <1>1, <1>2, <2>1
  <2>5. QED
    BY <1>2, <1>4, <1>5, <2>1, <2>2, <2>3, <2>4
<1>11. CASE AwakeIgnored(e)
  <2>1. /\ UNCHANGED <<armed, pauses, inbox, state>> /\ port[e] > 0
        /\ port' = [port EXCEPT ![e] = port[e] - 1]
    BY <1>11 DEF AwakeIgnored, nativeVars, bounds
  <2>2. Waking(f)' = Waking(f) /\ Leaving(f)' = Leaving(f) /\ Idle(f)' = Idle(f)
    BY <2>1, CountSame DEF Idle
  <2>3. port'[f] \in Nat /\ port'[f] <= port[f]
    BY <1>1, <1>2, <2>1
  <2>4. QED
    BY <1>2, <1>4, <1>5, <2>1, <2>2, <2>3
<1>12. CASE AwakeBegin(e)
  <2>1. /\ UNCHANGED <<armed, pauses>> /\ port[e] > 0 /\ state[e] # "PAUSED"
        /\ port' = [port EXCEPT ![e] = port[e] - 1]
        /\ inbox' = inbox \/ inbox' = Append(inbox, Event("POLL", e))
    BY <1>12 DEF AwakeBegin, bounds
  <2>2. \E v \in {"IDLE", "WAKING"} : state' = [state EXCEPT ![e] = v]
    BY <1>12 DEF AwakeBegin
  <2>0. "POLL" \in Kinds
    BY DEF Kinds
  <2>3. /\ Waking(f)' \in Int /\ Leaving(f)' = Leaving(f) /\ Waking(f)' <= Waking(f) + 1
        /\ f # e => Waking(f)' = Waking(f)
    BY <1>1, <2>0, <2>1, CountAdded
  <2>4. Idle(f)' <= Idle(f)
    BY <1>1, <2>2 DEF Idle
  <2>5. port'[f] \in Nat /\ port'[f] = port[f] - (IF f = e THEN 1 ELSE 0)
    BY <1>1, <1>2, <2>1
  <2>6. armed'[f] = armed[f] /\ pauses'[f] = pauses[f]
    BY <2>1
  <2>7. CASE f = e
    BY <1>2, <1>4, <1>5, <2>3, <2>4, <2>5, <2>6, <2>7
  <2>8. CASE f # e
    BY <1>2, <1>4, <1>5, <2>3, <2>4, <2>5, <2>6, <2>8
  <2>9. QED
    BY <2>7, <2>8
<1>13. CASE PollFires(e)
  <2>1. /\ UNCHANGED <<port, pauses, state>> /\ armed[e] > 0
        /\ armed' = [armed EXCEPT ![e] = armed[e] - 1]
        /\ inbox' = Append(inbox, Event("POLLIN", e))
    BY <1>13 DEF PollFires, bounds
  <2>0. "POLLIN" \in Kinds
    BY DEF Kinds
  <2>2. /\ Waking(f)' \in Int /\ Leaving(f)' = Leaving(f) /\ Waking(f)' <= Waking(f) + 1
        /\ f # e => Waking(f)' = Waking(f)
    BY <1>1, <2>0, <2>1, CountAdded
  <2>3. armed'[f] \in Nat /\ armed'[f] = armed[f] - (IF f = e THEN 1 ELSE 0)
    BY <1>1, <1>2, <2>1
  <2>4. port'[f] = port[f] /\ pauses'[f] = pauses[f] /\ Idle(f)' = Idle(f)
    BY <2>1 DEF Idle
  <2>5. CASE f = e
    BY <1>2, <1>4, <1>5, <2>2, <2>3, <2>4, <2>5
  <2>6. CASE f # e
    BY <1>2, <1>4, <1>5, <2>2, <2>3, <2>4, <2>6
  <2>7. QED
    BY <2>5, <2>6
<1>14. ASSUME NEW k \in Kinds, Schedule(e, k)
       PROVE  /\ UNCHANGED <<pauses, state>> /\ Idle(f)' = Idle(f)
              /\ Waking(f)' = Waking(f) - (IF f = e /\ k # "UNREGISTER" THEN 1 ELSE 0)
              /\ Leaving(f)' = Leaving(f) - (IF f = e /\ k = "UNREGISTER" THEN 1 ELSE 0)
  <2>1. /\ UNCHANGED <<pauses, state>> /\ inbox # <<>> /\ Head(inbox) = Event(k, e)
        /\ inbox' = Tail(inbox)
    BY <1>14 DEF Schedule, bounds
  <2>2. QED
    BY <1>1, <2>1, CountTail DEF Idle
<1>16. CASE SchedulePollin(e)
  <2>1. /\ Schedule(e, "POLLIN") /\ UNCHANGED armed
        /\ \/ port' = port
           \/ port' = [port EXCEPT ![e] = port[e] + 1]
           \/ port' = [port EXCEPT ![e] = port[e]]
    BY <1>16 DEF SchedulePollin, Posted
  <2>2. port'[f] \in Nat /\ port'[f] <= port[f] + (IF f = e THEN 1 ELSE 0)
    BY <1>1, <1>2, <2>1
  <2>3. /\ UNCHANGED <<pauses, state>> /\ Idle(f)' = Idle(f)
        /\ Waking(f)' = Waking(f) - (IF f = e THEN 1 ELSE 0) /\ Leaving(f)' = Leaving(f)
    BY <1>2, <1>14, <2>1, KindsAre
  <2>4. QED
    BY <1>2, <1>4, <2>1, <2>2, <2>3
<1>17. CASE SchedulePoll(e) \/ ScheduleRegister(e)
  <2>1. /\ Schedule(e, "POLL") \/ Schedule(e, "REGISTER")
        /\ UNCHANGED port
        /\ armed' = [armed EXCEPT ![e] = armed[e] + 1] \/ armed' = [armed EXCEPT ![e] = armed[e]]
    BY <1>17 DEF SchedulePoll, ScheduleRegister
  <2>2. armed'[f] \in Nat /\ armed'[f] <= armed[f] + (IF f = e THEN 1 ELSE 0)
    BY <1>1, <1>2, <2>1
  <2>3. /\ UNCHANGED <<pauses, state>> /\ Idle(f)' = Idle(f)
        /\ Waking(f)' = Waking(f) - (IF f = e THEN 1 ELSE 0) /\ Leaving(f)' = Leaving(f)
    BY <1>2, <1>14, <2>1, KindsAre
  <2>4. QED
    BY <1>2, <1>4, <2>1, <2>2, <2>3
<1>18. CASE ScheduleUnregister(e)
  <2>1. /\ Schedule(e, "UNREGISTER")
        /\ \/ port' = port
           \/ port' = [port EXCEPT ![e] = port[e] + 1]
           \/ port' = [port EXCEPT ![e] = port[e]]
        /\ \/ armed' = armed
           \/ armed[e] = 0 /\ armed' = [armed EXCEPT ![e] = 0]
           \/ armed[e] # 0 /\ armed' = [armed EXCEPT ![e] = armed[e] - 1]
    BY <1>18 DEF ScheduleUnregister, Posted
  <2>2. port'[f] \in Nat /\ port'[f] <= port[f] + (IF f = e THEN 1 ELSE 0)
    BY <1>1, <1>2, <2>1
  <2>3. armed'[f] \in Nat /\ armed'[f] <= armed[f]
    <3>1. CASE armed' = armed
      BY <1>2, <3>1
    <3>2. CASE armed[e] = 0 /\ armed' = [armed EXCEPT ![e] = 0]
      BY <1>1, <1>2, <3>2
    <3>3. CASE armed[e] # 0 /\ armed' = [armed EXCEPT ![e] = armed[e] - 1]
      <4>1. armed[e] \in Nat /\ armed[e] - 1 \in Nat
        BY <1>1, <3>3
      <4>2. armed'[f] = IF f = e THEN armed[e] - 1 ELSE armed[f]
        BY <1>1, <3>3
      <4>3. QED
        BY <1>2, <4>1, <4>2
    <3>4. QED
      BY <2>1, <3>1, <3>2, <3>3
  <2>4. /\ UNCHANGED <<pauses, state>> /\ Idle(f)' = Idle(f)
        /\ Waking(f)' = Waking(f) /\ Leaving(f)' = Leaving(f) - (IF f = e THEN 1 ELSE 0)
    BY <1>2, <1>14, <2>1, KindsAre
  <2>5. QED
    BY <1>2, <1>4, <2>2, <2>3, <2>4
<1>19. QED
  BY <1>6, <1>7, <1>8, <1>9, <1>10, <1>11, <1>12, <1>13, <1>16, <1>17, <1>18
     DEF Isolate, Native, Scheduler

\* What FewWakeUps counts in the scheduler's ring.
LEMMA WakingCounts ==
  ASSUME inbox \in Seq(Events), NEW e \in Executors
  PROVE  Positions(inbox, Wakes(e))
           = {i \in DOMAIN inbox :
                inbox[i].executor = e /\ inbox[i].kind \in {"POLLIN", "POLL", "REGISTER"}}
<1>1. ASSUME NEW i \in DOMAIN inbox
      PROVE  inbox[i] \in Wakes(e)
               <=> inbox[i].executor = e /\ inbox[i].kind \in {"POLLIN", "POLL", "REGISTER"}
  <2>1. inbox[i] \in Events
    BY <1>1
  <2>2. PICK k \in Kinds, g \in Executors : inbox[i] = Event(k, g)
    BY <2>1 DEF Events, Event
  <2>3. inbox[i].kind = k /\ inbox[i].executor = g
    BY <2>2 DEF Event
  <2>4. inbox[i] \in Wakes(e) <=> k # "UNREGISTER" /\ g = e
    BY <2>2, WakesHas
  <2>5. k # "UNREGISTER" <=> k \in {"POLLIN", "POLL", "REGISTER"}
    BY <2>2 DEF Kinds
  <2>6. QED
    BY <2>3, <2>4, <2>5
<1>2. QED
  BY <1>1 DEF Positions

LEMMA CirculatesFew ==
  ASSUME WakeTypes, pauses \in [Executors -> Nat], \A e \in Executors : Circulates(e)
  PROVE  FewWakeUps
<1> SUFFICES ASSUME NEW e \in Executors PROVE WakeUps(e) <= 1 + 2 * pauses[e]
  BY DEF FewWakeUps
<1>1. inbox \in Seq(Events) /\ armed[e] \in Nat /\ port[e] \in Nat /\ pauses[e] \in Nat
  BY DEF WakeTypes
<1>2. WakeUps(e) = armed[e] + port[e] + Waking(e)
  BY <1>1, WakingCounts DEF WakeUps, Waking
<1>3. Waking(e) \in Nat /\ Leaving(e) \in Nat /\ Idle(e) \in {0, 1}
  BY <1>1, CountTypes DEF Idle
<1>4. armed[e] + port[e] + Waking(e) + Leaving(e) + Idle(e) <= 1 + 2 * pauses[e]
  BY DEF Circulates
<1>5. QED
  BY <1>1, <1>2, <1>3, <1>4

LEMMA CirculatesInit ==
  ASSUME Init, NEW e \in Executors
  PROVE  Circulates(e)
<1>1. /\ armed[e] = 0 /\ port[e] = 0 /\ pauses[e] = 0 /\ inbox = <<>> /\ state[e] = "PAUSED"
  BY DEF Init
<1>2. Positions(inbox, Wakes(e)) = {} /\ Positions(inbox, {Event("UNREGISTER", e)}) = {}
  BY <1>1 DEF Positions
<1>3. Waking(e) = 0 /\ Leaving(e) = 0 /\ Idle(e) = 1
  BY <1>1, <1>2, FS_EmptySet DEF Waking, Leaving, Idle
<1>4. QED
  BY <1>1, <1>3 DEF Circulates

-----------------------------------------------------------------------------
(* Where the calls are. *)

\* Answers of calls from position m of a completion queue on.
Answers(s, m) == {i \in m .. Len(s) : s[i] # "CALL"}
Open(s, m) == Cardinality(Answers(s, m))

LEMMA OpenIsNat ==
  ASSUME NEW s \in Seq(Completions), NEW m \in Nat \ {0}
  PROVE  IsFiniteSet(Answers(s, m)) /\ Open(s, m) \in Nat
<1>1. Answers(s, m) \subseteq 1 .. Len(s) /\ 1 \in Int /\ Len(s) \in Int
  BY DEF Answers
<1>2. IsFiniteSet(1 .. Len(s))
  BY <1>1, FS_Interval
<1>3. QED
  BY <1>1, <1>2, FS_Subset, FS_CardinalityType DEF Open

LEMMA OpenAppend ==
  ASSUME NEW s \in Seq(Completions), NEW m \in Nat \ {0}, m <= Len(s) + 1,
         NEW c \in Completions
  PROVE  /\ c = "CALL" => Open(Append(s, c), m) = Open(s, m)
         /\ c # "CALL" => Open(Append(s, c), m) = Open(s, m) + 1
<1>1. /\ Len(s) \in Nat /\ Len(Append(s, c)) = Len(s) + 1
      /\ \A i \in 1 .. Len(s) : Append(s, c)[i] = s[i]
      /\ Append(s, c)[Len(s) + 1] = c
  OBVIOUS
<1>2. IsFiniteSet(Answers(s, m)) /\ Len(s) + 1 \notin Answers(s, m)
  BY <1>1, OpenIsNat DEF Answers
<1>3. CASE c = "CALL"
  <2>1. Answers(Append(s, c), m) = Answers(s, m)
    BY <1>1, <1>3 DEF Answers
  <2>2. QED
    BY <1>3, <2>1 DEF Open
<1>4. CASE c # "CALL"
  <2>1. Answers(Append(s, c), m) = Answers(s, m) \union {Len(s) + 1}
    BY <1>1, <1>4 DEF Answers
  <2>2. QED
    BY <1>2, <1>4, <2>1, FS_AddElement DEF Open
<1>5. QED
  BY <1>3, <1>4

LEMMA OpenStep ==
  ASSUME NEW s \in Seq(Completions), NEW m \in Nat \ {0}, m <= Len(s)
  PROVE  /\ s[m] = "CALL" => Open(s, m) = Open(s, m + 1)
         /\ s[m] # "CALL" => Open(s, m) = Open(s, m + 1) + 1
<1>1. Len(s) \in Nat /\ m + 1 \in Nat \ {0}
  OBVIOUS
<1>2. IsFiniteSet(Answers(s, m + 1)) /\ m \notin Answers(s, m + 1)
  BY <1>1, OpenIsNat DEF Answers
<1>3. CASE s[m] = "CALL"
  <2>1. Answers(s, m) = Answers(s, m + 1)
    BY <1>1, <1>3 DEF Answers
  <2>2. QED
    BY <1>3, <2>1 DEF Open
<1>4. CASE s[m] # "CALL"
  <2>1. Answers(s, m) = Answers(s, m + 1) \union {m}
    BY <1>1, <1>4 DEF Answers
  <2>2. QED
    BY <1>2, <1>4, <2>1, FS_AddElement DEF Open
<1>5. QED
  BY <1>3, <1>4

LEMMA OpenDrop ==
  ASSUME NEW s \in Seq(Completions), NEW m \in Nat \ {0}, m <= Len(s) + 1
  PROVE  Open(SubSeq(s, m, Len(s)), 1) = Open(s, m)
<1> DEFINE V == {"CALLBACK", "ERROR"}
           t == SubSeq(s, m, Len(s))
<1>1. t \in Seq(Completions) /\ m \in 1 .. Len(s) + 1
  OBVIOUS
<1>2. Answers(s, m) = {i \in m .. Len(s) : s[i] \in V}
  <2>1. \A i \in m .. Len(s) : s[i] \in Completions
    OBVIOUS
  <2>2. QED
    BY <2>1 DEF Answers, Completions
<1> HIDE DEF t
<1>3. Answers(t, 1) = Positions(t, V)
  <2>1. DOMAIN t = 1 .. Len(t) /\ \A i \in 1 .. Len(t) : t[i] \in Completions
    BY <1>1
  <2>2. QED
    BY <2>1 DEF Answers, Positions, Completions
<1>4. Cardinality(Positions(t, V)) = Cardinality({i \in m .. Len(s) : s[i] \in V})
  BY <1>1, PositionsDrop DEF t
<1>5. QED
  BY <1>2, <1>3, <1>4 DEF Open, t

\* The batch lies in the queue, and outside of _awake there is none.
Batch(f) ==
  left[f] <= taken[f] /\ taken[f] <= Len(cq[f]) /\ (pc[f] = "out" => taken[f] = 0)

Accounted(f) ==
  phase[f] # "closed" =>
    calls[f] = sqCalls[f] + remote[f] + Cardinality(Unprocessed(f)) + settled[f] + failed[f]

Flushed(f) ==
  state[f] = "IDLE" /\ pc[f] = "out" /\ ~lost[f] => sqCalls[f] = 0 /\ sqResponses[f] = 0

Sound(f) == Batch(f) /\ Accounted(f) /\ Flushed(f)

Ledger(f) ==
  <<state[f], pc[f], phase[f], lost[f], sqCalls[f], sqResponses[f], cq[f], taken[f], left[f],
    remote[f], calls[f], failed[f], settled[f]>>

\* What a step of executor e has to keep.
Outcome(e) ==
  /\ RingTypes' /\ CallTypes' /\ Sound(e)'
  /\ \A f \in Executors \ {e} : UNCHANGED Ledger(f)

LEMMA LedgerKeeps ==
  ASSUME NEW f, UNCHANGED Ledger(f), Sound(f)
  PROVE  Sound(f)'
<1>1. /\ UNCHANGED <<state[f], pc[f], phase[f], lost[f], sqCalls[f], sqResponses[f]>>
      /\ UNCHANGED <<cq[f], taken[f], left[f], remote[f], calls[f], failed[f], settled[f]>>
  BY DEF Ledger
<1>2. Unprocessed(f)' = Unprocessed(f)
  BY <1>1 DEF Unprocessed
<1>3. QED
  BY <1>1, <1>2 DEF Sound, Batch, Accounted, Flushed

\* The values of one executor.
LEMMA Values ==
  ASSUME TypeOK, NEW e \in Executors
  PROVE  /\ sqCalls[e] \in Nat /\ sqResponses[e] \in Nat /\ remote[e] \in Nat
         /\ taken[e] \in Nat /\ left[e] \in Nat
         /\ cq[e] \in Seq(Completions) /\ Len(cq[e]) \in Nat
         /\ calls[e] \in Int /\ settled[e] \in Nat /\ failed[e] \in Nat
  BY DEF TypeOK, RingTypes, CallTypes

LEMMA UnprocessedIs ==
  ASSUME NEW e
  PROVE  Cardinality(Unprocessed(e)) = Open(cq[e], taken[e] - left[e] + 1)
  BY DEF Unprocessed, Open, Answers

\* The two queues of the ring, submitted or not.
LEMMA Submission ==
  ASSUME RingTypes, NEW e \in Executors, Submitted(e) \/ NotSubmitted
  PROVE  /\ remote' \in [Executors -> Nat] /\ sqCalls' \in [Executors -> Nat]
         /\ sqResponses' \in [Executors -> Nat]
         /\ sqCalls'[e] + remote'[e] = sqCalls[e] + remote[e]
         /\ \A f \in Executors \ {e} :
              sqCalls'[f] = sqCalls[f] /\ remote'[f] = remote[f] /\ sqResponses'[f] = sqResponses[f]
<1>1. /\ remote \in [Executors -> Nat] /\ sqCalls \in [Executors -> Nat]
      /\ sqResponses \in [Executors -> Nat]
      /\ remote[e] + sqCalls[e] \in Nat /\ remote[e] \in Nat /\ sqCalls[e] \in Nat
  BY DEF RingTypes
<1>2. CASE Submitted(e)
  <2>1. /\ remote' = [remote EXCEPT ![e] = remote[e] + sqCalls[e]]
        /\ sqCalls' = [sqCalls EXCEPT ![e] = 0]
        /\ sqResponses' = [sqResponses EXCEPT ![e] = 0]
    BY <1>2 DEF Submitted
  <2>2. QED
    BY <1>1, <2>1
<1>3. CASE NotSubmitted
  BY <1>1, <1>3 DEF NotSubmitted
<1>4. QED
  BY <1>2, <1>3

LEMMA SubmittedEmpties ==
  ASSUME RingTypes, NEW e \in Executors, Submitted(e)
  PROVE  sqCalls'[e] = 0 /\ sqResponses'[e] = 0
  BY DEF RingTypes, Submitted

\* A step that leaves the completion queue and the calls alone, and queues or
\* submits nothing that is not counted.
LEMMA BatchSame ==
  ASSUME TypeOK, NEW e \in Executors, Sound(e), UNCHANGED <<cq, taken, left>>,
         pc'[e] = pc[e] \/ pc'[e] # "out"
  PROVE  Batch(e)' /\ Unprocessed(e)' = Unprocessed(e)
  BY DEF Sound, Batch, Unprocessed

LEMMA ActivateAccounts ==
  ASSUME TypeOK, NEW e \in Executors, Sound(e), Activate(e)
  PROVE  Outcome(e)
<1>1. /\ UNCHANGED <<pc, phase, cq, taken, left>> /\ UNCHANGED callVars /\ UNCHANGED bounds
      /\ state' = [state EXCEPT ![e] = "IDLE"]
      /\ \/ NotSubmitted /\ lost' = [lost EXCEPT ![e] = TRUE]
         \/ Submitted(e) /\ lost' = lost
  BY DEF Activate
<1>2. RingTypes /\ CallTypes /\ lost \in [Executors -> BOOLEAN] /\ state \in [Executors -> States]
  BY DEF TypeOK, WakeTypes
<1>3. /\ remote' \in [Executors -> Nat] /\ sqCalls' \in [Executors -> Nat]
      /\ sqResponses' \in [Executors -> Nat]
      /\ sqCalls'[e] + remote'[e] = sqCalls[e] + remote[e]
      /\ \A f \in Executors \ {e} :
           sqCalls'[f] = sqCalls[f] /\ remote'[f] = remote[f] /\ sqResponses'[f] = sqResponses[f]
  BY <1>1, <1>2, Submission
<1>4. RingTypes' /\ CallTypes'
  BY <1>1, <1>2, <1>3 DEF RingTypes, CallTypes, callVars, bounds
<1>5. Batch(e)' /\ Unprocessed(e)' = Unprocessed(e)
  BY <1>1, BatchSame
<1>6. Accounted(e)'
  <2>1. UNCHANGED <<phase[e], calls[e], settled[e], failed[e]>>
    BY <1>1 DEF callVars
  <2>2. Cardinality(Unprocessed(e)) \in Nat
    BY Values, UnprocessedIs, OpenIsNat DEF Sound, Batch
  <2>3. /\ sqCalls'[e] \in Nat /\ remote'[e] \in Nat /\ sqCalls[e] \in Nat /\ remote[e] \in Nat
        /\ settled[e] \in Nat /\ failed[e] \in Nat
    BY <1>3, Values
  <2>4. QED
    BY <1>3, <1>5, <2>1, <2>2, <2>3 DEF Sound, Accounted
<1>7. Flushed(e)'
  <2>1. CASE Submitted(e)
    BY <1>2, <2>1, SubmittedEmpties DEF Flushed
  <2>2. CASE lost' = [lost EXCEPT ![e] = TRUE]
    BY <1>2, <2>2 DEF Flushed
  <2>3. QED
    BY <1>1, <2>1, <2>2
<1>8. ASSUME NEW f \in Executors \ {e} PROVE UNCHANGED Ledger(f)
  <2>1. state'[f] = state[f] /\ lost'[f] = lost[f]
    BY <1>1, <1>2
  <2>2. QED
    BY <1>1, <1>3, <2>1 DEF Ledger, callVars
<1>9. QED
  BY <1>4, <1>5, <1>6, <1>7, <1>8 DEF Outcome, Sound

LEMMA OpenNow ==
  ASSUME TypeOK, NEW e \in Executors, Sound(e)
  PROVE  Cardinality(Unprocessed(e)) \in Nat
  BY Values, UnprocessedIs, OpenIsNat DEF Sound, Batch

LEMMA DeactivateAccounts ==
  ASSUME TypeOK, NEW e \in Executors, Sound(e), Deactivate(e)
  PROVE  Outcome(e)
<1>1. /\ UNCHANGED <<pc, phase, cq, taken, left>> /\ UNCHANGED callVars
      /\ UNCHANGED <<made, incoming>>
      /\ state' = [state EXCEPT ![e] = "PAUSED"]
      /\ pauses' = [pauses EXCEPT ![e] = pauses[e] + 1]
      /\ Submitted(e) \/ NotSubmitted
      /\ lost' = [lost EXCEPT ![e] = lost[e] \/ pc[e] = "callback"]
  BY DEF Deactivate
<1>2. RingTypes /\ CallTypes /\ lost \in [Executors -> BOOLEAN] /\ state \in [Executors -> States]
  BY DEF TypeOK, WakeTypes
<1>3. /\ remote' \in [Executors -> Nat] /\ sqCalls' \in [Executors -> Nat]
      /\ sqResponses' \in [Executors -> Nat]
      /\ sqCalls'[e] + remote'[e] = sqCalls[e] + remote[e]
      /\ \A f \in Executors \ {e} :
           sqCalls'[f] = sqCalls[f] /\ remote'[f] = remote[f] /\ sqResponses'[f] = sqResponses[f]
  BY <1>1, <1>2, Submission
<1>4. RingTypes' /\ CallTypes'
  <2>1. pauses' \in [Executors -> Nat]
    BY <1>1, <1>2 DEF CallTypes
  <2>2. QED
    BY <1>1, <1>2, <1>3, <2>1 DEF RingTypes, CallTypes, callVars
<1>5. Batch(e)' /\ Unprocessed(e)' = Unprocessed(e)
  BY <1>1, BatchSame
<1>6. Accounted(e)'
  <2>1. UNCHANGED <<phase[e], calls[e], settled[e], failed[e]>>
    BY <1>1 DEF callVars
  <2>2. /\ sqCalls'[e] \in Nat /\ remote'[e] \in Nat /\ sqCalls[e] \in Nat /\ remote[e] \in Nat
        /\ settled[e] \in Nat /\ failed[e] \in Nat /\ Cardinality(Unprocessed(e)) \in Nat
    BY <1>3, Values, OpenNow
  <2>3. QED
    BY <1>3, <1>5, <2>1, <2>2 DEF Sound, Accounted
<1>7. Flushed(e)'
  BY <1>1, <1>2 DEF Flushed
<1>8. ASSUME NEW f \in Executors \ {e} PROVE UNCHANGED Ledger(f)
  <2>1. state'[f] = state[f] /\ lost'[f] = lost[f]
    BY <1>1, <1>2
  <2>2. QED
    BY <1>1, <1>3, <2>1 DEF Ledger, callVars
<1>9. QED
  BY <1>4, <1>5, <1>6, <1>7, <1>8 DEF Outcome, Sound

LEMMA CallAccounts ==
  ASSUME TypeOK, NEW e \in Executors, Sound(e), Call(e)
  PROVE  Outcome(e)
<1>1. /\ UNCHANGED <<state, pc, phase, cq, taken, left, lost>>
      /\ UNCHANGED <<failed, settled, consuming, incoming, pauses>>
      /\ made' = [made EXCEPT ![e] = made[e] + 1]
      /\ calls' = [calls EXCEPT ![e] = calls[e] + 1]
      /\ \/ /\ remote' = [remote EXCEPT ![e] = remote[e] + sqCalls[e] + 1]
            /\ sqCalls' = [sqCalls EXCEPT ![e] = 0]
            /\ sqResponses' = [sqResponses EXCEPT ![e] = 0]
         \/ /\ state[e] # "IDLE"
            /\ sqCalls' = [sqCalls EXCEPT ![e] = sqCalls[e] + 1]
            /\ UNCHANGED <<remote, sqResponses>>
  BY DEF Call
<1>2. /\ RingTypes /\ CallTypes
      /\ sqCalls \in [Executors -> Nat] /\ remote \in [Executors -> Nat]
      /\ sqResponses \in [Executors -> Nat] /\ calls \in [Executors -> Int]
      /\ made \in [Executors -> Nat]
      /\ sqCalls[e] \in Nat /\ remote[e] \in Nat /\ calls[e] \in Int
  BY DEF TypeOK, RingTypes, CallTypes
<1>3. /\ remote' \in [Executors -> Nat] /\ sqCalls' \in [Executors -> Nat]
      /\ sqResponses' \in [Executors -> Nat]
      /\ sqCalls'[e] + remote'[e] = sqCalls[e] + remote[e] + 1
      /\ \A f \in Executors \ {e} :
           sqCalls'[f] = sqCalls[f] /\ remote'[f] = remote[f] /\ sqResponses'[f] = sqResponses[f]
  <2>1. CASE /\ remote' = [remote EXCEPT ![e] = remote[e] + sqCalls[e] + 1]
             /\ sqCalls' = [sqCalls EXCEPT ![e] = 0]
             /\ sqResponses' = [sqResponses EXCEPT ![e] = 0]
    <3>1. remote[e] + sqCalls[e] + 1 \in Nat
      BY <1>2
    <3>2. QED
      BY <1>2, <2>1, <3>1
  <2>2. CASE /\ sqCalls' = [sqCalls EXCEPT ![e] = sqCalls[e] + 1]
             /\ UNCHANGED <<remote, sqResponses>>
    <3>1. sqCalls[e] + 1 \in Nat
      BY <1>2
    <3>2. QED
      BY <1>2, <2>2, <3>1
  <2>3. QED
    BY <1>1, <2>1, <2>2
<1>4. RingTypes' /\ CallTypes'
  <2>1. made' \in [Executors -> Nat] /\ calls' \in [Executors -> Int]
    BY <1>1, <1>2
  <2>2. QED
    BY <1>1, <1>2, <1>3, <2>1 DEF RingTypes, CallTypes
<1>5. Batch(e)' /\ Unprocessed(e)' = Unprocessed(e)
  BY <1>1, BatchSame
<1>6. Accounted(e)'
  <2>1. UNCHANGED <<phase[e], settled[e], failed[e]>> /\ calls'[e] = calls[e] + 1
    BY <1>1, <1>2
  <2>2. /\ sqCalls'[e] \in Nat /\ remote'[e] \in Nat /\ sqCalls[e] \in Nat /\ remote[e] \in Nat
        /\ settled[e] \in Nat /\ failed[e] \in Nat /\ Cardinality(Unprocessed(e)) \in Nat
        /\ calls[e] \in Int
    BY <1>3, Values, OpenNow
  <2>3. QED
    BY <1>3, <1>5, <2>1, <2>2 DEF Sound, Accounted
<1>7. Flushed(e)'
  BY <1>1, <1>2 DEF Flushed
<1>8. ASSUME NEW f \in Executors \ {e} PROVE UNCHANGED Ledger(f)
  <2>1. calls'[f] = calls[f]
    BY <1>1, <1>2
  <2>2. QED
    BY <1>1, <1>3, <2>1 DEF Ledger
<1>9. QED
  BY <1>4, <1>5, <1>6, <1>7, <1>8 DEF Outcome, Sound

LEMMA SettleAccounts ==
  ASSUME TypeOK, NEW e \in Executors, Sound(e), Settle(e)
  PROVE  Outcome(e)
<1>1. /\ UNCHANGED <<state, pc, phase, cq, taken, left, lost, sqCalls, sqResponses, remote>>
      /\ UNCHANGED <<failed, consuming>> /\ UNCHANGED bounds
      /\ settled[e] > 0
      /\ settled' = [settled EXCEPT ![e] = settled[e] - 1]
      /\ calls' = [calls EXCEPT ![e] = calls[e] - 1]
  BY DEF Settle
<1>2. /\ RingTypes /\ CallTypes
      /\ calls \in [Executors -> Int] /\ settled \in [Executors -> Nat]
      /\ settled[e] \in Nat /\ calls[e] \in Int
  BY DEF TypeOK, RingTypes, CallTypes
<1>3. settled' \in [Executors -> Nat] /\ calls' \in [Executors -> Int]
  <2>1. settled[e] - 1 \in Nat /\ calls[e] - 1 \in Int
    BY <1>1, <1>2
  <2>2. QED
    BY <1>1, <1>2, <2>1
<1>4. RingTypes' /\ CallTypes'
  BY <1>1, <1>2, <1>3 DEF RingTypes, CallTypes, bounds
<1>5. Batch(e)' /\ Unprocessed(e)' = Unprocessed(e)
  BY <1>1, BatchSame
<1>6. Accounted(e)'
  <2>1. /\ UNCHANGED <<phase[e], failed[e], sqCalls[e], remote[e]>> /\ calls'[e] = calls[e] - 1
        /\ settled'[e] = settled[e] - 1
    BY <1>1, <1>2
  <2>2. /\ sqCalls[e] \in Nat /\ remote[e] \in Nat
        /\ settled[e] \in Nat /\ failed[e] \in Nat /\ Cardinality(Unprocessed(e)) \in Nat
        /\ calls[e] \in Int
    BY <1>3, Values, OpenNow
  <2>3. QED
    BY <1>3, <1>5, <2>1, <2>2 DEF Sound, Accounted
<1>7. Flushed(e)'
  BY <1>1 DEF Flushed, Sound
<1>8. ASSUME NEW f \in Executors \ {e} PROVE UNCHANGED Ledger(f)
  <2>1. calls'[f] = calls[f] /\ settled'[f] = settled[f]
    BY <1>1, <1>2
  <2>2. QED
    BY <1>1, <2>1 DEF Ledger
<1>9. QED
  BY <1>4, <1>5, <1>6, <1>7, <1>8 DEF Outcome, Sound

LEMMA RespondAccounts ==
  ASSUME TypeOK, NEW e \in Executors, Sound(e), Respond(e)
  PROVE  Outcome(e)
<1>1. /\ UNCHANGED <<state, pc, phase, cq, taken, left, lost>>
      /\ UNCHANGED <<calls, failed, settled>> /\ UNCHANGED bounds
      /\ consuming[e] > 0
      /\ consuming' = [consuming EXCEPT ![e] = consuming[e] - 1]
      /\ \/ NotSubmitted \/ Submitted(e)
         \/ /\ state[e] # "IDLE"
            /\ sqResponses' = [sqResponses EXCEPT ![e] = sqResponses[e] + 1]
            /\ UNCHANGED <<remote, sqCalls>>
  BY DEF Respond
<1>2. /\ RingTypes /\ CallTypes
      /\ sqResponses \in [Executors -> Nat] /\ consuming \in [Executors -> Nat]
      /\ sqCalls \in [Executors -> Nat] /\ remote \in [Executors -> Nat]
      /\ sqResponses[e] \in Nat /\ consuming[e] \in Nat
  BY DEF TypeOK, RingTypes, CallTypes
<1>3. /\ remote' \in [Executors -> Nat] /\ sqCalls' \in [Executors -> Nat]
      /\ sqResponses' \in [Executors -> Nat]
      /\ sqCalls'[e] + remote'[e] = sqCalls[e] + remote[e]
      /\ \A f \in Executors \ {e} :
           sqCalls'[f] = sqCalls[f] /\ remote'[f] = remote[f] /\ sqResponses'[f] = sqResponses[f]
  <2>1. CASE Submitted(e) \/ NotSubmitted
    BY <1>2, <2>1, Submission
  <2>2. CASE /\ sqResponses' = [sqResponses EXCEPT ![e] = sqResponses[e] + 1]
             /\ UNCHANGED <<remote, sqCalls>>
    BY <1>2, <2>2
  <2>3. QED
    BY <1>1, <2>1, <2>2
<1>4. RingTypes' /\ CallTypes'
  <2>1. consuming' \in [Executors -> Nat]
    <3>1. consuming[e] - 1 \in Nat
      BY <1>1, <1>2
    <3>2. QED
      BY <1>1, <1>2, <3>1
  <2>2. QED
    BY <1>1, <1>2, <1>3, <2>1 DEF RingTypes, CallTypes, bounds
<1>5. Batch(e)' /\ Unprocessed(e)' = Unprocessed(e)
  BY <1>1, BatchSame
<1>6. Accounted(e)'
  <2>1. UNCHANGED <<phase[e], calls[e], settled[e], failed[e]>>
    BY <1>1
  <2>2. /\ sqCalls'[e] \in Nat /\ remote'[e] \in Nat /\ sqCalls[e] \in Nat /\ remote[e] \in Nat
        /\ settled[e] \in Nat /\ failed[e] \in Nat /\ Cardinality(Unprocessed(e)) \in Nat
    BY <1>3, Values, OpenNow
  <2>3. QED
    BY <1>3, <1>5, <2>1, <2>2 DEF Sound, Accounted
<1>7. Flushed(e)'
  <2>1. CASE Submitted(e)
    BY <1>2, <2>1, SubmittedEmpties DEF Flushed
  <2>2. CASE NotSubmitted
    BY <1>1, <2>2 DEF Flushed, Sound, NotSubmitted
  <2>3. CASE state[e] # "IDLE"
    BY <1>1, <2>3 DEF Flushed
  <2>4. QED
    BY <1>1, <2>1, <2>2, <2>3
<1>8. ASSUME NEW f \in Executors \ {e} PROVE UNCHANGED Ledger(f)
  BY <1>1, <1>3 DEF Ledger
<1>9. QED
  BY <1>4, <1>5, <1>6, <1>7, <1>8 DEF Outcome, Sound

\* The steps that may close the executor or change its state to one of shutdown.
LEMMA ClosingAccounts ==
  ASSUME TypeOK, NEW e \in Executors, Sound(e), AwakeIgnored(e) \/ Shutdown(e)
  PROVE  Outcome(e)
<1>1. /\ UNCHANGED <<pc, cq, taken, left, lost, sqCalls, sqResponses, remote>>
      /\ UNCHANGED callVars /\ UNCHANGED bounds
      /\ phase[e] # "closed"
      /\ state' = state \/ state' = [state EXCEPT ![e] = "STOPPING"]
      /\ \/ phase' = [phase EXCEPT ![e] = "closed"]
         \/ phase' = [phase EXCEPT ![e] = "stopping"]
         \/ phase' = [phase EXCEPT ![e] = phase[e]]
  <2>1. CASE AwakeIgnored(e)
    BY <2>1 DEF AwakeIgnored
  <2>2. CASE Shutdown(e)
    BY <2>2 DEF Shutdown, Application, Closed
  <2>3. QED
    BY <2>1, <2>2
<1>2. /\ RingTypes /\ CallTypes
      /\ phase \in [Executors -> {"running", "stopping", "closed"}]
      /\ state \in [Executors -> States]
  BY DEF TypeOK, WakeTypes
<1>3. RingTypes' /\ CallTypes'
  BY <1>1, <1>2 DEF RingTypes, CallTypes, callVars, bounds
<1>4. Batch(e)' /\ Unprocessed(e)' = Unprocessed(e)
  BY <1>1, BatchSame
<1>5. Accounted(e)'
  BY <1>1, <1>4 DEF Accounted, Sound, callVars
<1>6. Flushed(e)'
  BY <1>1, <1>2 DEF Flushed, Sound
<1>7. ASSUME NEW f \in Executors \ {e} PROVE UNCHANGED Ledger(f)
  <2>1. phase'[f] = phase[f] /\ state'[f] = state[f]
    BY <1>1, <1>2
  <2>2. QED
    BY <1>1, <2>1 DEF Ledger, callVars
<1>8. QED
  BY <1>3, <1>4, <1>5, <1>6, <1>7 DEF Outcome, Sound

\* The steps of scheduler and kernel are about wake-ups only.
LEMMA SchedulerAccounts ==
  ASSUME TypeOK, NEW e \in Executors, Sound(e), PollFires(e) \/ Scheduler(e)
  PROVE  Outcome(e)
<1>1. /\ UNCHANGED <<state, pc, phase, lost, cq, taken, left, sqCalls, sqResponses, remote>>
      /\ UNCHANGED callVars /\ UNCHANGED bounds
  BY DEF PollFires, Scheduler, SchedulePollin, SchedulePoll, ScheduleRegister,
         ScheduleUnregister, Schedule
<1>2. RingTypes' /\ CallTypes'
  BY <1>1 DEF TypeOK, RingTypes, CallTypes, callVars, bounds
<1>3. \A f : UNCHANGED Ledger(f)
  BY <1>1 DEF Ledger, callVars
<1>4. Sound(e)'
  BY <1>3, LedgerKeeps
<1>5. QED
  BY <1>2, <1>3, <1>4 DEF Outcome

LEMMA AwakeBeginAccounts ==
  ASSUME TypeOK, NEW e \in Executors, Sound(e), AwakeBegin(e)
  PROVE  Outcome(e)
<1> DEFINE count == Fewest(Len(cq[e]), RingSize)
<1>1. /\ UNCHANGED <<phase, cq>> /\ UNCHANGED callVars /\ UNCHANGED bounds
      /\ pc[e] = "out"
      /\ \/ /\ state' = [state EXCEPT ![e] = "WAKING"]
            /\ lost' = [lost EXCEPT ![e] = TRUE]
            /\ NotSubmitted /\ UNCHANGED <<pc, taken, left>>
         \/ /\ state' = [state EXCEPT ![e] = IF count = 0 THEN "IDLE" ELSE "WAKING"]
            /\ pc' = [pc EXCEPT ![e] = IF count = 0 THEN "out" ELSE "batch"]
            /\ taken' = [taken EXCEPT ![e] = count]
            /\ left' = [left EXCEPT ![e] = count]
            /\ Submitted(e) /\ UNCHANGED lost
  BY DEF AwakeBegin
<1>2. /\ RingTypes /\ CallTypes
      /\ lost \in [Executors -> BOOLEAN] /\ state \in [Executors -> States]
      /\ pc \in [Executors -> {"out", "batch", "callback"}]
      /\ taken \in [Executors -> Nat] /\ left \in [Executors -> Nat]
      /\ Len(cq[e]) \in Nat
  BY Values DEF TypeOK, WakeTypes, RingTypes
<1>3. /\ remote' \in [Executors -> Nat] /\ sqCalls' \in [Executors -> Nat]
      /\ sqResponses' \in [Executors -> Nat]
      /\ sqCalls'[e] + remote'[e] = sqCalls[e] + remote[e]
      /\ \A f \in Executors \ {e} :
           sqCalls'[f] = sqCalls[f] /\ remote'[f] = remote[f] /\ sqResponses'[f] = sqResponses[f]
  BY <1>1, <1>2, Submission
<1>4. count \in Nat /\ count <= Len(cq[e])
  BY <1>2, RingSizeAssumption DEF Fewest
<1> HIDE DEF count
<1>5. taken' \in [Executors -> Nat] /\ left' \in [Executors -> Nat]
  BY <1>1, <1>2, <1>4
<1>6. RingTypes' /\ CallTypes'
  BY <1>1, <1>2, <1>3, <1>5 DEF RingTypes, CallTypes, callVars, bounds
<1>7. /\ taken'[e] - left'[e] = taken[e] - left[e]
      /\ left'[e] <= taken'[e] /\ taken'[e] <= Len(cq[e])
      /\ pc'[e] = "out" => taken'[e] = 0
  <2>1. taken[e] = 0 /\ left[e] = 0
    BY <1>1, Values DEF Sound, Batch
  <2>2. CASE UNCHANGED <<pc, taken, left>>
    BY <1>2, <2>1, <2>2
  <2>3. CASE /\ pc' = [pc EXCEPT ![e] = IF count = 0 THEN "out" ELSE "batch"]
             /\ taken' = [taken EXCEPT ![e] = count]
             /\ left' = [left EXCEPT ![e] = count]
    BY <1>2, <1>4, <2>1, <2>3
  <2>4. QED
    BY <1>1, <2>2, <2>3
<1>8. Batch(e)' /\ Unprocessed(e)' = Unprocessed(e)
  BY <1>1, <1>7 DEF Batch, Unprocessed
<1>9. Accounted(e)'
  <2>1. UNCHANGED <<phase[e], calls[e], settled[e], failed[e]>>
    BY <1>1 DEF callVars
  <2>2. /\ sqCalls'[e] \in Nat /\ remote'[e] \in Nat /\ sqCalls[e] \in Nat /\ remote[e] \in Nat
        /\ settled[e] \in Nat /\ failed[e] \in Nat /\ Cardinality(Unprocessed(e)) \in Nat
    BY <1>3, Values, OpenNow
  <2>3. QED
    BY <1>3, <1>8, <2>1, <2>2 DEF Sound, Accounted
<1>10. Flushed(e)'
  <2>1. CASE Submitted(e)
    BY <1>2, <2>1, SubmittedEmpties DEF Flushed
  <2>2. CASE lost' = [lost EXCEPT ![e] = TRUE]
    BY <1>2, <2>2 DEF Flushed
  <2>3. QED
    BY <1>1, <2>1, <2>2
<1>11. ASSUME NEW f \in Executors \ {e} PROVE UNCHANGED Ledger(f)
  <2>1. /\ state'[f] = state[f] /\ lost'[f] = lost[f] /\ pc'[f] = pc[f]
        /\ taken'[f] = taken[f] /\ left'[f] = left[f]
    BY <1>1, <1>2
  <2>2. QED
    BY <1>1, <1>3, <2>1 DEF Ledger, callVars
<1>12. QED
  BY <1>6, <1>8, <1>9, <1>10, <1>11 DEF Outcome, Sound

LEMMA ProcessAccounts ==
  ASSUME TypeOK, NEW e \in Executors, Sound(e), Process(e)
  PROVE  Outcome(e)
<1> DEFINE m == taken[e] - left[e] + 1
           c == cq[e][m]
<1>1. /\ UNCHANGED <<state, phase, lost, sqCalls, sqResponses, cq, taken, remote, calls>>
      /\ UNCHANGED bounds
      /\ left[e] > 0
      /\ left' = [left EXCEPT ![e] = left[e] - 1]
      /\ settled' = [settled EXCEPT ![e] = IF c = "CALLBACK" THEN settled[e] + 1 ELSE settled[e]]
      /\ failed' = [failed EXCEPT ![e] = IF c = "ERROR" THEN failed[e] + 1 ELSE failed[e]]
      /\ consuming' = [consuming EXCEPT ![e] = IF c = "CALL" THEN consuming[e] + 1 ELSE consuming[e]]
      /\ pc' = [pc EXCEPT ![e] = IF c = "CALL" THEN "callback" ELSE "batch"]
  BY DEF Process
<1>2. /\ RingTypes /\ CallTypes
      /\ pc \in [Executors -> {"out", "batch", "callback"}]
      /\ left \in [Executors -> Nat] /\ settled \in [Executors -> Nat]
      /\ failed \in [Executors -> Nat] /\ consuming \in [Executors -> Nat]
      /\ consuming[e] \in Nat
  BY DEF TypeOK, WakeTypes, RingTypes, CallTypes
<1>3. /\ sqCalls[e] \in Nat /\ remote[e] \in Nat /\ taken[e] \in Nat /\ left[e] \in Nat
      /\ cq[e] \in Seq(Completions) /\ Len(cq[e]) \in Nat
      /\ calls[e] \in Int /\ settled[e] \in Nat /\ failed[e] \in Nat
  BY Values
<1>4. left[e] <= taken[e] /\ taken[e] <= Len(cq[e])
  BY DEF Sound, Batch
<1>5. m \in Nat \ {0} /\ m <= Len(cq[e]) /\ m \in 1 .. Len(cq[e])
  BY <1>1, <1>3, <1>4
<1>6. c \in {"CALLBACK", "ERROR", "CALL"}
  BY <1>3, <1>5 DEF Completions
<1>7. /\ c = "CALL" => Open(cq[e], m) = Open(cq[e], m + 1)
      /\ c # "CALL" => Open(cq[e], m) = Open(cq[e], m + 1) + 1
  BY <1>3, <1>5, OpenStep
<1>8. left'[e] = left[e] - 1 /\ left'[e] \in Nat /\ left' \in [Executors -> Nat]
  <2>1. left[e] - 1 \in Nat
    BY <1>1, <1>3
  <2>2. QED
    BY <1>1, <1>2, <2>1
<1>9. /\ Cardinality(Unprocessed(e)) = Open(cq[e], m)
      /\ Cardinality(Unprocessed(e))' = Open(cq[e], m + 1)
      /\ Open(cq[e], m + 1) \in Nat
  <2>1. taken'[e] - left'[e] + 1 = m + 1 /\ cq'[e] = cq[e]
    BY <1>1, <1>3, <1>8
  <2>2. Unprocessed(e)' = Answers(cq[e], m + 1)
    BY <2>1 DEF Unprocessed, Answers
  <2>3. QED
    BY <1>3, <1>5, <2>2, OpenIsNat, UnprocessedIs DEF Open
<1> HIDE DEF c, m
<1>10. /\ settled'[e] = IF c = "CALLBACK" THEN settled[e] + 1 ELSE settled[e]
       /\ failed'[e] = IF c = "ERROR" THEN failed[e] + 1 ELSE failed[e]
       /\ pc'[e] # "out"
       /\ settled' \in [Executors -> Nat] /\ failed' \in [Executors -> Nat]
       /\ consuming' \in [Executors -> Nat]
  BY <1>1, <1>2, <1>3
<1>11. RingTypes' /\ CallTypes'
  BY <1>1, <1>2, <1>8, <1>10 DEF RingTypes, CallTypes, bounds
<1>12. Batch(e)'
  BY <1>1, <1>3, <1>4, <1>8, <1>10 DEF Batch
<1>13. Accounted(e)'
  <2>1. UNCHANGED <<phase[e], calls[e], sqCalls[e], remote[e]>>
    BY <1>1
  <2>2. phase[e] # "closed" =>
          calls[e] = sqCalls[e] + remote[e] + Open(cq[e], m) + settled[e] + failed[e]
    BY <1>9 DEF Sound, Accounted
  <2> DEFINE before == Open(cq[e], m)
             after == Open(cq[e], m + 1)
  <2>3. /\ after \in Nat /\ (c = "CALL" => before = after) /\ (c # "CALL" => before = after + 1)
        /\ Cardinality(Unprocessed(e))' = after
        /\ phase[e] # "closed" => calls[e] = sqCalls[e] + remote[e] + before + settled[e] + failed[e]
    BY <1>7, <1>9, <2>2
  <2> HIDE DEF before, after
  <2>4. CASE c = "CALL"
    <3>1. settled'[e] = settled[e] /\ failed'[e] = failed[e]
      BY <1>10, <2>4
    <3>2. QED
      BY <1>3, <2>1, <2>3, <2>4, <3>1 DEF Accounted
  <2>5. CASE c = "CALLBACK"
    <3>1. settled'[e] = settled[e] + 1 /\ failed'[e] = failed[e]
      BY <1>10, <2>5
    <3>2. before = after + 1
      BY <2>3, <2>5
    <3>3. phase[e] # "closed" => calls[e] = sqCalls[e] + remote[e] + after + settled'[e] + failed'[e]
      <4>1. phase[e] # "closed" =>
              calls[e] = sqCalls[e] + remote[e] + (after + 1) + settled[e] + failed[e]
        BY <2>3, <3>2
      <4>2. /\ sqCalls[e] \in Int /\ remote[e] \in Int
            /\ calls[e] \in Int /\ settled[e] \in Int /\ failed[e] \in Int /\ after \in Int
        BY <1>3, <2>3
      <4>3. QED
        BY <3>1, <4>1, <4>2
    <3>4. QED
      BY <2>1, <2>3, <3>3 DEF Accounted
  <2>6. CASE c = "ERROR"
    <3>1. settled'[e] = settled[e] /\ failed'[e] = failed[e] + 1
      BY <1>10, <2>6
    <3>2. before = after + 1
      BY <2>3, <2>6
    <3>3. phase[e] # "closed" => calls[e] = sqCalls[e] + remote[e] + after + settled'[e] + failed'[e]
      <4>1. phase[e] # "closed" =>
              calls[e] = sqCalls[e] + remote[e] + (after + 1) + settled[e] + failed[e]
        BY <2>3, <3>2
      <4>2. /\ sqCalls[e] \in Int /\ remote[e] \in Int
            /\ calls[e] \in Int /\ settled[e] \in Int /\ failed[e] \in Int /\ after \in Int
        BY <1>3, <2>3
      <4>3. QED
        BY <3>1, <4>1, <4>2
    <3>4. QED
      BY <2>1, <2>3, <3>3 DEF Accounted
  <2>7. QED
    BY <1>6, <2>4, <2>5, <2>6
<1>14. Flushed(e)'
  BY <1>10 DEF Flushed
<1>15. ASSUME NEW f \in Executors \ {e} PROVE UNCHANGED Ledger(f)
  <2>1. /\ pc'[f] = pc[f] /\ left'[f] = left[f]
        /\ settled'[f] = settled[f] /\ failed'[f] = failed[f]
    BY <1>1, <1>2
  <2>2. QED
    BY <1>1, <2>1 DEF Ledger
<1>16. QED
  BY <1>11, <1>12, <1>13, <1>14, <1>15 DEF Outcome, Sound

LEMMA AwakeCompleteAccounts ==
  ASSUME TypeOK, NEW e \in Executors, Sound(e), AwakeComplete(e)
  PROVE  Outcome(e)
<1> DEFINE m == taken[e] + 1
           rest == SubSeq(cq[e], m, Len(cq[e]))
<1>1. /\ UNCHANGED <<phase, left, lost>> /\ UNCHANGED callVars /\ UNCHANGED bounds
      /\ left[e] = 0
      /\ cq' = [cq EXCEPT ![e] = rest]
      /\ taken' = [taken EXCEPT ![e] = 0]
      /\ Submitted(e)
      /\ state' = [state EXCEPT ![e] = "IDLE"]
      /\ pc' = [pc EXCEPT ![e] = "out"]
  <2>1. Completes(e)
    BY AwakeCompleteIs DEF TypeOK
  <2>2. QED
    BY <2>1 DEF Completes
<1>2. /\ RingTypes /\ CallTypes /\ state \in [Executors -> States]
      /\ pc \in [Executors -> {"out", "batch", "callback"}]
      /\ taken \in [Executors -> Nat] /\ cq \in [Executors -> Seq(Completions)]
  BY DEF TypeOK, WakeTypes, RingTypes
<1>3. /\ sqCalls[e] \in Nat /\ remote[e] \in Nat /\ taken[e] \in Nat
      /\ cq[e] \in Seq(Completions) /\ Len(cq[e]) \in Nat
      /\ settled[e] \in Nat /\ failed[e] \in Nat /\ Cardinality(Unprocessed(e)) \in Nat
  BY Values, OpenNow
<1>4. /\ remote' \in [Executors -> Nat] /\ sqCalls' \in [Executors -> Nat]
      /\ sqResponses' \in [Executors -> Nat]
      /\ sqCalls'[e] + remote'[e] = sqCalls[e] + remote[e]
      /\ \A f \in Executors \ {e} :
           sqCalls'[f] = sqCalls[f] /\ remote'[f] = remote[f] /\ sqResponses'[f] = sqResponses[f]
  BY <1>1, <1>2, Submission
<1>5. m \in Nat \ {0} /\ m <= Len(cq[e]) + 1
  BY <1>3 DEF Sound, Batch
<1>6. rest \in Seq(Completions)
  BY <1>3, <1>5
<1>7. Open(rest, 1) = Open(cq[e], m)
  BY <1>3, <1>5, OpenDrop
<1>8. Cardinality(Unprocessed(e)) = Open(cq[e], m)
  <2>1. taken[e] - left[e] + 1 = m
    BY <1>1, <1>3
  <2>2. QED
    BY <2>1, UnprocessedIs
<1> HIDE DEF rest, m
<1>9. /\ cq' \in [Executors -> Seq(Completions)] /\ taken' \in [Executors -> Nat]
      /\ cq'[e] = rest /\ taken'[e] = 0 /\ left'[e] = 0 /\ Len(rest) \in Nat
  BY <1>1, <1>2, <1>6
<1>10. RingTypes' /\ CallTypes'
  BY <1>1, <1>2, <1>4, <1>9 DEF RingTypes, CallTypes, callVars, bounds
<1>11. Batch(e)'
  BY <1>9 DEF Batch
<1>12. Unprocessed(e)' = Answers(rest, 1)
  BY <1>9 DEF Unprocessed, Answers
<1>13. Accounted(e)'
  <2>1. UNCHANGED <<phase[e], calls[e], settled[e], failed[e]>>
    BY <1>1 DEF callVars
  <2>2. Cardinality(Unprocessed(e))' = Cardinality(Unprocessed(e))
    BY <1>7, <1>8, <1>12 DEF Open
  <2>3. sqCalls'[e] \in Nat /\ remote'[e] \in Nat
    BY <1>4
  <2>4. QED
    BY <1>3, <1>4, <2>1, <2>2, <2>3 DEF Sound, Accounted
<1>14. Flushed(e)'
  BY <1>1, <1>2, SubmittedEmpties DEF Flushed
<1>15. ASSUME NEW f \in Executors \ {e} PROVE UNCHANGED Ledger(f)
  <2>1. /\ pc'[f] = pc[f] /\ state'[f] = state[f] /\ taken'[f] = taken[f] /\ cq'[f] = cq[f]
    BY <1>1, <1>2
  <2>2. QED
    BY <1>1, <1>4, <2>1 DEF Ledger, callVars
<1>16. QED
  BY <1>10, <1>11, <1>13, <1>14, <1>15 DEF Outcome, Sound

\* A completion that arrives: an answer of a call that was out, or a call.
LEMMA ArrivalAccounts ==
  ASSUME TypeOK, NEW e \in Executors, Sound(e), Answer(e) \/ CallDart(e)
  PROVE  Outcome(e)
<1>1. /\ UNCHANGED <<state, pc, phase, lost, taken, left, sqCalls, sqResponses>>
      /\ UNCHANGED <<callVars, made, pauses>>
  BY DEF Answer, CallDart, bounds
<1>2. /\ RingTypes /\ CallTypes
      /\ cq \in [Executors -> Seq(Completions)] /\ remote \in [Executors -> Nat]
      /\ incoming \in [Executors -> Nat] /\ incoming[e] \in Nat
  BY DEF TypeOK, RingTypes, CallTypes
<1>3. /\ sqCalls[e] \in Nat /\ remote[e] \in Nat /\ taken[e] \in Nat /\ left[e] \in Nat
      /\ cq[e] \in Seq(Completions) /\ Len(cq[e]) \in Nat
      /\ calls[e] \in Int /\ settled[e] \in Nat /\ failed[e] \in Nat
  BY Values
<1>4. left[e] <= taken[e] /\ taken[e] <= Len(cq[e]) /\ (pc[e] = "out" => taken[e] = 0)
  BY DEF Sound, Batch
<1> DEFINE m == taken[e] - left[e] + 1
<1>5. m \in Nat \ {0} /\ m <= Len(cq[e]) + 1
  BY <1>3, <1>4
<1>6. Cardinality(Unprocessed(e)) = Open(cq[e], m) /\ Open(cq[e], m) \in Nat
  BY <1>3, <1>5, UnprocessedIs, OpenIsNat
<1>7. Cardinality(Unprocessed(e))' = Open(cq'[e], m)
  BY <1>1 DEF Unprocessed, Open, Answers
<1> HIDE DEF m
<1>8. PICK c \in Completions :
        /\ \/ /\ remote[e] > 0 /\ remote' = [remote EXCEPT ![e] = remote[e] - 1]
              /\ c # "CALL" /\ UNCHANGED incoming
           \/ /\ UNCHANGED remote /\ incoming' = [incoming EXCEPT ![e] = incoming[e] + 1]
              /\ c = "CALL"
        /\ \/ cq' = [cq EXCEPT ![e] = Append(cq[e], c)]
           \/ phase[e] = "closed" /\ cq' = [cq EXCEPT ![e] = cq[e]]
  <2>1. CASE CallDart(e)
    <3>1. "CALL" \in Completions
      BY DEF Completions
    <3>2. QED
      BY <2>1, <3>1 DEF CallDart
  <2>2. CASE Answer(e)
    <3>1. PICK c \in {"CALLBACK", "ERROR"} :
            cq' = [cq EXCEPT ![e] = IF phase[e] = "closed" THEN cq[e] ELSE Append(cq[e], c)]
      BY <2>2 DEF Answer
    <3>2. c \in Completions /\ c # "CALL"
      BY <3>1 DEF Completions
    <3>3. remote[e] > 0 /\ remote' = [remote EXCEPT ![e] = remote[e] - 1] /\ UNCHANGED incoming
      BY <2>2 DEF Answer, bounds
    <3>4. QED
      BY <3>1, <3>2, <3>3
  <2>3. QED
    BY <2>1, <2>2
<1>9. /\ remote' \in [Executors -> Nat] /\ incoming' \in [Executors -> Nat]
      /\ c = "CALL" => remote'[e] = remote[e]
      /\ c # "CALL" => remote'[e] = remote[e] - 1 /\ remote[e] > 0
  <2>1. CASE remote[e] > 0 /\ remote' = [remote EXCEPT ![e] = remote[e] - 1] /\ UNCHANGED incoming
    <3>1. remote[e] - 1 \in Nat
      BY <1>3, <2>1
    <3>2. c # "CALL"
      BY <1>2, <1>3, <1>8, <2>1
    <3>3. QED
      BY <1>2, <2>1, <3>1, <3>2
  <2>2. CASE UNCHANGED remote /\ incoming' = [incoming EXCEPT ![e] = incoming[e] + 1] /\ c = "CALL"
    <3>1. incoming[e] + 1 \in Nat
      BY <1>2
    <3>2. QED
      BY <1>2, <2>2, <3>1
  <2>3. QED
    BY <1>8, <2>1, <2>2
<1>10. Append(cq[e], c) \in Seq(Completions) /\ Len(Append(cq[e], c)) = Len(cq[e]) + 1
  BY <1>3
<1>11. /\ cq' \in [Executors -> Seq(Completions)]
       /\ cq'[e] = Append(cq[e], c) \/ (phase[e] = "closed" /\ cq'[e] = cq[e])
       /\ \A f \in Executors \ {e} : cq'[f] = cq[f]
  <2>1. CASE cq' = [cq EXCEPT ![e] = Append(cq[e], c)]
    <3>1. cq'[e] = Append(cq[e], c) /\ \A f \in Executors \ {e} : cq'[f] = cq[f]
      BY <1>2, <2>1
    <3>2. cq' \in [Executors -> Seq(Completions)]
      BY <1>2, <1>10, <2>1, Updated
    <3>3. QED
      BY <3>1, <3>2
  <2>2. CASE phase[e] = "closed" /\ cq' = [cq EXCEPT ![e] = cq[e]]
    BY <1>2, <2>2
  <2>3. QED
    BY <1>8, <2>1, <2>2
<1>12. RingTypes' /\ CallTypes'
  BY <1>1, <1>2, <1>9, <1>11 DEF RingTypes, CallTypes, callVars
<1>13. Batch(e)'
  <2>1. Len(cq'[e]) \in Nat /\ Len(cq[e]) <= Len(cq'[e])
    BY <1>3, <1>10, <1>11
  <2>2. QED
    BY <1>1, <1>3, <1>4, <2>1 DEF Batch
<1>14. Accounted(e)'
  <2>1. SUFFICES ASSUME phase[e] # "closed"
                 PROVE  calls'[e] = sqCalls'[e] + remote'[e] + Cardinality(Unprocessed(e))'
                                      + settled'[e] + failed'[e]
    BY <1>1 DEF Accounted
  <2>2. calls[e] = sqCalls[e] + remote[e] + Open(cq[e], m) + settled[e] + failed[e]
    BY <1>6, <2>1 DEF Sound, Accounted
  <2>3. UNCHANGED <<calls[e], sqCalls[e], settled[e], failed[e]>>
    BY <1>1 DEF callVars
  <2>4. cq'[e] = Append(cq[e], c)
    BY <1>11, <2>1
  <2>5. /\ c = "CALL" => Open(cq'[e], m) = Open(cq[e], m)
        /\ c # "CALL" => Open(cq'[e], m) = Open(cq[e], m) + 1
    BY <1>3, <1>5, <2>4, OpenAppend
  <2> DEFINE before == Open(cq[e], m)
             after == Open(cq'[e], m)
  <2>6. /\ before \in Nat /\ (c = "CALL" => after = before) /\ (c # "CALL" => after = before + 1)
        /\ Cardinality(Unprocessed(e))' = after
        /\ calls[e] = sqCalls[e] + remote[e] + before + settled[e] + failed[e]
    BY <1>6, <1>7, <2>2, <2>5
  <2> HIDE DEF before, after
  <2>7. CASE c = "CALL"
    BY <1>3, <1>9, <2>3, <2>6, <2>7
  <2>8. CASE c # "CALL"
    <3>1. after = before + 1 /\ remote'[e] = remote[e] - 1
      BY <1>9, <2>6, <2>8
    <3>2. calls[e] = sqCalls[e] + remote'[e] + after + settled[e] + failed[e]
      <4>1. calls[e] = sqCalls[e] + remote[e] + before + settled[e] + failed[e] /\ before \in Nat
        BY <2>6
      <4>2. /\ sqCalls[e] \in Int /\ remote[e] \in Int
            /\ calls[e] \in Int /\ settled[e] \in Int /\ failed[e] \in Int /\ before \in Int
        BY <1>3, <2>6
      <4>3. QED
        BY <3>1, <4>1, <4>2
    <3>3. QED
      BY <2>3, <2>6, <3>2
  <2>9. QED
    BY <2>7, <2>8
<1>15. Flushed(e)'
  BY <1>1 DEF Flushed, Sound
<1>16. ASSUME NEW f \in Executors \ {e} PROVE UNCHANGED Ledger(f)
  <2>1. remote'[f] = remote[f]
    BY <1>2, <1>8
  <2>2. QED
    BY <1>1, <1>11, <2>1 DEF Ledger, callVars
<1>17. QED
  BY <1>12, <1>13, <1>14, <1>15, <1>16 DEF Outcome, Sound

-----------------------------------------------------------------------------
(* The invariant of the calls. *)

CallsIInv ==
  /\ WakeUpInv /\ RingTypes /\ CallTypes
  /\ \A f \in Executors : Sound(f) /\ Circulates(f)

LEMMA CallsInit == Init => CallsIInv
<1> SUFFICES ASSUME Init PROVE CallsIInv
  OBVIOUS
<1>1. RingTypes
  BY DEF Init, RingTypes
<1>2. CallTypes
  BY DEF Init, CallTypes
<1>3. ASSUME NEW f \in Executors PROVE Sound(f)
  <2>1. /\ left[f] = 0 /\ taken[f] = 0 /\ cq[f] = <<>> /\ calls[f] = 0 /\ sqCalls[f] = 0
        /\ remote[f] = 0 /\ settled[f] = 0 /\ failed[f] = 0 /\ state[f] = "PAUSED"
    BY DEF Init
  <2>2. Unprocessed(f) = {}
    BY <2>1 DEF Unprocessed
  <2>3. Cardinality(Unprocessed(f)) = 0
    BY <2>2, FS_EmptySet
  <2>4. QED
    BY <2>1, <2>3 DEF Sound, Batch, Accounted, Flushed
<1>4. QED
  BY <1>1, <1>2, <1>3, WakeUpInit, CirculatesInit DEF CallsIInv

LEMMA CallsNext == CallsIInv /\ [Next]_vars => CallsIInv'
<1> SUFFICES ASSUME CallsIInv, [Next]_vars PROVE CallsIInv'
  OBVIOUS
<1>1. WakeUpInv'
  BY WakeUpNext DEF CallsIInv
<1>2. TypeOK /\ WakeTypes /\ pauses \in [Executors -> Nat]
  BY DEF CallsIInv, WakeUpInv, TypeOK, CallTypes
<1>3. CASE UNCHANGED vars
  <2>1. /\ UNCHANGED <<state, pc, phase, lost, cq, taken, left, sqCalls, sqResponses, remote>>
        /\ UNCHANGED <<callVars, bounds, armed, port, inbox>>
    BY <1>3 DEF vars, nativeVars
  <2>2. RingTypes' /\ CallTypes'
    BY <1>2, <2>1 DEF TypeOK, RingTypes, CallTypes, callVars, bounds
  <2>3. ASSUME NEW f \in Executors PROVE Sound(f)'
    <3>1. UNCHANGED Ledger(f)
      BY <2>1 DEF Ledger, callVars
    <3>2. QED
      BY <3>1, LedgerKeeps DEF CallsIInv
  <2>4. ASSUME NEW f \in Executors PROVE Circulates(f)'
    <3>1. Waking(f)' = Waking(f) /\ Leaving(f)' = Leaving(f)
      BY <2>1, CountSame
    <3>2. QED
      BY <2>1, <3>1 DEF Circulates, Idle, bounds, CallsIInv
  <2>5. QED
    BY <1>1, <2>2, <2>3, <2>4 DEF CallsIInv
<1>4. ASSUME NEW e \in Executors, Isolate(e) \/ Native(e) \/ Scheduler(e)
      PROVE  CallsIInv'
  <2>1. Sound(e)
    BY DEF CallsIInv
  <2>2. Outcome(e)
    BY <1>2, <1>4, <2>1, ActivateAccounts, DeactivateAccounts, CallAccounts, SettleAccounts,
       RespondAccounts, ClosingAccounts, SchedulerAccounts, AwakeBeginAccounts,
       ProcessAccounts, AwakeCompleteAccounts, ArrivalAccounts
       DEF Isolate, Native
  <2>3. ASSUME NEW f \in Executors PROVE Sound(f)'
    <3>1. CASE f = e
      BY <2>2, <3>1 DEF Outcome
    <3>2. CASE f # e
      BY <2>2, <3>2, LedgerKeeps DEF Outcome, CallsIInv
    <3>3. QED
      BY <3>1, <3>2
  <2>4. ASSUME NEW f \in Executors PROVE Circulates(f)'
    BY <1>2, <1>4, CirculationKeeps DEF CallsIInv
  <2>5. QED
    BY <1>1, <2>2, <2>3, <2>4 DEF CallsIInv, Outcome
<1>5. QED
  BY <1>3, <1>4 DEF Next

LEMMA CallsMeans == CallsIInv => CallsInv
<1> SUFFICES ASSUME CallsIInv PROVE CallsInv
  OBVIOUS
<1>1. TypeOK /\ WakeTypes /\ pauses \in [Executors -> Nat]
  BY DEF CallsIInv, WakeUpInv, TypeOK, CallTypes
<1>2. CallsAccounted
  BY DEF CallsIInv, CallsAccounted, Sound, Accounted
<1>3. IdleMeansSubmitted
  BY DEF CallsIInv, IdleMeansSubmitted, Sound, Flushed
<1>4. FewWakeUps
  BY <1>1, CirculatesFew DEF CallsIInv
<1>5. QED
  BY <1>1, <1>2, <1>3, <1>4 DEF CallsInv

\* For every number of executors, ring size and bound: no call of a producer is
\* lost or answered twice between _calls, the rings, the batch of _awake and the
\* microtasks; an idle executor has submitted what it queued; and an executor
\* has one wake-up in circulation and at most two more for each deactivation.
THEOREM CallsKept == Spec => []CallsInv
<1>1. Spec => []CallsIInv
  BY CallsInit, CallsNext, PTL DEF Spec
<1>2. QED
  BY <1>1, CallsMeans, PTL

-----------------------------------------------------------------------------
(* The end of shutdown. *)

\* A closed executor is at rest.
AtRest(f) ==
  phase[f] = "closed" =>
    /\ pc[f] = "out" /\ taken[f] = 0
    /\ calls[f] = 0 /\ consuming[f] = 0
    /\ sqCalls[f] = 0 /\ remote[f] = 0 /\ settled[f] = 0 /\ failed[f] = 0
    /\ \A i \in DOMAIN cq[f] : cq[f][i] = "CALL"

\* _awake leaves no executor STOPPED, and the call whose callback runs is counted.
Watched(f) ==
  /\ state[f] # "STOPPED"
  /\ pc[f] = "callback" => consuming[f] > 0

RestInv == CallsIInv /\ \A f \in Executors : AtRest(f) /\ Watched(f)

\* What AtRest and Watched of an executor depend on.
Seat(f) ==
  <<state[f], pc[f], phase[f], taken[f], calls[f], consuming[f], sqCalls[f], remote[f],
    settled[f], failed[f], cq[f]>>

LEMMA SeatKeeps ==
  ASSUME NEW f, UNCHANGED Seat(f), AtRest(f), Watched(f)
  PROVE  AtRest(f)' /\ Watched(f)'
  BY DEF Seat, AtRest, Watched

\* Nothing pending means nothing anywhere.
LEMMA NothingPending ==
  ASSUME TypeOK, NEW e \in Executors, Sound(e), phase[e] # "closed", calls[e] = 0
  PROVE  /\ sqCalls[e] = 0 /\ remote[e] = 0 /\ settled[e] = 0 /\ failed[e] = 0
         /\ left[e] = taken[e] => \A i \in DOMAIN cq[e] : cq[e][i] = "CALL"
<1>1. /\ sqCalls[e] \in Nat /\ remote[e] \in Nat /\ settled[e] \in Nat /\ failed[e] \in Nat
      /\ cq[e] \in Seq(Completions) /\ Len(cq[e]) \in Nat /\ taken[e] \in Nat /\ left[e] \in Nat
      /\ Cardinality(Unprocessed(e)) \in Nat
  BY Values, OpenNow
<1>2. /\ sqCalls[e] = 0 /\ remote[e] = 0 /\ settled[e] = 0 /\ failed[e] = 0
      /\ Cardinality(Unprocessed(e)) = 0
  <2>1. sqCalls[e] + remote[e] + Cardinality(Unprocessed(e)) + settled[e] + failed[e] = 0
    BY DEF Sound, Accounted
  <2>2. /\ sqCalls[e] \in Nat /\ remote[e] \in Nat /\ Cardinality(Unprocessed(e)) \in Nat
        /\ settled[e] \in Nat /\ failed[e] \in Nat
    BY <1>1
  <2> DEFINE n == Cardinality(Unprocessed(e))
  <2>3. n \in Nat /\ sqCalls[e] + remote[e] + n + settled[e] + failed[e] = 0
    BY <2>1, <2>2
  <2> HIDE DEF n
  <2>4. sqCalls[e] = 0 /\ remote[e] = 0 /\ n = 0 /\ settled[e] = 0 /\ failed[e] = 0
    <3> DEFINE q == sqCalls[e]
               r == remote[e]
               t == settled[e]
               u == failed[e]
    <3>1. q \in Nat /\ r \in Nat /\ t \in Nat /\ u \in Nat /\ n \in Nat
      BY <2>2, <2>3
    <3>2. q + r + n + t + u = 0
      BY <2>3
    <3> HIDE DEF q, r, t, u
    <3>3. q = 0 /\ r = 0 /\ n = 0 /\ t = 0 /\ u = 0
      BY <3>1, <3>2
    <3>4. QED
      BY <3>3 DEF q, r, t, u
  <2>5. QED
    BY <2>4 DEF n
<1>3. IsFiniteSet(Unprocessed(e))
  <2>1. IsFiniteSet(taken[e] - left[e] + 1 .. Len(cq[e]))
    <3>1. taken[e] - left[e] + 1 \in Int /\ Len(cq[e]) \in Int
      BY <1>1
    <3>2. QED
      BY <3>1, FS_Interval
  <2>2. QED
    BY <2>1, FS_Subset DEF Unprocessed
<1>4. Unprocessed(e) = {}
  BY <1>2, <1>3, FS_EmptySet
<1>5. ASSUME left[e] = taken[e], NEW i \in DOMAIN cq[e] PROVE cq[e][i] = "CALL"
  <2>1. i \in taken[e] - left[e] + 1 .. Len(cq[e])
    BY <1>1, <1>5
  <2>2. QED
    BY <1>4, <2>1 DEF Unprocessed
<1>6. QED
  BY <1>2, <1>5

\* A step of an executor that is not closed and stays so.
LEMMA OpenStays ==
  ASSUME NEW e \in Executors, phase'[e] # "closed", state'[e] # "STOPPED",
         pc'[e] = "callback" => consuming'[e] > 0
  PROVE  AtRest(e)' /\ Watched(e)'
  BY DEF AtRest, Watched

LEMMA ShutdownRests ==
  ASSUME TypeOK, NEW e \in Executors, Sound(e), Watched(e), Shutdown(e)
  PROVE  AtRest(e)' /\ Watched(e)' /\ UNCHANGED consuming
<1>1. /\ phase[e] = "running" /\ pc[e] \in {"out", "callback"}
      /\ state' = [state EXCEPT ![e] = "STOPPING"]
      /\ UNCHANGED <<pc, sqCalls, sqResponses, cq, taken, left, remote>>
      /\ UNCHANGED <<calls, failed, settled, consuming>>
  BY DEF Shutdown, Application, callVars
<1>2. /\ state \in [Executors -> States]
      /\ phase \in [Executors -> {"running", "stopping", "closed"}]
      /\ consuming[e] \in Nat
  BY DEF TypeOK, WakeTypes, CallTypes
<1>3. state'[e] = "STOPPING"
  BY <1>1, <1>2
<1>4. Watched(e)'
  BY <1>1, <1>3 DEF Watched
<1>5. CASE Pending(e) # 0
  <2>1. phase' = [phase EXCEPT ![e] = "stopping"]
    BY <1>5 DEF Shutdown
  <2>2. phase'[e] # "closed"
    BY <1>2, <2>1
  <2>3. QED
    BY <1>1, <1>4, <2>2 DEF AtRest
<1>6. CASE Pending(e) = 0
  <2>1. /\ sqCalls[e] \in Nat /\ remote[e] \in Nat /\ settled[e] \in Nat /\ failed[e] \in Nat
        /\ Cardinality(Unprocessed(e)) \in Nat /\ calls[e] \in Int
        /\ left[e] \in Nat /\ taken[e] \in Nat
    BY Values, OpenNow
  <2>2. calls[e] >= 0
    BY <1>1, <2>1 DEF Sound, Accounted
  <2>3. calls[e] = 0 /\ consuming[e] = 0
    BY <1>2, <1>6, <2>1, <2>2 DEF Pending
  <2>4. pc[e] = "out"
    BY <1>1, <2>3 DEF Watched
  <2>5. taken[e] = 0 /\ left[e] = taken[e]
    BY <2>1, <2>4 DEF Sound, Batch
  <2>6. /\ sqCalls[e] = 0 /\ remote[e] = 0 /\ settled[e] = 0 /\ failed[e] = 0
        /\ \A i \in DOMAIN cq[e] : cq[e][i] = "CALL"
    BY <1>1, <2>3, <2>5, NothingPending
  <2>7. AtRest(e)'
    BY <1>1, <2>3, <2>4, <2>5, <2>6 DEF AtRest
  <2>8. QED
    BY <1>1, <1>4, <2>7
<1>7. QED
  BY <1>5, <1>6

LEMMA RestStep ==
  ASSUME TypeOK, NEW e \in Executors, Sound(e), AtRest(e), Watched(e),
         Isolate(e) \/ Native(e) \/ Scheduler(e)
  PROVE  /\ AtRest(e)' /\ Watched(e)'
         /\ \A f \in Executors \ {e} : consuming'[f] = consuming[f]
<1>0. /\ WakeTypes /\ state \in [Executors -> States]
      /\ pc \in [Executors -> {"out", "batch", "callback"}]
      /\ phase \in [Executors -> {"running", "stopping", "closed"}]
      /\ consuming \in [Executors -> Nat]
  BY DEF TypeOK, WakeTypes, CallTypes
<1>1. CASE Activate(e) \/ Deactivate(e) \/ Call(e)
  <2>1. /\ phase[e] = "running" /\ UNCHANGED <<phase, pc, consuming>>
        /\ state' = state \/ \E v \in {"IDLE", "PAUSED"} : state' = [state EXCEPT ![e] = v]
    BY <1>1 DEF Activate, Deactivate, Call, Application, callVars
  <2>2. state'[e] # "STOPPED"
    BY <1>0, <2>1 DEF Watched
  <2>3. QED
    BY <2>1, <2>2, OpenStays DEF Watched
<1>2. CASE Settle(e) \/ Respond(e)
  <2>1. /\ phase[e] # "closed" /\ pc[e] = "out" /\ UNCHANGED <<phase, pc, state>>
        /\ consuming' = consuming \/ consuming' = [consuming EXCEPT ![e] = consuming[e] - 1]
    BY <1>2 DEF Settle, Respond
  <2>2. AtRest(e)' /\ Watched(e)'
    BY <2>1, OpenStays DEF Watched
  <2>3. QED
    BY <1>0, <2>1, <2>2
<1>3. CASE AwakeIgnored(e)
  <2>1. /\ phase' = [phase EXCEPT ![e] = phase[e]] /\ UNCHANGED <<pc, state, cq, taken>>
        /\ UNCHANGED <<calls, consuming, sqCalls, remote, settled, failed>>
    BY <1>3 DEF AwakeIgnored, Watched, callVars
  <2>2. UNCHANGED Seat(e)
    BY <1>0, <2>1 DEF Seat
  <2>3. QED
    BY <2>1, <2>2, SeatKeeps
<1>4. CASE AwakeBegin(e)
  <2>1. /\ phase[e] # "closed" /\ pc[e] = "out" /\ UNCHANGED <<phase, consuming>>
        /\ \E v \in {"IDLE", "WAKING"} : state' = [state EXCEPT ![e] = v]
        /\ pc' = pc \/ \E v \in {"out", "batch"} : pc' = [pc EXCEPT ![e] = v]
    BY <1>4 DEF AwakeBegin, callVars
  <2>2. state'[e] # "STOPPED" /\ pc'[e] # "callback"
    BY <1>0, <2>1
  <2>3. QED
    BY <2>1, <2>2, OpenStays
<1>5. CASE Process(e)
  <2>1. /\ pc[e] # "out" /\ UNCHANGED <<phase, state>>
        /\ \/ /\ consuming' = [consuming EXCEPT ![e] = consuming[e] + 1]
              /\ pc' = [pc EXCEPT ![e] = "callback"]
           \/ /\ consuming' = [consuming EXCEPT ![e] = consuming[e]]
              /\ pc' = [pc EXCEPT ![e] = "batch"]
    BY <1>5 DEF Process
  <2>2. phase[e] # "closed"
    BY <2>1 DEF AtRest
  <2>3. pc'[e] = "callback" => consuming'[e] > 0
    BY <1>0, <2>1
  <2>4. AtRest(e)' /\ Watched(e)'
    BY <2>1, <2>2, <2>3, OpenStays DEF Watched
  <2>5. QED
    BY <1>0, <2>1, <2>4
<1>6. CASE AwakeComplete(e)
  <2>1. /\ pc[e] # "out" /\ UNCHANGED <<phase, consuming>>
        /\ state' = [state EXCEPT ![e] = "IDLE"] /\ pc' = [pc EXCEPT ![e] = "out"]
    BY <1>0, <1>6, AwakeCompleteIs DEF Completes, callVars
  <2>2. phase'[e] # "closed" /\ state'[e] # "STOPPED" /\ pc'[e] # "callback"
    BY <1>0, <2>1 DEF AtRest
  <2>3. QED
    BY <2>1, <2>2, OpenStays
<1>7. CASE Shutdown(e)
  BY <1>7, ShutdownRests
<1>8. CASE Answer(e) \/ CallDart(e)
  <2>1. /\ UNCHANGED <<phase, state, pc, consuming>>
        /\ remote[e] > 0 \/ phase[e] # "closed"
    BY <1>8 DEF Answer, CallDart, callVars
  <2>2. phase[e] # "closed"
    BY <2>1 DEF AtRest
  <2>3. QED
    BY <2>1, <2>2, OpenStays DEF Watched
<1>9. CASE PollFires(e) \/ Scheduler(e)
  <2>1. /\ UNCHANGED <<state, pc, phase, cq, taken, sqCalls, remote>>
        /\ UNCHANGED <<calls, consuming, settled, failed>>
    BY <1>9 DEF PollFires, Scheduler, SchedulePollin, SchedulePoll, ScheduleRegister,
           ScheduleUnregister, Schedule, callVars
  <2>2. UNCHANGED Seat(e)
    BY <2>1 DEF Seat
  <2>3. QED
    BY <2>1, <2>2, SeatKeeps
<1>10. QED
  BY <1>1, <1>2, <1>3, <1>4, <1>5, <1>6, <1>7, <1>8, <1>9 DEF Isolate, Native

LEMMA RestNext == RestInv /\ [Next]_vars => RestInv'
<1> SUFFICES ASSUME RestInv, [Next]_vars PROVE RestInv'
  OBVIOUS
<1>1. CallsIInv'
  BY CallsNext DEF RestInv
<1>2. TypeOK /\ \A f \in Executors : Sound(f)
  BY DEF RestInv, CallsIInv, WakeUpInv, TypeOK
<1>3. CASE UNCHANGED vars
  <2>1. \A f \in Executors : UNCHANGED Seat(f)
    BY <1>3 DEF vars, callVars, Seat
  <2>2. QED
    BY <1>1, <2>1, SeatKeeps DEF RestInv
<1>4. ASSUME NEW e \in Executors, Isolate(e) \/ Native(e) \/ Scheduler(e)
      PROVE  RestInv'
  <2>1. Outcome(e)
    BY <1>2, <1>4, ActivateAccounts, DeactivateAccounts, CallAccounts, SettleAccounts,
       RespondAccounts, ClosingAccounts, SchedulerAccounts, AwakeBeginAccounts,
       ProcessAccounts, AwakeCompleteAccounts, ArrivalAccounts
       DEF Isolate, Native
  <2>2. /\ AtRest(e)' /\ Watched(e)'
        /\ \A f \in Executors \ {e} : consuming'[f] = consuming[f]
    BY <1>2, <1>4, RestStep DEF RestInv
  <2>3. ASSUME NEW f \in Executors, f # e PROVE AtRest(f)' /\ Watched(f)'
    <3>1. UNCHANGED Ledger(f) /\ consuming'[f] = consuming[f]
      BY <2>1, <2>2, <2>3 DEF Outcome
    <3>2. UNCHANGED Seat(f)
      BY <3>1 DEF Ledger, Seat
    <3>3. QED
      BY <3>2, SeatKeeps DEF RestInv
  <2>4. QED
    BY <1>1, <2>2, <2>3 DEF RestInv
<1>5. QED
  BY <1>3, <1>4 DEF Next

\* For every number of executors and every bound: shutdown destroys no executor that is
\* in _awake or has a call of a producer or of a consumer under way.  It rests on the
\* ledger of calls: _pending() is zero only if nothing is left in any of their places.
THEOREM ShutdownAtRest == Spec => []DestroyedAtRest
<1>1. Init => RestInv
  <2>1. Init => \A f \in Executors : AtRest(f) /\ Watched(f)
    BY DEF Init, AtRest, Watched
  <2>2. QED
    BY <2>1, CallsInit DEF RestInv
<1>2. RestInv => DestroyedAtRest
  BY DEF RestInv, AtRest, DestroyedAtRest
<1>3. QED
  BY <1>1, <1>2, RestNext, PTL DEF Spec

-----------------------------------------------------------------------------
(* The inductive invariant, for one service. *)

Past == {"exposed", "serving", "handling", "ending", "retiring"}

\* The isolate asleep at the condition has been told of what it waits for; it looks
\* at the flags with the mutex in its hands.
Asleep(s) ==
  \A stage \in Stages :
    /\ main[s] = At(stage, "waiting") /\ ~notified[s] => ~Ready(s, stage)
    /\ main[s] = At(stage, "checking") => mutex[s][stage] = "main"

\* The scheduler's flag is set only while its thread is in the loop, and it stays
\* set, with the service initialized, until the shutdown.
Scheduled(s) ==
  s = "scheduler" =>
    /\ active[s] => thread[s] \in {"serving", "handling"} /\ ring[s] = "open"
    /\ main[s].at = "up" => active[s] /\ initialized[s]

\* The static mutex of the storage tells its first initialization from the others:
\* as long as it is not destroyed, the flag is not left over from an earlier thread.
Stored(s) ==
  s = "storage" =>
    /\ ~freed[s]
    /\ thread[s] \in {"locking", "publishing"} \union Past => ring[s] # "none"
    /\ mutex[s]["initialization"] # "destroyed" =>
         /\ main[s].stage = "initialization" /\ main[s].at \notin {"up", "down"}
         /\ mutex[s]["shutdown"] # "destroyed"
         /\ initialized[s] => thread[s] \in Past
    /\ main[s].at = "up" /\ ~initialized[s] => thread[s] = "exited"

\* What the calls report of the thread.
Reported(s) ==
  /\ main[s].at = "idle" => thread[s] \in {"none", "exited"}
  /\ main[s].at = "up" => thread[s] \in Past \union {"exited"} /\ ring[s] # "none"
  /\ main[s].stage = "shutdown" /\ main[s].at \in Inside /\ ~initialized[s] => thread[s] = "exited"
  /\ main[s].at = "down" => thread[s] = "exited"
  /\ freed[s] /\ thread[s] # "exited" => main[s] = At("shutdown", "failed")

ServiceInv(s) == Asleep(s) /\ Scheduled(s) /\ Stored(s) /\ Reported(s)

LifecycleInv == ThreadTypeOK /\ \A s \in Services : ServiceInv(s)
-----------------------------------------------------------------------------
(* One service moves, the other one does not. *)

Alone(s) ==
  \A t \in Services \ {s} :
    /\ main'[t] = main[t] /\ thread'[t] = thread[t] /\ mutex'[t] = mutex[t]
    /\ notified'[t] = notified[t] /\ initialized'[t] = initialized[t] /\ active'[t] = active[t]
    /\ nop'[t] = nop[t] /\ ring'[t] = ring[t] /\ freed'[t] = freed[t]

LEMMA Elsewhere ==
  ASSUME LifecycleInv, NEW s \in Services, Alone(s), ThreadTypeOK', ServiceInv(s)'
  PROVE  LifecycleInv'
<1>1. SUFFICES ASSUME NEW t \in Services, t # s PROVE ServiceInv(t)'
  BY DEF LifecycleInv
<1>2. ServiceInv(t)
  BY DEF LifecycleInv
<1>3. /\ main'[t] = main[t] /\ thread'[t] = thread[t] /\ mutex'[t] = mutex[t]
      /\ notified'[t] = notified[t] /\ initialized'[t] = initialized[t] /\ active'[t] = active[t]
      /\ nop'[t] = nop[t] /\ ring'[t] = ring[t] /\ freed'[t] = freed[t]
  BY <1>1 DEF Alone
<1>4. QED
  BY <1>2, <1>3 DEF ServiceInv, Asleep, Scheduled, Stored, Reported, Ready

Places == [stage : Stages, at : Inside \union {"idle", "up", "down", "failed"}]
Holders == {"free", "main", "thread", "destroyed"}

\* What the helpers of the actions do to main, thread and mutex.
LEMMA GoesIs ==
  ASSUME ThreadTypeOK, NEW s \in Services, NEW stage \in Stages,
         NEW point \in Inside \union {"idle", "up", "down", "failed"}, Goes(s, stage, point)
  PROVE  /\ main' \in [Services -> Places] /\ main'[s] = At(stage, point)
         /\ \A t \in Services \ {s} : main'[t] = main[t]
  BY DEF ThreadTypeOK, Goes, At, Places

LEMMA StepsIs ==
  ASSUME ThreadTypeOK, NEW s \in Services, NEW place, Steps(s, place)
  PROVE  /\ thread'[s] = place
         /\ \A t \in Services \ {s} : thread'[t] = thread[t]
  BY DEF ThreadTypeOK, Steps

LEMMA TakeIs ==
  ASSUME ThreadTypeOK, NEW s \in Services, NEW stage \in Stages, NEW who \in Holders, Take(s, stage, who)
  PROVE  /\ mutex' \in [Services -> [Stages -> Holders]]
         /\ mutex'[s] = [mutex[s] EXCEPT ![stage] = who]
         /\ mutex'[s][stage] = who
         /\ \A p \in Stages \ {stage} : mutex'[s][p] = mutex[s][p]
         /\ \A t \in Services \ {s} : mutex'[t] = mutex[t]
<1>1. mutex \in [Services -> [Stages -> Holders]]
  BY DEF ThreadTypeOK, Holders
<1>2. mutex' = [mutex EXCEPT ![s] = [mutex[s] EXCEPT ![stage] = who]]
  BY <1>1 DEF Take
<1>3. [mutex[s] EXCEPT ![stage] = who] \in [Stages -> Holders]
  BY <1>1
<1>4. QED
  BY <1>1, <1>2, <1>3

LEMMA UnlockedIs ==
  ASSUME ThreadTypeOK, NEW s \in Services, NEW stage \in Stages, mutex' = Unlocked(s, stage)
  PROVE  /\ mutex' \in [Services -> [Stages -> Holders]]
         /\ mutex'[s][stage] = (IF mutex[s][stage] = "thread" THEN "free" ELSE mutex[s][stage])
         /\ \A p \in Stages \ {stage} : mutex'[s][p] = mutex[s][p]
         /\ \A t \in Services \ {s} : mutex'[t] = mutex[t]
<1>1. mutex \in [Services -> [Stages -> Holders]]
  BY DEF ThreadTypeOK, Holders
<1>2. CASE mutex[s][stage] = "thread"
  <2>1. Take(s, stage, "free") /\ "free" \in Holders
    BY <1>1, <1>2 DEF Take, Unlocked, Holders
  <2>2. QED
    BY <1>2, <2>1, TakeIs
<1>3. CASE mutex[s][stage] # "thread"
  <2>1. mutex' = mutex
    BY <1>1, <1>3 DEF Unlocked
  <2>2. QED
    BY <1>1, <1>3, <2>1
<1>4. QED
  BY <1>2, <1>3

LEMMA InitializeKeeps ==
  ASSUME LifecycleInv, NEW s \in Services, Initialize(s)
  PROVE  LifecycleInv'
<1>0. ThreadTypeOK /\ ServiceInv(s)
  BY DEF LifecycleInv
<1>1. \E point \in {"locking", "failed"} : Goes(s, "initialization", point)
  BY DEF Initialize
<1>2. /\ main' \in [Services -> Places]
      /\ main'[s] = At("initialization", "locking") \/ main'[s] = At("initialization", "failed")
      /\ \A t \in Services \ {s} : main'[t] = main[t]
  BY <1>0, <1>1, GoesIs DEF Stages, Inside
<1>3. /\ mutex' \in [Services -> [Stages -> Holders]]
      /\ s = "scheduler" => mutex'[s] = [p \in Stages |-> "free"]
      /\ s # "scheduler" => mutex' = mutex
      /\ \A t \in Services \ {s} : mutex'[t] = mutex[t]
  BY <1>0 DEF ThreadTypeOK, Initialize, Holders
<1>4. /\ active' \in [Services -> BOOLEAN] /\ freed' \in [Services -> BOOLEAN]
      /\ nop' \in [Services -> BOOLEAN]
      /\ ring' \in [Services -> {"none", "open", "broken", "closed"}]
  BY <1>0 DEF ThreadTypeOK, Initialize
<1>5. thread' \in [Services -> {"none", "starting", "locking", "publishing", "exposed", "serving",
                                "handling", "ending", "retiring", "exited", "stuck", "crashed"}]
  BY <1>0 DEF ThreadTypeOK, Initialize
<1>6. ThreadTypeOK'
  BY <1>0, <1>2, <1>3, <1>4, <1>5 DEF ThreadTypeOK, Initialize, Places, Holders
<1>7. Alone(s)
  BY <1>0 DEF ThreadTypeOK, Alone, Initialize, Goes
<1>8. /\ thread'[s] \in {"none", "starting", "exited"}
      /\ ring'[s] = "none" /\ initialized'[s] = initialized[s]
      /\ s = "scheduler" => active'[s] = FALSE /\ freed'[s] = FALSE
      /\ s # "scheduler" => mutex'[s] = mutex[s] /\ freed'[s] = freed[s]
  BY <1>0 DEF ThreadTypeOK, Initialize
<1>9. main[s].at = "idle" /\ thread[s] \in {"none", "exited"}
  BY DEF Initialize
<1>10. Asleep(s)' /\ Scheduled(s)'
  BY <1>2, <1>8 DEF Asleep, Scheduled, At
<1>11. Stored(s)'
  BY <1>0, <1>2, <1>8, <1>9 DEF ServiceInv, Stored, At, Past
<1>12. Reported(s)'
  BY <1>0, <1>2, <1>8, <1>9, ServicesAssumption DEF ServiceInv, Stored, Reported, At
<1>13. QED
  BY <1>6, <1>7, <1>10, <1>11, <1>12, Elsewhere DEF ServiceInv

LEMMA LockKeeps ==
  ASSUME LifecycleInv, NEW s \in Services, NEW stage \in Stages, Lock(s, stage)
  PROVE  LifecycleInv'
<1>0. ThreadTypeOK
  BY DEF LifecycleInv
<1>1. ThreadTypeOK'
  BY <1>0, GoesIs, TakeIs DEF ThreadTypeOK, Lock, Inside, Places, Holders
<1>2. Alone(s)
  BY <1>0 DEF ThreadTypeOK, Alone, Lock, Goes, Take
<1>3. ServiceInv(s)'
  BY DEF LifecycleInv, ThreadTypeOK, Lock, Free, Stages, Inside, At, ServiceInv, Asleep,
     Scheduled, Stored, Reported, Ready, Past, Goes, Take
<1>4. QED
  BY <1>1, <1>2, <1>3, Elsewhere

LEMMA DoneKeeps ==
  ASSUME LifecycleInv, NEW s \in Services, NEW stage \in Stages, Done(s, stage)
  PROVE  LifecycleInv'
<1>0. ThreadTypeOK /\ ServiceInv(s)
  BY DEF LifecycleInv
<1>1. ThreadTypeOK'
  BY <1>0, GoesIs, TakeIs DEF ThreadTypeOK, Done, Inside, Places, Holders
<1>2. Alone(s)
  BY <1>0 DEF ThreadTypeOK, Alone, Done, Goes, Take
<1>3. /\ main[s] = At(stage, "checking") /\ Ready(s, stage)
      /\ main'[s] = At(stage, IF stage = "initialization" THEN "up" ELSE "down")
      /\ mutex'[s][stage] = "destroyed" /\ mutex[s][stage] = "main"
      /\ \A p \in Stages \ {stage} : mutex'[s][p] = mutex[s][p]
  <2>1. main[s] = At(stage, "checking") /\ Ready(s, stage) /\ Take(s, stage, "destroyed")
        /\ Goes(s, stage, IF stage = "initialization" THEN "up" ELSE "down")
    BY DEF Done
  <2>2. mutex[s][stage] = "main"
    BY <1>0, <2>1 DEF ServiceInv, Asleep
  <2>3. main'[s] = At(stage, IF stage = "initialization" THEN "up" ELSE "down")
    BY <1>0, <2>1 DEF ThreadTypeOK, Goes
  <2>4. QED
    BY <1>0, <2>1, <2>2, <2>3, TakeIs DEF Holders
<1>4. /\ thread' = thread /\ active' = active /\ ring' = ring
      /\ initialized'[s] = (initialized[s] \/ (s = "scheduler" /\ stage = "initialization"))
      /\ freed'[s] = (freed[s] \/ (s = "scheduler" /\ stage = "shutdown"))
  BY <1>0 DEF ThreadTypeOK, Done
<1>5. Asleep(s)'
  BY <1>3 DEF Asleep, At
<1>6. CASE stage = "initialization"
  <2>1. Scheduled(s)'
    BY <1>0, <1>3, <1>4, <1>6 DEF ServiceInv, Scheduled, Ready, At
  <2>2. Stored(s)'
    BY <1>0, <1>3, <1>4, <1>6 DEF ServiceInv, Stored, Ready, At
  <2>3. Reported(s)'
    <3>1. thread[s] \in Past \/ thread[s] \in {"serving", "handling"}
      BY <1>0, <1>3, <1>6, ServicesAssumption DEF ServiceInv, Scheduled, Stored, Ready
    <3>2. ring[s] # "none"
      BY <1>0, <1>3, <1>6, <3>1, ServicesAssumption DEF ServiceInv, Scheduled, Stored, Ready
    <3>3. ~freed'[s]
      <4>1. ~freed[s]
        BY <1>0, <1>3, <1>6, <3>1 DEF ServiceInv, Reported, At, Past
      <4>2. QED
        BY <1>4, <1>6, <4>1
    <3>4. main'[s].stage = "initialization" /\ main'[s].at = "up"
      BY <1>3, <1>6 DEF At
    <3>5. QED
      BY <1>4, <3>1, <3>2, <3>3, <3>4 DEF Reported, Past
  <2>4. QED
    BY <1>1, <1>2, <1>5, <2>1, <2>2, <2>3, Elsewhere DEF ServiceInv
<1>7. CASE stage = "shutdown"
  <2>1. Scheduled(s)'
    BY <1>0, <1>3, <1>4, <1>7 DEF ServiceInv, Scheduled, At
  <2>2. Stored(s)'
    <3>1. mutex'[s]["initialization"] = mutex[s]["initialization"] /\ main[s].stage = "shutdown"
      BY <1>3, <1>7 DEF At, Stages
    <3>2. s = "storage" => mutex[s]["initialization"] = "destroyed" /\ ~freed[s]
      BY <1>0, <3>1 DEF ServiceInv, Stored
    <3>3. s = "storage" => ~freed'[s]
      BY <1>4, <3>2
    <3>4. main'[s].at = "down"
      BY <1>3, <1>7 DEF At
    <3>5. QED
      BY <1>0, <1>4, <3>1, <3>2, <3>3, <3>4 DEF ServiceInv, Stored
  <2>3. Reported(s)'
    BY <1>0, <1>3, <1>4, <1>7 DEF ServiceInv, Reported, Ready, At, Inside
  <2>4. QED
    BY <1>1, <1>2, <1>5, <2>1, <2>2, <2>3, Elsewhere DEF ServiceInv
<1>8. QED
  BY <1>6, <1>7 DEF Stages

LEMMA WaitKeeps ==
  ASSUME LifecycleInv, NEW s \in Services, NEW stage \in Stages, Wait(s, stage)
  PROVE  LifecycleInv'
<1>0. ThreadTypeOK
  BY DEF LifecycleInv
<1>1. ThreadTypeOK'
  BY <1>0, GoesIs, TakeIs DEF ThreadTypeOK, Wait, Inside, Places, Holders
<1>2. Alone(s)
  BY <1>0 DEF ThreadTypeOK, Alone, Wait, Goes, Take
<1>3. ServiceInv(s)'
  BY DEF LifecycleInv, ThreadTypeOK, Wait, Free, Stages, Inside, At, ServiceInv, Asleep,
     Scheduled, Stored, Reported, Ready, Past, Goes, Take
<1>4. QED
  BY <1>1, <1>2, <1>3, Elsewhere

LEMMA WokenKeeps ==
  ASSUME LifecycleInv, NEW s \in Services, NEW stage \in Stages, Woken(s, stage)
  PROVE  LifecycleInv'
<1>0. ThreadTypeOK
  BY DEF LifecycleInv
<1>1. ThreadTypeOK'
  BY <1>0, GoesIs, TakeIs DEF ThreadTypeOK, Woken, Inside, Places, Holders
<1>2. Alone(s)
  BY <1>0 DEF ThreadTypeOK, Alone, Woken, Goes, Take
<1>3. ServiceInv(s)'
  BY DEF LifecycleInv, ThreadTypeOK, Woken, Free, Stages, Inside, At, ServiceInv, Asleep,
     Scheduled, Stored, Reported, Ready, Past, Goes, Take
<1>4. QED
  BY <1>1, <1>2, <1>3, Elsewhere

LEMMA ExpireKeeps ==
  ASSUME LifecycleInv, NEW s \in Services, NEW stage \in Stages, Expire(s, stage)
  PROVE  LifecycleInv'
<1>0. ThreadTypeOK
  BY DEF LifecycleInv
<1>1. ThreadTypeOK'
  BY <1>0, GoesIs DEF ThreadTypeOK, Expire, Inside, Places, Holders
<1>2. Alone(s)
  BY <1>0 DEF ThreadTypeOK, Alone, Expire, Goes
<1>3. ServiceInv(s)'
  BY DEF LifecycleInv, ThreadTypeOK, Expire, Free, Stages, Inside, At, ServiceInv, Asleep,
     Scheduled, Stored, Reported, Ready, Past, Goes
<1>4. QED
  BY <1>1, <1>2, <1>3, Elsewhere

LEMMA ExpiredKeeps ==
  ASSUME LifecycleInv, NEW s \in Services, NEW stage \in Stages, Expired(s, stage)
  PROVE  LifecycleInv'
<1>0. ThreadTypeOK
  BY DEF LifecycleInv
<1>1. ThreadTypeOK'
  BY <1>0, GoesIs, TakeIs DEF ThreadTypeOK, Expired, Inside, Places, Holders
<1>2. Alone(s)
  BY <1>0 DEF ThreadTypeOK, Alone, Expired, Goes, Take
<1>3. ServiceInv(s)'
  BY DEF LifecycleInv, ThreadTypeOK, Expired, Free, Stages, Inside, At, ServiceInv, Asleep,
     Scheduled, Stored, Reported, Ready, Past, Goes, Take
<1>4. QED
  BY <1>1, <1>2, <1>3, Elsewhere

LEMMA ShutdownServiceKeeps ==
  ASSUME LifecycleInv, NEW s \in Services, ShutdownService(s)
  PROVE  LifecycleInv'
<1>0. ThreadTypeOK /\ ServiceInv(s)
  BY DEF LifecycleInv
<1>1. /\ main' \in [Services -> Places]
      /\ main'[s] = At("shutdown", "down") \/ main'[s] = At("shutdown", "locking")
  BY <1>0, GoesIs DEF ShutdownService, Stages, Inside
<1>2. active' \in [Services -> BOOLEAN] /\ nop' \in [Services -> BOOLEAN] /\ freed' \in [Services -> BOOLEAN]
  BY <1>0 DEF ThreadTypeOK, ShutdownService
<1>3. ThreadTypeOK'
  BY <1>0, <1>1, <1>2 DEF ThreadTypeOK, ShutdownService, Places
<1>4. Alone(s)
  BY <1>0 DEF ThreadTypeOK, Alone, ShutdownService, Goes
<1>5. main[s].at = "up" /\ UNCHANGED <<thread, mutex, notified, initialized, ring>>
  BY DEF ShutdownService
<1>6. CASE ~initialized[s] \/ (s = "scheduler" /\ ~active[s])
  <2>1. main'[s] = At("shutdown", "down") /\ active' = active
    BY <1>0, <1>6, GoesIs DEF ShutdownService, Stages
  <2>2. s = "storage" /\ thread[s] = "exited"
    BY <1>0, <1>5, <1>6, ServicesAssumption DEF ServiceInv, Scheduled, Stored
  <2>3. freed'[s] = freed[s]
    BY <1>0, <1>6, <2>2 DEF ThreadTypeOK, ShutdownService
  <2>4. QED
    BY <1>0, <1>3, <1>4, <1>5, <2>1, <2>2, <2>3, Elsewhere
       DEF ServiceInv, Asleep, Scheduled, Stored, Reported, At
<1>7. CASE initialized[s] /\ (s = "scheduler" => active[s])
  <2>1. /\ main'[s] = At("shutdown", "locking") /\ active'[s] = FALSE /\ freed' = freed
    BY <1>0, <1>7, GoesIs DEF ThreadTypeOK, ShutdownService, Stages, Inside
  <2>2. QED
    BY <1>0, <1>3, <1>4, <1>5, <1>7, <2>1, Elsewhere
       DEF ServiceInv, Asleep, Scheduled, Stored, Reported, At, Inside
<1>8. QED
  BY <1>6, <1>7

LEMMA RestartKeeps ==
  ASSUME LifecycleInv, NEW s \in Services, Restart(s)
  PROVE  LifecycleInv'
<1>0. ThreadTypeOK
  BY DEF LifecycleInv
<1>1. ThreadTypeOK'
  BY <1>0, GoesIs DEF ThreadTypeOK, Restart, Inside, Places, Holders, Stages
<1>2. Alone(s)
  BY <1>0 DEF ThreadTypeOK, Alone, Restart, Goes
<1>3. ServiceInv(s)'
  BY DEF LifecycleInv, ThreadTypeOK, Restart, Free, Stages, Inside, At, ServiceInv, Asleep,
     Scheduled, Stored, Reported, Ready, Past, Goes
<1>4. QED
  BY <1>1, <1>2, <1>3, Elsewhere

LEMMA LaunchKeeps ==
  ASSUME LifecycleInv, NEW s \in Services, Launch(s)
  PROVE  LifecycleInv'
<1>0. ThreadTypeOK
  BY DEF LifecycleInv
<1>a. /\ thread' \in [Services -> {"none", "starting", "locking", "publishing", "exposed", "serving",
                                   "handling", "ending", "retiring", "exited", "stuck", "crashed"}]
      /\ active' \in [Services -> BOOLEAN]
      /\ ring' \in [Services -> {"none", "open", "broken", "closed"}]
  <2>1. CASE Steps(s, "exited") /\ UNCHANGED <<active, ring>>
    BY <1>0, <2>1 DEF ThreadTypeOK, Steps
  <2>2. CASE /\ Steps(s, "locking")
             /\ active' = [active EXCEPT ![s] = TRUE]
             /\ \E opened \in {"open", "broken"} : ring' = [ring EXCEPT ![s] = opened]
    <3>1. PICK opened \in {"open", "broken"} : ring' = [ring EXCEPT ![s] = opened]
      BY <2>2
    <3>2. QED
      BY <1>0, <2>2, <3>1 DEF ThreadTypeOK, Steps
  <2>3. QED
    BY <2>1, <2>2 DEF Launch
<1>1. ThreadTypeOK'
  BY <1>0, <1>a DEF ThreadTypeOK, Launch
<1>2. Alone(s)
  BY <1>0 DEF ThreadTypeOK, Alone, Launch, Steps
<1>3. ServiceInv(s)'
  BY DEF LifecycleInv, ThreadTypeOK, Launch, Free, Stages, Inside, At, ServiceInv, Asleep,
     Scheduled, Stored, Reported, Ready, Past, Steps
<1>4. QED
  BY <1>1, <1>2, <1>3, Elsewhere

LEMMA LockInitializationKeeps ==
  ASSUME LifecycleInv, NEW s \in Services, LockInitialization(s)
  PROVE  LifecycleInv'
<1>0. ThreadTypeOK /\ ServiceInv(s)
  BY DEF LifecycleInv
<1>1. /\ mutex' \in [Services -> [Stages -> Holders]]
      /\ \A p \in Stages : mutex[s][p] # "free" => mutex'[s][p] = mutex[s][p]
      /\ \A p \in Stages : mutex[s][p] # "destroyed" => mutex'[s][p] # "destroyed"
  <2>1. CASE Free(s, "initialization") /\ Take(s, "initialization", "thread")
    BY <1>0, <2>1, TakeIs DEF Free, Holders, Stages
  <2>2. CASE UNCHANGED mutex
    BY <1>0, <2>2 DEF ThreadTypeOK, Holders
  <2>3. QED
    BY <2>1, <2>2 DEF LockInitialization
<1>2. /\ ring' \in [Services -> {"none", "open", "broken", "closed"}]
      /\ ring'[s] = "closed" \/ ring'[s] = ring[s]
      /\ s = "scheduler" => ring'[s] = ring[s]
  BY <1>0 DEF ThreadTypeOK, LockInitialization
<1>3. /\ thread' \in [Services -> {"none", "starting", "locking", "publishing", "exposed", "serving",
                                   "handling", "ending", "retiring", "exited", "stuck", "crashed"}]
      /\ thread[s] \in {"starting", "locking"}
      /\ thread[s] = "locking" \/ s = "scheduler"
      /\ thread'[s] \in {"publishing", "crashed", "stuck"}
  BY <1>0 DEF ThreadTypeOK, LockInitialization, Steps
<1>4. UNCHANGED <<main, notified, initialized, active, nop, freed>>
  BY DEF LockInitialization
<1>5. ThreadTypeOK'
  BY <1>0, <1>1, <1>2, <1>3, <1>4 DEF ThreadTypeOK, Holders
<1>6. Alone(s)
  BY <1>0 DEF ThreadTypeOK, Alone, LockInitialization, Take, Steps
<1>7. Asleep(s)' /\ Scheduled(s)'
  BY <1>0, <1>1, <1>2, <1>3, <1>4 DEF ServiceInv, Asleep, Scheduled, Ready
<1>8. Stored(s)'
  BY <1>0, <1>1, <1>2, <1>3, <1>4 DEF ServiceInv, Stored, Stages, Past
<1>9. Reported(s)'
  BY <1>0, <1>3, <1>4 DEF ServiceInv, Reported, Past
<1>10. QED
  BY <1>5, <1>6, <1>7, <1>8, <1>9, Elsewhere DEF ServiceInv

LEMMA PublishKeeps ==
  ASSUME LifecycleInv, NEW s \in Services, Publish(s)
  PROVE  LifecycleInv'
<1>0. ThreadTypeOK /\ ServiceInv(s)
  BY DEF LifecycleInv
<1>1. ThreadTypeOK'
  BY <1>0, UnlockedIs DEF ThreadTypeOK, Publish, Holders, Steps, Broadcast, Stages
<1>2. Alone(s)
  BY <1>0 DEF ThreadTypeOK, Alone, Publish, Steps, Unlocked
<1>3. /\ thread[s] = "publishing"
      /\ UNCHANGED <<main, nop, freed>>
      /\ notified'[s] = (notified[s] \/ main[s] = At("initialization", "waiting"))
  BY <1>0 DEF ThreadTypeOK, Publish, Broadcast
<1>4. /\ \A p \in Stages : mutex[s][p] # "thread" => mutex'[s][p] = mutex[s][p]
      /\ \A p \in Stages : mutex[s][p] # "destroyed" => mutex'[s][p] # "destroyed"
  BY <1>0, UnlockedIs DEF Publish, Stages
<1>4a. mutex[s]["initialization"] = "destroyed" => mutex'[s]["initialization"] = "destroyed"
  BY <1>4 DEF Stages
<1>5. CASE s = "scheduler"
  <2>1. /\ initialized' = initialized
        /\ \/ thread'[s] = "exited" /\ UNCHANGED <<ring, active>>
           \/ thread'[s] = "serving" /\ ring'[s] = "open" /\ active'[s] = TRUE
    BY <1>0, <1>5 DEF ThreadTypeOK, Publish, Steps
  <2>2. Asleep(s)'
    BY <1>0, <1>3, <1>4, <1>5, <2>1 DEF ServiceInv, Asleep, Ready, Stages, At
  <2>3. QED
    BY <1>0, <1>1, <1>2, <1>3, <1>5, <2>1, <2>2, Elsewhere
       DEF ServiceInv, Scheduled, Stored, Reported, At, Past
<1>6. CASE s = "storage"
  <2>1. thread'[s] = "exposed" /\ initialized'[s] = TRUE /\ UNCHANGED <<ring, active>>
    BY <1>0, <1>6 DEF ThreadTypeOK, Publish, Steps
  <2>2. Asleep(s)'
    BY <1>0, <1>3, <1>4, <1>6, <2>1 DEF ServiceInv, Asleep, Ready, Stages, At
  <2>3. Stored(s)'
    BY <1>0, <1>3, <1>4, <1>4a, <1>6, <2>1 DEF ServiceInv, Stored, Stages, Past
  <2>4. QED
    BY <1>0, <1>1, <1>2, <1>3, <1>6, <2>1, <2>2, <2>3, Elsewhere
       DEF ServiceInv, Scheduled, Stored, Reported, At, Past
<1>7. QED
  BY <1>5, <1>6, ServicesAssumption

LEMMA InitializeBoxKeeps ==
  ASSUME LifecycleInv, NEW s \in Services, InitializeBox(s)
  PROVE  LifecycleInv'
<1>0. ThreadTypeOK
  BY DEF LifecycleInv
<1>1. ThreadTypeOK'
  BY <1>0, StepsIs DEF ThreadTypeOK, InitializeBox, Inside, Places, Holders, Steps, Stages
<1>2. Alone(s)
  BY <1>0 DEF ThreadTypeOK, Alone, InitializeBox, Steps
<1>3. ServiceInv(s)'
  BY DEF LifecycleInv, ThreadTypeOK, InitializeBox, Free, Stages, Inside, At, ServiceInv, Asleep,
     Scheduled, Stored, Reported, Ready, Past, Steps
<1>4. QED
  BY <1>1, <1>2, <1>3, Elsewhere

LEMMA ServeKeeps ==
  ASSUME LifecycleInv, NEW s \in Services, NEW completion, Serve(s, completion)
  PROVE  LifecycleInv'
<1>0. ThreadTypeOK
  BY DEF LifecycleInv
<1>1. ThreadTypeOK'
  <2>1. nop' \in [Services -> BOOLEAN]
    BY <1>0 DEF ThreadTypeOK, Serve
  <2>2. QED
    BY <1>0, <2>1, StepsIs DEF ThreadTypeOK, Serve, Inside, Places, Holders, Steps, Seen, Stages
<1>2. Alone(s)
  BY <1>0 DEF ThreadTypeOK, Alone, Serve, Steps
<1>3. ServiceInv(s)'
  BY DEF LifecycleInv, ThreadTypeOK, Serve, Free, Stages, Inside, At, ServiceInv, Asleep,
     Scheduled, Stored, Reported, Ready, Past, Seen, Steps
<1>4. QED
  BY <1>1, <1>2, <1>3, Elsewhere

LEMMA HandleKeeps ==
  ASSUME LifecycleInv, NEW s \in Services, Handle(s)
  PROVE  LifecycleInv'
<1>0. ThreadTypeOK
  BY DEF LifecycleInv
<1>1. ThreadTypeOK'
  <2>1. nop' \in [Services -> BOOLEAN]
    BY <1>0 DEF ThreadTypeOK, Handle
  <2>2. QED
    BY <1>0, <2>1, StepsIs DEF ThreadTypeOK, Handle, Inside, Places, Holders, Steps, Stages
<1>2. Alone(s)
  BY <1>0 DEF ThreadTypeOK, Alone, Handle, Steps
<1>3. ServiceInv(s)'
  BY DEF LifecycleInv, ThreadTypeOK, Handle, Free, Stages, Inside, At, ServiceInv, Asleep,
     Scheduled, Stored, Reported, Ready, Past, Steps
<1>4. QED
  BY <1>1, <1>2, <1>3, Elsewhere

LEMMA EngineStopsKeeps ==
  ASSUME LifecycleInv, NEW s \in Services, EngineStops(s)
  PROVE  LifecycleInv'
<1>0. ThreadTypeOK
  BY DEF LifecycleInv
<1>1. ThreadTypeOK'
  BY <1>0, StepsIs DEF ThreadTypeOK, EngineStops, Inside, Places, Holders, Steps, Stages
<1>2. Alone(s)
  BY <1>0 DEF ThreadTypeOK, Alone, EngineStops, Steps
<1>3. ServiceInv(s)'
  BY DEF LifecycleInv, ThreadTypeOK, EngineStops, Free, Stages, Inside, At, ServiceInv, Asleep,
     Scheduled, Stored, Reported, Ready, Past, Steps
<1>4. QED
  BY <1>1, <1>2, <1>3, Elsewhere

LEMMA LockShutdownKeeps ==
  ASSUME LifecycleInv, NEW s \in Services, LockShutdown(s)
  PROVE  LifecycleInv'
<1>0. ThreadTypeOK
  BY DEF LifecycleInv
<1>1. ThreadTypeOK'
  BY <1>0, StepsIs, TakeIs DEF ThreadTypeOK, LockShutdown, Inside, Places, Holders, Steps, Stages
<1>2. Alone(s)
  BY <1>0 DEF ThreadTypeOK, Alone, LockShutdown, Steps, Take
<1>3. ServiceInv(s)'
  BY DEF LifecycleInv, ThreadTypeOK, LockShutdown, Free, Stages, Inside, At, ServiceInv, Asleep,
     Scheduled, Stored, Reported, Ready, Past, Steps, Take
<1>4. QED
  BY <1>1, <1>2, <1>3, Elsewhere

LEMMA RetireKeeps ==
  ASSUME LifecycleInv, NEW s \in Services, Retire(s)
  PROVE  LifecycleInv'
<1>0. ThreadTypeOK /\ ServiceInv(s)
  BY DEF LifecycleInv
<1>1. ThreadTypeOK'
  BY <1>0, UnlockedIs DEF ThreadTypeOK, Retire, Holders, Steps, Broadcast, Stages
<1>2. Alone(s)
  BY <1>0 DEF ThreadTypeOK, Alone, Retire, Steps, Unlocked
<1>3. /\ thread[s] = "retiring" /\ thread'[s] = "exited"
      /\ UNCHANGED <<main, active, nop, freed>>
      /\ initialized'[s] = FALSE
      /\ ring'[s] = "closed" \/ ring'[s] = ring[s]
      /\ notified'[s] = (notified[s] \/ main[s] = At("shutdown", "waiting"))
  BY <1>0 DEF ThreadTypeOK, Retire, Broadcast, Steps
<1>4. /\ \A p \in Stages : mutex[s][p] # "thread" => mutex'[s][p] = mutex[s][p]
      /\ \A p \in Stages : mutex[s][p] # "destroyed" => mutex'[s][p] # "destroyed"
      /\ \A p \in Stages : mutex[s][p] = "destroyed" => mutex'[s][p] = "destroyed"
  BY <1>0, UnlockedIs DEF Retire, Stages
<1>5. Asleep(s)'
  BY <1>0, <1>3, <1>4 DEF ServiceInv, Asleep, Ready, Stages, At
<1>6. Scheduled(s)'
  BY <1>0, <1>3 DEF ServiceInv, Scheduled
<1>7. Stored(s)'
  BY <1>0, <1>3, <1>4 DEF ServiceInv, Stored, Stages, Past
<1>8. Reported(s)'
  BY <1>0, <1>3 DEF ServiceInv, Reported, Past
<1>9. QED
  BY <1>1, <1>2, <1>5, <1>6, <1>7, <1>8, Elsewhere DEF ServiceInv

-----------------------------------------------------------------------------
(* The theorem. *)

LEMMA InvInitially == ThreadInit => LifecycleInv
<1> SUFFICES ASSUME ThreadInit PROVE LifecycleInv
  OBVIOUS
<1>1. ThreadTypeOK
  BY DEF ThreadInit, ThreadTypeOK, Stages, Inside, At
<1>2. ASSUME NEW s \in Services PROVE ServiceInv(s)
  BY DEF ThreadInit, ServiceInv, Asleep, Scheduled, Stored, Reported, At, Inside, Past, Stages
<1>3. QED
  BY <1>1, <1>2 DEF LifecycleInv

LEMMA InvStays == LifecycleInv /\ [ThreadNext]_threadVars => LifecycleInv'
<1> SUFFICES ASSUME LifecycleInv, [ThreadNext]_threadVars PROVE LifecycleInv'
  OBVIOUS
<1>1. CASE ThreadNext
  <2>1. PICK s \in Services : \/ Initialize(s) \/ Main(s) \/ ShutdownService(s) \/ Restart(s)
                              \/ Thread(s) \/ Serve(s, "other") \/ EngineStops(s)
    BY <1>1 DEF ThreadNext
  <2>2. CASE Main(s)
    BY <2>2, LockKeeps, DoneKeeps, WaitKeeps, WokenKeeps, ExpireKeeps, ExpiredKeeps DEF Main
  <2>3. CASE Thread(s)
    BY <2>3, LaunchKeeps, LockInitializationKeeps, PublishKeeps, InitializeBoxKeeps, ServeKeeps,
       HandleKeeps, LockShutdownKeeps, RetireKeeps DEF Thread
  <2>4. QED
    BY <2>1, <2>2, <2>3, InitializeKeeps, ShutdownServiceKeeps, RestartKeeps, ServeKeeps, EngineStopsKeeps
<1>2. CASE UNCHANGED threadVars
  BY <1>2 DEF threadVars, LifecycleInv, ThreadTypeOK, ServiceInv, Asleep, Scheduled, Stored, Reported, Ready
<1>3. QED
  BY <1>1, <1>2

LEMMA InvMeans == LifecycleInv => HandshakesInv
<1> SUFFICES ASSUME LifecycleInv PROVE HandshakesInv
  OBVIOUS
<1>1. NoLostSignal
  BY DEF LifecycleInv, ServiceInv, Asleep, NoLostSignal
<1>2. UpMeansRunning
  BY DEF LifecycleInv, ServiceInv, Reported, UpMeansRunning, Past
<1>3. DownMeansGone
  BY DEF LifecycleInv, ServiceInv, Reported, DownMeansGone
<1>4. QED
  BY <1>1, <1>2, <1>3 DEF HandshakesInv, ReportsTrue, LifecycleInv

\* The handshakes of executor_scheduler_initialize and _shutdown and of
\* storage_initialize and _shutdown with their threads: no broadcast is lost on an
\* isolate that waits, a service reported as up has a thread past its initialization
\* with a ring, one reported as down has no thread, and its state is freed under a
\* living thread only after a shutdown that reported its failure.
THEOREM HandshakesHold == ThreadSpec => []HandshakesInv
<1>1. ThreadInit => LifecycleInv
  BY InvInitially
<1>2. LifecycleInv /\ [ThreadNext]_threadVars => LifecycleInv'
  BY InvStays
<1>3. LifecycleInv => HandshakesInv
  BY InvMeans
<1>4. QED
  BY <1>1, <1>2, <1>3, PTL DEF ThreadSpec
=============================================================================
