--------------------------- MODULE ThreadLifecycle ---------------------------
(***************************************************************************)
(* How the two native threads of the system come and go: the scheduler's   *)
(* (scheduler.c) and the storage's (storage.c, its executor.c).  The       *)
(* isolate that initializes a service creates its thread and waits for it  *)
(* at a condition with a timeout; shutting it down works the same way.     *)
(* Both sides take a mutex; the waiting side destroys it afterwards.       *)
(*                                                                         *)
(* The two services differ in what they do when the time is over, and in   *)
(* that the scheduler's state is allocated anew for each initialization    *)
(* while the storage's is static: its mutexes stay destroyed.              *)
(***************************************************************************)
EXTENDS Naturals

CONSTANT Services

ASSUME ServicesAssumption == Services \subseteq {"scheduler", "storage"}

VARIABLES
  main,         \* where the isolate is: in a stage, at a point
  thread,       \* where the thread is
  mutex,        \* for each stage who holds its mutex, or that it is destroyed
  notified,     \* the condition was broadcast to the waiting isolate
  initialized,  \* the flag
  active,       \* the flag
  nop,          \* the wake-up of shutdown is in the ring
  ring,         \* the thread's ring; "broken": its creation failed unnoticed
  freed         \* the native state is freed

threadVars == <<main, thread, mutex, notified, initialized, active, nop, ring, freed>>

Stages == {"initialization", "shutdown"}
Inside == {"locking", "checking", "waiting", "expiring"}
At(stage, point) == [stage |-> stage, at |-> point]

ThreadTypeOK ==
  /\ main \in [Services -> [stage : Stages, at : Inside \union {"idle", "up", "down", "failed"}]]
  /\ thread \in [Services -> {"none", "starting", "locking", "publishing", "exposed", "serving",
                              "handling", "ending", "retiring", "exited", "stuck", "crashed"}]
  /\ mutex \in [Services -> [Stages -> {"free", "main", "thread", "destroyed"}]]
  /\ notified \in [Services -> BOOLEAN]
  /\ initialized \in [Services -> BOOLEAN] /\ active \in [Services -> BOOLEAN]
  /\ nop \in [Services -> BOOLEAN]
  /\ ring \in [Services -> {"none", "open", "broken", "closed"}]
  /\ freed \in [Services -> BOOLEAN]

-----------------------------------------------------------------------------
(* Mutex and condition. *)

Free(s, stage) == mutex[s][stage] = "free"
Take(s, stage, who) == mutex' = [mutex EXCEPT ![s][stage] = who]

\* A bug to tell apart: nobody is told.
Silent(s, stage) == notified[s]

\* pthread_cond_broadcast reaches the isolate if it waits by now.
Broadcast(s, stage) == notified[s] \/ main[s] = At(stage, "waiting")

-----------------------------------------------------------------------------
(* The isolate. *)

Goes(s, stage, point) == main' = [main EXCEPT ![s] = At(stage, point)]

\* executor_scheduler_initialize and storage_initialize: the thread is created.
\* The scheduler's state is new; the storage's thread of an earlier time is over.
Initialize(s) ==
  /\ main[s].at = "idle"
  /\ thread[s] \in {"none", "exited"}
  /\ \/ /\ Goes(s, "initialization", "locking")
        /\ thread' = [thread EXCEPT ![s] = "starting"]
     \/ Goes(s, "initialization", "failed") /\ UNCHANGED thread
  /\ IF s = "scheduler"
     THEN /\ mutex' = [mutex EXCEPT ![s] = [p \in Stages |-> "free"]]
          /\ active' = [active EXCEPT ![s] = FALSE]
          /\ freed' = [freed EXCEPT ![s] = FALSE]
     ELSE UNCHANGED <<mutex, active, freed>>
  /\ nop' = [nop EXCEPT ![s] = FALSE]
  /\ ring' = [ring EXCEPT ![s] = "none"]
  /\ UNCHANGED <<notified, initialized>>

\* pthread_mutex_lock by the isolate: of a destroyed mutex it fails.
Lock(s, stage) ==
  /\ main[s] = At(stage, "locking")
  /\ \/ Free(s, stage) /\ Take(s, stage, "main") /\ Goes(s, stage, "checking")
     \/ mutex[s][stage] = "destroyed" /\ Goes(s, stage, "failed") /\ UNCHANGED mutex
  /\ UNCHANGED <<thread, notified, initialized, active, nop, ring, freed>>

\* The condition of the loop around pthread_cond_timedwait.
Ready(s, stage) ==
  IF stage = "shutdown" THEN ~initialized[s]
  ELSE IF s = "scheduler" THEN active[s] ELSE initialized[s]

\* The loop ends: mutex and condition are destroyed.  The scheduler becomes
\* initialized, or is freed by the module after its shutdown.
Done(s, stage) ==
  /\ main[s] = At(stage, "checking")
  /\ Ready(s, stage)
  /\ Take(s, stage, "destroyed")
  /\ Goes(s, stage, IF stage = "initialization" THEN "up" ELSE "down")
  /\ initialized' = [initialized EXCEPT ![s] =
                       @ \/ (s = "scheduler" /\ stage = "initialization")]
  /\ freed' = [freed EXCEPT ![s] = @ \/ (s = "scheduler" /\ stage = "shutdown")]
  /\ UNCHANGED <<thread, notified, active, nop, ring>>

Wait(s, stage) ==
  /\ main[s] = At(stage, "checking")
  /\ ~Ready(s, stage)
  /\ Take(s, stage, "free")
  /\ Goes(s, stage, "waiting")
  /\ notified' = [notified EXCEPT ![s] = FALSE]
  /\ UNCHANGED <<thread, initialized, active, nop, ring, freed>>

Woken(s, stage) ==
  /\ main[s] = At(stage, "waiting")
  /\ notified[s] /\ Free(s, stage)
  /\ Take(s, stage, "main")
  /\ Goes(s, stage, "checking")
  /\ UNCHANGED <<thread, notified, initialized, active, nop, ring, freed>>

\* The time is over; the mutex is still to be taken again.
Expire(s, stage) ==
  /\ main[s] = At(stage, "waiting")
  /\ ~notified[s]
  /\ Goes(s, stage, "expiring")
  /\ UNCHANGED <<thread, mutex, notified, initialized, active, nop, ring, freed>>

\* The call fails, even if the flag was set meanwhile.  The scheduler's mutex is
\* destroyed, under a thread that may still want it; after a shutdown its state
\* is freed as well.  The storage's mutex stays locked.
Expired(s, stage) ==
  /\ main[s] = At(stage, "expiring")
  /\ Free(s, stage)
  /\ Take(s, stage, IF s = "scheduler" THEN "destroyed" ELSE "main")
  /\ Goes(s, stage, "failed")
  /\ freed' = [freed EXCEPT ![s] = @ \/ (s = "scheduler" /\ stage = "shutdown")]
  /\ UNCHANGED <<thread, notified, initialized, active, nop, ring>>

\* executor_scheduler_shutdown, storage_shutdown.  The wake-up is written into the
\* ring of the thread, which may be writing there itself: it can be lost.
ShutdownService(s) ==
  /\ main[s].at = "up"
  /\ IF ~initialized[s] \/ (s = "scheduler" /\ ~active[s])
     THEN /\ Goes(s, "shutdown", "down")
          /\ freed' = [freed EXCEPT ![s] = @ \/ s = "scheduler"]
          /\ UNCHANGED <<active, nop>>
     ELSE /\ Goes(s, "shutdown", "locking")
          /\ active' = [active EXCEPT ![s] = FALSE]
          /\ \E kept \in BOOLEAN :
               /\ ~kept => thread[s] = "handling"
               /\ nop' = [nop EXCEPT ![s] = kept]
          /\ UNCHANGED freed
  /\ UNCHANGED <<thread, mutex, notified, initialized, ring>>

\* The service is wanted once more.
Restart(s) ==
  /\ main[s].at = "down"
  /\ Goes(s, "initialization", "idle")
  /\ UNCHANGED <<thread, mutex, notified, initialized, active, nop, ring, freed>>

-----------------------------------------------------------------------------
(* The thread. *)

Steps(s, place) == thread' = [thread EXCEPT ![s] = place]

\* The storage first launches the engine and runs the script, which may fail: the
\* thread returns and tells nobody.  storage_executor_initialize returns 0 with or
\* without a ring.
Launch(s) ==
  /\ s = "storage" /\ thread[s] = "starting"
  /\ \/ Steps(s, "exited") /\ UNCHANGED <<active, ring>>
     \/ /\ Steps(s, "locking")
        /\ active' = [active EXCEPT ![s] = TRUE]
        /\ \E made \in {"open", "broken"} : ring' = [ring EXCEPT ![s] = made]
  /\ UNCHANGED <<main, mutex, notified, initialized, nop, freed>>

\* The thread takes the mutex of the initialization.  If it is destroyed by then,
\* the scheduler panics, or uses it all the same; the storage gives up its ring.
LockInitialization(s) ==
  /\ thread[s] = (IF s = "scheduler" THEN "starting" ELSE "locking")
  /\ \/ /\ Free(s, "initialization")
        /\ Take(s, "initialization", "thread")
        /\ Steps(s, "publishing") /\ UNCHANGED ring
     \/ /\ mutex[s]["initialization"] = "destroyed"
        /\ IF s = "scheduler"
           THEN Steps(s, "crashed") \/ Steps(s, "publishing")
           ELSE Steps(s, "stuck")
        /\ ring' = [ring EXCEPT ![s] = IF s = "storage" THEN "closed" ELSE @]
        /\ UNCHANGED mutex
  /\ UNCHANGED <<main, notified, initialized, active, nop, freed>>

\* A bug to tell apart: the error path keeps the mutex.
FaultyUnlocked(s, stage) ==
  [mutex EXCEPT ![s][stage] = IF stage = "initialization" /\ ring'[s] = "none" THEN @ ELSE "free"]

\* pthread_mutex_unlock by the thread.
Unlocked(s, stage) ==
  [mutex EXCEPT ![s][stage] = IF @ = "thread" THEN "free" ELSE @]

\* The flag is set and broadcast; the scheduler's ring may fail to be created.
\* The storage is initialized before the addresses of its box are.
Publish(s) ==
  /\ thread[s] = "publishing"
  /\ \/ /\ s = "scheduler"
        /\ Steps(s, "exited")
        /\ UNCHANGED <<ring, active, initialized>>
     \/ /\ s = "scheduler"
        /\ Steps(s, "serving")
        /\ ring' = [ring EXCEPT ![s] = "open"]
        /\ active' = [active EXCEPT ![s] = TRUE]
        /\ UNCHANGED initialized
     \/ /\ s = "storage"
        /\ Steps(s, "exposed")
        /\ initialized' = [initialized EXCEPT ![s] = TRUE]
        /\ UNCHANGED <<ring, active>>
  /\ notified' = [notified EXCEPT ![s] = Broadcast(s, "initialization")]
  /\ mutex' = Unlocked(s, "initialization")
  /\ UNCHANGED <<main, nop, freed>>

\* storage_initialize_box.
InitializeBox(s) ==
  /\ thread[s] = "exposed"
  /\ Steps(s, "serving")
  /\ UNCHANGED <<main, mutex, notified, initialized, active, nop, ring, freed>>

\* A bug to tell apart: the flag is looked at before the wait.
FaultySeen(s) == TRUE

\* The flag, looked at once a completion has woken the thread.
Seen(s) == active[s]

\* A completion wakes the thread and is used up: the wake-up of shutdown or any other,
\* which the scheduler looks at one by one.  The fiber of the storage closes its ring on
\* the way out.
Serve(s, completion) ==
  /\ thread[s] = "serving"
  /\ completion = "nop" => nop[s]
  /\ nop' = [nop EXCEPT ![s] = @ /\ completion # "nop"]
  /\ Steps(s, IF Seen(s) THEN "handling" ELSE "ending")
  /\ ring' = [ring EXCEPT ![s] = IF s = "storage" /\ ~Seen(s) THEN "closed" ELSE @]
  /\ UNCHANGED <<main, mutex, notified, initialized, active, freed>>

\* The completion is handled.  The storage goes on with what has arrived meanwhile
\* (io_uring_for_each_cqe reads the tail again) and yields without another look at the
\* flag: the wake-up of shutdown, which has no task, can be used up in the batch.
Handle(s) ==
  /\ thread[s] = "handling"
  /\ Steps(s, "serving")
  /\ \E batched \in BOOLEAN :
       /\ batched => s = "storage"
       /\ nop' = [nop EXCEPT ![s] = @ /\ ~batched]
  /\ UNCHANGED <<main, mutex, notified, initialized, active, ring, freed>>

\* storage_shutdown_trigger: the engine ends the event loop of its own accord.
EngineStops(s) ==
  /\ s = "storage" /\ thread[s] = "serving"
  /\ Steps(s, "ending")
  /\ active' = [active EXCEPT ![s] = FALSE]
  /\ UNCHANGED <<main, mutex, notified, initialized, nop, ring, freed>>

LockShutdown(s) ==
  /\ thread[s] = "ending"
  /\ \/ /\ Free(s, "shutdown")
        /\ Take(s, "shutdown", "thread")
        /\ Steps(s, "retiring")
     \/ /\ mutex[s]["shutdown"] = "destroyed"
        /\ IF s = "scheduler" THEN Steps(s, "crashed") \/ Steps(s, "retiring") ELSE Steps(s, "exited")
        /\ UNCHANGED mutex
  /\ UNCHANGED <<main, notified, initialized, active, nop, ring, freed>>

\* The scheduler closes its ring; the flag is cleared and broadcast.
Retire(s) ==
  /\ thread[s] = "retiring"
  /\ Steps(s, "exited")
  /\ ring' = [ring EXCEPT ![s] = IF s = "scheduler" THEN "closed" ELSE @]
  /\ initialized' = [initialized EXCEPT ![s] = FALSE]
  /\ notified' = [notified EXCEPT ![s] = Broadcast(s, "shutdown")]
  /\ mutex' = Unlocked(s, "shutdown")
  /\ UNCHANGED <<main, active, nop, freed>>

-----------------------------------------------------------------------------
ThreadInit ==
  /\ main = [s \in Services |-> At("initialization", "idle")]
  /\ thread = [s \in Services |-> "none"]
  /\ mutex = [s \in Services |-> [p \in Stages |-> "free"]]
  /\ notified = [s \in Services |-> FALSE]
  /\ initialized = [s \in Services |-> FALSE] /\ active = [s \in Services |-> FALSE]
  /\ nop = [s \in Services |-> FALSE]
  /\ ring = [s \in Services |-> "none"]
  /\ freed = [s \in Services |-> FALSE]

Main(s) ==
  \/ \E stage \in Stages :
       \/ Lock(s, stage) \/ Done(s, stage) \/ Wait(s, stage)
       \/ Woken(s, stage) \/ Expire(s, stage) \/ Expired(s, stage)

Thread(s) ==
  \/ Launch(s) \/ LockInitialization(s) \/ Publish(s) \/ InitializeBox(s)
  \/ Handle(s) \/ LockShutdown(s) \/ Retire(s)
  \/ Serve(s, "nop")

ThreadNext ==
  \E s \in Services :
    \/ Initialize(s) \/ Main(s) \/ ShutdownService(s) \/ Restart(s)
    \/ Thread(s) \/ Serve(s, "other") \/ EngineStops(s)

ThreadSpec == ThreadInit /\ [][ThreadNext]_threadVars

\* Both threads are run by the operating system, and time passes.
ThreadLiveSpec == ThreadSpec /\ \A s \in Services : WF_threadVars(Main(s)) /\ WF_threadVars(Thread(s))

-----------------------------------------------------------------------------
(* Properties. *)

\* No wake-up is lost: while the isolate sleeps at the condition with nobody having
\* broadcast and nobody holding the mutex, what it waits for has not happened.
NoLostSignal ==
  \A s \in Services, stage \in Stages :
    main[s] = At(stage, "waiting") /\ ~notified[s] /\ Free(s, stage) => ~Ready(s, stage)

\* A service that initialize reported as up has a thread which is past its own
\* initialization and has a ring: no call finds a descriptor that is not set.
UpMeansRunning ==
  \A s \in Services : main[s].at = "up" =>
    /\ thread[s] \notin {"none", "starting", "locking", "publishing", "crashed", "stuck"}
    /\ ring[s] # "none"

\* A shutdown that succeeded left no thread behind, and the native state is freed
\* under a living thread only after a shutdown that reported its failure.
DownMeansGone ==
  \A s \in Services :
    /\ main[s].at = "down" => thread[s] = "exited"
    /\ freed[s] /\ thread[s] # "exited" => main[s] = At("shutdown", "failed")

\* What initialize and shutdown report of the thread is true, although they learn it
\* through flags, conditions and timeouts.
ReportsTrue == ThreadTypeOK /\ UpMeansRunning /\ DownMeansGone

\* The handshakes of both threads: no signal is lost, and what the calls report of
\* the thread is true.
HandshakesInv == NoLostSignal /\ ReportsTrue

\* initialize and shutdown return, whatever the thread does: no step of the thread
\* leaves a mutex behind which the isolate would wait for without end.
CallsEnd ==
  \A s \in Services : main[s].at \in Inside ~> main[s].at \notin Inside

\* A wake-up of shutdown that reaches the ring takes the thread out of its loop, even if
\* the shutdown gives up meanwhile.  The scheduler's does so whenever it arrives; the
\* storage's may be swallowed by the batch it arrives in (storage/executor.c:46-65), so it
\* is promised once the fiber is back at its wait with the wake-up still in the ring.
StopEndsLoop ==
  \A s \in Services :
    nop[s] /\ (s = "storage" => thread[s] = "serving")
      ~> thread[s] \in {"ending", "retiring", "exited", "crashed"}
====
