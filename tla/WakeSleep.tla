------------------------------ MODULE WakeSleep ------------------------------
(***************************************************************************)
(* The condition variable under PresenceEngine::InterruptibleSleep.  The   *)
(* worker waits on _wakeCv with _wakeMutex, a deadline and the predicate   *)
(* !_running || _wakeRequested.  UpdateConfig sets _wakeRequested under    *)
(* the mutex and notifies after releasing it; Stop stores _running and     *)
(* notifies without ever taking the mutex.                                 *)
(***************************************************************************)

VARIABLES
    wpc,            \* the worker: see WorkerPcs
    owner,          \* who holds _wakeMutex: "none", "worker" or "ui"
    expired,        \* the deadline of the current wait has passed
    wakeRequested,  \* _wakeRequested
    running,        \* _running
    upc             \* the UI thread: see UpcValues

sleepVars == <<wpc, owner, expired, wakeRequested, running, upc>>

\* "head": at the head of the loop; "lock": entering InterruptibleSleep;
\* "loadRunning", "loadWake": evaluating the predicate; "block": it was false,
\* about to block; "blocked": in the wait set of the condition variable;
\* "woken": out of it, without the mutex yet; "clear": the wait is over;
\* "return": about to load _running; "exited": the loop has ended
WorkerPcs == {"head", "lock", "loadRunning", "loadWake", "block", "blocked",
              "woken", "clear", "return", "exited"}

UpcValues == {"idle", "set", "unlock", "notify", "notifyStop", "join", "joined"}

SleepInit ==
    /\ wpc = "head"
    /\ owner = "none"
    /\ expired = FALSE
    /\ wakeRequested = FALSE
    /\ running = TRUE
    /\ upc = "idle"

-----------------------------------------------------------------------------
(* The worker.  "Mutant" operators are the definition that follows them with *)
(* a plausible bug; they are not part of the model.                          *)

\* while (_running.load()), and an iteration that gets to its sleep
Iterate ==
    /\ wpc = "head"
    /\ wpc' = IF running THEN "lock" ELSE "exited"
    /\ UNCHANGED <<owner, expired, wakeRequested, running, upc>>

Lock ==
    /\ wpc = "lock" /\ owner = "none"
    /\ owner' = "worker"
    /\ wpc' = "loadRunning"
    /\ expired' = FALSE
    /\ UNCHANGED <<wakeRequested, running, upc>>

\* wait_for returns when the predicate holds, or after a timeout.
LoadRunning ==
    /\ wpc = "loadRunning"
    /\ wpc' = IF running THEN "loadWake" ELSE "clear"
    /\ UNCHANGED <<owner, expired, wakeRequested, running, upc>>

LoadWake ==
    /\ wpc = "loadWake"
    /\ wpc' = IF wakeRequested \/ expired THEN "clear" ELSE "block"
    /\ UNCHANGED <<owner, expired, wakeRequested, running, upc>>

\* Release the mutex and join the wait set, atomically.
Block ==
    /\ wpc = "block"
    /\ wpc' = "blocked"
    /\ owner' = "none"
    /\ UNCHANGED <<expired, wakeRequested, running, upc>>

\* wait instead of wait_for
MutantTimeout == FALSE

\* The deadline passes; a blocked worker leaves the wait set.
Timeout ==
    /\ wpc = "blocked"
    /\ wpc' = "woken"
    /\ expired' = TRUE
    /\ UNCHANGED <<owner, wakeRequested, running, upc>>

SpuriousWakeup ==
    /\ wpc = "blocked"
    /\ wpc' = "woken"
    /\ UNCHANGED <<owner, expired, wakeRequested, running, upc>>

Relock ==
    /\ wpc = "woken" /\ owner = "none"
    /\ wpc' = "loadRunning"
    /\ owner' = "worker"
    /\ UNCHANGED <<expired, wakeRequested, running, upc>>

\* _wakeRequested = false, still under the mutex
Clear ==
    /\ wpc = "clear"
    /\ wakeRequested' = FALSE
    /\ wpc' = "return"
    /\ UNCHANGED <<owner, expired, running, upc>>

Return ==
    /\ wpc = "return"
    /\ wpc' = IF running THEN "head" ELSE "exited"
    /\ owner' = "none"
    /\ UNCHANGED <<expired, wakeRequested, running, upc>>

Waiter ==
    \/ Iterate \/ Lock \/ LoadRunning \/ LoadWake
    \/ Block \/ Relock \/ Clear \/ Return

-----------------------------------------------------------------------------
(* The UI thread *)

\* UpdateConfig's second critical section
MutantEnterUpdate ==
    /\ upc = "idle"
    /\ upc' = "set"
    /\ UNCHANGED <<wpc, owner, expired, wakeRequested, running>>

EnterUpdate ==
    /\ upc = "idle" /\ owner = "none"
    /\ owner' = "ui"
    /\ upc' = "set"
    /\ UNCHANGED <<wpc, expired, wakeRequested, running>>

SetWake ==
    /\ upc = "set"
    /\ wakeRequested' = TRUE
    /\ upc' = "unlock"
    /\ UNCHANGED <<wpc, owner, expired, running>>

LeaveUpdate ==
    /\ upc = "unlock"
    /\ owner' = "none"
    /\ upc' = "notify"
    /\ UNCHANGED <<wpc, expired, wakeRequested, running>>

\* _wakeCv.notify_all(): a thread that is not waiting does not notice.
MutantWoken == wpc
Woken == IF wpc = "blocked" THEN "woken" ELSE wpc

Notify ==
    /\ upc = "notify"
    /\ wpc' = Woken
    /\ upc' = "idle"
    /\ UNCHANGED <<owner, expired, wakeRequested, running>>

\* Stop: _running.exchange(false), without the mutex
StoreStop ==
    /\ upc = "idle" /\ running
    /\ running' = FALSE
    /\ upc' = "notifyStop"
    /\ UNCHANGED <<wpc, owner, expired, wakeRequested>>

NotifyStop ==
    /\ upc = "notifyStop"
    /\ wpc' = Woken
    /\ upc' = "join"
    /\ UNCHANGED <<owner, expired, wakeRequested, running>>

Join ==
    /\ upc = "join" /\ wpc = "exited"
    /\ upc' = "joined"
    /\ UNCHANGED <<wpc, owner, expired, wakeRequested, running>>

Waker == SetWake \/ LeaveUpdate \/ Notify \/ NotifyStop \/ Join

SleepNext == Waiter \/ Timeout \/ SpuriousWakeup \/ EnterUpdate \/ StoreStop \/ Waker

SleepSpec == SleepInit /\ [][SleepNext]_sleepVars

\* Both threads keep running.  The worker gets a mutex that is free again and
\* again: the UI thread takes it for one assignment, once per user action.
ThreadsRun ==
    /\ WF_sleepVars(Waiter) /\ WF_sleepVars(Waker)
    /\ SF_sleepVars(Lock) /\ SF_sleepVars(Relock)

\* A sleep may never run out: what must not depend on the deadline.
FairSleepSpec == SleepSpec /\ ThreadsRun

-----------------------------------------------------------------------------
(* Properties *)

\* Each thread owns the mutex exactly where its critical section is.
SleepTypeOK ==
    /\ wpc \in WorkerPcs
    /\ upc \in UpcValues
    /\ owner = "worker" <=> wpc \in {"loadRunning", "loadWake", "block",
                                     "clear", "return"}
    /\ owner = "ui" <=> upc \in {"set", "unlock"}
    /\ owner \in {"none", "worker", "ui"}
    /\ expired \in BOOLEAN
    /\ wakeRequested \in BOOLEAN
    /\ running \in BOOLEAN

\* UpdateConfig's request cannot be lost: a worker blocked although the request
\* is set is about to be notified.  This is what setting the flag under the
\* mutex buys.
NoLostWakeup == wpc = "blocked" /\ wakeRequested => upc \in {"unlock", "notify"}

\* Stop's request can be lost, between the predicate and the wait, but the wait
\* has a deadline: the worker still leaves its loop and Stop returns.
StopEndsSleep == WF_sleepVars(Timeout) => (upc = "notifyStop" ~> upc = "joined")

\* InterruptibleSleep does what module Sleeper says, answering wake requests
\* even if the deadline never comes.
Asleep == {"lock", "loadRunning", "loadWake", "block", "blocked", "woken", "clear"}

S == INSTANCE Sleeper WITH
        phase <- IF wpc \in Asleep THEN "asleep"
                 ELSE IF wpc = "exited" THEN "exited" ELSE "awake"

ImplementsSleeper == S!Spec
=============================================================================
