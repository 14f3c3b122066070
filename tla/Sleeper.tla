------------------------------- MODULE Sleeper -------------------------------
(***************************************************************************)
(* What PresenceEngine::InterruptibleSleep promises its caller, without    *)
(* the mutex, the condition variable and the clock: a sleep may end at any *)
(* time, it takes the wake request with it when it ends, and a request is  *)
(* answered without waiting for the sleep to run out.  PresenceEngine's    *)
(* action Sleep is Return followed by Leave or Doze of this module.        *)
(***************************************************************************)

VARIABLES
    phase,          \* "awake", "asleep" or "exited"
    wakeRequested,  \* _wakeRequested
    running         \* _running

vars == <<phase, wakeRequested, running>>

Init == phase = "awake" /\ wakeRequested = FALSE /\ running = TRUE

Doze ==
    /\ phase = "awake"
    /\ phase' = "asleep"
    /\ UNCHANGED <<wakeRequested, running>>

Return ==
    /\ phase = "asleep"
    /\ phase' = "awake"
    /\ wakeRequested' = FALSE
    /\ UNCHANGED running

\* The loop ends, at its head or because the sleep returned false.
Leave ==
    /\ phase = "awake" /\ ~running
    /\ phase' = "exited"
    /\ UNCHANGED <<wakeRequested, running>>

Request ==
    /\ wakeRequested' = TRUE
    /\ UNCHANGED <<phase, running>>

Quit ==
    /\ running' = FALSE
    /\ UNCHANGED <<phase, wakeRequested>>

Next == Doze \/ Return \/ Leave \/ Request \/ Quit

\* A request ends the sleep by itself.
Prompt == WF_vars(Return /\ wakeRequested)

Spec == Init /\ [][Next]_vars /\ Prompt
=============================================================================
