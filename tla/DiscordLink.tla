----------------------------- MODULE DiscordLink -----------------------------
(***************************************************************************)
(* What DiscordIpcClient promises the presence engine, without sockets and *)
(* frames: a call that returns true was carried out by a Discord, a call   *)
(* that returns false leaves no connection behind, ClearActivity never     *)
(* connects, and between calls nothing changes on Discord but by itself.   *)
(* SetActivity and ClearActivity of module PresenceEngine are such calls.  *)
(***************************************************************************)
CONSTANTS Activities, Dark

VARIABLES
    phase,      \* "idle", "called" or "applied"
    wish,       \* what the call wants shown: an activity, or Dark
    ok,         \* the last call's result
    open,       \* IsConnected()
    shown       \* what Discord shows for the connection

vars == <<phase, wish, ok, open, shown>>

Init == phase = "idle" /\ wish = Dark /\ ok = FALSE /\ open = FALSE /\ shown = Dark

\* SetActivity or ClearActivity is called ...
Call(w) ==
    /\ phase = "idle"
    /\ w = Dark => open
    /\ phase' = "called"
    /\ wish' = w
    /\ UNCHANGED <<ok, open, shown>>

\* ... ClearActivity without a connection fails at once ...
CallInVain ==
    /\ phase = "idle" /\ ~open
    /\ ok' = FALSE
    /\ UNCHANGED <<phase, wish, open, shown>>

\* ... SetActivity may make a connection, and give it up again ...
Reconnect ==
    /\ phase = "called" /\ wish # Dark
    /\ open' \in BOOLEAN
    /\ shown = Dark
    /\ UNCHANGED <<phase, wish, ok, shown>>

\* ... Discord does what was asked ...
Apply ==
    /\ phase = "called" /\ open
    /\ phase' = "applied"
    /\ shown' = wish
    /\ UNCHANGED <<wish, ok, open>>

\* ... and the call returns.
Succeed ==
    /\ phase = "applied"
    /\ phase' = "idle"
    /\ ok' = TRUE
    /\ UNCHANGED <<wish, open, shown>>

Fail ==
    /\ phase # "idle"
    /\ phase' = "idle"
    /\ ok' = FALSE
    /\ open' = FALSE
    /\ shown' = Dark
    /\ UNCHANGED wish

\* Disconnect
HangUp ==
    /\ phase = "idle"
    /\ open' = FALSE
    /\ shown' = Dark
    /\ UNCHANGED <<phase, wish, ok>>

\* Discord quits: it shows nothing any more, and the client does not notice.
Vanish ==
    /\ shown' = Dark
    /\ UNCHANGED <<phase, wish, ok, open>>

Next ==
    \/ \E w \in Activities \cup {Dark} : Call(w)
    \/ CallInVain \/ HangUp \/ Reconnect \/ Apply \/ Succeed \/ Fail \/ Vanish

Spec == Init /\ [][Next]_vars
=============================================================================
